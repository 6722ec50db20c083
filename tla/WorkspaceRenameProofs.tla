------------------------- MODULE WorkspaceRenameProofs -------------------------
(***************************************************************************)
(* Proofs about WorkspaceRename, for any files, folders, texts and names   *)
(* and any number of edits.  The rename reads its files one by one while   *)
(* they may change, so the invariant speaks of the files nobody touched    *)
(* since the request came: each is out of scope, or still to be visited,   *)
(* or has its positions recorded.  A rename within a method depends on the *)
(* scan of the text's braces: the last part proves, line by line and brace *)
(* by brace, that what the scan records are the lines of methods.          *)
(***************************************************************************)
EXTENDS WorkspaceRename, FiniteSetTheorems, SequenceTheorems, WellFoundedInduction, TLAPS

(* A nonempty set of numbers has a least one. *)
LEMMA LeastNumber ==
  ASSUME NEW T, T \subseteq Nat, T # {}
  PROVE  \E x \in T : \A y \in T : x <= y
<1>1. IsWellFoundedOn(OpToRel(<, Nat), Nat)
  BY NatLessThanWellFounded, Zenon
<1>2. PICK x \in T : \A y \in T : <<y, x>> \notin OpToRel(<, Nat)
  BY <1>1, WFMin, Zenon
<1>3. \A y \in T : ~(y < x)
  BY <1>2 DEF OpToRel
<1>4. QED BY <1>3

(* A set of numbers with 0 and with the successor of each has them all up  *)
(* to a bound: induction, with a set for the predicate.                    *)
LEMMA UpToBound ==
  ASSUME NEW n \in Nat, NEW S, 0 \in S, \A k \in 0..(n - 1) : k \in S => k + 1 \in S
  PROVE  \A k \in 0..n : k \in S
<1> SUFFICES ASSUME {k \in 0..n : k \notin S} # {} PROVE FALSE
  OBVIOUS
<1> DEFINE T == {k \in 0..n : k \notin S}
<1>1. PICK m \in T : \A k \in T : m <= k
  <2>1. T \subseteq Nat /\ T # {}
    OBVIOUS
  <2> HIDE DEF T
  <2>2. QED BY <2>1, LeastNumber
<1>2. m # 0 /\ m - 1 \in 0..(n - 1) /\ m - 1 \in 0..n
  BY <1>1
<1>3. m - 1 \in S
  BY <1>1, <1>2
<1>4. m \in S
  BY <1>2, <1>3
<1>5. QED BY <1>4

(* A loop of n steps has a run: states from S, each from the one before by *)
(* a step of the loop.                                                     *)
Run(g, S, F, a, n) ==
  /\ g = [k \in 0..n |-> IF k = 0 THEN a ELSE F[k][g[k - 1]]]
  /\ \A k \in 0..n : g[k] \in S

LEMMA RunExists ==
  ASSUME NEW S, NEW a \in S, NEW n \in Nat, NEW F, \A k \in 1..n : \A s \in S : F[k][s] \in S
  PROVE  \E g : Run(g, S, F, a, n)
<1> DEFINE T == {m \in 0..n : \E g : Run(g, S, F, a, m)}
<1>1. 0 \in T
  <2>1. Run([k \in 0..0 |-> a], S, F, a, 0)
    BY DEF Run
  <2>2. QED BY <2>1
<1>2. ASSUME NEW m \in 0..(n - 1), m \in T PROVE m + 1 \in T
  <2>1. PICK g : Run(g, S, F, a, m)
    BY <1>2
  <2> DEFINE v == F[m + 1][g[m]]
             h == [k \in 0..(m + 1) |-> IF k <= m THEN g[k] ELSE v]
  <2>2. v \in S
    BY <2>1 DEF Run
  <2>3. \A k \in 0..m : h[k] = g[k] /\ g[k] \in S
    BY <2>1 DEF Run
  <2>4. h[m + 1] = v /\ h = [k \in 0..(m + 1) |-> h[k]]
    OBVIOUS
  <2> HIDE DEF h
  <2>5. ASSUME NEW k \in 0..(m + 1)
        PROVE  h[k] = (IF k = 0 THEN a ELSE F[k][h[k - 1]]) /\ h[k] \in S
    <3>1. CASE k \in 0..m
      <4>1. h[k] = g[k] /\ (k # 0 => k - 1 \in 0..m /\ h[k - 1] = g[k - 1])
        BY <2>3, <3>1
      <4>2. g[k] = IF k = 0 THEN a ELSE F[k][g[k - 1]]
        BY <2>1, <3>1 DEF Run
      <4>3. QED BY <2>3, <3>1, <4>1, <4>2
    <3>2. CASE k = m + 1
      <4>1. k # 0 /\ k - 1 = m /\ h[m] = g[m]
        BY <2>3, <3>2
      <4>2. QED BY <2>2, <2>4, <3>2, <4>1
    <3>3. QED BY <3>1, <3>2
  <2>6. Run(h, S, F, a, m + 1)
    BY <2>4, <2>5 DEF Run
  <2>7. QED BY <2>6
<1>3. \A m \in 0..(n - 1) : m \in T => m + 1 \in T
  BY <1>2
<1> HIDE DEF T
<1>4. n \in T
  BY <1>1, <1>3, UpToBound
<1>5. QED BY <1>4 DEF T

(* The image of a finite set is finite. *)
LEMMA ImageFinite ==
  ASSUME NEW S, IsFiniteSet(S), NEW f
  PROVE  IsFiniteSet({f[i] : i \in S})
<1>1. PICK T, g : T = {f[i] : i \in S} /\ g = [i \in S |-> f[i]]
  OBVIOUS
<1>2. g \in Surjection(S, T)
  BY <1>1 DEF Surjection
<1>3. IsFiniteSet(T)
  BY <1>2, FS_Surjection
<1>4. QED BY <1>1, <1>3


(* The least position of some. *)
LEMMA MinIn ==
  ASSUME NEW T, T \subseteq Nat, T # {}
  PROVE  Min(T) \in T
<1>1. \E x \in T : \A y \in T : x <= y
  BY LeastNumber
<1>2. QED BY <1>1, Zenon DEF Min

------------------------------------------------------------------------------
Requests == [file : File, line : Nat, name : Names \union {None}]

RequestTyped == request # None => request \in Requests

(* There are no edits before the walk, nor after a failure. *)
NoEditsYet == phase \in {"idle", "again", "error", "refused"} => changes = NoChanges

Root == WorkspaceRoot(request.file)

(* What a rename covers, and the positions it is to return for a file. *)
InScope(f) ==
  IF Root = None THEN f = request.file ELSE disk[f] # None /\ Walked(Root, f)

Expected(f) ==
  IF InScope(f) THEN Occurrences(DocumentText(f), request.name) ELSE {}

Pending(f) == \E i \in walk : Files[i] = f

(* A file's part in the rename is done: it could be read, if it has one,   *)
(* and its positions are there.                                            *)
Done(f) == (InScope(f) => DocumentText(f) # None) /\ changes[f] = Expected(f)

(* What makes the rename fail on a disk that stands still. *)
Obstructed ==
  \E r \in Containing(request.file) :
    /\ \A q \in Containing(request.file) : Len(q) <= Len(r)
    /\ \/ \E f \in File : Walked(r, f) /\ documents[f] = None /\ disk[f] = Unreadable
       \/ \E d \in unlisted : Entered(r, d)

(* The walk and what it has recorded, for every file nobody has touched. *)
WalkOnCourse ==
  phase = "walking" =>
    /\ Root # None
    /\ text # None
    /\ request.file \notin touched => text = DocumentText(request.file)
    /\ \A f \in File \ touched :
         /\ Pending(f) => InScope(f)
         /\ ~Pending(f) => Done(f)
    /\ \A d \in folders : Entered(Root, d)
    /\ \A d \in unlisted \ touched : Entered(Root, d) => d \in folders

EditsComplete ==
  phase = "edits" =>
    /\ \A f \in File \ touched : Done(f)
    /\ Root # None => \A d \in unlisted \ touched : ~Entered(Root, d)

IInv ==
  /\ TypeOK
  /\ RequestTyped
  /\ NoEditsYet
  /\ WalkOnCourse
  /\ EditsComplete
  /\ FailsWhole
------------------------------------------------------------------------------
(* A folder above a file is the beginning of the file's path, so that its  *)
(* length determines it.                                                   *)
LEMMA FolderAbove ==
  ASSUME roots \in RootSets, NEW f \in File, NEW r \in Containing(f)
  PROVE  /\ Len(r) \in Nat /\ Len(Path(f)) \in Nat /\ Len(r) <= Len(Path(f))
         /\ r = SubSeq(Path(f), 1, Len(r))
         /\ r # None
<1>1. r \in Seq(ToSet(r)) /\ Path(f) \in Seq(ToSet(Path(f))) /\ r # None
  BY PathAssumption DEF Containing
<1>2. Len(r) <= Len(Path(f)) /\ SubSeq(r, 1, Len(r)) = SubSeq(Path(f), 1, Len(r))
  BY DEF Containing, IsStrictPrefix, IsPrefix
<1>3. SubSeq(r, 1, Len(r)) = r
  BY <1>1, SubSeqFull
<1>4. QED BY <1>1, <1>2, <1>3

(* The folder workspaceRootForURI finds is the innermost above the file.   *)
LEMMA InnermostRoot ==
  ASSUME roots \in RootSets, NEW f \in File, Containing(f) # {}
  PROVE  /\ WorkspaceRoot(f) \in Containing(f)
         /\ WorkspaceRoot(f) # None
         /\ \A q \in Containing(f) : Len(q) <= Len(WorkspaceRoot(f))
         /\ \A r \in Containing(f) :
              (\A q \in Containing(f) : Len(q) <= Len(r)) => r = WorkspaceRoot(f)
<1> DEFINE Short == {Len(Path(f)) - Len(r) : r \in Containing(f)}
           Longest(r) == \A q \in Containing(f) : Len(q) <= Len(r)
           root == CHOOSE r \in Containing(f) : Longest(r)
<1>1. \A r \in Containing(f) :
        /\ Len(r) \in Nat /\ Len(Path(f)) \in Nat /\ Len(r) <= Len(Path(f))
        /\ r = SubSeq(Path(f), 1, Len(r))
        /\ r # None
  BY FolderAbove
<1>2. Short \subseteq Nat /\ Short # {}
  BY <1>1
<1>3. PICK n \in Short : \A k \in Short : n <= k
  BY <1>2, LeastNumber
<1>4. PICK r \in Containing(f) : n = Len(Path(f)) - Len(r)
  OBVIOUS
<1>5. Longest(r)
  <2> SUFFICES ASSUME NEW q \in Containing(f) PROVE Len(q) <= Len(r)
    OBVIOUS
  <2>1. Len(Path(f)) - Len(r) <= Len(Path(f)) - Len(q)
    BY <1>3, <1>4
  <2>2. QED BY <1>1, <2>1
<1>6. root \in Containing(f) /\ Longest(root)
  BY <1>5
<1>7. WorkspaceRoot(f) = root
  BY DEF WorkspaceRoot
<1> HIDE DEF root
<1>8. \A q \in Containing(f) : Longest(q) => Len(q) = Len(root)
  BY <1>1, <1>6
<1>9. \A q \in Containing(f) : Longest(q) => q = root
  BY <1>1, <1>6, <1>8
<1>10. QED BY <1>1, <1>6, <1>7, <1>9

(* The positions of a walk are of files, and each file has one. *)
LEMMA PositionsOfFiles ==
  /\ \A i \in DOMAIN Files : Files[i] \in File /\ i \in Nat
  /\ \A f \in File : \E i \in DOMAIN Files : Files[i] = f
BY PathAssumption DEF File, ToSet

(* What the invariant says of edits is what RenamesWorkspace says. *)
LEMMA EditsAsSpecified == TypeOK /\ RequestTyped /\ EditsComplete => RenamesWorkspace
<1> SUFFICES ASSUME TypeOK, RequestTyped, EditsComplete, phase = "edits"
             PROVE  RenamesWorkspace
  BY DEF RenamesWorkspace
<1> DEFINE file == request.file
           Above(r, f) == r \in roots /\ IsStrictPrefix(r, Path(f))
           Innermost(r) == /\ Above(r, request.file)
                           /\ \A q \in roots : Above(q, request.file) => Len(q) <= Len(r)
           Covered(f) == \/ \E r \in roots : Innermost(r) /\ disk[f] # None /\ Walked(r, f)
                         \/ ~(\E r \in roots : Above(r, request.file)) /\ f = request.file
<1>1. file \in File /\ roots \in RootSets
  BY DEF TypeOK, RequestTyped, Requests
<1>2. \A r : Above(r, file) <=> r \in Containing(file)
  BY DEF Containing
<1>3. \A f \in File : Covered(f) <=> InScope(f)
  <2>1. CASE Containing(file) = {}
    <3>1. Root = None
      BY <2>1 DEF Root, WorkspaceRoot
    <3>2. QED BY <1>2, <2>1, <3>1 DEF InScope
  <2>2. CASE Containing(file) # {}
    <3>1. /\ Root \in Containing(file) /\ Root # None
          /\ \A q \in Containing(file) : Len(q) <= Len(Root)
          /\ \A r \in Containing(file) :
               (\A q \in Containing(file) : Len(q) <= Len(r)) => r = Root
      BY <1>1, <2>2, InnermostRoot DEF Root
    <3>2. Root \in roots /\ Innermost(Root) /\ \A r \in roots : Innermost(r) => r = Root
      BY <1>2, <3>1 DEF Containing
    <3>3. QED BY <1>2, <3>1, <3>2 DEF InScope
  <2>3. QED BY <2>1, <2>2
<1>4. \A f \in File \ touched : Done(f)
  BY DEF EditsComplete
<1>5. \A f \in File : DocumentText(f) \in Texts \union {None}
  BY DEF DocumentText, TypeOK
<1>6. \A f \in File : InScope(f) /\ DocumentText(f) # None =>
        DocumentText(f) = IF documents[f] # None THEN documents[f] ELSE disk[f]
  BY DEF DocumentText
<1>7. \A f \in File \ touched :
        IF Covered(f)
        THEN /\ (IF documents[f] # None THEN documents[f] ELSE disk[f]) \in Texts
             /\ changes[f] = Occurrences(IF documents[f] # None THEN documents[f] ELSE disk[f], request.name)
        ELSE changes[f] = {}
  BY <1>3, <1>4, <1>5, <1>6 DEF Expected, Done
<1>8. \A d \in unlisted \ touched : \A r \in roots : Innermost(r) => ~Entered(r, d)
  <2> SUFFICES ASSUME NEW d \in unlisted \ touched, NEW r \in roots, Innermost(r)
               PROVE  ~Entered(r, d)
    OBVIOUS
  <2>1. r \in Containing(file) /\ \A q \in Containing(file) : Len(q) <= Len(r)
    BY <1>2 DEF Containing
  <2>2. r = Root /\ Root # None
    BY <1>1, <2>1, InnermostRoot DEF Root
  <2>3. QED BY <2>2 DEF EditsComplete
<1>9. QED BY <1>7, <1>8 DEF RenamesWorkspace
------------------------------------------------------------------------------
(* The invariant holds before any request. *)
LEMMA InitIInv == Init => IInv
<1> SUFFICES ASSUME Init PROVE IInv
  OBVIOUS
<1> USE DEF Init
<1>1. TypeOK
  <2>1. MaxEdits \in Nat
    BY WorkspaceRenameAssumption, Zenon
  <2>2. QED BY <2>1 DEF TypeOK, NoChanges
<1>2. RequestTyped /\ NoEditsYet /\ WalkOnCourse /\ EditsComplete /\ FailsWhole
  BY DEF RequestTyped, NoEditsYet, WalkOnCourse, EditsComplete, FailsWhole
<1>3. QED BY <1>1, <1>2 DEF IInv

(* A request is a value of its own, never None. *)
LEMMA RequestIsSomething ==
  ASSUME NEW f \in File, NEW l \in Nat, NEW name \in Names \union {None}
  PROVE  /\ [file |-> f, line |-> l, name |-> name] \in Requests
         /\ [file |-> f, line |-> l, name |-> name] # None
BY PathAssumption DEF Requests

(* The name at a position of a text is a name. *)
LEMMA NameAtPosition ==
  ASSUME NEW t \in Texts, NEW p \in UNION {{l} \X (1..Len(t[l].names)) : l \in 1..Len(t)}
  PROVE  p[1] \in Nat /\ t[p[1]].names[p[2]] \in Names
<1>1. PICK l \in 1..Len(t) : p \in {l} \X (1..Len(t[l].names))
  OBVIOUS
<1> DEFINE Lines == [names : Seq(Names), signature : (SUBSET Names) \union {None},
                     declares : Names \union {None}, braces : Seq(Braces),
                     method : Nat \union {None}]
<1>2. t \in Seq(Lines)
  BY WorkspaceRenameAssumption
<1>3. Len(t) \in Nat /\ t[l].names \in Seq(Names)
  <2>1. t[l] \in Lines
    BY <1>2, ElementOfSeq
  <2>2. t[l].names \in Seq(Names)
    BY <2>1
  <2> HIDE DEF Lines
  <2>3. QED BY <1>2, <2>2
<1>4. p[1] = l /\ p[2] \in 1..Len(t[l].names)
  BY <1>1
<1>5. QED BY <1>3, <1>4

(* A request arrives: it fails, is local, or goes on to the workspace. *)
LEMMA RenameIInv ==
  ASSUME IInv, NEW f \in File,
         (\E p \in Positions : Rename(f, p)) \/ RefuseRename(f)
  PROVE  IInv'
<1> USE DEF IInv
<1>1. ASSUME NEW p \in Positions, Rename(f, p) PROVE IInv'
  <2>1. phase = "idle" /\ touched' = {} /\ UNCHANGED <<roots, disk, unlisted, documents, folders, walk, edits>>
    BY <1>1 DEF Rename
  <2>2. CASE DocumentText(f) = None
    <3>1. /\ request' = [file |-> f, line |-> 0, name |-> None] /\ phase' = "error"
          /\ UNCHANGED <<text, changes>>
      BY <1>1, <2>2 DEF Rename
    <3>2. request' \in Requests /\ request' # None
      BY <3>1, RequestIsSomething
    <3>3. TypeOK'
      BY <2>1, <3>1, <3>2 DEF TypeOK
    <3>4. RequestTyped' /\ NoEditsYet' /\ WalkOnCourse' /\ EditsComplete'
      BY <2>1, <3>1, <3>2 DEF RequestTyped, NoEditsYet, WalkOnCourse, EditsComplete, NoChanges
    <3>5. request'.file = f /\ DocumentText(f)' = None
      BY <2>1, <2>2, <3>1 DEF DocumentText
    <3>6. FailsWhole'
      BY <2>1, <3>1, <3>4, <3>5 DEF FailsWhole, NoEditsYet, DocumentText
    <3>7. QED BY <3>3, <3>4, <3>6
  <2>3. CASE DocumentText(f) # None
    <3> DEFINE t == DocumentText(f)
               name == t[p[1]].names[p[2]]
               scope == LocalRenameScope(t, p[1], name)
    <3>1. /\ p \in UNION {{l} \X (1..Len(t[l].names)) : l \in 1..Len(t)}
          /\ request' = [file |-> f, line |-> p[1], name |-> name]
          /\ text' = t
          /\ IF scope = None
             THEN phase' = "again" /\ UNCHANGED changes
             ELSE /\ phase' = "local"
                  /\ changes' = [changes EXCEPT ![f] = InLines(t, name, scope.first, scope.last)]
      BY <1>1, <2>3 DEF Rename
    <3>2. t \in Texts
      BY <2>3 DEF TypeOK, DocumentText
    <3> HIDE DEF t
    <3>3. p[1] \in Nat /\ name \in Names
      BY <3>1, <3>2, NameAtPosition
    <3> HIDE DEF name, scope
    <3>4. request' \in Requests /\ request' # None
      BY <3>1, <3>3, RequestIsSomething
    <3>5. phase' \in {"again", "local"} /\ (phase' = "again" => changes' = changes)
          /\ DOMAIN changes' = DOMAIN changes
      BY <3>1
    <3>6. TypeOK'
      BY <2>1, <3>1, <3>2, <3>4, <3>5 DEF TypeOK
    <3>7. RequestTyped' /\ NoEditsYet' /\ WalkOnCourse' /\ EditsComplete' /\ FailsWhole'
      BY <2>1, <3>4, <3>5 DEF RequestTyped, NoEditsYet, WalkOnCourse, EditsComplete, FailsWhole, NoChanges
    <3>8. QED BY <3>6, <3>7
  <2>4. QED BY <2>2, <2>3
<1>2. ASSUME RefuseRename(f) PROVE IInv'
  <2>1. /\ phase = "idle" /\ phase' = "refused" /\ touched' = {}
        /\ request' = [file |-> f, line |-> 0, name |-> None]
        /\ UNCHANGED <<roots, disk, unlisted, documents, text, folders, walk, changes, edits>>
    BY <1>2 DEF RefuseRename
  <2>2. request' \in Requests /\ request' # None
    BY <2>1, RequestIsSomething
  <2>3. TypeOK'
    BY <2>1, <2>2 DEF TypeOK
  <2>4. RequestTyped' /\ NoEditsYet' /\ WalkOnCourse' /\ EditsComplete' /\ FailsWhole'
    BY <2>1, <2>2 DEF RequestTyped, NoEditsYet, WalkOnCourse, EditsComplete, FailsWhole, NoChanges
  <2>5. QED BY <2>3, <2>4
<1>3. QED BY <1>1, <1>2

(* A failure throws away what was collected. *)
LEMMA FailIInv ==
  ASSUME IInv, Fail, request # None, text' \in Texts \union {None},
         UNCHANGED <<roots, disk, unlisted, documents, request, touched, edits>>,
         touched # {} \/ DocumentText(request.file) = None \/ Obstructed
  PROVE  IInv'
<1> USE DEF IInv, Fail
<1>1. TypeOK'
  BY DEF TypeOK, NoChanges
<1>2. RequestTyped' /\ NoEditsYet' /\ WalkOnCourse' /\ EditsComplete'
  BY DEF RequestTyped, NoEditsYet, WalkOnCourse, EditsComplete, NoChanges
<1>3. FailsWhole'
  <2>1. Obstructed' = Obstructed
    BY DEF Obstructed, Containing, Walked, Entered
  <2>2. DocumentText(request.file)' = DocumentText(request.file) /\ NoChanges' = NoChanges
    BY DEF DocumentText, NoChanges
  <2>3. changes' = NoChanges'
    BY <2>2
  <2>4. touched' # {} \/ DocumentText(request.file)' = None \/ Obstructed'
    BY <2>1, <2>2
  <2>5. QED BY <2>3, <2>4 DEF FailsWhole, Obstructed
<1>4. QED BY <1>1, <1>2, <1>3

(* What a rename is to return depends on nothing that its own steps change. *)
LEMMA ExpectedUnchanged ==
  ASSUME UNCHANGED <<roots, disk, documents, request>>
  PROVE  /\ Root' = Root
         /\ \A f \in File : InScope(f)' = InScope(f) /\ Expected(f)' = Expected(f)
         /\ \A f \in File : DocumentText(f)' = DocumentText(f)
<1>1. Root' = Root
  BY DEF Root, WorkspaceRoot, Containing
<1>2. \A f \in File : DocumentText(f)' = DocumentText(f)
  BY DEF DocumentText
<1>3. \A f \in File : InScope(f)' = InScope(f)
  BY <1>1 DEF InScope, Walked
<1>4. \A f \in File : Expected(f)' = Expected(f)
  BY <1>2, <1>3 DEF Expected
<1>5. QED BY <1>1, <1>2, <1>3, <1>4

(* The document is read a second time: it may be gone; without a root it   *)
(* is renamed alone; else every file the walk lists is in scope.           *)
LEMMA ReadAgainIInv ==
  ASSUME IInv, ReadAgain
  PROVE  IInv'
<1> USE DEF IInv
<1> DEFINE f == request.file
<1>1. /\ phase = "again" /\ text' = DocumentText(f)
      /\ UNCHANGED <<roots, disk, unlisted, documents, request, touched, edits>>
      /\ IF DocumentText(f) = None THEN Fail
         ELSE IF Root = None
         THEN /\ phase' = "edits"
              /\ changes' = [changes EXCEPT ![f] = Occurrences(DocumentText(f), request.name)]
              /\ UNCHANGED <<folders, walk>>
         ELSE /\ phase' = "walking"
              /\ folders' = {d \in Folders : Entered(Root, d)}
              /\ walk' = Listing(Root)
              /\ UNCHANGED changes
  BY DEF ReadAgain, Root
<1>2. request # None /\ request \in Requests /\ f \in File
  BY <1>1 DEF TypeOK, RequestTyped, Requests
<1>3. text' \in Texts \union {None} /\ changes = NoChanges
  BY <1>1, <1>2 DEF TypeOK, NoEditsYet, DocumentText
<1>4. RequestTyped'
  BY <1>1 DEF RequestTyped
<1>5. /\ Root' = Root
      /\ \A g \in File : InScope(g)' = InScope(g) /\ Expected(g)' = Expected(g)
      /\ \A g \in File : DocumentText(g)' = DocumentText(g)
  BY <1>1, ExpectedUnchanged
<1> HIDE DEF f
<1>6. CASE DocumentText(f) = None
  BY <1>1, <1>2, <1>3, <1>6, FailIInv DEF f
<1>7. CASE DocumentText(f) # None /\ Root = None
  <2>1. phase' = "edits" /\ changes' = [NoChanges EXCEPT ![f] = Occurrences(DocumentText(f), request.name)]
        /\ UNCHANGED <<folders, walk>>
    BY <1>1, <1>3, <1>7
  <2>2. \A g \in File : changes'[g] = IF g = f THEN Occurrences(DocumentText(f), request.name) ELSE {}
    BY <1>2, <2>1 DEF NoChanges
  <2>3. \A g \in File : Expected(g) = IF g = f THEN Occurrences(DocumentText(f), request.name) ELSE {}
    BY <1>7 DEF Expected, InScope, f
  <2>4. EditsComplete'
    <3>1. \A g \in File : InScope(g) => DocumentText(g) # None
      BY <1>7 DEF InScope, f
    <3>2. \A g \in File : Done(g)'
      BY <1>5, <2>2, <2>3, <3>1 DEF Done
    <3>3. QED BY <1>5, <1>7, <3>2 DEF EditsComplete
  <2>5. TypeOK'
    BY <1>1, <1>2, <1>3, <2>1 DEF TypeOK, NoChanges
  <2>6. NoEditsYet' /\ WalkOnCourse' /\ FailsWhole'
    BY <2>1 DEF NoEditsYet, WalkOnCourse, FailsWhole
  <2>7. QED BY <1>4, <2>4, <2>5, <2>6
<1>8. CASE DocumentText(f) # None /\ Root # None
  <2>1. /\ phase' = "walking" /\ walk' = Listing(Root) /\ changes' = NoChanges
        /\ folders' = {d \in Folders : Entered(Root, d)}
    BY <1>1, <1>3, <1>8
  <2>2. \A g \in File : Pending(g)' <=> InScope(g)
    BY <1>8, <2>1, PositionsOfFiles DEF Pending, Listing, InScope
  <2>3. \A g \in File : ~InScope(g) => NoChanges[g] = Expected(g)
    BY DEF Expected, NoChanges
  <2>4. /\ \A g \in File \ touched' : /\ Pending(g)' => InScope(g)'
                                      /\ ~Pending(g)' => Done(g)'
        /\ \A d \in folders' : Entered(Root, d)'
        /\ \A d \in unlisted' \ touched' : Entered(Root, d)' => d \in folders'
    <3>1. \A d : Entered(Root, d)' = Entered(Root, d)
      BY <1>5 DEF Entered
    <3>2. \A d \in unlisted' : d \in Folders
      BY <1>1 DEF TypeOK
    <3>3. QED BY <1>5, <2>1, <2>2, <2>3, <3>1, <3>2 DEF Done
  <2>5. text' # None /\ text' = DocumentText(request.file)' /\ Root' # None
    BY <1>1, <1>2, <1>5, <1>8 DEF f
  <2>6. WalkOnCourse'
    BY <1>1, <2>4, <2>5 DEF WalkOnCourse
  <2>7. TypeOK'
    BY <1>1, <1>2, <1>3, <2>1 DEF TypeOK, NoChanges, Listing
  <2>8. NoEditsYet' /\ EditsComplete' /\ FailsWhole'
    BY <2>1 DEF NoEditsYet, EditsComplete, FailsWhole
  <2>9. QED BY <1>4, <2>6, <2>7, <2>8
<1>9. QED BY <1>6, <1>7, <1>8

(* The root is above the document, and no other that is is longer. *)
LEMMA RootInnermost ==
  ASSUME TypeOK, request.file \in File, Root # None
  PROVE  /\ Root \in Containing(request.file)
         /\ \A q \in Containing(request.file) : Len(q) <= Len(Root)
<1>1. Containing(request.file) # {}
  BY DEF Root, WorkspaceRoot
<1>2. QED BY <1>1, InnermostRoot DEF TypeOK, Root

(* One folder is listed, which fails if it is closed and changes nothing   *)
(* else.                                                                   *)
LEMMA ListFolderIInv ==
  ASSUME IInv, ListFolder
  PROVE  IInv'
<1> USE DEF IInv
<1>1. phase = "walking" /\ UNCHANGED <<roots, disk, unlisted, documents, request, text, touched, edits>>
  BY DEF ListFolder
<1>2. PICK d \in folders : IF d \in unlisted THEN Fail
                          ELSE folders' = folders \ {d} /\ UNCHANGED <<phase, changes, walk>>
  BY DEF ListFolder
<1>3. request # None /\ request \in Requests /\ request.file \in File
  BY <1>1 DEF TypeOK, RequestTyped, Requests
<1>4. Root # None /\ Entered(Root, d)
  BY <1>1 DEF WalkOnCourse
<1>5. CASE d \in unlisted
  <2>1. /\ Root \in Containing(request.file)
        /\ \A q \in Containing(request.file) : Len(q) <= Len(Root)
    BY <1>3, <1>4, RootInnermost
  <2>2. Obstructed
    BY <1>4, <1>5, <2>1 DEF Obstructed
  <2>3. text' \in Texts \union {None}
    BY <1>1 DEF TypeOK
  <2>4. QED BY <1>1, <1>2, <1>3, <1>5, <2>2, <2>3, FailIInv
<1>6. CASE d \notin unlisted
  <2>1. folders' = folders \ {d} /\ UNCHANGED <<phase, changes, walk>>
    BY <1>2, <1>6
  <2>2. /\ Root' = Root
        /\ \A g \in File : InScope(g)' = InScope(g) /\ Expected(g)' = Expected(g)
        /\ \A g \in File : DocumentText(g)' = DocumentText(g)
    BY <1>1, ExpectedUnchanged
  <2>3. \A e : Entered(Root, e)' = Entered(Root, e)
    BY <2>2 DEF Entered
  <2>4. \A g \in File : Pending(g)' = Pending(g) /\ Done(g)' = Done(g)
    BY <2>1, <2>2 DEF Pending, Done
  <2>5. WalkOnCourse'
    BY <1>1, <1>3, <1>6, <2>1, <2>2, <2>3, <2>4 DEF WalkOnCourse
  <2>6. TypeOK'
    BY <1>1, <2>1 DEF TypeOK
  <2>7. RequestTyped' /\ NoEditsYet' /\ EditsComplete' /\ FailsWhole'
    BY <1>1, <2>1 DEF RequestTyped, NoEditsYet, EditsComplete, FailsWhole
  <2>8. QED BY <2>5, <2>6, <2>7
<1>7. QED BY <1>5, <1>6

(* One file is visited: it is gone, which somebody must have done since    *)
(* the request came, or cannot be read, or its positions are recorded.     *)
LEMMA VisitIInv ==
  ASSUME IInv, Visit
  PROVE  IInv'
<1> USE DEF IInv
<1>1. phase = "walking" /\ UNCHANGED <<roots, disk, unlisted, documents, request, text, touched, edits>>
  BY DEF Visit
<1> DEFINE Content(f) == IF f = request.file THEN text ELSE DocumentText(f)
<1>2. PICK i \in walk :
        IF Content(Files[i]) = None THEN Fail
        ELSE /\ walk' = walk \ {i}
             /\ changes' = [changes EXCEPT ![Files[i]] = Occurrences(Content(Files[i]), request.name)]
             /\ UNCHANGED <<phase, folders>>
  BY DEF Visit
<1> DEFINE f == Files[i]
<1>3. request # None /\ request \in Requests /\ request.file \in File /\ f \in File /\ Pending(f)
  BY <1>1, PositionsOfFiles DEF TypeOK, RequestTyped, Requests, Pending
<1>4. /\ Root # None /\ text # None
      /\ request.file \notin touched => text = DocumentText(request.file)
      /\ \A g \in File \ touched : /\ Pending(g) => InScope(g)
                                   /\ ~Pending(g) => Done(g)
      /\ \A d \in folders : Entered(Root, d)
      /\ \A d \in unlisted \ touched : Entered(Root, d) => d \in folders
  BY <1>1 DEF WalkOnCourse
<1>5. /\ Root' = Root
      /\ \A g \in File : InScope(g)' = InScope(g) /\ Expected(g)' = Expected(g)
      /\ \A g \in File : DocumentText(g)' = DocumentText(g)
  BY <1>1, ExpectedUnchanged
<1>6. f \notin touched => InScope(f) /\ Content(f) = DocumentText(f)
  BY <1>3, <1>4
<1> HIDE DEF f, Content
<1>7. CASE Content(f) = None
  <2>1. f \in touched \/ Obstructed
    <3> SUFFICES ASSUME f \notin touched PROVE Obstructed
      OBVIOUS
    <3>1. /\ documents[f] = None /\ disk[f] \in {None, Unreadable}
          /\ disk[f] # None /\ Walked(Root, f)
      BY <1>4, <1>6, <1>7 DEF InScope, DocumentText
    <3>2. /\ Root \in Containing(request.file)
          /\ \A q \in Containing(request.file) : Len(q) <= Len(Root)
      BY <1>3, <1>4, RootInnermost
    <3>3. QED BY <1>3, <3>1, <3>2 DEF Obstructed
  <2>2. Fail
    BY <1>2, <1>7 DEF f
  <2>3. text' \in Texts \union {None}
    BY <1>1 DEF TypeOK
  <2>4. QED BY <1>1, <1>3, <2>1, <2>2, <2>3, FailIInv
<1>8. CASE Content(f) # None
  <2>1. /\ walk' = walk \ {i}
        /\ changes' = [changes EXCEPT ![f] = Occurrences(Content(f), request.name)]
        /\ phase' = "walking" /\ folders' = folders
    BY <1>1, <1>2, <1>8 DEF f
  <2>2. \A g \in File : /\ Pending(g)' => Pending(g)
                        /\ Pending(g) /\ g # f => Pending(g)'
                        /\ changes'[g] = IF g = f THEN Occurrences(Content(f), request.name) ELSE changes[g]
    BY <1>3, <2>1 DEF Pending, TypeOK, f
  <2>3. \A g \in File \ touched' : /\ Pending(g)' => InScope(g)'
                                   /\ ~Pending(g)' => Done(g)'
    <3> SUFFICES ASSUME NEW g \in File \ touched
                 PROVE  /\ Pending(g)' => InScope(g)
                        /\ ~Pending(g)' => /\ InScope(g) => DocumentText(g) # None
                                           /\ changes'[g] = Expected(g)
      BY <1>1, <1>5 DEF Done
    <3>1. CASE g = f
      BY <1>3, <1>4, <1>6, <1>8, <2>2, <3>1 DEF Expected
    <3>2. CASE g # f
      BY <1>4, <2>2, <3>2 DEF Done
    <3>3. QED BY <3>1, <3>2
  <2>4. text' # None /\ Root' # None
        /\ (request.file \notin touched => text = DocumentText(request.file)')
    BY <1>1, <1>3, <1>4, <1>5
  <2>5. WalkOnCourse'
    <3>1. \A d : Entered(Root, d)' = Entered(Root, d)
      BY <1>5 DEF Entered
    <3>2. QED BY <1>1, <1>4, <2>1, <2>3, <2>4, <3>1 DEF WalkOnCourse
  <2>6. TypeOK'
    BY <1>1, <2>1 DEF TypeOK
  <2>7. RequestTyped' /\ NoEditsYet' /\ EditsComplete' /\ FailsWhole'
    BY <1>1, <2>1 DEF RequestTyped, NoEditsYet, EditsComplete, FailsWhole
  <2>8. QED BY <2>5, <2>6, <2>7
<1>9. QED BY <1>7, <1>8

(* The walk ends when nothing is pending; the response forgets the rename. *)
LEMMA DoneIInv ==
  ASSUME IInv, WalkDone \/ Respond
  PROVE  IInv'
<1> USE DEF IInv
<1>1. ASSUME WalkDone PROVE IInv'
  <2>1. /\ phase = "walking" /\ folders = {} /\ walk = {} /\ phase' = "edits"
        /\ UNCHANGED <<roots, disk, unlisted, documents, request, text, folders, walk, changes, touched, edits>>
    BY <1>1 DEF WalkDone
  <2>2. /\ \A f \in File \ touched : Done(f)
        /\ \A d \in unlisted \ touched : ~Entered(Root, d)
    BY <2>1 DEF WalkOnCourse, Pending
  <2>3. /\ Root' = Root
        /\ \A f \in File : InScope(f)' = InScope(f) /\ Expected(f)' = Expected(f)
        /\ \A f \in File : DocumentText(f)' = DocumentText(f)
    BY <2>1, ExpectedUnchanged
  <2>4. EditsComplete'
    <3>1. \A f \in File : Done(f)' = Done(f)
      BY <2>1, <2>3 DEF Done
    <3>2. \A d : Entered(Root, d)' = Entered(Root, d)
      BY <2>3 DEF Entered
    <3>3. QED BY <2>1, <2>2, <3>1, <3>2 DEF EditsComplete
  <2>5. TypeOK'
    BY <2>1 DEF TypeOK
  <2>6. RequestTyped' /\ NoEditsYet' /\ WalkOnCourse' /\ FailsWhole'
    BY <2>1 DEF RequestTyped, NoEditsYet, WalkOnCourse, FailsWhole
  <2>7. QED BY <2>4, <2>5, <2>6
<1>2. ASSUME Respond PROVE IInv'
  <2>1. /\ request' = None /\ phase' = "idle" /\ text' = None /\ changes' = NoChanges
        /\ UNCHANGED <<roots, disk, unlisted, documents, folders, walk, touched, edits>>
    BY <1>2 DEF Respond
  <2>2. TypeOK'
    BY <2>1 DEF TypeOK, NoChanges
  <2>3. RequestTyped' /\ NoEditsYet' /\ WalkOnCourse' /\ EditsComplete' /\ FailsWhole'
    BY <2>1 DEF RequestTyped, NoEditsYet, WalkOnCourse, EditsComplete, FailsWhole, NoChanges
  <2>4. QED BY <2>2, <2>3
<1>3. QED BY <1>1, <1>2

(* Between two requests the editor changes its documents. *)
LEMMA ChangeDocumentIInv ==
  ASSUME IInv, NEW f \in File, ChangeDocument(f)
  PROVE  IInv'
<1> USE DEF IInv, ChangeDocument
<1>1. MaxEdits \in Nat
  BY WorkspaceRenameAssumption, Zenon
<1>2. TypeOK'
  BY <1>1 DEF TypeOK
<1>3. RequestTyped' /\ NoEditsYet' /\ WalkOnCourse' /\ EditsComplete' /\ FailsWhole'
  BY DEF RequestTyped, NoEditsYet, WalkOnCourse, EditsComplete, FailsWhole, NoChanges
<1>4. QED BY <1>2, <1>3

(* A file changes at any time: nothing is said of it any more, and for the *)
(* others the disk is as it was.                                           *)
LEMMA ChangeFileIInv ==
  ASSUME IInv, NEW f \in File, ChangeFile(f)
  PROVE  IInv'
<1> USE DEF IInv
<1>1. /\ touched' = touched \union {f} /\ edits < MaxEdits /\ edits' = edits + 1
      /\ \E t \in Texts \union {None, Unreadable} : disk' = [disk EXCEPT ![f] = t]
      /\ UNCHANGED <<roots, unlisted, documents, request, phase, text, folders, walk, changes>>
  BY DEF ChangeFile
<1>2. MaxEdits \in Nat
  BY WorkspaceRenameAssumption, Zenon
<1>3. TypeOK'
  BY <1>1, <1>2 DEF TypeOK
<1>4. RequestTyped' /\ NoEditsYet'
  BY <1>1 DEF RequestTyped, NoEditsYet, NoChanges
<1>5. Root' = Root
  BY <1>1 DEF Root, WorkspaceRoot, Containing
<1>6. \A g \in File \ touched' : disk'[g] = disk[g] /\ g \in File \ touched
  BY <1>1 DEF TypeOK
<1>7. \A g \in File \ touched' : /\ DocumentText(g)' = DocumentText(g)
                                 /\ InScope(g)' = InScope(g)
                                 /\ Pending(g)' = Pending(g)
  BY <1>1, <1>5, <1>6 DEF DocumentText, InScope, Walked, Pending
<1>8. \A g \in File \ touched' : Done(g)' = Done(g)
  BY <1>1, <1>7 DEF Expected, Done
<1>9. phase # "idle" => request # None /\ request.file \in File
  BY DEF TypeOK, RequestTyped, Requests
<1>10. \A d : Entered(Root, d)' = Entered(Root, d)
  BY <1>5 DEF Entered
<1>11. \A d \in unlisted' \ touched' : d \in unlisted \ touched
  BY <1>1
<1>12. WalkOnCourse'
  BY <1>1, <1>5, <1>6, <1>7, <1>8, <1>9, <1>10, <1>11 DEF WalkOnCourse
<1>13. EditsComplete'
  BY <1>1, <1>5, <1>6, <1>8, <1>10, <1>11 DEF EditsComplete
<1>14. FailsWhole'
  BY <1>1 DEF FailsWhole, NoChanges
<1>15. QED BY <1>3, <1>4, <1>12, <1>13, <1>14

(* So does a folder. *)
LEMMA ChangeFolderIInv ==
  ASSUME IInv, NEW d \in Folders, ChangeFolder(d)
  PROVE  IInv'
<1> USE DEF IInv
<1>1. /\ touched' = touched \union {d} /\ edits < MaxEdits /\ edits' = edits + 1
      /\ unlisted' = IF d \in unlisted THEN unlisted \ {d} ELSE unlisted \union {d}
      /\ UNCHANGED <<roots, disk, documents, request, phase, text, folders, walk, changes>>
  BY DEF ChangeFolder
<1>2. MaxEdits \in Nat
  BY WorkspaceRenameAssumption, Zenon
<1>3. TypeOK'
  BY <1>1, <1>2 DEF TypeOK
<1>4. RequestTyped' /\ NoEditsYet'
  BY <1>1 DEF RequestTyped, NoEditsYet, NoChanges
<1>5. /\ Root' = Root
      /\ \A g \in File : InScope(g)' = InScope(g) /\ Expected(g)' = Expected(g)
      /\ \A g \in File : DocumentText(g)' = DocumentText(g)
  BY <1>1, ExpectedUnchanged
<1>6. \A g \in File : Pending(g)' = Pending(g) /\ Done(g)' = Done(g)
  BY <1>1, <1>5 DEF Pending, Done
<1>7. \A e : Entered(Root, e)' = Entered(Root, e)
  BY <1>5 DEF Entered
<1>8. \A e \in unlisted' \ touched' : e \in unlisted \ touched
  BY <1>1
<1>9. phase # "idle" => request # None /\ request.file \in File
  BY DEF TypeOK, RequestTyped, Requests
<1>10. \A g \in File \ touched' : g \in File \ touched
  BY <1>1
<1>11. WalkOnCourse'
  BY <1>1, <1>5, <1>6, <1>7, <1>8, <1>9, <1>10 DEF WalkOnCourse
<1>12. EditsComplete'
  BY <1>1, <1>5, <1>6, <1>7, <1>8, <1>10 DEF EditsComplete
<1>13. FailsWhole'
  BY <1>1 DEF FailsWhole, NoChanges
<1>14. QED BY <1>3, <1>4, <1>11, <1>12, <1>13

(* No step, of the server, the editor or the disk, breaks the invariant. *)
LEMMA StepIInv == IInv /\ [Next]_vars => IInv'
<1> SUFFICES ASSUME IInv, [Next]_vars PROVE IInv'
  OBVIOUS
<1>1. CASE UNCHANGED vars
  <2> USE <1>1 DEF vars, IInv
  <2>1. /\ Root' = Root
        /\ \A f \in File : InScope(f)' = InScope(f) /\ Expected(f)' = Expected(f)
        /\ \A f \in File : DocumentText(f)' = DocumentText(f)
    BY ExpectedUnchanged
  <2>2. TypeOK' /\ RequestTyped' /\ NoEditsYet' /\ FailsWhole'
    <3>1. Obstructed' = Obstructed
      BY DEF Obstructed, Containing, Walked, Entered
    <3>2. FailsWhole'
      BY <3>1 DEF FailsWhole, DocumentText, NoChanges, Obstructed
    <3>3. QED BY <3>2 DEF TypeOK, RequestTyped, NoEditsYet, NoChanges
  <2>3. /\ \A f \in File : Pending(f)' = Pending(f) /\ Done(f)' = Done(f)
        /\ \A d : Entered(Root, d)' = Entered(Root, d)
    BY <2>1 DEF Pending, Done, Entered
  <2>4. phase # "idle" => request.file \in File
    BY DEF TypeOK, RequestTyped, Requests
  <2>5. WalkOnCourse' /\ EditsComplete'
    BY <2>1, <2>3, <2>4 DEF WalkOnCourse, EditsComplete
  <2>6. QED BY <2>2, <2>5
<1>2. ASSUME NEW f \in File, (\E p \in Positions : Rename(f, p)) \/ RefuseRename(f) PROVE IInv'
  BY <1>2, RenameIInv
<1>3. ASSUME NEW f \in File, ChangeDocument(f) \/ ChangeFile(f) PROVE IInv'
  BY <1>3, ChangeDocumentIInv, ChangeFileIInv
<1>4. ASSUME NEW d \in Folders, ChangeFolder(d) PROVE IInv'
  BY <1>4, ChangeFolderIInv
<1>5. QED
  BY <1>1, <1>2, <1>3, <1>4, ReadAgainIInv, ListFolderIInv, VisitIInv, DoneIInv DEF Next

(* In every reachable state the inductive invariant holds. *)
LEMMA Invariance == Spec => []IInv
BY InitIInv, StepIInv, PTL DEF Spec
------------------------------------------------------------------------------
(* Every variable has its type, for all values of the constants. *)
THEOREM TypeCorrect == Spec => []TypeOK
<1>1. IInv => TypeOK
  BY DEF IInv
<1>2. QED BY <1>1, Invariance, PTL

(* A workspace rename replaces exactly the occurrences of the name in the  *)
(* files of the innermost root, in the text the editor has if it has the   *)
(* file open; files changed on disk meanwhile are left out.                *)
THEOREM RenamesAll == Spec => []RenamesWorkspace
<1>1. IInv => RenamesWorkspace
  BY EditsAsSpecified DEF IInv
<1>2. QED BY <1>1, Invariance, PTL

(* A rename fails as a whole, with no edit, and only when its document     *)
(* cannot be read or a file changed while it was computed.                 *)
THEOREM FailsAsAWhole == Spec => []FailsWhole
<1>1. IInv => FailsWhole
  BY DEF IInv
<1>2. QED BY <1>1, Invariance, PTL
------------------------------------------------------------------------------
(* An opening brace is not a closing one. *)
LEMMA BracesDiffer == LeftBrace # RightBrace
  BY Zenon DEF LeftBrace, RightBrace

(* A text's lines, and the braces before a place in it. *)
Lines == [names : Seq(Names), signature : (SUBSET Names) \union {None},
          declares : Names \union {None}, braces : Seq(Braces), method : Nat \union {None}]

LEMMA LineParts ==
  ASSUME NEW t \in Texts
  PROVE  /\ Len(t) \in Nat /\ DOMAIN t = 1..Len(t)
         /\ \A l \in 1..Len(t) : /\ Len(t[l].braces) \in Nat
                                 /\ DOMAIN t[l].braces = 1..Len(t[l].braces)
                                 /\ \A k \in 1..Len(t[l].braces) : t[l].braces[k] \in Braces
<1>1. t \in Seq(Lines)
  BY WorkspaceRenameAssumption DEF Lines
<1>2. Len(t) \in Nat /\ DOMAIN t = 1..Len(t)
  BY <1>1
<1>3. ASSUME NEW l \in 1..Len(t) PROVE t[l].braces \in Seq(Braces)
  <2>1. t[l] \in Lines
    BY <1>1, <1>2, <1>3, ElementOfSeq
  <2>2. QED BY <2>1 DEF Lines
<1>4. ASSUME NEW l \in 1..Len(t)
      PROVE  /\ Len(t[l].braces) \in Nat
             /\ DOMAIN t[l].braces = 1..Len(t[l].braces)
             /\ \A k \in 1..Len(t[l].braces) : t[l].braces[k] \in Braces
  <2>1. PICK s : s = t[l].braces
    OBVIOUS
  <2>2. s \in Seq(Braces)
    BY <1>3, <2>1
  <2>3. Len(s) \in Nat /\ DOMAIN s = 1..Len(s) /\ \A k \in 1..Len(s) : s[k] \in Braces
    BY <2>2
  <2>4. QED BY <2>1, <2>3
<1>5. QED BY <1>2, <1>4

(* The places of braces before one are finitely many. *)
LEMMA BracesFinite ==
  ASSUME NEW t, NEW l \in Nat, NEW k \in Nat,
         \A i \in 1..l : Len(t[i].braces) \in Nat /\ DOMAIN t[i].braces = 1..Len(t[i].braces)
  PROVE  IsFiniteSet(BracesBefore(t, l, k))
<1> DEFINE f == [i \in 1..l |-> {i} \X DOMAIN t[i].braces]
           S == {f[i] : i \in 1..l}
<1>1. IsFiniteSet(1..l)
  BY FS_Interval
<1>2. IsFiniteSet(S)
  <2> HIDE DEF f
  <2>1. QED BY <1>1, ImageFinite
<1>3. ASSUME NEW i \in 1..l PROVE IsFiniteSet(f[i])
  <2>1. PICK n \in Nat : n = Len(t[i].braces)
    OBVIOUS
  <2>2. IsFiniteSet(1..n)
    BY FS_Interval
  <2>3. IsFiniteSet({i})
    BY FS_Singleton
  <2>4. IsFiniteSet({i} \X (1..n))
    BY <2>2, <2>3, FS_Product
  <2>5. QED BY <2>1, <2>4
<1>4. \A T \in S : IsFiniteSet(T)
  BY <1>3
<1>5. IsFiniteSet(UNION S)
  <2> HIDE DEF S
  <2>1. QED BY <1>2, <1>4, FS_UNION
<1>6. BracesBefore(t, l, k) \subseteq UNION S
  BY DEF BracesBefore
<1>7. QED
  <2> HIDE DEF S
  <2>1. QED BY <1>5, <1>6, FS_Subset

(* One more brace in a line, and the line's end. *)
LEMMA BracesStep ==
  ASSUME NEW t, NEW l \in Nat \ {0}, NEW k \in Nat,
         \A i \in 1..l : DOMAIN t[i].braces = 1..Len(t[i].braces) /\ Len(t[i].braces) \in Nat
  PROVE  k < Len(t[l].braces) =>
           /\ BracesBefore(t, l, k + 1) = BracesBefore(t, l, k) \union {<<l, k + 1>>}
           /\ <<l, k + 1>> \notin BracesBefore(t, l, k)
<1>1. \A p, j : p \in BracesBefore(t, l, j) <=>
        \E i \in 1..l : \E m \in 1..Len(t[i].braces) : p = <<i, m>> /\ (i < l \/ m <= j)
  BY DEF BracesBefore
<1>2. \A i \in 1..l : \A m \in 1..Len(t[i].braces) :
        (i < l \/ m <= k + 1) <=> (i < l \/ m <= k) \/ (i = l /\ m = k + 1)
  OBVIOUS
<1>3. k < Len(t[l].braces) => l \in 1..l /\ k + 1 \in 1..Len(t[l].braces)
  OBVIOUS
<1>4. <<l, k + 1>> \notin BracesBefore(t, l, k)
  BY <1>1
<1>5. ASSUME k < Len(t[l].braces), NEW p
      PROVE  p \in BracesBefore(t, l, k + 1) <=> p \in BracesBefore(t, l, k) \/ p = <<l, k + 1>>
  BY <1>1, <1>2, <1>3, <1>5
<1>6. QED BY <1>4, <1>5

(* Before a line are the braces of the lines above it. *)
LEMMA BracesOfLine ==
  ASSUME NEW t, NEW l \in Nat,
         \A i \in 1..l+1 : DOMAIN t[i].braces = 1..Len(t[i].braces) /\ Len(t[i].braces) \in Nat
  PROVE  BracesBefore(t, l + 1, 0) = IF l = 0 THEN {} ELSE BracesBefore(t, l, Len(t[l].braces))
<1>1. \A j, k, p : j \in 1..l+1 => (p \in BracesBefore(t, j, k) <=>
        \E i \in 1..j : \E m \in 1..Len(t[i].braces) : p = <<i, m>> /\ (i < j \/ m <= k))
  BY DEF BracesBefore
<1>2. \A p : p \in BracesBefore(t, l + 1, 0) <=>
        \E i \in 1..l : \E m \in 1..Len(t[i].braces) : p = <<i, m>>
  BY <1>1
<1>3. l # 0 => \A p : p \in BracesBefore(t, l, Len(t[l].braces)) <=>
        \E i \in 1..l : \E m \in 1..Len(t[i].braces) : p = <<i, m>>
  BY <1>1
<1>4. CASE l = 0
  <2>1. \A p : p \notin BracesBefore(t, l + 1, 0)
    BY <1>2, <1>4
  <2>2. QED BY <1>4, <2>1
<1>5. CASE l # 0
  <2>1. \A p : p \in BracesBefore(t, l + 1, 0) <=> p \in BracesBefore(t, l, Len(t[l].braces))
    BY <1>2, <1>3, <1>5
  <2>2. BracesBefore(t, l + 1, 0) = BracesBefore(t, l, Len(t[l].braces))
    BY <2>1
  <2>3. QED BY <1>5, <2>2
<1>6. QED BY <1>4, <1>5

(* The depth in front of a line and after each of its braces. *)
LEMMA NumberStep ==
  ASSUME NEW t, NEW l \in Nat \ {0}, NEW k \in Nat, NEW b,
         \A i \in 1..l : DOMAIN t[i].braces = 1..Len(t[i].braces) /\ Len(t[i].braces) \in Nat
  PROVE  /\ Number(t, l, k, b) \in Nat
         /\ k < Len(t[l].braces) =>
              Number(t, l, k + 1, b) = Number(t, l, k, b) + (IF t[l].braces[k + 1] = b THEN 1 ELSE 0)
<1> DEFINE P(j) == {p \in BracesBefore(t, l, j) : t[p[1]].braces[p[2]] = b}
<1>1. IsFiniteSet(P(k)) /\ Cardinality(P(k)) \in Nat
  <2>1. IsFiniteSet(BracesBefore(t, l, k))
    BY BracesFinite
  <2>2. P(k) \subseteq BracesBefore(t, l, k)
    OBVIOUS
  <2> HIDE DEF P
  <2>3. QED BY <2>1, <2>2, FS_Subset, FS_CardinalityType
<1>2. \A j : Number(t, l, j, b) = Cardinality(P(j))
  BY DEF Number
<1>3. k < Len(t[l].braces) =>
        /\ P(k + 1) = IF t[l].braces[k + 1] = b THEN P(k) \union {<<l, k + 1>>} ELSE P(k)
        /\ <<l, k + 1>> \notin P(k)
  <2> SUFFICES ASSUME k < Len(t[l].braces)
               PROVE  /\ P(k + 1) = IF t[l].braces[k + 1] = b THEN P(k) \union {<<l, k + 1>>} ELSE P(k)
                      /\ <<l, k + 1>> \notin P(k)
    OBVIOUS
  <2>1. /\ BracesBefore(t, l, k + 1) = BracesBefore(t, l, k) \union {<<l, k + 1>>}
        /\ <<l, k + 1>> \notin BracesBefore(t, l, k)
    BY BracesStep
  <2> DEFINE x == <<l, k + 1>>
  <2>2. x[1] = l /\ x[2] = k + 1
    OBVIOUS
  <2>3. \A p : p \in P(k + 1) <=> (p \in BracesBefore(t, l, k) \/ p = x) /\ t[p[1]].braces[p[2]] = b
    BY <2>1
  <2>4. x \notin P(k) /\ \A p : p \in P(k) <=> p \in BracesBefore(t, l, k) /\ t[p[1]].braces[p[2]] = b
    BY <2>1
  <2> HIDE DEF x, P
  <2>5. \A p : p \in P(k + 1) <=> p \in P(k) \/ (p = x /\ t[l].braces[k + 1] = b)
    BY <2>2, <2>3, <2>4
  <2>6. P(k + 1) = IF t[l].braces[k + 1] = b THEN P(k) \union {x} ELSE P(k)
    BY <2>5
  <2>7. QED BY <2>4, <2>6 DEF x
<1> HIDE DEF P
<1>4. \A x : x \notin P(k) => Cardinality(P(k) \union {x}) = Cardinality(P(k)) + 1
  BY <1>1, FS_AddElement
<1>5. QED BY <1>1, <1>2, <1>3, <1>4

LEMMA DepthIs ==
  ASSUME NEW t \in Texts, NEW l \in 1..Len(t)
  PROVE  /\ \A k \in Nat : Depth(t, l, k) \in Int
         /\ \A k \in 0..Len(t[l].braces)-1 :
              Depth(t, l, k + 1) = Depth(t, l, k) + (IF t[l].braces[k + 1] = LeftBrace THEN 1 ELSE -1)
         /\ Depth(t, l, 0) = IF l = 1 THEN 0 ELSE Depth(t, l - 1, Len(t[l - 1].braces))
<1>1. /\ Len(t) \in Nat
      /\ \A i \in 1..Len(t) : /\ DOMAIN t[i].braces = 1..Len(t[i].braces) /\ Len(t[i].braces) \in Nat
                              /\ \A k \in 1..Len(t[i].braces) : t[i].braces[k] \in Braces
  BY LineParts
<1>2. l \in Nat \ {0} /\ l - 1 \in Nat /\ (l - 1) + 1 = l /\ \A i \in 1..l : i \in 1..Len(t)
  BY <1>1
<1>3. \A k \in Nat : \A b : /\ Number(t, l, k, b) \in Nat
                            /\ k < Len(t[l].braces) => Number(t, l, k + 1, b) =
                                  Number(t, l, k, b) + (IF t[l].braces[k + 1] = b THEN 1 ELSE 0)
  BY <1>1, <1>2, NumberStep
<1>4. \A k \in 0..Len(t[l].braces)-1 : /\ k \in Nat /\ k < Len(t[l].braces)
                                       /\ t[l].braces[k + 1] \in Braces
  BY <1>1
<1>5. ASSUME NEW k \in 0..Len(t[l].braces)-1
      PROVE  Depth(t, l, k + 1) = Depth(t, l, k) + (IF t[l].braces[k + 1] = LeftBrace THEN 1 ELSE -1)
  <2> DEFINE c == t[l].braces[k + 1]
  <2>1. /\ Number(t, l, k + 1, LeftBrace) = Number(t, l, k, LeftBrace) + (IF c = LeftBrace THEN 1 ELSE 0)
        /\ Number(t, l, k + 1, RightBrace) = Number(t, l, k, RightBrace) + (IF c = RightBrace THEN 1 ELSE 0)
        /\ Number(t, l, k, LeftBrace) \in Nat /\ Number(t, l, k, RightBrace) \in Nat
        /\ c = LeftBrace \/ c = RightBrace
    BY <1>3, <1>4 DEF Braces
  <2> HIDE DEF c
  <2>2. Depth(t, l, k + 1) = Depth(t, l, k) + (IF c = LeftBrace THEN 1 ELSE -1)
    BY <2>1, BracesDiffer DEF Depth
  <2>3. QED BY <2>2 DEF c
<1>6. BracesBefore(t, l, 0) = IF l - 1 = 0 THEN {} ELSE BracesBefore(t, l - 1, Len(t[l - 1].braces))
  <2> DEFINE j == l - 1
  <2>1. j \in Nat /\ j + 1 = l
    BY <1>2
  <2>2. \A i \in 1..j+1 : DOMAIN t[i].braces = 1..Len(t[i].braces) /\ Len(t[i].braces) \in Nat
    BY <1>1, <1>2, <2>1
  <2> HIDE DEF j
  <2>3. BracesBefore(t, j + 1, 0) = IF j = 0 THEN {} ELSE BracesBefore(t, j, Len(t[j].braces))
    BY <2>1, <2>2, BracesOfLine
  <2>4. QED BY <2>1, <2>3 DEF j
<1>7. Depth(t, l, 0) = IF l = 1 THEN 0 ELSE Depth(t, l - 1, Len(t[l - 1].braces))
  <2>1. CASE l = 1
    <3>1. \A b : {p \in BracesBefore(t, l, 0) : t[p[1]].braces[p[2]] = b} = {}
      BY <1>6, <2>1
    <3>2. \A b : Number(t, l, 0, b) = 0
      BY <3>1, FS_EmptySet DEF Number
    <3>3. QED BY <2>1, <3>2 DEF Depth
  <2>2. CASE l # 1
    <3>1. BracesBefore(t, l, 0) = BracesBefore(t, l - 1, Len(t[l - 1].braces))
      BY <1>2, <1>6, <2>2
    <3>2. QED BY <2>2, <3>1 DEF Depth, Number
  <2>3. QED BY <2>1, <2>2
<1>8. \A k \in Nat : Depth(t, l, k) \in Int
  BY <1>3 DEF Depth
<1>9. QED BY <1>5, <1>7, <1>8
------------------------------------------------------------------------------
(* What the scan records: the lines of a method, all of them.              *)
IsMethod(t, r) ==
  /\ r.first \in 1..Len(t) /\ r.last \in 1..Len(t) /\ t[r.first].method # None
  /\ \A l \in 1..Len(t) : t[l].method = t[r.first].method <=> r.first <= l /\ l <= r.last

LineRange == [first : Nat, last : Nat]
States == [depth : Int, pending : Nat, active : Nat, ranges : Seq(LineRange)]

(* A brace leads from a state of the scan to another. *)
LEMMA ScanBraceTyped ==
  ASSUME NEW s \in States, NEW b, NEW l \in Nat
  PROVE  ScanBrace(s, b, l) \in States
<1>1. [first |-> s.active, last |-> l] \in LineRange
  BY DEF States, LineRange
<1>2. Append(s.ranges, [first |-> s.active, last |-> l]) \in Seq(LineRange)
  <2>1. PICK q \in Seq(LineRange) : q = s.ranges
    BY DEF States
  <2>2. PICK r \in LineRange : r = [first |-> s.active, last |-> l]
    BY <1>1
  <2>3. Append(q, r) \in Seq(LineRange)
    OBVIOUS
  <2>4. QED BY <2>1, <2>2, <2>3
<1>3. PICK q \in Seq(LineRange) : q = Append(s.ranges, [first |-> s.active, last |-> l])
  BY <1>2
<1>4. ScanBrace(s, b, l) =
        IF b = LeftBrace
        THEN IF s.pending > 0 /\ s.depth = 1
             THEN [s EXCEPT !.depth = 2, !.active = s.pending, !.pending = 0]
             ELSE [s EXCEPT !.depth = @ + 1]
        ELSE IF s.active > 0 /\ s.depth = 2
             THEN [s EXCEPT !.depth = 1, !.active = 0, !.ranges = q]
             ELSE [s EXCEPT !.depth = @ - 1]
  BY <1>3, Zenon DEF ScanBrace
<1>5. /\ s.depth \in Int /\ s.pending \in Nat /\ s.active \in Nat /\ s.ranges \in Seq(LineRange)
      /\ s = [depth |-> s.depth, pending |-> s.pending, active |-> s.active, ranges |-> s.ranges]
  BY DEF States
<1>6. PICK d \in Int, m \in Nat, a \in Nat, R \in Seq(LineRange) :
        s = [depth |-> d, pending |-> m, active |-> a, ranges |-> R]
  BY <1>5
<1>7. \/ ScanBrace(s, b, l) = [depth |-> 2, pending |-> 0, active |-> m, ranges |-> R]
      \/ ScanBrace(s, b, l) = [depth |-> d + 1, pending |-> m, active |-> a, ranges |-> R]
      \/ ScanBrace(s, b, l) = [depth |-> 1, pending |-> m, active |-> 0, ranges |-> q]
      \/ ScanBrace(s, b, l) = [depth |-> d - 1, pending |-> m, active |-> a, ranges |-> R]
  BY <1>4, <1>6
<1> HIDE DEF LineRange
<1>8. QED BY <1>7 DEF States

(* The states of a loop over the braces of a line and over the lines. *)
Marked(s, t, l) == IF s.pending = 0 /\ t[l].signature # None THEN [s EXCEPT !.pending = l] ELSE s

LEMMA MarkedTyped ==
  ASSUME NEW s \in States, NEW t, NEW l \in Nat
  PROVE  Marked(s, t, l) \in States
BY DEF Marked, States

(* The states on the way through a line. *)
LEMMA ScanLineRuns ==
  ASSUME NEW t, NEW l \in Nat, NEW n \in Nat, n = Len(t[l].braces), NEW s \in States
  PROVE  \E g : /\ g[0] = Marked(s, t, l)
                /\ \A k \in 1..n : g[k] = ScanBrace(g[k - 1], t[l].braces[k], l)
                /\ \A k \in 0..n : g[k] \in States
                /\ ScanLine(s, t, l) = g[n]
<1> DEFINE a == Marked(s, t, l)
           F == [k \in 1..n |-> [r \in States |-> ScanBrace(r, t[l].braces[k], l)]]
           IsRun(h) == h = [k \in 0..n |-> IF k = 0 THEN a ELSE ScanBrace(h[k - 1], t[l].braces[k], l)]
           g == CHOOSE h : IsRun(h)
<1>1. ScanLine(s, t, l) = g[n]
  BY Zenon DEF ScanLine, Marked
<1>2. a \in States
  BY MarkedTyped
<1>3. \A k \in 1..n : \A r \in States : F[k][r] \in States
  <2>1. ASSUME NEW k \in 1..n, NEW r \in States PROVE ScanBrace(r, t[l].braces[k], l) \in States
    BY ScanBraceTyped
  <2>2. QED BY <2>1
<1> HIDE DEF a
<1>4. PICK h : Run(h, States, F, a, n)
  <2> HIDE DEF F
  <2>1. QED BY <1>2, <1>3, RunExists
<1>5. \A k \in 0..n : h[k] \in States /\ h[k] = IF k = 0 THEN a ELSE F[k][h[k - 1]]
  BY <1>4, Zenon DEF Run
<1>6. h = [k \in 0..n |-> h[k]]
  BY <1>4 DEF Run
<1>7. ASSUME NEW k \in 0..n
      PROVE  h[k] = IF k = 0 THEN a ELSE ScanBrace(h[k - 1], t[l].braces[k], l)
  <2>1. k # 0 => k \in 1..n /\ k - 1 \in 0..n
    OBVIOUS
  <2>2. k # 0 => h[k - 1] \in States
    BY <1>5, <2>1
  <2>3. QED BY <1>5, <2>1, <2>2
<1>8. IsRun(h)
  <2> HIDE DEF F
  <2>1. QED BY <1>6, <1>7
<1>9. IsRun(g)
  BY <1>8, Zenon
<1>10. g[0] = a /\ \A k \in 1..n : g[k] = ScanBrace(g[k - 1], t[l].braces[k], l)
  <2> HIDE DEF g
  <2>1. QED BY <1>9
<1> HIDE DEF g
<1> DEFINE T == {k \in 0..n : g[k] \in States}
<1>11. 0 \in T
  BY <1>2, <1>10
<1>12. \A k \in 0..(n - 1) : k \in T => k + 1 \in T
  <2> SUFFICES ASSUME NEW k \in 0..(n - 1), g[k] \in States PROVE k + 1 \in T
    OBVIOUS
  <2>1. k + 1 \in 1..n /\ (k + 1) - 1 = k /\ k + 1 \in 0..n
    OBVIOUS
  <2>2. g[k + 1] = ScanBrace(g[k], t[l].braces[k + 1], l)
    BY <1>10, <2>1
  <2>3. QED BY <2>1, <2>2, ScanBraceTyped
<1>13. \A k \in 0..n : k \in T
  <2> HIDE DEF T
  <2>1. QED BY <1>11, <1>12, UpToBound
<1>14. QED BY <1>1, <1>10, <1>13 DEF a

Start == [depth |-> 0, pending |-> 0, active |-> 0, ranges |-> <<>>]

(* So does a line. *)
LEMMA ScanLineTyped ==
  ASSUME NEW t, NEW l \in Nat, Len(t[l].braces) \in Nat, NEW s \in States
  PROVE  ScanLine(s, t, l) \in States
<1>1. PICK n \in Nat : n = Len(t[l].braces)
  OBVIOUS
<1>2. n \in 0..n
  BY <1>1
<1>3. QED BY <1>1, <1>2, ScanLineRuns

(* The states on the way through the text. *)
LEMMA RangesRun ==
  ASSUME NEW t, NEW n \in Nat, n = Len(t), \A l \in 1..n : Len(t[l].braces) \in Nat
  PROVE  \E g : /\ g[0] = Start
                /\ \A l \in 1..n : g[l] = ScanLine(g[l - 1], t, l)
                /\ \A l \in 0..n : g[l] \in States
                /\ MethodLineRanges(t) = g[n].ranges
<1> DEFINE a == Start
           F == [l \in 1..n |-> [r \in States |-> ScanLine(r, t, l)]]
           IsRun(h) == h = [l \in 0..n |-> IF l = 0 THEN a ELSE ScanLine(h[l - 1], t, l)]
           g == CHOOSE h : IsRun(h)
<1>1. MethodLineRanges(t) = g[n].ranges
  BY Zenon DEF MethodLineRanges, Start
<1>2. a \in States
  <2>1. <<>> \in Seq(LineRange)
    OBVIOUS
  <2> HIDE DEF LineRange
  <2>2. QED BY <2>1 DEF Start, States
<1>3. \A l \in 1..n : \A r \in States : F[l][r] \in States
  <2>1. ASSUME NEW l \in 1..n, NEW r \in States PROVE ScanLine(r, t, l) \in States
    BY ScanLineTyped
  <2>2. QED BY <2>1
<1> HIDE DEF a
<1>4. PICK h : Run(h, States, F, a, n)
  <2> HIDE DEF F
  <2>1. QED BY <1>2, <1>3, RunExists
<1>5. \A l \in 0..n : h[l] \in States /\ h[l] = IF l = 0 THEN a ELSE F[l][h[l - 1]]
  BY <1>4, Zenon DEF Run
<1>6. h = [l \in 0..n |-> h[l]]
  BY <1>4 DEF Run
<1>7. ASSUME NEW l \in 0..n
      PROVE  h[l] = IF l = 0 THEN a ELSE ScanLine(h[l - 1], t, l)
  <2>1. l # 0 => l \in 1..n /\ l - 1 \in 0..n
    OBVIOUS
  <2>2. l # 0 => h[l - 1] \in States
    BY <1>5, <2>1
  <2>3. QED BY <1>5, <2>1, <2>2
<1>8. IsRun(h)
  <2> HIDE DEF F
  <2>1. QED BY <1>6, <1>7
<1>9. IsRun(g)
  BY <1>8, Zenon
<1>10. g[0] = a /\ \A l \in 1..n : g[l] = ScanLine(g[l - 1], t, l)
  <2> HIDE DEF g
  <2>1. QED BY <1>9
<1> HIDE DEF g
<1> DEFINE T == {l \in 0..n : g[l] \in States}
<1>11. 0 \in T
  BY <1>2, <1>10
<1>12. \A l \in 0..(n - 1) : l \in T => l + 1 \in T
  <2> SUFFICES ASSUME NEW l \in 0..(n - 1), g[l] \in States PROVE l + 1 \in T
    OBVIOUS
  <2>1. l + 1 \in 1..n /\ (l + 1) - 1 = l /\ l + 1 \in 0..n /\ l + 1 \in Nat
    OBVIOUS
  <2>2. g[l + 1] = ScanLine(g[l], t, l + 1) /\ Len(t[l + 1].braces) \in Nat
    BY <1>10, <2>1
  <2>3. g[l + 1] \in States
    BY <2>1, <2>2, ScanLineTyped
  <2>4. QED BY <2>1, <2>3
<1>13. \A l \in 0..n : l \in T
  <2> HIDE DEF T
  <2>1. QED BY <1>11, <1>12, UpToBound
<1>14. QED BY <1>1, <1>10, <1>13 DEF a
------------------------------------------------------------------------------
(* The scan in a method: its first line is pending until the body opens,   *)
(* then active until the body is closed, by a brace of the last line.      *)
Outside(s) == s.pending = 0 /\ s.active = 0
InBody(t, l, s) ==
  \E f \in 1..l :
    /\ FirstLine(t, f) /\ t[f].method = t[l].method
    /\ \/ s.pending = f /\ s.active = 0 /\ s.depth = 1
       \/ s.pending = 0 /\ s.active = f /\ s.depth >= 2

Recorded(t, s) == \A i \in DOMAIN s.ranges : IsMethod(t, s.ranges[i])

Closing(t, l, q) ==
  IF t[l].method = None THEN q = 0
  ELSE /\ q \in 1..Len(t[l].braces)+1
       /\ \A j \in 1..(q - 1) : Depth(t, l, j) >= 2
       /\ IF LastLine(t, l) THEN q <= Len(t[l].braces) /\ Depth(t, l, q) = 1
          ELSE q = Len(t[l].braces) + 1

AfterBrace(t, l, k, q, s) ==
  /\ s \in States /\ s.depth = Depth(t, l, k) /\ Recorded(t, s)
  /\ IF k < q THEN InBody(t, l, s) ELSE Outside(s)

AfterLine(t, l, s) ==
  /\ s \in States /\ s.depth = Depth(t, l, Len(t[l].braces)) /\ Recorded(t, s)
  /\ IF t[l].method # None /\ ~LastLine(t, l) THEN InBody(t, l, s) ELSE Outside(s)

(* The lines from the first to the last of a method are those of it. *)
LEMMA WholeMethod ==
  ASSUME NEW t \in Texts, BodiesInPlace(t), NEW l \in 1..Len(t), NEW f \in 1..l,
         FirstLine(t, f), LastLine(t, l), t[f].method = t[l].method
  PROVE  IsMethod(t, [first |-> f, last |-> l])
<1>1. /\ Len(t) \in Nat /\ DOMAIN t = 1..Len(t)
      /\ \A i, j \in DOMAIN t :
           t[i].method = t[j].method /\ t[i].method # None => \A m \in i..j : t[m].method = t[i].method
  BY LineParts DEF BodiesInPlace
<1>2. /\ t[f].method # None /\ (f = 1 \/ t[f - 1].method # t[f].method)
      /\ (l = Len(t) \/ t[l + 1].method # t[l].method)
  BY DEF FirstLine, LastLine
<1>3. f \in 1..Len(t)
  BY <1>1
<1>4. ASSUME NEW m \in 1..Len(t), f <= m, m <= l PROVE t[m].method = t[f].method
  <2>1. m \in f..l
    BY <1>3, <1>4
  <2>2. QED BY <1>1, <1>2, <1>3, <2>1
<1>5. ASSUME NEW m \in 1..Len(t), t[m].method = t[f].method, m < f PROVE FALSE
  <2>1. f - 1 \in m..f
    BY <1>1, <1>3, <1>5
  <2>2. t[f - 1].method = t[m].method
    BY <1>1, <1>2, <1>3, <1>5, <2>1
  <2>3. f # 1
    BY <1>1, <1>3, <1>5
  <2>4. t[f - 1].method # t[f].method
    BY <1>2, <2>3
  <2>5. QED BY <1>5, <2>2, <2>4
<1>6. ASSUME NEW m \in 1..Len(t), t[m].method = t[f].method, l < m PROVE FALSE
  <2>1. l + 1 \in l..m
    BY <1>1, <1>6
  <2>2. t[l + 1].method = t[l].method
    BY <1>1, <1>2, <1>6, <2>1
  <2>3. l # Len(t)
    <3>1. PICK n \in Nat : n = Len(t)
      BY <1>1
    <3>2. m \in 1..n /\ l \in 1..n /\ l < m
      BY <1>6, <3>1
    <3>3. QED BY <3>1, <3>2
  <2>4. t[l + 1].method # t[l].method
    BY <1>2, <2>3
  <2>5. QED BY <1>6, <2>2, <2>4
<1>7. \A m \in 1..Len(t) : t[m].method = t[f].method <=> f <= m /\ m <= l
  BY <1>1, <1>3, <1>4, <1>5, <1>6
<1>8. QED BY <1>2, <1>3, <1>7 DEF IsMethod

(* A line of a body has a brace that closes it, if it is the last one.     *)
LEMMA ClosingExists ==
  ASSUME NEW t \in Texts, BodiesInPlace(t), NEW l \in 1..Len(t)
  PROVE  \E q \in Nat : Closing(t, l, q)
<1>1. Len(t[l].braces) \in Nat /\ DOMAIN t[l].braces = 1..Len(t[l].braces) /\ l \in DOMAIN t
  BY LineParts
<1>2. CASE t[l].method = None
  BY <1>2 DEF Closing
<1>3. CASE t[l].method # None /\ LastLine(t, l)
  <2>1. PICK k \in DOMAIN t[l].braces : Depth(t, l, k) = 1 /\ \A j \in 1..(k - 1) : Depth(t, l, j) >= 2
    BY <1>1, <1>3 DEF BodiesInPlace
  <2>2. QED BY <1>1, <1>3, <2>1 DEF Closing
<1>4. CASE t[l].method # None /\ ~LastLine(t, l)
  <2>1. \A k \in DOMAIN t[l].braces : Depth(t, l, k) >= 2
    BY <1>1, <1>4 DEF BodiesInPlace
  <2>2. PICK n \in Nat : n = Len(t[l].braces)
    BY <1>1
  <2>3. n + 1 \in Nat /\ n + 1 \in 1..(n + 1) /\ \A j \in 1..((n + 1) - 1) : j \in 1..n
    OBVIOUS
  <2>4. \A j \in 1..((n + 1) - 1) : Depth(t, l, j) >= 2
    BY <1>1, <2>1, <2>2, <2>3
  <2>5. Closing(t, l, n + 1)
    BY <1>4, <2>2, <2>3, <2>4 DEF Closing
  <2>6. QED BY <2>3, <2>5
<1>5. QED BY <1>2, <1>3, <1>4

(* One brace. *)
LEMMA BraceScanned ==
  ASSUME NEW t \in Texts, BodiesInPlace(t), NEW l \in 1..Len(t), NEW q \in Nat, Closing(t, l, q),
         NEW k \in 0..Len(t[l].braces)-1, NEW s, AfterBrace(t, l, k, q, s)
  PROVE  AfterBrace(t, l, k + 1, q, ScanBrace(s, t[l].braces[k + 1], l))
<1> DEFINE b == t[l].braces[k + 1]
           r == ScanBrace(s, b, l)
           d == Depth(t, l, k + 1)
<1>1. /\ Len(t) \in Nat /\ Len(t[l].braces) \in Nat /\ b \in Braces /\ k \in Nat /\ l \in Nat
      /\ k + 1 \in 1..Len(t[l].braces)
  BY LineParts
<1>2. s \in States /\ s.depth = Depth(t, l, k) /\ Recorded(t, s)
      /\ (k < q => InBody(t, l, s)) /\ (~(k < q) => Outside(s))
  BY DEF AfterBrace
<1>3. d \in Int /\ s.depth \in Int /\ d = s.depth + (IF b = LeftBrace THEN 1 ELSE -1)
  BY <1>1, <1>2, DepthIs
<1>4. r \in States
  BY <1>1, <1>2, ScanBraceTyped
<1> HIDE DEF b, d
<1>5. CASE k + 1 < q
  <2>1. d >= 2
    <3>1. t[l].method # None /\ k + 1 \in 1..(q - 1)
      BY <1>1, <1>5 DEF Closing
    <3>2. QED BY <3>1 DEF Closing, d
  <2>2. PICK f \in 1..l : /\ FirstLine(t, f) /\ t[f].method = t[l].method
                          /\ \/ s.pending = f /\ s.active = 0 /\ s.depth = 1
                             \/ s.pending = 0 /\ s.active = f /\ s.depth >= 2
    BY <1>1, <1>2, <1>5 DEF InBody
  <2>3. r.ranges = s.ranges /\ r.depth = d /\ r.pending = 0 /\ r.active = f
    BY <1>2, <1>3, <2>1, <2>2 DEF ScanBrace, States
  <2>4. InBody(t, l, r) /\ Recorded(t, r)
    BY <1>2, <2>1, <2>2, <2>3 DEF InBody, Recorded
  <2>5. QED BY <1>4, <1>5, <2>3, <2>4 DEF AfterBrace, b, d
<1>6. CASE k + 1 = q
  <2>1. LastLine(t, l) /\ d = 1
    BY <1>1, <1>6 DEF Closing, d
  <2>2. PICK f \in 1..l : /\ FirstLine(t, f) /\ t[f].method = t[l].method
                          /\ \/ s.pending = f /\ s.active = 0 /\ s.depth = 1
                             \/ s.pending = 0 /\ s.active = f /\ s.depth >= 2
    BY <1>1, <1>2, <1>6 DEF InBody
  <2>3. s.pending = 0 /\ s.active = f /\ s.depth = 2 /\ b # LeftBrace
    BY <1>3, <2>1, <2>2
  <2>4. r.ranges = Append(s.ranges, [first |-> f, last |-> l]) /\ r.depth = d /\ Outside(r)
    BY <1>2, <2>1, <2>2, <2>3 DEF ScanBrace, States, Outside
  <2>5. IsMethod(t, [first |-> f, last |-> l])
    BY <2>1, <2>2, WholeMethod
  <2>6. Recorded(t, r)
    <3>1. PICK R \in Seq(LineRange) : R = s.ranges
      BY <1>2 DEF States
    <3>2. PICK x \in LineRange : x = [first |-> f, last |-> l]
      <4>1. l \in Nat /\ f \in Nat
        BY <1>1
      <4>2. [first |-> f, last |-> l] \in LineRange
        BY <4>1 DEF LineRange
      <4>3. QED BY <4>2
    <3> DEFINE Q == Append(R, x)
    <3>3. \A i \in DOMAIN Q : (i \in DOMAIN R /\ Q[i] = R[i]) \/ Q[i] = x
      <4> HIDE DEF LineRange
      <4>1. QED BY <3>1
    <3> HIDE DEF Q
    <3>4. r.ranges = Q
      BY <2>4, <3>1, <3>2 DEF Q
    <3>5. \A i \in DOMAIN R : IsMethod(t, R[i])
      BY <1>2, <3>1 DEF Recorded
    <3>6. IsMethod(t, x)
      BY <2>5, <3>2
    <3>7. \A i \in DOMAIN Q : IsMethod(t, Q[i])
      <4>1. ASSUME NEW i \in DOMAIN Q PROVE IsMethod(t, Q[i])
        <5>1. CASE i \in DOMAIN R /\ Q[i] = R[i]
          <6>1. IsMethod(t, R[i])
            BY <3>5, <5>1
          <6>2. QED BY <5>1, <6>1
        <5>2. CASE Q[i] = x
          BY <3>6, <5>2
        <5>3. QED BY <3>3, <5>1, <5>2
      <4>2. QED BY <4>1
    <3>8. QED BY <3>4, <3>7 DEF Recorded
  <2>7. QED BY <1>1, <1>4, <1>6, <2>4, <2>6 DEF AfterBrace, b, d
<1>7. CASE k + 1 > q
  <2>1. Outside(s)
    BY <1>1, <1>2, <1>7
  <2>2. r.ranges = s.ranges /\ r.depth = d /\ Outside(r)
    BY <1>2, <1>3, <2>1 DEF ScanBrace, States, Outside
  <2>3. Recorded(t, r)
    BY <1>2, <2>2 DEF Recorded
  <2>4. QED BY <1>1, <1>4, <1>7, <2>2, <2>3 DEF AfterBrace, b, d
<1>8. QED BY <1>1, <1>5, <1>6, <1>7

(* The beginning of a line: the first one of a method is marked. *)
LEMMA LineBegun ==
  ASSUME NEW t \in Texts, BodiesInPlace(t), NEW l \in 1..Len(t), NEW q \in Nat, Closing(t, l, q),
         NEW s, IF l = 1 THEN s = Start ELSE AfterLine(t, l - 1, s)
  PROVE  AfterBrace(t, l, 0, q, Marked(s, t, l))
<1> DEFINE r == Marked(s, t, l)
<1>1. /\ Len(t) \in Nat /\ DOMAIN t = 1..Len(t) /\ l \in Nat /\ l \in 1..l
      /\ l # 1 => l - 1 \in 1..Len(t) /\ (l - 1) + 1 = l /\ \A f \in 1..(l - 1) : f \in 1..l
  BY LineParts
<1>2. t[l].signature # None <=> FirstLine(t, l)
  BY <1>1 DEF BodiesInPlace
<1>3. s \in States /\ s.depth = Depth(t, l, 0) /\ Recorded(t, s)
  <2>1. CASE l = 1
    <3>1. Start \in States
      <4>1. <<>> \in Seq(LineRange)
        OBVIOUS
      <4> HIDE DEF LineRange
      <4>2. QED BY <4>1 DEF Start, States
    <3>2. s = Start /\ Depth(t, l, 0) = 0
      BY <2>1, DepthIs
    <3>3. s.depth = 0 /\ DOMAIN s.ranges = {}
      BY <3>2 DEF Start
    <3>4. QED BY <3>1, <3>2, <3>3 DEF Recorded
  <2>2. CASE l # 1
    BY <2>2, DepthIs DEF AfterLine
  <2>3. QED BY <2>1, <2>2
<1>4. r \in States /\ r.depth = s.depth /\ r.ranges = s.ranges /\ r.active = s.active
      /\ r.pending = IF s.pending = 0 /\ FirstLine(t, l) THEN l ELSE s.pending
  <2>1. r \in States
    BY <1>1, <1>3, MarkedTyped
  <2>2. QED BY <1>2, <1>3, <2>1 DEF Marked, States
<1>5. q = 0 <=> t[l].method = None
  BY DEF Closing
<1>6. (l = 1 \/ t[l - 1].method # t[l].method) => Outside(s)
  <2>1. l = 1 => Outside(s)
    BY DEF Start, Outside
  <2>2. l # 1 /\ t[l - 1].method # t[l].method => t[l - 1].method = None \/ LastLine(t, l - 1)
    BY <1>1 DEF LastLine
  <2>3. QED BY <2>1, <2>2 DEF AfterLine
<1> HIDE DEF r
<1>7. CASE FirstLine(t, l)
  <2>1. Outside(s) /\ Depth(t, l, 0) = 1 /\ t[l].method # None
    BY <1>1, <1>6, <1>7 DEF FirstLine, BodiesInPlace
  <2>2. r.pending = l /\ r.active = 0 /\ r.depth = 1
    BY <1>3, <1>4, <1>7, <2>1 DEF Outside
  <2>3. InBody(t, l, r)
    BY <1>1, <1>7, <2>2 DEF InBody
  <2>4. 0 < q
    BY <1>5, <2>1
  <2>5. QED BY <1>3, <1>4, <2>3, <2>4 DEF AfterBrace, Recorded, r
<1>8. CASE ~FirstLine(t, l) /\ t[l].method # None
  <2>1. l # 1 /\ t[l - 1].method = t[l].method
    BY <1>8 DEF FirstLine
  <2>2. t[l - 1].method # None /\ ~LastLine(t, l - 1)
    <3>1. l - 1 # Len(t)
      BY <1>1, <2>1
    <3>2. QED BY <1>1, <1>8, <2>1, <3>1 DEF LastLine
  <2>3. InBody(t, l - 1, s)
    BY <2>1, <2>2 DEF AfterLine
  <2>4. r.pending = s.pending /\ r.active = s.active /\ r.depth = s.depth
    BY <1>4, <1>8
  <2>5. InBody(t, l, r)
    BY <1>1, <2>1, <2>3, <2>4 DEF InBody
  <2>6. 0 < q
    BY <1>5, <1>8
  <2>7. QED BY <1>3, <1>4, <2>5, <2>6 DEF AfterBrace, Recorded, r
<1>9. CASE t[l].method = None
  <2>1. ~FirstLine(t, l) /\ q = 0
    BY <1>5, <1>9 DEF FirstLine
  <2>2. Outside(s)
    <3>1. l # 1 /\ t[l - 1].method = None => Outside(s)
      BY DEF AfterLine
    <3>2. QED BY <1>6, <1>9, <3>1
  <2>3. Outside(r)
    BY <1>4, <2>1, <2>2 DEF Outside
  <2>4. QED BY <1>3, <1>4, <2>1, <2>3 DEF AfterBrace, Recorded, r
<1>10. QED BY <1>7, <1>8, <1>9

(* A line. *)
LEMMA LineScanned ==
  ASSUME NEW t \in Texts, BodiesInPlace(t), NEW l \in 1..Len(t),
         NEW s, IF l = 1 THEN s = Start ELSE AfterLine(t, l - 1, s)
  PROVE  AfterLine(t, l, ScanLine(s, t, l))
<1>1. PICK q \in Nat : Closing(t, l, q)
  BY ClosingExists
<1>2. AfterBrace(t, l, 0, q, Marked(s, t, l))
  BY <1>1, LineBegun
<1>3. Start \in States
  <2>1. <<>> \in Seq(LineRange)
    OBVIOUS
  <2>2. QED BY <2>1 DEF Start, States
<1>4. s \in States
  BY <1>3 DEF AfterLine
<1>5. PICK n \in Nat : n = Len(t[l].braces)
  BY LineParts
<1>6. l \in Nat
  BY LineParts
<1>7. PICK g : /\ g[0] = Marked(s, t, l)
               /\ \A k \in 1..n : g[k] = ScanBrace(g[k - 1], t[l].braces[k], l)
               /\ ScanLine(s, t, l) = g[n]
  BY <1>4, <1>5, <1>6, ScanLineRuns
<1> DEFINE T == {k \in 0..n : AfterBrace(t, l, k, q, g[k])}
<1>8. 0 \in T
  BY <1>2, <1>7
<1>9. ASSUME NEW k \in 0..(n - 1), k \in T PROVE k + 1 \in T
  <2>1. k + 1 \in 1..n /\ (k + 1) - 1 = k /\ k + 1 \in 0..n
    OBVIOUS
  <2>2. g[k + 1] = ScanBrace(g[k], t[l].braces[k + 1], l)
    BY <1>7, <2>1
  <2>3. AfterBrace(t, l, k, q, g[k]) /\ k \in 0..Len(t[l].braces)-1
    BY <1>5, <1>9
  <2>4. AfterBrace(t, l, k + 1, q, ScanBrace(g[k], t[l].braces[k + 1], l))
    BY <1>1, <2>3, BraceScanned
  <2>5. QED BY <2>1, <2>2, <2>4
<1>10. n \in T
  <2>1. \A k \in 0..(n - 1) : k \in T => k + 1 \in T
    BY <1>9
  <2> HIDE DEF T
  <2>2. \A k \in 0..n : k \in T
    BY <1>8, <2>1, UpToBound
  <2>3. QED BY <2>2
<1>11. AfterBrace(t, l, n, q, g[n])
  BY <1>10
<1>12. n < q <=> t[l].method # None /\ ~LastLine(t, l)
  <2>1. CASE t[l].method = None
    BY <1>1, <2>1 DEF Closing
  <2>2. CASE t[l].method # None /\ LastLine(t, l)
    <3>1. q <= n
      BY <1>1, <1>5, <2>2 DEF Closing
    <3>2. QED BY <2>2, <3>1
  <2>3. CASE t[l].method # None /\ ~LastLine(t, l)
    <3>1. q = n + 1
      BY <1>1, <1>5, <2>3 DEF Closing
    <3>2. QED BY <2>3, <3>1
  <2>4. QED BY <2>1, <2>2, <2>3
<1>13. QED BY <1>5, <1>7, <1>11, <1>12 DEF AfterBrace, AfterLine

(* The ranges of a text are methods of it. *)
LEMMA RangesAreMethods ==
  ASSUME NEW t \in Texts, BodiesInPlace(t)
  PROVE  /\ \A i \in DOMAIN MethodLineRanges(t) : IsMethod(t, MethodLineRanges(t)[i])
         /\ DOMAIN MethodLineRanges(t) \subseteq Nat
<1>1. PICK n \in Nat : n = Len(t)
  BY LineParts
<1>2. \A l \in 1..n : Len(t[l].braces) \in Nat
  BY <1>1, LineParts
<1>3. PICK g : /\ g[0] = Start
               /\ \A l \in 1..n : g[l] = ScanLine(g[l - 1], t, l)
               /\ \A l \in 0..n : g[l] \in States
               /\ MethodLineRanges(t) = g[n].ranges
  BY <1>1, <1>2, RangesRun
<1> DEFINE T == {l \in 0..n : l = 0 \/ AfterLine(t, l, g[l])}
<1>4. 0 \in T
  OBVIOUS
<1>5. ASSUME NEW l \in 0..(n - 1), l \in T PROVE l + 1 \in T
  <2>1. l + 1 \in 1..n /\ (l + 1) - 1 = l /\ l + 1 \in 0..n /\ (l + 1 = 1 <=> l = 0)
    OBVIOUS
  <2>2. g[l + 1] = ScanLine(g[l], t, l + 1)
    BY <1>3, <2>1
  <2>3. IF l + 1 = 1 THEN g[l] = Start ELSE AfterLine(t, (l + 1) - 1, g[l])
    BY <1>3, <1>5, <2>1
  <2>4. l + 1 \in 1..Len(t)
    BY <1>1, <2>1
  <2>5. AfterLine(t, l + 1, ScanLine(g[l], t, l + 1))
    BY <2>3, <2>4, LineScanned
  <2>6. QED BY <2>1, <2>2, <2>5
<1>6. n \in T
  <2>1. \A l \in 0..(n - 1) : l \in T => l + 1 \in T
    BY <1>5
  <2> HIDE DEF T
  <2>2. QED BY <1>4, <2>1, UpToBound
<1>7. n = 0 \/ AfterLine(t, n, g[n])
  BY <1>6
<1>8. Recorded(t, g[n])
  <2>1. n = 0 => DOMAIN g[n].ranges = {}
    BY <1>3 DEF Start
  <2>2. QED BY <1>7, <2>1 DEF AfterLine, Recorded
<1>9. g[n].ranges \in Seq(LineRange)
  <2>1. g[n] \in States
    BY <1>1, <1>3
  <2>2. QED BY <2>1 DEF States
<1>10. DOMAIN g[n].ranges \subseteq Nat
  <2>1. PICK R \in Seq(LineRange) : R = g[n].ranges
    BY <1>9
  <2>2. DOMAIN R \subseteq Nat
    OBVIOUS
  <2>3. QED BY <2>1, <2>2
<1>11. QED BY <1>3, <1>8, <1>10 DEF Recorded

(* The scope of a local rename is the method of the line. *)
LEMMA ScopeIsMethod ==
  ASSUME NEW t \in Texts, BodiesInPlace(t), NEW line, NEW name
  PROVE  LocalRenameScope(t, line, name) # None =>
           /\ IsMethod(t, LocalRenameScope(t, line, name))
           /\ LocalRenameScope(t, line, name).first <= line
           /\ line <= LocalRenameScope(t, line, name).last
<1> DEFINE ranges == MethodLineRanges(t)
           holding == {i \in DOMAIN ranges : ranges[i].first <= line /\ line <= ranges[i].last}
           range == ranges[Min(holding)]
<1> SUFFICES ASSUME LocalRenameScope(t, line, name) # None
             PROVE  /\ IsMethod(t, LocalRenameScope(t, line, name))
                    /\ LocalRenameScope(t, line, name).first <= line
                    /\ line <= LocalRenameScope(t, line, name).last
  OBVIOUS
<1>1. holding # {} /\ LocalRenameScope(t, line, name) = range
  BY Zenon DEF LocalRenameScope
<1>2. holding \subseteq Nat
  BY RangesAreMethods
<1>3. Min(holding) \in holding
  <2> HIDE DEF holding
  <2>1. QED BY <1>1, <1>2, MinIn
<1>4. \A i \in holding : i \in DOMAIN ranges /\ ranges[i].first <= line /\ line <= ranges[i].last
  OBVIOUS
<1> HIDE DEF holding, ranges
<1>5. IsMethod(t, range) /\ range.first <= line /\ line <= range.last
  BY <1>3, <1>4, RangesAreMethods DEF ranges
<1>6. QED BY <1>1, <1>5

(* The occurrences in the lines of a method are those in the method. *)
LEMMA InLinesOfMethod ==
  ASSUME NEW t \in Texts, NEW r, IsMethod(t, r), NEW line \in 1..Len(t),
         r.first <= line, line <= r.last, NEW name
  PROVE  /\ t[line].method # None
         /\ InLines(t, name, r.first, r.last) =
              {p \in Occurrences(t, name) : t[p[1]].method = t[line].method}
<1>1. /\ r.first \in 1..Len(t) /\ r.last \in 1..Len(t) /\ t[r.first].method # None
      /\ \A l \in 1..Len(t) : t[l].method = t[r.first].method <=> r.first <= l /\ l <= r.last
  BY DEF IsMethod
<1>2. t[line].method = t[r.first].method
  BY <1>1
<1>3. Len(t) \in Nat
  BY LineParts
<1>4. \A l : l \in r.first..r.last <=> l \in 1..Len(t) /\ t[l].method = t[line].method
  <2>1. PICK n \in Nat, f \in Nat, k \in Nat : n = Len(t) /\ f = r.first /\ k = r.last /\ 1 <= f /\ k <= n
    BY <1>1, <1>3
  <2>2. \A l : l \in f..k <=> l \in 1..n /\ f <= l /\ l <= k
    BY <2>1
  <2>3. QED BY <1>1, <1>2, <2>1, <2>2
<1>5. \A p : p \in InLines(t, name, r.first, r.last) <=>
        (\E l \in r.first..r.last : p \in {l} \X (1..Len(t[l].names))) /\ t[p[1]].names[p[2]] = name
  BY DEF InLines
<1>6. \A p : p \in Occurrences(t, name) <=>
        (\E l \in 1..Len(t) : p \in {l} \X (1..Len(t[l].names))) /\ t[p[1]].names[p[2]] = name
  BY DEF InLines, Occurrences
<1>7. \A l, p : p \in {l} \X (1..Len(t[l].names)) => p[1] = l
  OBVIOUS
<1>8. \A p : p \in InLines(t, name, r.first, r.last) <=>
               p \in Occurrences(t, name) /\ t[p[1]].method = t[line].method
  <2>1. ASSUME NEW p, p \in InLines(t, name, r.first, r.last)
        PROVE  p \in Occurrences(t, name) /\ t[p[1]].method = t[line].method
    <3>1. PICK l \in r.first..r.last : p \in {l} \X (1..Len(t[l].names))
      BY <1>5, <2>1
    <3>2. p[1] = l /\ l \in 1..Len(t) /\ t[l].method = t[line].method
      BY <1>4, <1>7, <3>1
    <3>3. QED BY <1>5, <1>6, <2>1, <3>1, <3>2
  <2>2. ASSUME NEW p, p \in Occurrences(t, name), t[p[1]].method = t[line].method
        PROVE  p \in InLines(t, name, r.first, r.last)
    <3>1. PICK l \in 1..Len(t) : p \in {l} \X (1..Len(t[l].names))
      BY <1>6, <2>2
    <3>2. p[1] = l /\ l \in r.first..r.last
      BY <1>4, <1>7, <2>2, <3>1
    <3>3. QED BY <1>5, <1>6, <2>2, <3>1, <3>2
  <2>3. QED BY <2>1, <2>2
<1>9. InLines(t, name, r.first, r.last) = {p \in Occurrences(t, name) : t[p[1]].method = t[line].method}
  BY <1>8
<1>10. QED BY <1>1, <1>2, <1>9

(* What a local rename is to replace. *)
StaysInMethod(t, r, c) ==
  /\ t[r.line].method # None
  /\ c = [NoChanges EXCEPT ![r.file] =
            {p \in Occurrences(t, r.name) : t[p[1]].method = t[r.line].method}]

LEMMA LocalRenameOfMethod ==
  ASSUME NEW f \in File, NEW p, Rename(f, p), IInv, \A t \in Texts : BodiesInPlace(t)
  PROVE  LocalRenameStaysInMethod'
<1> SUFFICES ASSUME phase' = "local"
             PROVE  StaysInMethod(text', request', changes')
  BY DEF LocalRenameStaysInMethod, StaysInMethod, NoChanges, Occurrences, InLines
<1> DEFINE t == DocumentText(f)
           name == t[p[1]].names[p[2]]
           scope == LocalRenameScope(t, p[1], name)
<1>1. t # None
  BY DEF Rename
<1>2. /\ p \in UNION {{l} \X (1..Len(t[l].names)) : l \in 1..Len(t)}
      /\ request' = [file |-> f, line |-> p[1], name |-> name]
      /\ text' = t
      /\ scope # None
      /\ changes' = [changes EXCEPT ![f] = InLines(t, name, scope.first, scope.last)]
  BY <1>1 DEF Rename
<1>3. t \in Texts
  BY <1>1 DEF DocumentText, IInv, TypeOK
<1>4. p[1] \in 1..Len(t)
  <2>1. PICK l \in 1..Len(t) : p \in {l} \X (1..Len(t[l].names))
    BY <1>2
  <2>2. p[1] = l
    BY <2>1
  <2>3. QED BY <2>1, <2>2
<1>5. changes = NoChanges
  BY DEF IInv, NoEditsYet, Rename
<1> HIDE DEF t, name
<1>6. IsMethod(t, scope) /\ scope.first <= p[1] /\ p[1] <= scope.last
  BY <1>2, <1>3, ScopeIsMethod
<1> HIDE DEF scope
<1>7. /\ t[p[1]].method # None
      /\ InLines(t, name, scope.first, scope.last) = {o \in Occurrences(t, name) : t[o[1]].method = t[p[1]].method}
  <2>1. PICK line \in 1..Len(t) : line = p[1]
    BY <1>4
  <2>2. IsMethod(t, scope) /\ scope.first <= line /\ line <= scope.last
    BY <1>6, <2>1
  <2>3. /\ t[line].method # None
        /\ InLines(t, name, scope.first, scope.last) = {o \in Occurrences(t, name) : t[o[1]].method = t[line].method}
    BY <1>3, <2>2, InLinesOfMethod
  <2>4. QED BY <2>1, <2>3
<1>8. request'.line = p[1] /\ request'.file = f /\ request'.name = name /\ text' = t
  BY <1>2
<1>9. QED BY <1>2, <1>5, <1>7, <1>8, Zenon DEF StaysInMethod

(* No later step changes what a local rename has collected. *)
LEMMA LocalRenameKept ==
  ASSUME IInv, [Next]_vars, LocalRenameStaysInMethod, \A t \in Texts : BodiesInPlace(t)
  PROVE  LocalRenameStaysInMethod'
<1>1. ASSUME phase' = phase, UNCHANGED <<request, text, changes>> PROVE LocalRenameStaysInMethod'
  <2>1. phase = "local" => StaysInMethod(text, request, changes)
    BY DEF LocalRenameStaysInMethod, StaysInMethod
  <2>2. phase' = "local" => StaysInMethod(text', request', changes')
    BY <1>1, <2>1
  <2>3. QED BY <2>2 DEF LocalRenameStaysInMethod, StaysInMethod, NoChanges, Occurrences, InLines
<1>2. ASSUME phase' # "local" PROVE LocalRenameStaysInMethod'
  BY <1>2 DEF LocalRenameStaysInMethod
<1>3. CASE UNCHANGED vars
  BY <1>1, <1>3 DEF vars
<1>4. ASSUME NEW f \in File, NEW p \in Positions, Rename(f, p) PROVE LocalRenameStaysInMethod'
  BY <1>4, LocalRenameOfMethod
<1>5. ASSUME NEW f \in File, RefuseRename(f) PROVE phase' # "local"
  BY <1>5 DEF RefuseRename
<1>6. ASSUME ReadAgain \/ ListFolder \/ Visit \/ WalkDone \/ Respond PROVE phase' # "local"
  BY <1>6 DEF ReadAgain, ListFolder, Visit, WalkDone, Respond, Fail
<1>7. ASSUME NEW f \in File, ChangeDocument(f) \/ ChangeFile(f)
      PROVE  phase' = phase /\ UNCHANGED <<request, text, changes>>
  BY <1>7 DEF ChangeDocument, ChangeFile
<1>8. ASSUME NEW d \in Folders, ChangeFolder(d)
      PROVE  phase' = phase /\ UNCHANGED <<request, text, changes>>
  BY <1>8 DEF ChangeFolder
<1>9. QED
  BY <1>1, <1>2, <1>3, <1>4, <1>5, <1>6, <1>7, <1>8 DEF Next

(* A local rename replaces the occurrences in the method of the position,  *)
(* all of them and no more, in texts whose bodies are in place.            *)
THEOREM LocalRenames ==
  ASSUME \A t \in Texts : BodiesInPlace(t)
  PROVE  Spec => []LocalRenameStaysInMethod
<1>1. Init => LocalRenameStaysInMethod
  BY DEF Init, LocalRenameStaysInMethod
<1>2. IInv /\ LocalRenameStaysInMethod /\ [Next]_vars => LocalRenameStaysInMethod'
  BY LocalRenameKept
<1>3. QED BY <1>1, <1>2, Invariance, PTL DEF Spec
==============================================================================
