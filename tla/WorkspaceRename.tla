--------------------------- MODULE WorkspaceRename ---------------------------
(***************************************************************************)
(* textDocument/rename: handleRename of internal/lsp/server.go and what it *)
(* calls in internal/lsp/workspace.go.  The server handles one message at  *)
(* a time, so the documents the editor has open stand still while a rename *)
(* is computed; the files on disk do not.                                  *)
(* A text is a sequence of lines, a line                                   *)
(*   names      the identifiers on it, in their order,                     *)
(*   signature  the parameters, if methodDeclRE finds a method on it,      *)
(*   declares   the variable that fieldDeclRE finds on it, or None,        *)
(*   braces     its braces, in their order, and                            *)
(*   method     the Java method it is part of, or None: what the           *)
(*              properties compare with, which no definition of the code   *)
(*              looks at.                                                  *)
(***************************************************************************)
EXTENDS Integers, Sequences, FiniteSets, SequencesExt

CONSTANTS
  Files,        \* the .java files there can be, in the order of a walk: a sequence
  Path(_),      \* a file's path, a sequence of segments
  RootSets,     \* the sets of workspace folders a client may send
  Folders,      \* the folders a walk may come to, each a path
  SkippedDirs,  \* .git, .gradle, build, target
  Names,
  Texts,
  None,
  Unreadable,   \* a file that is there and cannot be read: not permitted, a dangling link
  MaxEdits      \* bound: changes of open documents, of files and of folders

LeftBrace == "{"
RightBrace == "}"
Braces == {LeftBrace, RightBrace}

ASSUME WorkspaceRenameAssumption ==
  /\ MaxEdits \in Nat
  /\ \A t \in Texts : t \in Seq([names     : Seq(Names),
                                 signature : (SUBSET Names) \union {None},
                                 declares  : Names \union {None},
                                 braces    : Seq(Braces),
                                 method    : Nat \union {None}])

File == ToSet(Files)

(* Paths and folders are sequences, and None is none of the values it      *)
(* stands in for.                                                          *)
ASSUME PathAssumption ==
  /\ Files \in Seq(File)
  /\ \A f \in File : Path(f) \in Seq(ToSet(Path(f)))
  /\ \A S \in RootSets : \A r \in S : r \in Seq(ToSet(r)) /\ r # None
  /\ Unreadable # None /\ Unreadable \notin Texts
  /\ None \notin [file : File, line : Nat, name : Names \union {None}]

VARIABLES
  roots,      \* s.workspaceRoots
  disk,       \* file |-> its text, or Unreadable, or None when there is no such file
  unlisted,   \* the folders that cannot be listed: not permitted, or a root that is gone
  documents,  \* s.documents: file |-> the text of the open buffer, or None
  request,    \* the rename at hand: its file, line and name, or None
  phase,      \* "idle", "again", "walking", or the outcome
  text,       \* the text of the requested document
  folders,    \* the folders of the root that are still to be listed
  walk,       \* where in Files those of the root are that are still to be visited
  changes,    \* file |-> the positions to replace
  touched,    \* the files and folders changed on disk since the request came
  edits

vars == <<roots, disk, unlisted, documents, request, phase, text, folders, walk, changes, touched, edits>>

NoChanges == [f \in File |-> {}]
Answered == phase \in {"local", "edits", "error", "refused"}

Init ==
  /\ roots \in RootSets
  /\ disk \in [File -> Texts \union {None, Unreadable}]
  /\ unlisted = {}
  /\ documents = [f \in File |-> None]
  /\ request = None /\ phase = "idle" /\ text = None
  /\ folders = {} /\ walk = {} /\ changes = NoChanges
  /\ touched = {} /\ edits = 0
------------------------------------------------------------------------------
(* Occurrences of a name: renameTextEdits, renameTextEditsInLineRange. *)
InLines(t, name, first, last) ==
  {p \in UNION {{l} \X (1..Len(t[l].names)) : l \in first..last} : t[p[1]].names[p[2]] = name}

Occurrences(t, name) == InLines(t, name, 1, Len(t))

(* Mutant of ScanBrace: any closing brace ends the method. *)
ScanBraceAtAnyDepth(s, brace, line) ==
  IF brace = LeftBrace
  THEN IF s.pending > 0 /\ s.depth = 1
       THEN [s EXCEPT !.depth = 2, !.active = s.pending, !.pending = 0]
       ELSE [s EXCEPT !.depth = @ + 1]
  ELSE [s EXCEPT !.depth = @ - 1, !.active = 0,
                 !.ranges = IF s.active > 0 THEN Append(@, [first |-> s.active, last |-> line]) ELSE @]

(* methodLineRanges: the depth of the braces decides.  A line that looks   *)
(* like a method is pending until a brace opens at depth 2.                *)
ScanBrace(s, brace, line) ==
  IF brace = LeftBrace
  THEN IF s.pending > 0 /\ s.depth = 1
       THEN [s EXCEPT !.depth = 2, !.active = s.pending, !.pending = 0]
       ELSE [s EXCEPT !.depth = @ + 1]
  ELSE IF s.active > 0 /\ s.depth = 2
       THEN [s EXCEPT !.depth = 1, !.active = 0,
                      !.ranges = Append(@, [first |-> s.active, last |-> line])]
       ELSE [s EXCEPT !.depth = @ - 1]

ScanLine(s, t, l) ==
  LET marked == IF s.pending = 0 /\ t[l].signature # None THEN [s EXCEPT !.pending = l] ELSE s
      after[k \in 0..Len(t[l].braces)] ==
        IF k = 0 THEN marked ELSE ScanBrace(after[k - 1], t[l].braces[k], l)
  IN after[Len(t[l].braces)]

MethodLineRanges(t) ==
  LET after[l \in 0..Len(t)] ==
        IF l = 0 THEN [depth |-> 0, pending |-> 0, active |-> 0, ranges |-> <<>>]
        ELSE ScanLine(after[l - 1], t, l)
  IN after[Len(t)].ranges

(* methodIntroducesName: a parameter of the first line's signature, or a   *)
(* variable declared on any line.                                          *)
IntroducesName(t, range, name) ==
  \/ t[range.first].signature # None /\ name \in t[range.first].signature
  \/ \E l \in range.first..range.last : t[l].declares = name

(* localRenameScope: the first range that holds the line, if the method    *)
(* introduces the name.                                                    *)
LocalRenameScope(t, line, name) ==
  LET ranges == MethodLineRanges(t)
      holding == {i \in DOMAIN ranges : ranges[i].first <= line /\ line <= ranges[i].last}
      range == ranges[Min(holding)]
  IN IF holding # {} /\ IntroducesName(t, range, name) THEN range ELSE None

(* documentText: the open document, else the file; None for its error. *)
DocumentText(f) ==
  IF documents[f] # None THEN documents[f] ELSE IF disk[f] = Unreadable THEN None ELSE disk[f]

(* workspaceRootForURI: setWorkspaceRoots sorts the longest path first, so *)
(* the first root above the file is the innermost.                         *)
Containing(f) == {r \in roots : IsStrictPrefix(r, Path(f))}
WorkspaceRoot(f) ==
  IF Containing(f) = {} THEN None
  ELSE CHOOSE r \in Containing(f) : \A q \in Containing(f) : Len(q) <= Len(r)

(* A walk of the root enters no skipped directory, the root included. *)
Walked(root, f) ==
  /\ IsStrictPrefix(root, Path(f))
  /\ \A i \in Len(root)..(Len(Path(f)) - 1) : Path(f)[i] \notin SkippedDirs

(* The folders it lists: each but those it skips, before it goes into them. *)
Entered(root, d) ==
  /\ IsPrefix(root, d)
  /\ \A i \in Len(root)..Len(d) : d[i] \notin SkippedDirs

(* WalkDir visits the files there are, whether they can be read or not. *)
Listing(root) == {i \in DOMAIN Files : disk[Files[i]] # None /\ Walked(root, Files[i])}
------------------------------------------------------------------------------
(* A rename of the name at p arrives: its document is read, and a name the *)
(* enclosing method introduces is renamed there and nowhere else.          *)
Rename(f, p) ==
  /\ phase = "idle"
  /\ touched' = {}
  /\ IF DocumentText(f) = None
     THEN /\ request' = [file |-> f, line |-> 0, name |-> None]
          /\ phase' = "error"
          /\ UNCHANGED <<text, changes>>
     ELSE LET t == DocumentText(f)
              name == t[p[1]].names[p[2]]
              scope == LocalRenameScope(t, p[1], name)
          IN /\ p \in UNION {{l} \X (1..Len(t[l].names)) : l \in 1..Len(t)}
             /\ request' = [file |-> f, line |-> p[1], name |-> name]
             /\ text' = t
             /\ IF scope = None
                THEN phase' = "again" /\ UNCHANGED changes
                ELSE /\ phase' = "local"
                     /\ changes' = [changes EXCEPT ![f] = InLines(t, name, scope.first, scope.last)]
  /\ UNCHANGED <<roots, disk, unlisted, documents, folders, walk, edits>>

(* No valid new name, no identifier at the position, or the name it has.   *)
RefuseRename(f) ==
  /\ phase = "idle"
  /\ request' = [file |-> f, line |-> 0, name |-> None]
  /\ phase' = "refused" /\ touched' = {}
  /\ UNCHANGED <<roots, disk, unlisted, documents, text, folders, walk, changes, edits>>

(* Mutant of Fail: the changes collected so far are returned. *)
FailHalfway == phase' = "error" /\ folders' = {} /\ walk' = {} /\ UNCHANGED changes

Fail == phase' = "error" /\ changes' = NoChanges /\ folders' = {} /\ walk' = {}

(* renameWorkspaceDocuments reads the requested document a second time. *)
ReadAgain ==
  /\ phase = "again"
  /\ LET f == request.file
         root == WorkspaceRoot(f)
     IN /\ text' = DocumentText(f)
        /\ IF DocumentText(f) = None THEN Fail
           ELSE IF root = None
           THEN /\ phase' = "edits"
                /\ changes' = [changes EXCEPT ![f] = Occurrences(DocumentText(f), request.name)]
                /\ UNCHANGED <<folders, walk>>
           ELSE /\ phase' = "walking"
                /\ folders' = {d \in Folders : Entered(root, d)}
                /\ walk' = Listing(root)
                /\ UNCHANGED changes
  /\ UNCHANGED <<roots, disk, unlisted, documents, request, touched, edits>>

(* One folder of the walk is listed, after the one it is in; walkErr fails *)
(* the whole rename.                                                       *)
ListFolder ==
  /\ phase = "walking"
  /\ \E d \in folders :
       /\ \A e \in folders : ~IsStrictPrefix(e, d)
       /\ IF d \in unlisted THEN Fail
          ELSE folders' = folders \ {d} /\ UNCHANGED <<phase, changes, walk>>
  /\ UNCHANGED <<roots, disk, unlisted, documents, request, text, touched, edits>>

(* Mutant of Visit: the file is read though the document is open. *)
VisitDisk ==
  /\ phase = "walking"
  /\ \E i \in walk :
       LET f == Files[i]
           content == IF f = request.file THEN text
                      ELSE IF disk[f] = Unreadable THEN None ELSE disk[f]
       IN /\ \A k \in walk : i <= k
          /\ \A d \in folders : ~IsStrictPrefix(d, Path(f))
          /\ IF content = None THEN Fail
             ELSE /\ walk' = walk \ {i}
                  /\ changes' = [changes EXCEPT ![f] = Occurrences(content, request.name)]
                  /\ UNCHANGED <<phase, folders>>
  /\ UNCHANGED <<roots, disk, unlisted, documents, request, text, touched, edits>>

(* One file of a folder listed; one that is gone or cannot be read fails   *)
(* the whole rename.                                                       *)
Visit ==
  /\ phase = "walking"
  /\ \E i \in walk :
       LET f == Files[i]
           content == IF f = request.file THEN text ELSE DocumentText(f)
       IN /\ \A k \in walk : i <= k
          /\ \A d \in folders : ~IsStrictPrefix(d, Path(f))
          /\ IF content = None THEN Fail
             ELSE /\ walk' = walk \ {i}
                  /\ changes' = [changes EXCEPT ![f] = Occurrences(content, request.name)]
                  /\ UNCHANGED <<phase, folders>>
  /\ UNCHANGED <<roots, disk, unlisted, documents, request, text, touched, edits>>

WalkDone ==
  /\ phase = "walking" /\ folders = {} /\ walk = {}
  /\ phase' = "edits"
  /\ UNCHANGED <<roots, disk, unlisted, documents, request, text, folders, walk, changes, touched, edits>>

(* Mutant of Respond: the request is kept. *)
RespondAndKeep ==
  /\ Answered
  /\ phase' = "idle" /\ text' = None /\ changes' = NoChanges
  /\ UNCHANGED <<roots, disk, unlisted, documents, request, folders, walk, touched, edits>>

Respond ==
  /\ Answered
  /\ request' = None /\ phase' = "idle" /\ text' = None /\ changes' = NoChanges
  /\ UNCHANGED <<roots, disk, unlisted, documents, folders, walk, touched, edits>>

(* didOpen, didChange and didClose, between two requests. *)
ChangeDocument(f) ==
  /\ phase = "idle" /\ edits < MaxEdits
  /\ \E t \in Texts \union {None} : documents' = [documents EXCEPT ![f] = t]
  /\ edits' = edits + 1
  /\ UNCHANGED <<roots, disk, unlisted, request, phase, text, folders, walk, changes, touched>>

(* A file is saved, created or deleted, or can no longer be read, at any   *)
(* time.                                                                   *)
ChangeFile(f) ==
  /\ edits < MaxEdits
  /\ \E t \in Texts \union {None, Unreadable} : disk' = [disk EXCEPT ![f] = t]
  /\ touched' = touched \union {f}
  /\ edits' = edits + 1
  /\ UNCHANGED <<roots, unlisted, documents, request, phase, text, folders, walk, changes>>

(* A folder is closed to the server, or opened to it. *)
ChangeFolder(d) ==
  /\ edits < MaxEdits
  /\ unlisted' = IF d \in unlisted THEN unlisted \ {d} ELSE unlisted \union {d}
  /\ touched' = touched \union {d}
  /\ edits' = edits + 1
  /\ UNCHANGED <<roots, disk, documents, request, phase, text, folders, walk, changes>>

Positions == UNION {UNION {{l} \X (1..Len(t[l].names)) : l \in 1..Len(t)} : t \in Texts}

Next ==
  \/ \E f \in File : \E p \in Positions : Rename(f, p)
  \/ \E f \in File : RefuseRename(f)
  \/ ReadAgain \/ ListFolder \/ Visit \/ WalkDone \/ Respond
  \/ \E f \in File : ChangeDocument(f) \/ ChangeFile(f)
  \/ \E d \in Folders : ChangeFolder(d)

Spec == Init /\ [][Next]_vars
------------------------------------------------------------------------------
(* Every variable has its type. *)
TypeOK ==
  /\ roots \in RootSets
  /\ disk \in [File -> Texts \union {None, Unreadable}] /\ unlisted \subseteq Folders
  /\ documents \in [File -> Texts \union {None}]
  /\ phase \in {"idle", "again", "walking", "local", "edits", "error", "refused"}
  /\ (request = None) <=> (phase = "idle")
  /\ text \in Texts \union {None}
  /\ folders \subseteq Folders /\ walk \subseteq DOMAIN Files
  /\ DOMAIN changes = File
  /\ touched \subseteq File \union Folders /\ edits \in 0..MaxEdits

(* A workspace rename replaces exactly the occurrences of the name in the  *)
(* files of the innermost root above the document, in the text the editor  *)
(* has if it has the file open, be it saved or not, and there is none of   *)
(* them it could not read, in no folder it could not list: it is whole or  *)
(* it is not returned.  What changed on disk meanwhile is left out.        *)
RenamesWorkspace ==
  phase = "edits" =>
    LET Above(r, f) == r \in roots /\ IsStrictPrefix(r, Path(f))
        Innermost(r) == /\ Above(r, request.file)
                        /\ \A q \in roots : Above(q, request.file) => Len(q) <= Len(r)
        InScope(f) == \/ \E r \in roots : Innermost(r) /\ disk[f] # None /\ Walked(r, f)
                      \/ ~(\E r \in roots : Above(r, request.file)) /\ f = request.file
        Shown(f) == IF documents[f] # None THEN documents[f] ELSE disk[f]
    IN /\ \A f \in File \ touched :
            IF InScope(f)
            THEN Shown(f) \in Texts /\ changes[f] = Occurrences(Shown(f), request.name)
            ELSE changes[f] = {}
       /\ \A d \in unlisted \ touched : \A r \in roots : Innermost(r) => ~Entered(r, d)

(* A rename fails as a whole, with no edit, and only when its document     *)
(* cannot be read, something changed on disk while it was computed, or the *)
(* root above the document, the innermost, has a file that is not open and *)
(* cannot be read, or a folder that cannot be listed, itself or below it.  *)
FailsWhole ==
  phase \in {"error", "refused"} =>
    /\ changes = NoChanges
    /\ \/ phase = "refused"
       \/ touched # {}
       \/ DocumentText(request.file) = None
       \/ \E r \in Containing(request.file) :
            /\ \A q \in Containing(request.file) : Len(q) <= Len(r)
            /\ \/ \E f \in File : Walked(r, f) /\ documents[f] = None /\ disk[f] = Unreadable
               \/ \E d \in unlisted : Entered(r, d)

(* docs/java-lsp-support-matrix.md:40, "local rename stays within the      *)
(* enclosing method instead of leaking into sibling methods": it replaces  *)
(* the occurrences in the method of the position, all of them and no more. *)
LocalRenameStaysInMethod ==
  phase = "local" =>
    LET t == text
        method == t[request.line].method
    IN /\ method # None
       /\ changes = [NoChanges EXCEPT ![request.file] =
                       {p \in Occurrences(t, request.name) : t[p[1]].method = method}]

(* The texts of which that is true: a line looks like a method if and only *)
(* if it is the first of one, in the body of the class, and the method's   *)
(* lines follow each other; its body is open after every brace in them, up *)
(* to one in the last line that closes it.                                 *)
BracesBefore(t, l, k) ==
  {p \in UNION {{i} \X DOMAIN t[i].braces : i \in 1..l} : p[1] < l \/ p[2] <= k}
Number(t, l, k, brace) == Cardinality({p \in BracesBefore(t, l, k) : t[p[1]].braces[p[2]] = brace})
Depth(t, l, k) == Number(t, l, k, LeftBrace) - Number(t, l, k, RightBrace)

FirstLine(t, l) == t[l].method # None /\ (l = 1 \/ t[l - 1].method # t[l].method)
LastLine(t, l) == t[l].method # None /\ (l = Len(t) \/ t[l + 1].method # t[l].method)

BodiesInPlace(t) ==
  /\ \A i, j \in DOMAIN t :
       t[i].method = t[j].method /\ t[i].method # None => \A l \in i..j : t[l].method = t[i].method
  /\ \A l \in DOMAIN t :
       /\ t[l].signature # None <=> FirstLine(t, l)
       /\ FirstLine(t, l) => Depth(t, l, 0) = 1
       /\ t[l].method # None /\ ~LastLine(t, l) => \A k \in DOMAIN t[l].braces : Depth(t, l, k) >= 2
       /\ LastLine(t, l) => \E k \in DOMAIN t[l].braces :
                              Depth(t, l, k) = 1 /\ \A j \in 1..(k - 1) : Depth(t, l, j) >= 2
==============================================================================
