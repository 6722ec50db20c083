------------------------------ MODULE LspServer ------------------------------
(***************************************************************************)
(* The message loop of internal/lsp/server.go with the client at the other *)
(* end of its two pipes.  Serve reads one message, runs its handler to the *)
(* end, writes the response if there is one, then writes the notifications *)
(* the handler queued, and only then reads again.  The client follows the  *)
(* protocol: it opens, changes and closes documents, asks about them, and  *)
(* renames files; it may send bytes that are no message, or hang up.       *)
(* The documents are .java files, which the analyzer has a parser for      *)
(* whatever language the client names, and a text stands for the           *)
(* diagnostics computed from it.                                           *)
(***************************************************************************)
EXTENDS Naturals, Sequences, FiniteSets, SequencesExt

CONSTANTS
  Uris,
  Texts,
  PanicTexts,    \* the texts on which the lexer's slice expression panics
  Batches,       \* the files arguments of didRenameFiles: sequences of [old, new]
  NoDoc,         \* no document, no diagnostics, nothing indexed
  MaxRequests,   \* bound: requests the client sends
  MaxEdits,      \* bound: notifications the client sends
  PipeSize       \* bound: messages a pipe holds

ASSUME LspServerAssumption ==
  /\ NoDoc \notin Texts
  /\ PanicTexts \subseteq Texts
  /\ \A b \in Batches :
       /\ b \in Seq([old : Uris, new : Uris])
       \* each file is moved once, and moving them one after the other is
       \* moving them at once
       /\ \A i, j \in 1..Len(b) : i < j => /\ b[i].old # b[j].old
                                          /\ b[i].new # b[j].old
                                          /\ b[i].new # b[j].new
  /\ {"disk", "error", "empty"} \intersect Texts = {}   \* results that are no open text
  /\ {MaxRequests, MaxEdits, PipeSize} \subseteq Nat

VARIABLES
  \* the server
  documents,      \* s.documents: uri |-> text, or NoDoc
  indexed,        \* uri |-> the text the analyzer last stored in the index
  reply,          \* the response being written: a sequence of at most one
  notifications,  \* s.notifications, and those drained but not yet written
  exiting,        \* shouldExit of the message at hand
  state,          \* "reading", "writing", or how Serve ended
  \* the pipes
  inbox, outbox,
  \* the client
  buffers,        \* uri |-> text of the open buffer, or NoDoc
  moved,          \* uris that a rename touched and no later open, change or close
  asked,          \* for each request sent: the text its uri then had
  edits,          \* notifications sent
  view,           \* uri |-> the diagnostics last received
  answers,        \* responses received
  \* auxiliary: nothing in the code keeps it
  unindexed       \* the uris whose last analysis failed

serverVars == <<documents, indexed, unindexed, reply, notifications, exiting, state>>
clientVars == <<buffers, moved, asked, edits, view, answers>>
vars == <<serverVars, inbox, outbox, clientVars>>

Running == state \in {"reading", "writing"}
Open(d) == d # NoDoc

Init ==
  /\ documents = [u \in Uris |-> NoDoc]
  /\ indexed = [u \in Uris |-> NoDoc] /\ unindexed = {}
  /\ reply = <<>> /\ notifications = <<>> /\ exiting = FALSE
  /\ state = "reading"
  /\ inbox = <<>> /\ outbox = <<>>
  /\ buffers = [u \in Uris |-> NoDoc]
  /\ moved = {}
  /\ asked = <<>> /\ edits = 0
  /\ view = [u \in Uris |-> NoDoc]
  /\ answers = <<>>
------------------------------------------------------------------------------
(* The client. *)

Send(m) == /\ Len(inbox) < PipeSize
           /\ inbox' = Append(inbox, m)
           /\ UNCHANGED <<serverVars, outbox, view, answers>>

Notify(m) == /\ edits < MaxEdits
             /\ edits' = edits + 1
             /\ Send(m)
             /\ UNCHANGED asked

ClientOpen(u, t) ==
  /\ ~Open(buffers[u])
  /\ buffers' = [buffers EXCEPT ![u] = t]
  /\ moved' = moved \ {u}
  /\ Notify([method |-> "didOpen", uri |-> u, text |-> t])

(* contentChanges may be empty, and its last element is the whole text. *)
ClientChange(u, changes) ==
  /\ Open(buffers[u])
  /\ buffers' = [buffers EXCEPT ![u] = IF changes = <<>> THEN @ ELSE Last(changes)]
  /\ moved' = IF changes = <<>> THEN moved ELSE moved \ {u}
  /\ Notify([method |-> "didChange", uri |-> u, changes |-> changes])

ClientClose(u) ==
  /\ Open(buffers[u])
  /\ buffers' = [buffers EXCEPT ![u] = NoDoc]
  /\ moved' = moved \ {u}
  /\ Notify([method |-> "didClose", uri |-> u])

(* To the client all files of a batch are renamed at once, and no file is  *)
(* renamed onto one that stays open.                                       *)
ClientRename(b) ==
  LET olds == {p.old : p \in ToSet(b)}
      news == {p.new : p \in ToSet(b)}
  IN /\ \A u \in news \ olds : ~Open(buffers[u])
     /\ buffers' = [u \in Uris |->
                     IF u \in news
                     THEN buffers[(CHOOSE p \in ToSet(b) : p.new = u).old]
                     ELSE IF u \in olds THEN NoDoc ELSE buffers[u]]
     /\ moved' = moved \union olds \union news
     /\ Notify([method |-> "didRenameFiles", files |-> b])

(* Hover, completion, navigation, references, rename, signatureHelp. *)
ClientAsk(u) ==
  /\ Len(asked) < MaxRequests
  /\ asked' = Append(asked, buffers[u])
  /\ Send([method |-> "request", id |-> Len(asked) + 1, uri |-> u])
  /\ UNCHANGED <<buffers, moved, edits>>

(* shutdown, or a method the server does not know. *)
ClientAskOther(method) ==
  /\ Len(asked) < MaxRequests
  /\ asked' = Append(asked, NoDoc)
  /\ Send([method |-> method, id |-> Len(asked) + 1])
  /\ UNCHANGED <<buffers, moved, edits>>

(* exit; a frame readMessage rejects; the end of the input. *)
ClientEnd(how) ==
  /\ buffers' = buffers /\ moved' = moved
  /\ Notify([method |-> how])

ClientReceive ==
  /\ outbox # <<>>
  /\ outbox' = Tail(outbox)
  /\ LET m == Head(outbox) IN
       IF m.kind = "response"
       THEN answers' = Append(answers, m) /\ UNCHANGED view
       ELSE view' = [view EXCEPT ![m.uri] = m.diagnostics] /\ UNCHANGED answers
  /\ UNCHANGED <<serverVars, inbox, buffers, moved, asked, edits>>

ClientSends ==
  \/ \E u \in Uris : \E t \in Texts :
       ClientOpen(u, t) \/ ClientChange(u, <<t>>)
  \/ \E u \in Uris : \E c \in {<<>>} \union {<<t, v>> : t, v \in Texts} : ClientChange(u, c)
  \/ \E u \in Uris : ClientClose(u) \/ ClientAsk(u)
  \/ \E b \in Batches : ClientRename(b)
  \/ \E method \in {"shutdown", "unknown"} : ClientAskOther(method)
  \/ \E how \in {"exit", "garbage", "eof"} : ClientEnd(how)
------------------------------------------------------------------------------
(* The server. *)

(* The message at the head of the pipe is read, and its handler runs. *)
Reads(method) ==
  /\ state = "reading"
  /\ inbox # <<>>
  /\ Head(inbox).method = method
  /\ inbox' = Tail(inbox)
  /\ UNCHANGED <<outbox, clientVars>>

Publishes(u, t) == notifications' = Append(notifications, [kind |-> "diagnostics", uri |-> u, diagnostics |-> t])

(* engine.Analyze stores the text in the index, or fails: no parser, or    *)
(* store.Write.  The server logs the error and goes on.                    *)
Analyzes(u, text) ==
  \/ indexed' = [indexed EXCEPT ![u] = text] /\ unindexed' = unindexed \ {u}
  \/ indexed' = indexed /\ unindexed' = unindexed \union {u}

(* Some text on disk may make the lexer panic, which ends the process.     *)
DiskMayPanic == PanicTexts # {}

(* Mutant of AnalyzesAndPublishes: an analysis that failed publishes       *)
(* nothing.                                                                *)
AnalyzesOrReturns(u, text) ==
  /\ documents' = [documents EXCEPT ![u] = text]
  /\ Analyzes(u, text)
  /\ state' = "writing"
  /\ IF u \in unindexed' THEN UNCHANGED notifications ELSE Publishes(u, text)
  /\ UNCHANGED <<reply, exiting>>

(* publishDiagnostics follows whether the analysis failed or not.  A panic *)
(* of the lexer ends the process: on the text itself, before anything is   *)
(* stored, or on a file of the workspace, which publishDiagnostics parses  *)
(* one and all to find the types that the text names.                      *)
AnalyzesAndPublishes(u, text) ==
  /\ documents' = [documents EXCEPT ![u] = text]
  /\ \/ /\ text \in PanicTexts /\ state' = "crashed"
        /\ UNCHANGED <<indexed, unindexed, notifications>>
     \/ /\ text \notin PanicTexts /\ Analyzes(u, text)
        /\ \/ state' = "writing" /\ Publishes(u, text)
           \/ DiskMayPanic /\ state' = "crashed" /\ UNCHANGED notifications
  /\ UNCHANGED <<reply, exiting>>

HandleDidOpen ==
  /\ Reads("didOpen")
  /\ AnalyzesAndPublishes(Head(inbox).uri, Head(inbox).text)

(* Mutant of HandleDidChange: the first of the changes is taken. *)
HandleDidChangeFirst ==
  /\ Reads("didChange")
  /\ LET m == Head(inbox) IN
       IF m.changes = <<>>
       THEN state' = "writing" /\ UNCHANGED <<documents, indexed, unindexed, reply, notifications, exiting>>
       ELSE AnalyzesAndPublishes(m.uri, Head(m.changes))

(* A document that is not open gets an entry. *)
HandleDidChange ==
  /\ Reads("didChange")
  /\ LET m == Head(inbox) IN
       IF m.changes = <<>>
       THEN state' = "writing" /\ UNCHANGED <<documents, indexed, unindexed, reply, notifications, exiting>>
       ELSE AnalyzesAndPublishes(m.uri, Last(m.changes))

HandleDidClose ==
  /\ Reads("didClose")
  /\ documents' = [documents EXCEPT ![Head(inbox).uri] = NoDoc]
  /\ Publishes(Head(inbox).uri, NoDoc)
  /\ state' = "writing"
  /\ UNCHANGED <<indexed, unindexed, reply, exiting>>

(* Mutant of Move: what was moved is not analyzed. *)
MoveOnly(s, p, failing) ==
  IF Open(s.documents[p.old])
  THEN [s EXCEPT !.documents = [[@ EXCEPT ![p.old] = NoDoc] EXCEPT ![p.new] = s.documents[p.old]]]
  ELSE s

(* One pair of didRenameFiles: a document that is open moves to the new    *)
(* uri and is analyzed there, which may fail.                              *)
Move(s, p, failing) ==
  IF Open(s.documents[p.old])
  THEN [documents |-> [[s.documents EXCEPT ![p.old] = NoDoc] EXCEPT ![p.new] = s.documents[p.old]],
        indexed   |-> IF p.new \in failing THEN s.indexed
                      ELSE [s.indexed EXCEPT ![p.new] = s.documents[p.old]],
        unindexed |-> IF p.new \in failing THEN s.unindexed \union {p.new}
                      ELSE s.unindexed \ {p.new}]
  ELSE s

(* The pairs are applied in the order given. *)
MoveAll(s, pairs, failing) ==
  LET after[k \in 0..Len(pairs)] ==
        IF k = 0 THEN s ELSE Move(after[k - 1], pairs[k], failing)
  IN after[Len(pairs)]

(* No diagnostics are published. *)
HandleDidRenameFiles ==
  /\ Reads("didRenameFiles")
  /\ \E failing \in SUBSET {p.new : p \in ToSet(Head(inbox).files)} :
       LET after == MoveAll([documents |-> documents, indexed |-> indexed, unindexed |-> unindexed],
                            Head(inbox).files, failing)
       IN /\ documents' = after.documents
          /\ indexed' = after.indexed /\ unindexed' = after.unindexed
  /\ state' = "writing"
  /\ UNCHANGED <<reply, notifications, exiting>>

Responds(id, result) ==
  /\ reply' = <<[kind |-> "response", id |-> id, result |-> result]>>
  /\ state' = "writing"
  /\ UNCHANGED <<documents, indexed, unindexed, notifications, exiting>>

(* Mutant of HandleRequest: the file is read though the document is open. *)
HandleRequestFromDisk ==
  /\ Reads("request")
  /\ \E r \in {"disk", "error"} : Responds(Head(inbox).id, r)

(* documentText: the open document, else the file on disk if it is there.  *)
(* A handler that returns returns one response.                            *)
HandleRequest ==
  /\ Reads("request")
  /\ LET m == Head(inbox) IN
       IF Open(documents[m.uri])
       THEN Responds(m.id, documents[m.uri])
       ELSE \E r \in {"disk", "error"} : Responds(m.id, r)

(* Navigation and completion parse every file of the workspace, open or    *)
(* not, and some files of the libraries.                                   *)
DiskTextPanics ==
  /\ Reads("request")
  /\ DiskMayPanic
  /\ state' = "crashed"
  /\ UNCHANGED <<documents, indexed, unindexed, reply, notifications, exiting>>

(* Mutants of HandleOther: no response to an unknown method; none to       *)
(* shutdown.                                                               *)
IgnoreUnknown ==
  \/ Reads("shutdown") /\ Responds(Head(inbox).id, "empty")
  \/ /\ Reads("unknown") /\ state' = "writing"
     /\ UNCHANGED <<documents, indexed, unindexed, reply, notifications, exiting>>

IgnoreShutdown ==
  \/ /\ Reads("shutdown") /\ state' = "writing"
     /\ UNCHANGED <<documents, indexed, unindexed, reply, notifications, exiting>>
  \/ Reads("unknown") /\ Responds(Head(inbox).id, "error")

(* The flag `shutdown` is set and nothing reads it. *)
HandleOther ==
  \/ Reads("shutdown") /\ Responds(Head(inbox).id, "empty")
  \/ Reads("unknown") /\ Responds(Head(inbox).id, "error")

HandleExit ==
  /\ Reads("exit")
  /\ exiting' = TRUE
  /\ state' = "writing"
  /\ UNCHANGED <<documents, indexed, unindexed, reply, notifications>>

(* readMessage fails: Serve returns, with nil at the end of the input. *)
ReadFails ==
  /\ Reads("garbage") \/ Reads("eof")
  /\ state' = IF Head(inbox).method = "eof" THEN "ended" ELSE "failed"
  /\ UNCHANGED <<documents, indexed, unindexed, reply, notifications, exiting>>

(* Mutant of Writes: a write does not wait. *)
WritesAtOnce(m) == state = "writing" /\ outbox' = Append(outbox, m)

(* A write waits while the pipe is full. *)
Writes(m) == /\ state = "writing"
             /\ Len(outbox) < PipeSize
             /\ outbox' = Append(outbox, m)

WriteResponse ==
  /\ reply # <<>>
  /\ Writes(Head(reply))
  /\ reply' = <<>>
  /\ UNCHANGED <<documents, indexed, unindexed, notifications, exiting, state, inbox, clientVars>>

WriteNotification ==
  /\ reply = <<>> /\ notifications # <<>>
  /\ Writes(Head(notifications))
  /\ notifications' = Tail(notifications)
  /\ UNCHANGED <<documents, indexed, unindexed, reply, exiting, state, inbox, clientVars>>

MessageDone ==
  /\ state = "writing" /\ reply = <<>> /\ notifications = <<>>
  /\ state' = IF exiting THEN "exited" ELSE "reading"
  /\ UNCHANGED <<documents, indexed, unindexed, reply, notifications, exiting, inbox, outbox, clientVars>>

(* The goroutine that handleInitialize starts collects the imports of the  *)
(* workspace, whose files it parses too.  It has no turn in Serve.         *)
PrewarmPanics ==
  /\ Running /\ DiskMayPanic
  /\ state' = "crashed"
  /\ UNCHANGED <<documents, indexed, unindexed, reply, notifications, exiting, inbox, outbox, clientVars>>

Serve ==
  \/ HandleDidOpen \/ HandleDidChange \/ HandleDidClose \/ HandleDidRenameFiles
  \/ HandleRequest \/ DiskTextPanics \/ HandleOther \/ HandleExit \/ ReadFails
  \/ WriteResponse \/ WriteNotification \/ MessageDone

Next == Serve \/ PrewarmPanics \/ ClientReceive \/ ClientSends

(* The process runs, and the client reads what it is sent; nothing makes   *)
(* the client send, and nothing makes the prewarming panic.                *)
Fairness == WF_vars(Serve) /\ WF_vars(ClientReceive)

Spec == Init /\ [][Next]_vars /\ Fairness
------------------------------------------------------------------------------
(* Every variable has its type. *)
TypeOK ==
  /\ documents \in [Uris -> Texts \union {NoDoc}]
  /\ indexed \in [Uris -> Texts \union {NoDoc}] /\ unindexed \subseteq Uris
  /\ Len(reply) <= 1
  /\ exiting \in BOOLEAN
  /\ state \in {"reading", "writing", "exited", "failed", "ended", "crashed"}
  /\ Len(inbox) <= PipeSize /\ Len(outbox) <= PipeSize
  /\ buffers \in [Uris -> Texts \union {NoDoc}]
  /\ moved \subseteq Uris
  /\ Len(asked) <= MaxRequests /\ edits \in 0..MaxEdits
  /\ view \in [Uris -> Texts \union {NoDoc}]

(* The server has handled all it was sent and the client read all of it. *)
Quiet == state = "reading" /\ inbox = <<>> /\ outbox = <<>>

(* Once the pipes are drained the server tracks exactly the documents the  *)
(* client has open, with the client's text, whatever opens, changes,       *)
(* closes and renames were sent.                                           *)
BuffersMirrored == Quiet => documents = buffers

(* The diagnostics the client shows for a document are those of the text   *)
(* in its buffer, and a closed document shows none: no notification is     *)
(* lost or overtaken.  A renamed document is left out until it is next     *)
(* opened, changed or closed, since handleDidRenameFiles publishes nothing.*)
DiagnosticsMirrored == Quiet => \A u \in Uris \ moved : view[u] = buffers[u]

(* The index has the text of an open document, at the uri it was renamed   *)
(* to, unless the last analysis of that uri failed, whose error is logged  *)
(* and forgotten.  So the index lags behind by failures only, never by a   *)
(* lost, overtaken or misplaced change, and the next analysis that         *)
(* succeeds brings it up to date again.                                    *)
IndexMirrored ==
  Quiet => \A u \in Uris : Open(buffers[u]) /\ u \notin unindexed => indexed[u] = buffers[u]

(* Responses arrive one for each request, in the order of the requests. *)
AnsweredInOrder == \A i \in 1..Len(answers) : answers[i].id = i

(* A request about an open document is answered from the text the client   *)
(* had when it sent it, and one about a document that is not open is never *)
(* answered from a text that was closed or renamed away.                   *)
AnsweredFromBuffer ==
  \A i \in 1..Len(answers) :
    IF Open(asked[i]) THEN answers[i].result = asked[i] ELSE answers[i].result \notin Texts

(* While a request waits, a time comes when none does, or the server has ended. *)
EveryRequestAnswered ==
  Len(answers) < Len(asked) ~> (Len(answers) = Len(asked) \/ ~Running)
==============================================================================
