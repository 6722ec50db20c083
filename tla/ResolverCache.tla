---------------------------- MODULE ResolverCache ----------------------------
(***************************************************************************)
(* The caches of internal/lsp's navigationResolver: parsed library types,  *)
(* workspace import maps, Maven module classpaths and the JDK source       *)
(* index.  All four use one protocol: under r.mu a caller looks at the     *)
(* state of its key; a settled state is returned, a "processing" state is  *)
(* waited for on its channel and looked at again, and a missing (or, for   *)
(* the JDK index, idle) state is replaced by a "processing" marker, after  *)
(* which the caller does the work outside the lock, stores the outcome,    *)
(* closes the channel and returns.  Callers are the Serve loop, which      *)
(* handles one message at a time, and one prewarm goroutine for every      *)
(* `initialize` it handled.                                                *)
(***************************************************************************)
EXTENDS Naturals, Sequences

CONSTANTS
  ImportCells,   \* workspace roots, keys of r.workspaceImport
  ModuleCells,   \* Maven module roots, keys of r.moduleStates
  TypeCells,     \* source paths, keys of r.parsedTypes
  JdkCell,       \* r.jdkIndex
  RootLists,     \* the values setWorkspaceRoots may store
  Prewarms,      \* goroutines, one per `initialize`: their number bounds it
  Serve,         \* the Serve loop
  Values,        \* what work that succeeds may produce
  Failure,       \* the error of work that fails
  Unsettled      \* no outcome yet

Keys == ImportCells \union ModuleCells \union TypeCells \union {JdkCell}
Threads == Prewarms \union {Serve}
Results == Values \union {Failure}

ASSUME RootListsAssumption == RootLists \subseteq Seq(ImportCells)
ASSUME ServeAssumption == Serve \notin Prewarms
ASSUME OutcomeAssumption == Unsettled \notin Results
ASSUME CellsAssumption == /\ JdkCell \notin ImportCells \union ModuleCells \union TypeCells
                          /\ ImportCells \intersect (ModuleCells \union TypeCells) = {}
                          /\ ModuleCells \intersect TypeCells = {}

VARIABLES
  status,          \* key |-> idle, processing, done or failed
  outcome,         \* key |-> the state's value or err
  channel,         \* key |-> number of the channel in state.wait
  closed,          \* the <<key, number>> channels that were closed
  pc,              \* thread |-> where it is
  todo,            \* thread |-> the keys its current work still consults
  waitsOn,         \* thread |-> number of the channel it read from state.wait
  workspaceRoots,  \* s.workspaceRoots
  delivered        \* history: key |-> outcomes returned to callers

cellVars == <<status, outcome, channel, closed>>
vars == <<status, outcome, channel, closed, pc, todo, waitsOn, workspaceRoots, delivered>>

Statuses == {"idle", "processing", "done", "failed"}
Places == {"unborn", "spawned", "idle", "consult", "waiting", "working"}

(* The key a busy thread is at. *)
At(t) == Head(todo[t])
Busy(t) == pc[t] \in {"consult", "waiting", "working"}
Working(t, k) == pc[t] = "working" /\ At(t) = k

(* parseTypeInfoFromSource has no failing path: a file it cannot read is   *)
(* an empty source.                                                        *)
ResultsOf(k) == IF k \in TypeCells THEN Values ELSE Results

(***************************************************************************)
(* The keys one lookup of a handler consults, in order: the import map of  *)
(* the file's root (hover, completion, typeDefinition; none for root ""),  *)
(* then the JDK index and the module classpath (neither for a type of the  *)
(* workspace, only the first for a JDK type), then the parsed type.        *)
(***************************************************************************)
Optional(S) == {<<>>} \union {<<k>> : k \in S}
Then(A, B) == UNION {{a \o b : b \in B} : a \in A}
Lookups ==
  Then(Then(Optional(ImportCells), Optional({JdkCell})),
       Then(Optional(ModuleCells), Optional(TypeCells))) \ {<<>>}

Init ==
  /\ status = [k \in Keys |-> "idle"]
  /\ outcome = [k \in Keys |-> Unsettled]
  /\ channel = [k \in Keys |-> 0]
  /\ closed = {}
  /\ pc = [t \in Threads |-> IF t = Serve THEN "idle" ELSE "unborn"]
  /\ todo = [t \in Threads |-> <<>>]
  /\ waitsOn = [t \in Threads |-> 0]
  /\ workspaceRoots = <<>>
  /\ delivered = [k \in Keys |-> {}]

(* handleInitialize: the roots are stored, and a goroutine is started. *)
Initialize(g) ==
  /\ pc[Serve] = "idle"
  /\ pc[g] = "unborn"
  /\ workspaceRoots' \in RootLists
  /\ pc' = [pc EXCEPT ![g] = "spawned"]
  /\ UNCHANGED <<cellVars, todo, waitsOn, delivered>>

(* The goroutine reads s.workspaceRoots when it is scheduled, not when it  *)
(* was started: a later `initialize` may have replaced it.                 *)
StartPrewarm(g) ==
  /\ pc[g] = "spawned"
  /\ pc' = [pc EXCEPT ![g] = "consult"]
  /\ todo' = [todo EXCEPT ![g] = workspaceRoots \o <<JdkCell>>]
  /\ UNCHANGED <<cellVars, waitsOn, workspaceRoots, delivered>>

Request ==
  /\ pc[Serve] = "idle"
  /\ \E l \in Lookups : todo' = [todo EXCEPT ![Serve] = l]
  /\ pc' = [pc EXCEPT ![Serve] = "consult"]
  /\ UNCHANGED <<cellVars, waitsOn, workspaceRoots, delivered>>

(* A failed classpath is an error to the handler, which gives the lookup   *)
(* up; a failed import map or JDK index is ignored by every caller.        *)
Remaining(t, o) ==
  IF At(t) \in ModuleCells /\ o = Failure THEN <<>> ELSE Tail(todo[t])

(* The call for At(t) returns o. *)
Return(t, o) ==
  /\ delivered' = [delivered EXCEPT ![At(t)] = @ \union {o}]
  /\ todo' = [todo EXCEPT ![t] = Remaining(t, o)]
  /\ pc' = [pc EXCEPT ![t] = IF Remaining(t, o) = <<>> THEN "idle" ELSE "consult"]

(* Mutant of Hit: the state is returned whether settled or not. *)
HitUnsettled(t) ==
  /\ pc[t] = "consult"
  /\ Return(t, outcome[At(t)])
  /\ UNCHANGED <<cellVars, waitsOn, workspaceRoots>>

Hit(t) ==
  /\ pc[t] = "consult"
  /\ status[At(t)] \in {"done", "failed"}
  /\ Return(t, outcome[At(t)])
  /\ UNCHANGED <<cellVars, waitsOn, workspaceRoots>>

(* The channel is read under the lock; the wait is outside it. *)
Await(t) ==
  /\ pc[t] = "consult"
  /\ status[At(t)] = "processing"
  /\ waitsOn' = [waitsOn EXCEPT ![t] = channel[At(t)]]
  /\ pc' = [pc EXCEPT ![t] = "waiting"]
  /\ UNCHANGED <<cellVars, todo, workspaceRoots, delivered>>

Wake(t) ==
  /\ pc[t] = "waiting"
  /\ <<At(t), waitsOn[t]>> \in closed
  /\ pc' = [pc EXCEPT ![t] = "consult"]
  /\ waitsOn' = [waitsOn EXCEPT ![t] = 0]
  /\ UNCHANGED <<cellVars, todo, workspaceRoots, delivered>>

(* Mutants of Install: the marker is forgotten; a failure is tried again. *)
InstallWithoutMarker(t) ==
  /\ pc[t] = "consult"
  /\ status[At(t)] = "idle"
  /\ channel' = [channel EXCEPT ![At(t)] = @ + 1]
  /\ pc' = [pc EXCEPT ![t] = "working"]
  /\ UNCHANGED <<status, outcome, closed, todo, waitsOn, workspaceRoots, delivered>>

InstallAgain(t) ==
  /\ pc[t] = "consult"
  /\ status[At(t)] \in {"idle", "failed"}
  /\ status' = [status EXCEPT ![At(t)] = "processing"]
  /\ channel' = [channel EXCEPT ![At(t)] = @ + 1]
  /\ pc' = [pc EXCEPT ![t] = "working"]
  /\ UNCHANGED <<outcome, closed, todo, waitsOn, workspaceRoots, delivered>>

(* The marker and a new channel go in under the lock, before the work. *)
Install(t) ==
  /\ pc[t] = "consult"
  /\ status[At(t)] = "idle"
  /\ status' = [status EXCEPT ![At(t)] = "processing"]
  /\ channel' = [channel EXCEPT ![At(t)] = @ + 1]
  /\ pc' = [pc EXCEPT ![t] = "working"]
  /\ UNCHANGED <<outcome, closed, todo, waitsOn, workspaceRoots, delivered>>

(* Mutants of Publish: a failure is not kept; the channel stays open, for  *)
(* good or when the work failed.                                           *)
PublishForgetsFailure(t) ==
  /\ pc[t] = "working"
  /\ \E o \in ResultsOf(At(t)) :
       /\ status' = [status EXCEPT ![At(t)] = IF o = Failure THEN "idle" ELSE "done"]
       /\ outcome' = [outcome EXCEPT ![At(t)] = IF o = Failure THEN @ ELSE o]
       /\ Return(t, o)
  /\ closed' = closed \union {<<At(t), channel[At(t)]>>}
  /\ UNCHANGED <<channel, waitsOn, workspaceRoots>>

PublishWithoutClose(t) ==
  /\ pc[t] = "working"
  /\ \E o \in ResultsOf(At(t)) :
       /\ status' = [status EXCEPT ![At(t)] = IF o = Failure THEN "failed" ELSE "done"]
       /\ outcome' = [outcome EXCEPT ![At(t)] = o]
       /\ Return(t, o)
  /\ UNCHANGED <<closed, channel, waitsOn, workspaceRoots>>

PublishClosesOnSuccess(t) ==
  /\ pc[t] = "working"
  /\ \E o \in ResultsOf(At(t)) :
       /\ status' = [status EXCEPT ![At(t)] = IF o = Failure THEN "failed" ELSE "done"]
       /\ outcome' = [outcome EXCEPT ![At(t)] = o]
       /\ closed' = IF o = Failure THEN closed ELSE closed \union {<<At(t), channel[At(t)]>>}
       /\ Return(t, o)
  /\ UNCHANGED <<channel, waitsOn, workspaceRoots>>

(* The work is over: its outcome is stored and the channel closed under    *)
(* the lock, and the worker returns what it computed.                      *)
Publish(t) ==
  /\ pc[t] = "working"
  /\ \E o \in ResultsOf(At(t)) :
       /\ status' = [status EXCEPT ![At(t)] = IF o = Failure THEN "failed" ELSE "done"]
       /\ outcome' = [outcome EXCEPT ![At(t)] = o]
       /\ Return(t, o)
  /\ closed' = closed \union {<<At(t), channel[At(t)]>>}
  /\ UNCHANGED <<channel, waitsOn, workspaceRoots>>

Step(t) == Hit(t) \/ Await(t) \/ Wake(t) \/ Install(t) \/ Publish(t)

Next == \/ Request
        \/ \E g \in Prewarms : Initialize(g) \/ StartPrewarm(g)
        \/ \E t \in Threads : Step(t)

(* Goroutines are scheduled fairly, the mutex is starvation-free, and the  *)
(* work of a builder (a file walk, mvn, a zip) ends.                       *)
Fairness == /\ \A t \in Threads : WF_vars(Step(t))
            /\ \A g \in Prewarms : WF_vars(StartPrewarm(g))

Spec == Init /\ [][Next]_vars /\ Fairness
------------------------------------------------------------------------------
(* Every variable has its type. *)
TypeOK ==
  /\ status \in [Keys -> Statuses]
  /\ outcome \in [Keys -> Results \union {Unsettled}]
  /\ channel \in [Keys -> Nat]
  /\ closed \subseteq Keys \X Nat
  /\ pc \in [Threads -> Places]
  /\ todo \in [Threads -> Seq(Keys)]
  /\ waitsOn \in [Threads -> Nat]
  /\ workspaceRoots \in Seq(ImportCells)
  /\ delivered \in [Keys -> SUBSET Results]

(* The support matrix's promise of "processing-state markers to avoid      *)
(* duplicate concurrent work": two threads are never working on one key.   *)
SingleFlight ==
  \A k \in Keys : \A t, u \in Threads : Working(t, k) /\ Working(u, k) => t = u

(* All callers of a key are handed one outcome, the one that is cached,    *)
(* whoever of them did the work and whoever waited for it.                 *)
Agreement ==
  \A k \in Keys : \A o \in delivered[k] :
    status[k] \in {"done", "failed"} /\ outcome[k] = o

(* A thread waits only on a channel that is closed already or that a       *)
(* thread at work on the same key is going to close.                       *)
NoOrphanWait ==
  \A t \in Threads : pc[t] = "waiting" =>
    \/ <<At(t), waitsOn[t]>> \in closed
    \/ /\ waitsOn[t] = channel[At(t)]
       /\ \E u \in Threads : Working(u, At(t))

(* Parsed types, imports, classpaths and the index are never dropped,      *)
(* replaced or retried: a settled state, an error included, is final.      *)
SettledIsFinal ==
  [][\A k \in Keys : status[k] \in {"done", "failed"} =>
       status'[k] = status[k] /\ outcome'[k] = outcome[k]]_vars

(* No call blocks for ever, on a failed build either, and the Serve loop   *)
(* returns to its next message.                                            *)
CallsReturn == \A t \in Threads : Busy(t) ~> ~Busy(t)

(* The protocol hands out each key's work at most once. *)
Once == INSTANCE OnceCells WITH
          Outcomes <- Results,
          begun <- {k \in Keys : status[k] # "idle"}

ImplementsOnceCells == Once!Spec
==============================================================================
