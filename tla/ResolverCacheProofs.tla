------------------------- MODULE ResolverCacheProofs -------------------------
(***************************************************************************)
(* Proofs about ResolverCache, for any number of keys, prewarm goroutines  *)
(* and outcomes.                                                           *)
(***************************************************************************)
EXTENDS ResolverCache, TLAPS

(* A thread in the middle of a call has a key it is at. *)
BusyHasKey == \A t \in Threads : Busy(t) => todo[t] # <<>>

(* The marker of a key stands exactly while some thread works on it. *)
WorkerMarked ==
  \A t \in Threads : pc[t] = "working" => status[At(t)] = "processing"
MarkerHasWorker ==
  \A k \in Keys : status[k] = "processing" => \E t \in Threads : Working(t, k)

(* Nothing is handed out before the state settled, and a settled state     *)
(* holds a result and has its channel closed.                              *)
OpenIsEmpty ==
  \A k \in Keys : status[k] \in {"idle", "processing"} =>
    outcome[k] = Unsettled /\ delivered[k] = {}
SettledIsClosed ==
  \A k \in Keys : status[k] \in {"done", "failed"} =>
    outcome[k] \in Results /\ <<k, channel[k]>> \in closed

(* A waiter holds the newest channel of its key. *)
WaiterHasChannel ==
  \A t \in Threads : pc[t] = "waiting" =>
    waitsOn[t] = channel[At(t)] /\ status[At(t)] # "idle"

(* The inductive invariant. *)
IInv == /\ TypeOK
        /\ BusyHasKey
        /\ WorkerMarked
        /\ MarkerHasWorker
        /\ SingleFlight
        /\ OpenIsEmpty
        /\ SettledIsClosed
        /\ WaiterHasChannel
        /\ Agreement
------------------------------------------------------------------------------
(* Every lookup a handler makes is a nonempty sequence of keys. *)
LEMMA OptionalType ==
  ASSUME NEW S, S \subseteq Keys
  PROVE  Optional(S) \subseteq Seq(Keys)
<1> SUFFICES ASSUME NEW q \in Optional(S) PROVE q \in Seq(Keys)
  OBVIOUS
<1>1. CASE q = <<>>
  BY <1>1
<1>2. ASSUME NEW k \in S, q = <<k>> PROVE q \in Seq(Keys)
  <2>1. k \in Keys
    OBVIOUS
  <2> QED BY <1>2, <2>1
<1> QED BY <1>1, <1>2 DEF Optional

LEMMA ThenType ==
  ASSUME NEW A, NEW B, A \subseteq Seq(Keys), B \subseteq Seq(Keys)
  PROVE  Then(A, B) \subseteq Seq(Keys)
<1>1. SUFFICES ASSUME NEW l \in Then(A, B) PROVE l \in Seq(Keys)
  OBVIOUS
<1>2. PICK a \in A : l \in {a \o b : b \in B}
  BY <1>1, Zenon DEF Then
<1>3. PICK b \in B : l = a \o b
  BY <1>2, Zenon
<1>4. a \in Seq(Keys) /\ b \in Seq(Keys)
  OBVIOUS
<1> QED BY <1>3, <1>4

LEMMA LookupsType == Lookups \subseteq Seq(Keys) \ {<<>>}
<1>1. /\ ImportCells \subseteq Keys /\ {JdkCell} \subseteq Keys
      /\ ModuleCells \subseteq Keys /\ TypeCells \subseteq Keys
  BY DEF Keys
<1>2. /\ Optional(ImportCells) \subseteq Seq(Keys) /\ Optional({JdkCell}) \subseteq Seq(Keys)
      /\ Optional(ModuleCells) \subseteq Seq(Keys) /\ Optional(TypeCells) \subseteq Seq(Keys)
  BY <1>1, OptionalType
<1>3. /\ Then(Optional(ImportCells), Optional({JdkCell})) \subseteq Seq(Keys)
      /\ Then(Optional(ModuleCells), Optional(TypeCells)) \subseteq Seq(Keys)
  BY <1>2, ThenType
<1> QED BY <1>3, ThenType DEF Lookups

(* A busy thread is at a key, and what remains is a sequence of keys. *)
LEMMA BusyType ==
  ASSUME TypeOK, BusyHasKey, NEW t \in Threads, Busy(t)
  PROVE  /\ At(t) \in Keys
         /\ \A o : Remaining(t, o) \in Seq(Keys)
<1>1. todo[t] \in Seq(Keys) /\ todo[t] # <<>>
  BY DEF TypeOK, BusyHasKey
<1> QED BY <1>1 DEF At, Remaining

(* The initial state satisfies the invariant. *)
LEMMA InitIInv == Init => IInv
<1> SUFFICES ASSUME Init PROVE IInv
  OBVIOUS
<1> USE DEF Init
<1>1. TypeOK
  BY ServeAssumption DEF TypeOK, Statuses, Places, Threads, Keys, Results
<1>2. BusyHasKey /\ WorkerMarked /\ WaiterHasChannel /\ SingleFlight
  BY DEF BusyHasKey, WorkerMarked, WaiterHasChannel, SingleFlight, Busy, Working
<1>3. MarkerHasWorker /\ OpenIsEmpty /\ SettledIsClosed /\ Agreement
  BY DEF MarkerHasWorker, OpenIsEmpty, SettledIsClosed, Agreement
<1> QED BY <1>1, <1>2, <1>3 DEF IInv

(* Storing the roots and starting a goroutine disturbs no call. *)
LEMMA InitializeIInv ==
  ASSUME IInv, NEW g \in Prewarms, Initialize(g)
  PROVE  IInv'
<1> USE DEF IInv, Initialize, cellVars
<1> g \in Threads /\ Serve \in Threads
  BY DEF Threads
<1>0. pc \in [Threads -> Places] /\ pc[g] = "unborn" /\ pc' = [pc EXCEPT ![g] = "spawned"]
  BY DEF TypeOK
<1>1. TypeOK'
  BY <1>0, RootListsAssumption DEF TypeOK, Places
<1>2. \A t \in Threads : /\ Busy(t)' <=> Busy(t)
                         /\ pc'[t] = "working" <=> pc[t] = "working"
                         /\ pc'[t] = "waiting" <=> pc[t] = "waiting"
                         /\ At(t)' = At(t)
  BY <1>0 DEF Busy, At
<1>3. BusyHasKey' /\ WorkerMarked' /\ WaiterHasChannel'
  BY <1>2 DEF BusyHasKey, WorkerMarked, WaiterHasChannel
<1>4. SingleFlight' /\ MarkerHasWorker'
  BY <1>2 DEF SingleFlight, MarkerHasWorker, Working
<1>5. OpenIsEmpty' /\ SettledIsClosed' /\ Agreement'
  BY DEF OpenIsEmpty, SettledIsClosed, Agreement
<1> QED BY <1>1, <1>3, <1>4, <1>5

(* A thread that is in no call may be given keys to consult. *)
LEMMA NewWorkIInv ==
  ASSUME IInv, NEW t \in Threads, ~Busy(t), NEW l \in Seq(Keys) \ {<<>>},
         pc' = [pc EXCEPT ![t] = "consult"],
         todo' = [todo EXCEPT ![t] = l],
         UNCHANGED <<cellVars, waitsOn, workspaceRoots, delivered>>
  PROVE  IInv'
<1> USE DEF IInv, cellVars
<1>1. TypeOK'
  BY DEF TypeOK, Places
<1>2. \A u \in Threads : /\ pc'[u] = "working" <=> pc[u] = "working"
                         /\ pc'[u] = "waiting" <=> pc[u] = "waiting"
                         /\ Busy(u) => At(u)' = At(u)
  BY DEF TypeOK, Busy, At
<1>3. BusyHasKey'
  BY DEF BusyHasKey, Busy, TypeOK
<1>4. WorkerMarked' /\ WaiterHasChannel'
  BY <1>2 DEF WorkerMarked, WaiterHasChannel, Busy
<1>5. SingleFlight' /\ MarkerHasWorker'
  BY <1>2 DEF SingleFlight, MarkerHasWorker, Working, Busy
<1>6. OpenIsEmpty' /\ SettledIsClosed' /\ Agreement'
  BY DEF OpenIsEmpty, SettledIsClosed, Agreement
<1> QED BY <1>1, <1>3, <1>4, <1>5, <1>6

LEMMA StartPrewarmIInv ==
  ASSUME IInv, NEW g \in Prewarms, StartPrewarm(g)
  PROVE  IInv'
<1> DEFINE l == workspaceRoots \o <<JdkCell>>
<1>1. workspaceRoots \in Seq(Keys) /\ JdkCell \in Keys
  BY DEF IInv, TypeOK, Keys
<1>2. l \in Seq(Keys) \ {<<>>}
  BY <1>1
<1>3. g \in Threads /\ ~Busy(g)
  BY DEF StartPrewarm, Busy, Threads
<1> QED BY <1>2, <1>3, NewWorkIInv DEF StartPrewarm

LEMMA RequestIInv ==
  ASSUME IInv, Request
  PROVE  IInv'
<1>1. PICK l \in Lookups : todo' = [todo EXCEPT ![Serve] = l]
  BY DEF Request
<1>2. l \in Seq(Keys) \ {<<>>}
  BY LookupsType
<1>3. Serve \in Threads /\ ~Busy(Serve)
  BY DEF Request, Busy, Threads
<1> QED BY <1>1, <1>2, <1>3, NewWorkIInv DEF Request

(* Going to wait, and waking, move one thread and touch no state. *)
LEMMA AwaitIInv ==
  ASSUME IInv, NEW t \in Threads, Await(t)
  PROVE  IInv'
<1> USE DEF IInv, Await, cellVars
<1>0. At(t) \in Keys
  BY BusyType DEF Busy
<1>1. TypeOK'
  BY <1>0 DEF TypeOK, Places
<1>2. \A u \in Threads : /\ Busy(u)' <=> Busy(u)
                         /\ pc'[u] = "working" <=> pc[u] = "working"
                         /\ At(u)' = At(u)
  BY DEF TypeOK, Busy, At
<1>3. BusyHasKey' /\ WorkerMarked'
  BY <1>2 DEF BusyHasKey, WorkerMarked
<1>4. WaiterHasChannel'
  BY <1>0, <1>2 DEF WaiterHasChannel, TypeOK
<1>5. SingleFlight' /\ MarkerHasWorker'
  BY <1>2 DEF SingleFlight, MarkerHasWorker, Working
<1>6. OpenIsEmpty' /\ SettledIsClosed' /\ Agreement'
  BY DEF OpenIsEmpty, SettledIsClosed, Agreement
<1> QED BY <1>1, <1>3, <1>4, <1>5, <1>6

LEMMA WakeIInv ==
  ASSUME IInv, NEW t \in Threads, Wake(t)
  PROVE  IInv'
<1> USE DEF IInv, Wake, cellVars
<1>1. TypeOK'
  BY DEF TypeOK, Places
<1>2. \A u \in Threads : /\ Busy(u)' <=> Busy(u)
                         /\ pc'[u] = "working" <=> pc[u] = "working"
                         /\ At(u)' = At(u)
  BY DEF TypeOK, Busy, At
<1>3. BusyHasKey' /\ WorkerMarked'
  BY <1>2 DEF BusyHasKey, WorkerMarked
<1>4. WaiterHasChannel'
  BY <1>2 DEF WaiterHasChannel, TypeOK
<1>5. SingleFlight' /\ MarkerHasWorker'
  BY <1>2 DEF SingleFlight, MarkerHasWorker, Working
<1>6. OpenIsEmpty' /\ SettledIsClosed' /\ Agreement'
  BY DEF OpenIsEmpty, SettledIsClosed, Agreement
<1> QED BY <1>1, <1>3, <1>4, <1>5, <1>6

(* The marker is put where no state was: no thread worked on the key, or   *)
(* waited for it.                                                          *)
LEMMA InstallIInv ==
  ASSUME IInv, NEW t \in Threads, Install(t)
  PROVE  IInv'
<1> DEFINE k == At(t)
<1> USE DEF IInv, Install
<1>0. k \in Keys /\ status[k] = "idle"
  BY BusyType DEF Busy
<1> HIDE DEF k
<1>1. /\ status' = [status EXCEPT ![k] = "processing"]
      /\ channel' = [channel EXCEPT ![k] = @ + 1]
      /\ pc' = [pc EXCEPT ![t] = "working"]
      /\ pc[t] = "consult"
      /\ todo' = todo
  BY DEF k
<1>2. TypeOK'
  <2>1. status' \in [Keys -> Statuses] /\ pc' \in [Threads -> Places]
    BY <1>1 DEF TypeOK, Places, Statuses
  <2>2. channel' \in [Keys -> Nat]
    <3>1. channel \in [Keys -> Nat] /\ channel[k] + 1 \in Nat
      BY <1>0 DEF TypeOK
    <3> HIDE DEF Install, IInv
    <3> QED BY <1>1, <3>1
  <2> QED BY <2>1, <2>2 DEF TypeOK
<1>3. \A u \in Threads : /\ Busy(u)' <=> Busy(u)
                         /\ u # t => pc'[u] = pc[u]
                         /\ At(u)' = At(u)
  BY <1>1 DEF TypeOK, Busy, At
<1>4. pc'[t] = "working" /\ At(t) = k
  BY <1>1 DEF TypeOK, k
<1>5. BusyHasKey'
  BY <1>1, <1>3 DEF BusyHasKey
<1>6. WorkerMarked'
  BY <1>0, <1>1, <1>3, <1>4 DEF WorkerMarked, TypeOK
<1>7. WaiterHasChannel'
  BY <1>0, <1>1, <1>3, <1>4 DEF WaiterHasChannel, TypeOK
<1>8. \A u \in Threads : ~Working(u, k)
  BY <1>0 DEF WorkerMarked, Working
<1>9. \A u \in Threads, j \in Keys : Working(u, j)' <=> (Working(u, j) \/ (u = t /\ j = k))
  BY <1>1, <1>3, <1>4 DEF Working
<1>10. SingleFlight'
  BY <1>8, <1>9 DEF SingleFlight
<1>11. MarkerHasWorker'
  BY <1>0, <1>1, <1>9 DEF MarkerHasWorker, TypeOK
<1>12. OpenIsEmpty' /\ SettledIsClosed' /\ Agreement'
  BY <1>0, <1>1 DEF OpenIsEmpty, SettledIsClosed, Agreement, TypeOK
<1> QED BY <1>2, <1>5, <1>6, <1>7, <1>10, <1>11, <1>12

(* A call that returns leaves its thread idle, or at the next key. *)
LEMMA ReturnThreads ==
  ASSUME IInv, NEW t \in Threads, Busy(t), NEW o, Return(t, o)
  PROVE  /\ pc' \in [Threads -> Places] /\ todo' \in [Threads -> Seq(Keys)]
         /\ pc'[t] \in {"idle", "consult"}
         /\ pc'[t] = "consult" => todo'[t] # <<>>
         /\ \A u \in Threads : u # t => pc'[u] = pc[u] /\ todo'[u] = todo[u]
<1> DEFINE rest == Remaining(t, o)
<1>1. rest \in Seq(Keys)
  BY BusyType DEF IInv
<1>2. /\ todo' = [todo EXCEPT ![t] = rest]
      /\ pc' = [pc EXCEPT ![t] = IF rest = <<>> THEN "idle" ELSE "consult"]
  BY DEF Return
<1> QED BY <1>1, <1>2 DEF IInv, TypeOK, Places

(* A settled state is handed to one more caller. *)
LEMMA HitIInv ==
  ASSUME IInv, NEW t \in Threads, Hit(t)
  PROVE  IInv'
<1> DEFINE k == At(t)
           o == outcome[k]
<1>0. k \in Keys /\ status[k] \in {"done", "failed"} /\ Busy(t) /\ pc[t] = "consult"
  BY BusyType DEF Busy, IInv, Hit
<1>1. Return(t, o) /\ UNCHANGED <<cellVars, waitsOn, workspaceRoots>>
  BY DEF Hit
<1>2. delivered' = [delivered EXCEPT ![k] = @ \union {o}]
  BY <1>1 DEF Return
<1>3. /\ pc' \in [Threads -> Places] /\ todo' \in [Threads -> Seq(Keys)]
      /\ pc'[t] \in {"idle", "consult"}
      /\ pc'[t] = "consult" => todo'[t] # <<>>
      /\ \A u \in Threads : u # t => pc'[u] = pc[u] /\ todo'[u] = todo[u]
  BY <1>0, <1>1, ReturnThreads
<1>4. o \in Results
  BY <1>0 DEF IInv, SettledIsClosed
<1> HIDE DEF k, o
<1> USE DEF IInv, cellVars
<1>5. TypeOK'
  BY <1>0, <1>1, <1>2, <1>3, <1>4 DEF TypeOK
<1>6. \A u \in Threads : /\ pc'[u] = "working" <=> pc[u] = "working"
                         /\ pc'[u] = "waiting" <=> pc[u] = "waiting"
                         /\ u # t => At(u)' = At(u)
  BY <1>0, <1>3 DEF At
<1>7. BusyHasKey'
  BY <1>3 DEF BusyHasKey, Busy
<1>8. WorkerMarked' /\ WaiterHasChannel'
  BY <1>0, <1>1, <1>6 DEF WorkerMarked, WaiterHasChannel
<1>9. SingleFlight' /\ MarkerHasWorker'
  BY <1>0, <1>1, <1>6 DEF SingleFlight, MarkerHasWorker, Working
<1>10. OpenIsEmpty' /\ SettledIsClosed'
  BY <1>0, <1>1, <1>2 DEF OpenIsEmpty, SettledIsClosed, TypeOK
<1>11. Agreement'
  BY <1>0, <1>1, <1>2 DEF Agreement, TypeOK, o
<1> QED BY <1>5, <1>7, <1>8, <1>9, <1>10, <1>11

(* The worker settles its key: it was the only one at work on it, so no    *)
(* other thread is, and every waiter's channel is now closed.              *)
LEMMA PublishIInv ==
  ASSUME IInv, NEW t \in Threads, Publish(t)
  PROVE  IInv'
<1> DEFINE k == At(t)
<1>0. k \in Keys /\ status[k] = "processing" /\ Busy(t) /\ pc[t] = "working"
  BY BusyType DEF Busy, IInv, Publish, WorkerMarked
<1>1. PICK o \in ResultsOf(k) :
        /\ status' = [status EXCEPT ![k] = IF o = Failure THEN "failed" ELSE "done"]
        /\ outcome' = [outcome EXCEPT ![k] = o]
        /\ Return(t, o)
  BY DEF Publish
<1>2. delivered' = [delivered EXCEPT ![k] = @ \union {o}]
  BY <1>1 DEF Return
<1>3. /\ pc' \in [Threads -> Places] /\ todo' \in [Threads -> Seq(Keys)]
      /\ pc'[t] \in {"idle", "consult"}
      /\ pc'[t] = "consult" => todo'[t] # <<>>
      /\ \A u \in Threads : u # t => pc'[u] = pc[u] /\ todo'[u] = todo[u]
  BY <1>0, <1>1, ReturnThreads
<1>4. o \in Results
  BY <1>1 DEF ResultsOf, Results
<1>5. closed' = closed \union {<<k, channel[k]>>} /\ UNCHANGED <<channel, waitsOn, workspaceRoots>>
  BY DEF Publish
<1>6. \A u \in Threads : Working(u, k) => u = t
  BY <1>0 DEF IInv, SingleFlight, Working
<1> HIDE DEF k
<1> USE DEF IInv
<1>7. TypeOK'
  <2>1. status' \in [Keys -> Statuses]
    BY <1>1 DEF TypeOK, Statuses
  <2>2. outcome' \in [Keys -> Results \union {Unsettled}]
    BY <1>1, <1>4 DEF TypeOK
  <2>3. closed' \subseteq Keys \X Nat
    BY <1>0, <1>5 DEF TypeOK
  <2>4. delivered' \in [Keys -> SUBSET Results]
    BY <1>2, <1>4 DEF TypeOK
  <2> QED BY <1>3, <1>5, <2>1, <2>2, <2>3, <2>4 DEF TypeOK
<1>8. \A u \in Threads : /\ pc'[u] = "working" <=> (pc[u] = "working" /\ u # t)
                         /\ pc'[u] = "waiting" <=> pc[u] = "waiting"
                         /\ u # t => At(u)' = At(u)
  BY <1>0, <1>3 DEF At
<1>9. BusyHasKey'
  BY <1>3 DEF BusyHasKey, Busy
<1>10. \A u \in Threads, j \in Keys : Working(u, j)' <=> (Working(u, j) /\ u # t)
  BY <1>8 DEF Working
<1>11. WorkerMarked'
  <2> SUFFICES ASSUME NEW u \in Threads, pc'[u] = "working"
               PROVE  status'[At(u)'] = "processing"
    BY DEF WorkerMarked
  <2>1. pc[u] = "working" /\ u # t /\ At(u)' = At(u)
    BY <1>8
  <2>2. At(u) \in Keys /\ status[At(u)] = "processing"
    BY <2>1, BusyType DEF WorkerMarked, Busy
  <2>3. At(u) # k
    BY <1>6, <2>1 DEF Working
  <2> QED BY <1>1, <2>1, <2>2, <2>3 DEF TypeOK
<1>12. SingleFlight'
  BY <1>10 DEF SingleFlight
<1>13. MarkerHasWorker'
  <2> SUFFICES ASSUME NEW j \in Keys, status'[j] = "processing"
               PROVE  \E u \in Threads : Working(u, j)'
    BY DEF MarkerHasWorker
  <2>1. j # k /\ status[j] = "processing"
    BY <1>0, <1>1 DEF TypeOK
  <2>2. PICK u \in Threads : Working(u, j)
    BY <2>1 DEF MarkerHasWorker
  <2>3. u # t
    BY <2>1, <2>2 DEF Working, k
  <2> QED BY <1>10, <2>2, <2>3
<1>14. OpenIsEmpty'
  BY <1>0, <1>1, <1>2 DEF OpenIsEmpty, TypeOK
<1>15. SettledIsClosed'
  BY <1>0, <1>1, <1>4, <1>5 DEF SettledIsClosed, TypeOK
<1>16. WaiterHasChannel'
  <2> SUFFICES ASSUME NEW u \in Threads, pc'[u] = "waiting"
               PROVE  waitsOn'[u] = channel'[At(u)'] /\ status'[At(u)'] # "idle"
    BY DEF WaiterHasChannel
  <2>1. pc[u] = "waiting" /\ At(u)' = At(u)
    BY <1>0, <1>8
  <2>2. At(u) \in Keys /\ waitsOn[u] = channel[At(u)] /\ status[At(u)] # "idle"
    BY <2>1, BusyType DEF WaiterHasChannel, Busy
  <2> QED BY <1>1, <1>5, <2>1, <2>2 DEF TypeOK
<1>17. Agreement'
  BY <1>0, <1>1, <1>2 DEF Agreement, OpenIsEmpty, TypeOK
<1> QED BY <1>7, <1>9, <1>11, <1>12, <1>13, <1>14, <1>15, <1>16, <1>17

(* The invariant is kept by every step. *)
LEMMA NextIInv == IInv /\ [Next]_vars => IInv'
<1> SUFFICES ASSUME IInv, [Next]_vars PROVE IInv'
  OBVIOUS
<1>1. CASE Request
  BY <1>1, RequestIInv
<1>2. ASSUME NEW g \in Prewarms, Initialize(g) PROVE IInv'
  BY <1>2, InitializeIInv
<1>3. ASSUME NEW g \in Prewarms, StartPrewarm(g) PROVE IInv'
  BY <1>3, StartPrewarmIInv
<1>4. ASSUME NEW t \in Threads, Step(t) PROVE IInv'
  BY <1>4, HitIInv, AwaitIInv, WakeIInv, InstallIInv, PublishIInv DEF Step
<1>5. CASE UNCHANGED vars
  BY <1>5 DEF vars, IInv, TypeOK, BusyHasKey, WorkerMarked, MarkerHasWorker, SingleFlight,
     OpenIsEmpty, SettledIsClosed, WaiterHasChannel, Agreement, Working, Busy, At
<1> QED BY <1>1, <1>2, <1>3, <1>4, <1>5 DEF Next

LEMMA SpecIInv == Spec => []IInv
BY InitIInv, NextIInv, PTL DEF Spec
------------------------------------------------------------------------------
(* The variables keep their types: no caller is ever at something that is  *)
(* not a key of one of the four caches.                                    *)
THEOREM TypeCorrect == Spec => []TypeOK
BY SpecIInv, PTL DEF IInv

(* For any number of goroutines and keys, the processing markers keep two  *)
(* threads from doing the work of one key at the same time.                *)
THEOREM SingleFlightCorrect == Spec => []SingleFlight
BY SpecIInv, PTL DEF IInv

(* Every caller of a key is handed the same outcome, the cached one. *)
THEOREM AgreementCorrect == Spec => []Agreement
BY SpecIInv, PTL DEF IInv

(* A waiter's channel is closed or its closer is at work: the replacement  *)
(* of a channel never strands a waiter.                                    *)
THEOREM NoOrphanWaitCorrect == Spec => []NoOrphanWait
<1>1. IInv => NoOrphanWait
  <2> SUFFICES ASSUME IInv, NEW t \in Threads, pc[t] = "waiting",
                      <<At(t), waitsOn[t]>> \notin closed
               PROVE  /\ waitsOn[t] = channel[At(t)]
                      /\ \E u \in Threads : Working(u, At(t))
    BY DEF NoOrphanWait
  <2>1. At(t) \in Keys /\ waitsOn[t] = channel[At(t)] /\ status[At(t)] # "idle"
    BY BusyType DEF IInv, WaiterHasChannel, Busy
  <2>2. status[At(t)] = "processing"
    BY <2>1 DEF IInv, TypeOK, Statuses, SettledIsClosed
  <2> QED BY <2>1, <2>2 DEF IInv, MarkerHasWorker
<1> QED BY <1>1, SpecIInv, PTL

(* A settled state is never dropped, replaced or retried: every step that  *)
(* writes a state finds it idle or processing.                             *)
THEOREM SettledIsFinalCorrect == Spec => SettledIsFinal
<1> DEFINE Final == \A k \in Keys : status[k] \in {"done", "failed"} =>
                      status'[k] = status[k] /\ outcome'[k] = outcome[k]
<1>1. IInv /\ [Next]_vars => Final
  <2> SUFFICES ASSUME IInv, [Next]_vars PROVE Final
    OBVIOUS
  <2>1. CASE Request
    BY <2>1 DEF Request, cellVars
  <2>2. ASSUME NEW g \in Prewarms, Initialize(g) \/ StartPrewarm(g) PROVE Final
    BY <2>2 DEF Initialize, StartPrewarm, cellVars
  <2>3. ASSUME NEW t \in Threads, Hit(t) \/ Await(t) \/ Wake(t) PROVE Final
    BY <2>3 DEF Hit, Await, Wake, cellVars
  <2>4. ASSUME NEW t \in Threads, Install(t) PROVE Final
    BY <2>4 DEF Install, IInv, TypeOK
  <2>5. ASSUME NEW t \in Threads, Publish(t) PROVE Final
    BY <2>5 DEF Publish, IInv, TypeOK, WorkerMarked
  <2>6. CASE UNCHANGED vars
    BY <2>6 DEF vars
  <2> QED BY <2>1, <2>2, <2>3, <2>4, <2>5, <2>6 DEF Next, Step
<1> QED BY <1>1, SpecIInv, PTL DEF Spec, SettledIsFinal

(* Every behaviour is, through the refinement mapping, one of OnceCells:   *)
(* Install begins a key, Publish settles it, Hit delivers it, and all the  *)
(* other steps stutter.                                                    *)
THEOREM OnceCellsCorrect == Spec => Once!Init /\ [][Once!Next]_(Once!vars)
<1> DEFINE begun == {k \in Keys : status[k] # "idle"}
<1>1. Init => Once!Init
  BY DEF Init, Once!Init
<1>2. IInv /\ [Next]_vars => [Once!Next]_(Once!vars)
  <2> SUFFICES ASSUME IInv, [Next]_vars PROVE Once!Next \/ UNCHANGED Once!vars
    OBVIOUS
  <2>1. CASE Request
    BY <2>1 DEF Request, cellVars, Once!vars
  <2>2. ASSUME NEW g \in Prewarms, Initialize(g) \/ StartPrewarm(g)
        PROVE  UNCHANGED Once!vars
    BY <2>2 DEF Initialize, StartPrewarm, cellVars, Once!vars
  <2>3. ASSUME NEW t \in Threads, Await(t) \/ Wake(t) PROVE UNCHANGED Once!vars
    BY <2>3 DEF Await, Wake, cellVars, Once!vars
  <2>4. ASSUME NEW t \in Threads, Hit(t) PROVE Once!Next
    <3>1. At(t) \in Keys /\ outcome[At(t)] # Unsettled
      BY <2>4, BusyType, OutcomeAssumption DEF Hit, Busy, IInv, SettledIsClosed
    <3>2. Once!Deliver(At(t))
      BY <2>4, <3>1 DEF Hit, Return, cellVars, Once!Deliver
    <3> QED BY <3>1, <3>2 DEF Once!Next
  <2>5. ASSUME NEW t \in Threads, Install(t) PROVE Once!Next
    <3>1. PICK k \in Keys : k = At(t) /\ status[k] = "idle"
      BY <2>5, BusyType DEF Install, Busy, IInv
    <3>2. begun' = begun \union {k} /\ k \notin begun
      BY <2>5, <3>1 DEF Install, IInv, TypeOK
    <3>3. Once!Begin(k)
      BY <2>5, <3>1, <3>2 DEF Install, Once!Begin
    <3> HIDE DEF begun
    <3> QED BY <3>3 DEF Once!Next
  <2>6. ASSUME NEW t \in Threads, Publish(t) PROVE Once!Next
    <3>1. At(t) \in Keys /\ status[At(t)] = "processing"
      BY <2>6, BusyType DEF Publish, Busy, IInv, WorkerMarked
    <3>2. outcome[At(t)] = Unsettled /\ delivered[At(t)] = {}
      BY <3>1 DEF IInv, OpenIsEmpty
    <3>3. PICK o \in ResultsOf(At(t)) :
            /\ status' = [status EXCEPT ![At(t)] = IF o = Failure THEN "failed" ELSE "done"]
            /\ outcome' = [outcome EXCEPT ![At(t)] = o]
            /\ Return(t, o)
      BY <2>6 DEF Publish
    <3>4. o \in Results
      BY DEF ResultsOf, Results
    <3>5. begun' = begun /\ At(t) \in begun
      BY <3>1, <3>3 DEF IInv, TypeOK
    <3>6. delivered' = [delivered EXCEPT ![At(t)] = {o}]
      BY <3>1, <3>2, <3>3 DEF Return, IInv, TypeOK
    <3>7. Once!Settle(At(t))
      BY <3>2, <3>3, <3>4, <3>5, <3>6 DEF Once!Settle
    <3> HIDE DEF begun
    <3> QED BY <3>1, <3>7, Zenon DEF Once!Next
  <2>7. CASE UNCHANGED vars
    BY <2>7 DEF vars, Once!vars
  <2> QED BY <2>1, <2>2, <2>3, <2>4, <2>5, <2>6, <2>7 DEF Next, Step
<1> QED BY <1>1, <1>2, SpecIInv, PTL DEF Spec
==============================================================================
