---------------------------- MODULE LspServerProofs ----------------------------
(***************************************************************************)
(* Proofs about LspServer, for any documents, texts, rename batches,       *)
(* numbers of messages and capacity of the pipes.                          *)
(* What is on its way between client and server is the difficulty.  Each   *)
(* message in the inbox has been sent when the client's documents had some *)
(* state, and will be handled when the server's documents have it; the     *)
(* invariant says that there is one sequence of such states that leads     *)
(* from what the server has now to what the client has now, message by     *)
(* message.  Out is everything on its way back, wherever it waits.         *)
(***************************************************************************)
EXTENDS LspServer, SequenceTheorems, WellFoundedInduction, TLAPS

(* A nonempty set of numbers has a least one. *)
LEMMA LeastNumber ==
  ASSUME NEW T, T \subseteq Nat, T # {}
  PROVE  \E x \in T : \A y \in T : x <= y
<1>1. IsWellFoundedOn(OpToRel(<, Nat), Nat)
  BY NatLessThanWellFounded, Zenon
<1>2. PICK x \in T : \A y \in T : <<y, x>> \notin OpToRel(<, Nat)
  BY <1>1, WFMin, Zenon
<1>3. \A y \in T : ~(y < x)
  BY <1>2 DEF OpToRel
<1>4. QED BY <1>3

(* A set of numbers with 0 and with the successor of each has them all up  *)
(* to a bound: induction, with a set for the predicate.                    *)
LEMMA UpToBound ==
  ASSUME NEW n \in Nat, NEW S, 0 \in S, \A k \in 0..(n - 1) : k \in S => k + 1 \in S
  PROVE  \A k \in 0..n : k \in S
<1> SUFFICES ASSUME {k \in 0..n : k \notin S} # {} PROVE FALSE
  OBVIOUS
<1> DEFINE T == {k \in 0..n : k \notin S}
<1>1. PICK m \in T : \A k \in T : m <= k
  <2>1. T \subseteq Nat /\ T # {}
    OBVIOUS
  <2> HIDE DEF T
  <2>2. QED BY <2>1, LeastNumber
<1>2. m # 0 /\ m - 1 \in 0..(n - 1) /\ m - 1 \in 0..n
  BY <1>1
<1>3. m - 1 \in S
  BY <1>1, <1>2
<1>4. m \in S
  BY <1>2, <1>3
<1>5. QED BY <1>4

------------------------------------------------------------------------------
Docs == [Uris -> Texts \union {NoDoc}]
------------------------------------------------------------------------------
(* A rename batch: the loop of handleDidRenameFiles against the client's   *)
(* idea that all files of a batch move at once.                            *)
Olds(b) == {p.old : p \in ToSet(b)}
News(b) == {p.new : p \in ToSet(b)}

MovedAtOnce(d, b) ==
  [u \in Uris |-> IF u \in News(b) THEN d[(CHOOSE p \in ToSet(b) : p.new = u).old]
                  ELSE IF u \in Olds(b) THEN NoDoc ELSE d[u]]

(* The server's documents and their index, as the loop passes them on. *)
Servers == [documents : Docs, indexed : Docs, unindexed : SUBSET Uris]

(* What is open is indexed with its text, or its analysis failed. *)
IndexFollows(s) ==
  \A u \in Uris : Open(s.documents[u]) /\ u \notin s.unindexed => s.indexed[u] = s.documents[u]

(* State s of the loop after k pairs of b, begun with the documents d. *)
MovedUpTo(s, d, b, k) ==
  /\ s \in Servers
  /\ IndexFollows(s)
  /\ \A i \in 1..k : s.documents[b[i].new] = d[b[i].old]
  /\ \A u \in Uris : (\A i \in 1..k : b[i].new # u) =>
       s.documents[u] = IF \E i \in 1..k : b[i].old = u THEN NoDoc ELSE d[u]

(* The states of the loop over b, begun with s, when the analyses F fail. *)
IsRun(g, s, b, F, n) == g = [k \in 0..n |-> IF k = 0 THEN s ELSE Move(g[k - 1], b[k], F)]

(* The function that MoveAll defines by recursion exists. *)
LEMMA RunExists ==
  ASSUME NEW s, NEW b, NEW F, NEW n \in Nat
  PROVE  \E g : IsRun(g, s, b, F, n)
<1> DEFINE S == {m \in Nat : \E g : IsRun(g, s, b, F, m)}
<1>1. 0 \in S
  <2>1. IsRun([k \in 0..0 |-> s], s, b, F, 0)
    BY DEF IsRun
  <2>2. QED BY <2>1
<1>2. ASSUME NEW m \in 0..(n - 1), m \in S PROVE m + 1 \in S
  <2>1. PICK g : IsRun(g, s, b, F, m)
    BY <1>2
  <2> DEFINE h == [k \in 0..(m + 1) |-> IF k <= m THEN g[k] ELSE Move(g[m], b[m + 1], F)]
  <2>2. \A k \in 0..m : g[k] = IF k = 0 THEN s ELSE Move(g[k - 1], b[k], F)
    BY <2>1 DEF IsRun
  <2>3. \A k \in 0..(m + 1) : h[k] = IF k = 0 THEN s ELSE Move(h[k - 1], b[k], F)
    <3> SUFFICES ASSUME NEW k \in 0..(m + 1)
                 PROVE  h[k] = IF k = 0 THEN s ELSE Move(h[k - 1], b[k], F)
      OBVIOUS
    <3>1. CASE k <= m
      <4>1. h[k] = g[k] /\ (k # 0 => h[k - 1] = g[k - 1])
        BY <3>1
      <4>2. QED BY <2>2, <3>1, <4>1
    <3>2. CASE k = m + 1
      <4>1. h[k - 1] = g[m] /\ h[k] = Move(g[m], b[m + 1], F)
        BY <3>2
      <4>2. QED BY <3>2, <4>1
    <3>3. QED BY <3>1, <3>2
  <2>4. h = [k \in 0..(m + 1) |-> h[k]]
    OBVIOUS
  <2> HIDE DEF h
  <2>5. IsRun(h, s, b, F, m + 1)
    BY <2>3, <2>4 DEF IsRun
  <2>6. QED BY <2>5
<1>3. n \in S
  <2>1. \A m \in 0..(n - 1) : m \in S => m + 1 \in S
    BY <1>2
  <2> HIDE DEF S
  <2>2. \A m \in 0..n : m \in S
    BY <1>1, <2>1, UpToBound
  <2>3. QED BY <2>2
<1>4. QED BY <1>3

(* The loop's states satisfy its recursion. *)
LEMMA MoveAllRuns ==
  ASSUME NEW s, NEW S, NEW b \in Seq(S), NEW F
  PROVE  \E g : /\ g[0] = s
                /\ \A k \in 1..Len(b) : g[k] = Move(g[k - 1], b[k], F)
                /\ MoveAll(s, b, F) = g[Len(b)]
<1> DEFINE n == Len(b)
           g == CHOOSE h : IsRun(h, s, b, F, n)
<1>1. n \in Nat
  OBVIOUS
<1>2. g = [k \in 0..n |-> IF k = 0 THEN s ELSE Move(g[k - 1], b[k], F)]
  <2>1. IsRun(g, s, b, F, n)
    BY <1>1, RunExists
  <2>2. QED BY <2>1, Zenon DEF IsRun
<1>3. MoveAll(s, b, F) = g[n]
  BY Zenon DEF MoveAll, IsRun
<1> HIDE DEF g
<1>4. g[0] = s
  BY <1>1, <1>2
<1>5. \A k \in 1..n : g[k] = Move(g[k - 1], b[k], F)
  BY <1>1, <1>2
<1>6. QED BY <1>3, <1>4, <1>5

(* What the assumption on batches says of one of them. *)
LEMMA BatchParts ==
  ASSUME NEW b \in Batches
  PROVE  /\ b \in Seq([old : Uris, new : Uris])
         /\ Len(b) \in Nat
         /\ \A i \in 1..Len(b) : b[i].old \in Uris /\ b[i].new \in Uris
         /\ \A i, j \in 1..Len(b) :
              /\ i < j => b[i].old # b[j].old /\ b[i].new # b[j].old /\ b[i].new # b[j].new
              /\ b[i].new = b[j].new => i = j
         /\ ToSet(b) = {b[i] : i \in 1..Len(b)}
<1>0. b \in Seq([old : Uris, new : Uris])
  BY LspServerAssumption, Zenon
<1>1. b \in Seq([old : Uris, new : Uris]) /\ Len(b) \in Nat
  BY <1>0
<1>2. \A i, j \in 1..Len(b) : i < j => b[i].old # b[j].old /\ b[i].new # b[j].old /\ b[i].new # b[j].new
  BY LspServerAssumption, Zenon
<1>3. \A i \in 1..Len(b) : b[i].old \in Uris /\ b[i].new \in Uris
  <2> SUFFICES ASSUME NEW i \in 1..Len(b) PROVE b[i].old \in Uris /\ b[i].new \in Uris
    OBVIOUS
  <2>1. b[i] \in [old : Uris, new : Uris]
    BY <1>1, ElementOfSeq
  <2>2. QED BY <2>1
<1>4. \A i, j \in 1..Len(b) : b[i].new = b[j].new => i = j
  BY <1>1, <1>2
<1>5. ToSet(b) = {b[i] : i \in 1..Len(b)}
  BY <1>1 DEF ToSet
<1>6. QED BY <1>1, <1>2, <1>3, <1>4, <1>5

(* One pair more: the document that moves is where the client had it, and  *)
(* what is overwritten was moved away before or was not open.              *)
LEMMA MoveOne ==
  ASSUME NEW d \in Docs, NEW b \in Batches, NEW k \in 1..Len(b), NEW s, NEW F,
         \A u \in News(b) \ Olds(b) : ~Open(d[u]),
         MovedUpTo(s, d, b, k - 1)
  PROVE  MovedUpTo(Move(s, b[k], F), d, b, k)
<1> DEFINE old == b[k].old
           new == b[k].new
           r == Move(s, b[k], F)
<1>1. /\ \A i \in 1..Len(b) : b[i].old \in Uris /\ b[i].new \in Uris
      /\ \A i, j \in 1..Len(b) : i < j => b[i].old # b[j].old /\ b[i].new # b[j].old /\ b[i].new # b[j].new
      /\ ToSet(b) = {b[i] : i \in 1..Len(b)}
      /\ Len(b) \in Nat
  BY BatchParts
<1>2. old \in Uris /\ new \in Uris
  BY <1>1
<1>3. \A i \in 1..(k - 1) : i \in 1..Len(b) /\ b[i].old # old /\ b[i].new # old /\ b[i].new # new
  BY <1>1
<1>4. /\ s.documents \in Docs /\ s.indexed \in Docs /\ s.unindexed \subseteq Uris
      /\ IndexFollows(s)
      /\ \A i \in 1..(k - 1) : s.documents[b[i].new] = d[b[i].old]
      /\ \A u \in Uris : (\A i \in 1..(k - 1) : b[i].new # u) =>
           s.documents[u] = IF \E i \in 1..(k - 1) : b[i].old = u THEN NoDoc ELSE d[u]
  BY DEF MovedUpTo, Servers
<1>5. s.documents[old] = d[old]
  BY <1>2, <1>3, <1>4
<1>6. \A i \in 1..k : i \in 1..(k - 1) \/ i = k
  OBVIOUS
<1> HIDE DEF old, new
<1>7. CASE Open(d[old])
  <2>1. /\ r = [documents |-> [[s.documents EXCEPT ![old] = NoDoc] EXCEPT ![new] = d[old]],
                indexed   |-> IF new \in F THEN s.indexed ELSE [s.indexed EXCEPT ![new] = d[old]],
                unindexed |-> IF new \in F THEN s.unindexed \union {new} ELSE s.unindexed \ {new}]
    BY <1>5, <1>7 DEF Move, old, new
  <2>2. r \in Servers
    BY <1>2, <1>4, <2>1 DEF Docs, Servers
  <2>3. \A u \in Uris :
          /\ r.documents[u] = IF u = new THEN d[old] ELSE IF u = old THEN NoDoc ELSE s.documents[u]
          /\ u # new => r.indexed[u] = s.indexed[u] /\ (u \in r.unindexed <=> u \in s.unindexed)
          /\ u = new => u \in r.unindexed \/ r.indexed[u] = d[old]
    BY <1>2, <1>4, <2>1 DEF Docs
  <2> HIDE DEF r
  <2>4. IndexFollows(r)
    BY <1>4, <2>3 DEF IndexFollows, Open
  <2>5. \A i \in 1..k : r.documents[b[i].new] = d[b[i].old]
    <3> SUFFICES ASSUME NEW i \in 1..k PROVE r.documents[b[i].new] = d[b[i].old]
      OBVIOUS
    <3>1. CASE i = k
      BY <1>2, <2>3, <3>1 DEF old, new
    <3>2. CASE i \in 1..(k - 1)
      BY <1>1, <1>3, <1>4, <2>3, <3>2
    <3>3. QED BY <1>6, <3>1, <3>2
  <2>6. ASSUME NEW u \in Uris, \A i \in 1..k : b[i].new # u
        PROVE  r.documents[u] = IF \E i \in 1..k : b[i].old = u THEN NoDoc ELSE d[u]
    <3>1. u # new /\ \A i \in 1..(k - 1) : b[i].new # u
      BY <2>6 DEF new
    <3>2. (\E i \in 1..k : b[i].old = u) <=> (u = old \/ \E i \in 1..(k - 1) : b[i].old = u)
      BY <1>6 DEF old
    <3>3. QED BY <1>4, <2>3, <3>1, <3>2
  <2>7. QED BY <2>2, <2>4, <2>5, <2>6 DEF MovedUpTo, r
<1>8. CASE ~Open(d[old])
  <2>1. r = s
    BY <1>5, <1>8 DEF Move, old
  <2>2. s \in Servers
    BY DEF MovedUpTo
  <2>3. d[old] = NoDoc
    BY <1>8 DEF Open
  <2>4. s.documents[new] = NoDoc
    <3>1. CASE \E i \in 1..(k - 1) : b[i].old = new
      BY <1>2, <1>3, <1>4, <3>1
    <3>2. CASE new = old
      BY <1>5, <2>3, <3>2
    <3>3. CASE new # old /\ ~\E i \in 1..(k - 1) : b[i].old = new
      <4>1. \A i \in 1..Len(b) : i < k \/ i = k \/ k < i
        BY <1>1
      <4>2. \A i \in 1..Len(b) : b[i].old # new
        BY <1>1, <3>3, <4>1 DEF old, new
      <4>3. new \in News(b) \ Olds(b)
        BY <1>1, <4>2 DEF News, Olds, new
      <4>4. d[new] = NoDoc
        BY <4>3 DEF Open
      <4>5. QED BY <1>2, <1>3, <1>4, <3>3, <4>4
    <3>4. QED BY <3>1, <3>2, <3>3
  <2>5. \A i \in 1..k : s.documents[b[i].new] = d[b[i].old]
    BY <1>4, <1>6, <2>3, <2>4 DEF old, new
  <2>6. ASSUME NEW u \in Uris, \A i \in 1..k : b[i].new # u
        PROVE  s.documents[u] = IF \E i \in 1..k : b[i].old = u THEN NoDoc ELSE d[u]
    <3>1. \A i \in 1..(k - 1) : b[i].new # u
      BY <2>6
    <3>2. (\E i \in 1..k : b[i].old = u) <=> (u = old \/ \E i \in 1..(k - 1) : b[i].old = u)
      BY <1>6 DEF old
    <3>3. QED BY <1>4, <2>3, <3>1, <3>2
  <2>7. QED BY <1>4, <2>1, <2>2, <2>5, <2>6 DEF MovedUpTo
<1>9. QED BY <1>7, <1>8

(* MoveAll moves all files of a batch at once, and indexes what it moves   *)
(* unless the analysis fails.                                              *)
LEMMA BatchMoves ==
  ASSUME NEW b \in Batches, NEW F, NEW s \in Servers, IndexFollows(s),
         \A u \in News(b) \ Olds(b) : ~Open(s.documents[u])
  PROVE  /\ MoveAll(s, b, F) \in Servers
         /\ IndexFollows(MoveAll(s, b, F))
         /\ MoveAll(s, b, F).documents = MovedAtOnce(s.documents, b)
<1> DEFINE n == Len(b)
           d == s.documents
           r == MoveAll(s, b, F)
<1>1. /\ b \in Seq([old : Uris, new : Uris]) /\ n \in Nat
      /\ \A i \in 1..n : b[i].old \in Uris /\ b[i].new \in Uris
      /\ \A i, j \in 1..n : b[i].new = b[j].new => i = j
      /\ ToSet(b) = {b[i] : i \in 1..n}
  BY BatchParts
<1>2. d \in Docs
  BY DEF Servers
<1>3. MovedUpTo(r, d, b, n)
  <2> HIDE DEF n, d, r
  <2>0. b \in Seq([old : Uris, new : Uris])
    BY <1>1
  <2>1. PICK g : /\ g[0] = s
                 /\ \A k \in 1..Len(b) : g[k] = Move(g[k - 1], b[k], F)
                 /\ MoveAll(s, b, F) = g[Len(b)]
    BY <2>0, MoveAllRuns
  <2> USE DEF n, d, r
  <2> DEFINE S == {k \in 0..n : MovedUpTo(g[k], d, b, k)}
  <2>2. 0 \in S
    BY <1>1, <2>1 DEF MovedUpTo
  <2>3. ASSUME NEW k \in 0..(n - 1), k \in S PROVE k + 1 \in S
    <3> DEFINE j == k + 1
    <3>1. j \in 1..n /\ j \in 0..n /\ j - 1 = k
      BY <1>1
    <3>2. MovedUpTo(g[j - 1], d, b, j - 1)
      BY <2>3, <3>1
    <3>3. g[j] = Move(g[j - 1], b[j], F)
      BY <2>1, <3>1
    <3> HIDE DEF j, d, n
    <3>4. MovedUpTo(g[j], d, b, j)
      BY <1>2, <3>1, <3>2, <3>3, MoveOne DEF d, n
    <3>5. QED BY <3>1, <3>4 DEF j
  <2>4. \A k \in 0..(n - 1) : k \in S => k + 1 \in S
    BY <2>3
  <2> HIDE DEF S, n, d, r
  <2>5. \A k \in 0..n : k \in S
    BY <1>1, <2>2, <2>4, UpToBound
  <2>6. n \in S
    BY <1>1, <2>5
  <2>7. MovedUpTo(g[n], d, b, n)
    BY <2>6 DEF S
  <2>8. g[n] = r
    BY <2>1 DEF n, r
  <2>9. QED BY <2>7, <2>8
<1> HIDE DEF r, d, n
<1>4. /\ r \in Servers /\ IndexFollows(r)
      /\ \A i \in 1..n : r.documents[b[i].new] = d[b[i].old]
      /\ \A u \in Uris : (\A i \in 1..n : b[i].new # u) =>
           r.documents[u] = IF \E i \in 1..n : b[i].old = u THEN NoDoc ELSE d[u]
  BY <1>3 DEF MovedUpTo
<1>5. ASSUME NEW u \in Uris PROVE r.documents[u] = MovedAtOnce(d, b)[u]
  <2>1. CASE u \in News(b)
    <3>1. PICK i \in 1..n : b[i].new = u
      BY <1>1, <2>1 DEF News
    <3>2. b[i] \in ToSet(b) /\ \A p \in ToSet(b) : p.new = u => p = b[i]
      BY <1>1, <3>1
    <3>3. (CHOOSE p \in ToSet(b) : p.new = u) = b[i]
      BY <3>1, <3>2
    <3>4. MovedAtOnce(d, b)[u] = d[b[i].old]
      BY <2>1, <3>3 DEF MovedAtOnce
    <3>5. QED BY <1>4, <3>1, <3>4
  <2>2. CASE u \notin News(b)
    <3>1. \A i \in 1..n : b[i].new # u
      BY <1>1, <2>2 DEF News
    <3>2. (\E i \in 1..n : b[i].old = u) <=> u \in Olds(b)
      BY <1>1 DEF Olds
    <3>3. MovedAtOnce(d, b)[u] = IF u \in Olds(b) THEN NoDoc ELSE d[u]
      BY <2>2 DEF MovedAtOnce
    <3>4. QED BY <1>4, <3>1, <3>2, <3>3
  <2>3. QED BY <2>1, <2>2
<1>6. r.documents = [u \in Uris |-> r.documents[u]]
  BY <1>4 DEF Docs, Servers
<1>7. MovedAtOnce(d, b) = [u \in Uris |-> MovedAtOnce(d, b)[u]]
  BY DEF MovedAtOnce
<1>8. r.documents = MovedAtOnce(d, b)
  BY <1>5, <1>6, <1>7
<1>9. QED BY <1>4, <1>8 DEF r, d
------------------------------------------------------------------------------
(* A queue q whose messages lead through the states T: from T[i - 1] to    *)
(* T[i] by the message q[i], by a step of N.                               *)
Chain(T, q, S, N) ==
  /\ T \in [0..Len(q) -> S]
  /\ \A i \in 1..Len(q) : <<q[i], T[i - 1], T[i]>> \in N

(* A message more at the end of the queue. *)
LEMMA ChainAppend ==
  ASSUME NEW M, NEW q \in Seq(M), NEW S, NEW N, NEW T, Chain(T, q, S, N),
         NEW m \in M, NEW y \in S, <<m, T[Len(q)], y>> \in N
  PROVE  \E R : /\ Chain(R, Append(q, m), S, N)
                /\ R[0] = T[0] /\ R[Len(Append(q, m))] = y
<1> DEFINE n == Len(q)
           R == [i \in 0..(n + 1) |-> IF i = n + 1 THEN y ELSE T[i]]
<1>1. n \in Nat /\ Len(Append(q, m)) = n + 1 /\ Append(q, m)[n + 1] = m
  OBVIOUS
<1>2. \A i \in 1..n : Append(q, m)[i] = q[i]
  OBVIOUS
<1>3. T \in [0..n -> S] /\ \A i \in 1..n : <<q[i], T[i - 1], T[i]>> \in N
  BY DEF Chain
<1>4. <<m, T[n], y>> \in N
  OBVIOUS
<1> HIDE DEF n
<1>5. R \in [0..(n + 1) -> S] /\ R[0] = T[0] /\ R[n] = T[n] /\ R[n + 1] = y
  BY <1>1, <1>3
<1>6. \A i \in 1..(n + 1) : i = n + 1 \/ (i \in 1..n /\ R[i] = T[i] /\ R[i - 1] = T[i - 1])
  BY <1>1
<1> HIDE DEF R
<1>7. \A i \in 1..(n + 1) : <<Append(q, m)[i], R[i - 1], R[i]>> \in N
  <2> SUFFICES ASSUME NEW i \in 1..(n + 1) PROVE <<Append(q, m)[i], R[i - 1], R[i]>> \in N
    OBVIOUS
  <2>1. CASE i = n + 1
    <3>1. i - 1 = n
      BY <1>1, <2>1
    <3>2. QED BY <1>1, <1>4, <1>5, <2>1, <3>1
  <2>2. CASE i \in 1..n
    <3>1. R[i] = T[i] /\ R[i - 1] = T[i - 1]
      BY <1>1, <1>6, <2>2
    <3>2. QED BY <1>2, <1>3, <2>2, <3>1
  <2>3. QED BY <1>6, <2>1, <2>2
<1>8. QED BY <1>1, <1>5, <1>7 DEF Chain

(* The first message taken. *)
LEMMA ChainTail ==
  ASSUME NEW M, NEW q \in Seq(M), q # <<>>, NEW S, NEW N, NEW T, Chain(T, q, S, N)
  PROVE  /\ T[1] \in S /\ <<Head(q), T[0], T[1]>> \in N
         /\ \E R : /\ Chain(R, Tail(q), S, N)
                   /\ R[0] = T[1] /\ R[Len(Tail(q))] = T[Len(q)]
<1> DEFINE n == Len(q)
           R == [i \in 0..(n - 1) |-> T[i + 1]]
<1>1. n \in Nat \ {0} /\ Len(Tail(q)) = n - 1 /\ Head(q) = q[1]
  OBVIOUS
<1>2. \A i \in 1..(n - 1) : Tail(q)[i] = q[i + 1]
  OBVIOUS
<1>3. T \in [0..n -> S] /\ \A i \in 1..n : <<q[i], T[i - 1], T[i]>> \in N
  BY DEF Chain
<1> HIDE DEF n
<1>4. T[1] \in S
  BY <1>1, <1>3
<1>5. 1 \in 1..n /\ 1 - 1 = 0
  BY <1>1
<1>6. <<Head(q), T[0], T[1]>> \in N
  BY <1>1, <1>3, <1>5
<1>7. R \in [0..(n - 1) -> S] /\ R[0] = T[1] /\ R[n - 1] = T[n]
  BY <1>1, <1>3
<1>8. \A i \in 1..(n - 1) : i + 1 \in 1..n /\ R[i] = T[i + 1] /\ R[i - 1] = T[(i + 1) - 1]
  BY <1>1
<1> HIDE DEF R
<1>9. \A i \in 1..(n - 1) : <<Tail(q)[i], R[i - 1], R[i]>> \in N
  BY <1>2, <1>3, <1>8
<1>10. Chain(R, Tail(q), S, N)
  BY <1>1, <1>7, <1>9 DEF Chain
<1>11. QED BY <1>1, <1>4, <1>6, <1>7, <1>10 DEF n

(* More steps allowed. *)
LEMMA ChainWidens ==
  ASSUME NEW q, NEW S, NEW N, NEW T, Chain(T, q, S, N), NEW N2, N \subseteq N2
  PROVE  Chain(T, q, S, N2)
BY DEF Chain
------------------------------------------------------------------------------
(* What is on its way from the client to the server. *)

Messages ==
  UNION {[method : {"didOpen"}, uri : Uris, text : Texts],
         [method : {"didChange"}, uri : Uris, changes : Seq(Texts)],
         [method : {"didClose"}, uri : Uris],
         [method : {"didRenameFiles"}, files : Batches],
         [method : {"request"}, id : Nat, uri : Uris],
         [method : {"shutdown", "unknown"}, id : Nat],
         [method : {"exit", "garbage", "eof"}]}

(* The client, as far as the server will learn of it. *)
Clients == [docs : Docs, moved : SUBSET Uris, count : Nat]
Client == [docs |-> buffers, moved |-> moved, count |-> Len(asked)]

(* Of the requests a, the one with this id was sent when its document was d. *)
AskedFor(a, id, d) == id \in 1..Len(a) /\ a[id] = d

(* A client x becomes y by sending the message m. *)
SentOpen(m, x, y) ==
  /\ m.method = "didOpen"
  /\ y = [docs |-> [x.docs EXCEPT ![m.uri] = m.text], moved |-> x.moved \ {m.uri}, count |-> x.count]

SentChange(m, x, y) ==
  /\ m.method = "didChange"
  /\ y = IF m.changes = <<>> THEN x
         ELSE [docs |-> [x.docs EXCEPT ![m.uri] = Last(m.changes)],
               moved |-> x.moved \ {m.uri}, count |-> x.count]

SentClose(m, x, y) ==
  /\ m.method = "didClose"
  /\ y = [docs |-> [x.docs EXCEPT ![m.uri] = NoDoc], moved |-> x.moved \ {m.uri}, count |-> x.count]

SentRename(m, x, y) ==
  /\ m.method = "didRenameFiles"
  /\ \A u \in News(m.files) \ Olds(m.files) : ~Open(x.docs[u])
  /\ y = [docs |-> MovedAtOnce(x.docs, m.files),
          moved |-> x.moved \union Olds(m.files) \union News(m.files), count |-> x.count]

SentRequest(a, m, x, y) ==
  /\ m.method = "request"
  /\ m.id = x.count + 1 /\ AskedFor(a, m.id, x.docs[m.uri])
  /\ y = [docs |-> x.docs, moved |-> x.moved, count |-> x.count + 1]

SentOther(a, m, x, y) ==
  /\ m.method \in {"shutdown", "unknown"}
  /\ m.id = x.count + 1 /\ AskedFor(a, m.id, NoDoc)
  /\ y = [docs |-> x.docs, moved |-> x.moved, count |-> x.count + 1]

SentEnd(m, x, y) == m.method \in {"exit", "garbage", "eof"} /\ y = x

Sent(a, m, x, y) ==
  \/ SentOpen(m, x, y) \/ SentChange(m, x, y) \/ SentClose(m, x, y) \/ SentRename(m, x, y)
  \/ SentRequest(a, m, x, y) \/ SentOther(a, m, x, y) \/ SentEnd(m, x, y)

Sends(a) == {s \in Messages \X Clients \X Clients : Sent(a, s[1], s[2], s[3])}

(* The clients T lead from what the server has to what the client has. *)
Inbound(T) ==
  /\ Chain(T, inbox, Clients, Sends(asked))
  /\ T[0].docs = documents
  /\ T[Len(inbox)] = Client
------------------------------------------------------------------------------
(* What is on its way back. *)

Replies == [kind : {"response"}, id : Nat, result : Texts \union {"disk", "error", "empty"}]
Diagnostics == [kind : {"diagnostics"}, uri : Uris, diagnostics : Texts \union {NoDoc}]
Outgoing == Replies \union Diagnostics

(* The request with this id may be answered with r. *)
Right(a, id, r) == \E d \in Texts \union {NoDoc} :
  AskedFor(a, id, d) /\ IF Open(d) THEN r = d ELSE r \notin Texts

(* What the client has received. *)
Viewers == [view : Docs, count : Nat]
Viewer == [view |-> view, count |-> Len(answers)]

ReceivedResponse(a, m, w, z) ==
  /\ m.kind = "response"
  /\ m.id = w.count + 1 /\ Right(a, m.id, m.result)
  /\ z = [view |-> w.view, count |-> w.count + 1]

ReceivedDiagnostics(m, w, z) ==
  /\ m.kind = "diagnostics"
  /\ z = [view |-> [w.view EXCEPT ![m.uri] = m.diagnostics], count |-> w.count]

Receipts(a) == {s \in Outgoing \X Viewers \X Viewers :
                  ReceivedResponse(a, s[1], s[2], s[3]) \/ ReceivedDiagnostics(s[1], s[2], s[3])}

(* What the handler has produced and the server not yet written. *)
Queued(a, r, n, w, z) ==
  \/ r = <<>> /\ n = <<>> /\ z = w
  \/ \E m \in Replies : r = <<m>> /\ n = <<>> /\ <<m, w, z>> \in Receipts(a)
  \/ \E m \in Diagnostics : r = <<>> /\ n = <<m>> /\ <<m, w, z>> \in Receipts(a)

(* The viewers W, and z after them, lead from what the client has received *)
(* to what it will have received.                                          *)
Outbound(W, z) ==
  /\ Chain(W, outbox, Viewers, Receipts(asked))
  /\ W[0] = Viewer
  /\ z \in Viewers /\ Queued(asked, reply, notifications, W[Len(outbox)], z)
------------------------------------------------------------------------------
(* The inductive invariant. *)

InTypes ==
  /\ TypeOK
  /\ inbox \in Seq(Messages) /\ outbox \in Seq(Outgoing)
  /\ asked \in Seq(Texts \union {NoDoc}) /\ answers \in Seq(Replies)

AnsweredRight == \A i \in 1..Len(answers) : answers[i].id = i /\ Right(asked, i, answers[i].result)

NothingQueued == state = "reading" => reply = <<>> /\ notifications = <<>>

(* The client x that the server knows will have been answered and shown    *)
(* what z has received.                                                    *)
UpToDate(x, z) ==
  /\ z.count = x.count
  /\ \A u \in Uris \ x.moved : z.view[u] = documents[u]
  /\ \A u \in Uris : Open(documents[u]) /\ u \notin unindexed => indexed[u] = documents[u]

InTransit == \E T, W, z : /\ Inbound(T) /\ Outbound(W, z)
                          /\ Running => UpToDate(T[0], z)

IInv == InTypes /\ AnsweredRight /\ NothingQueued /\ InTransit
------------------------------------------------------------------------------
(* A request more leaves true what is said of the earlier ones. *)
LEMMA AskedGrows ==
  ASSUME NEW a \in Seq(Texts \union {NoDoc}), NEW d \in Texts \union {NoDoc}
  PROVE  /\ Sends(a) \subseteq Sends(Append(a, d)) /\ Receipts(a) \subseteq Receipts(Append(a, d))
         /\ \A id, r : Right(a, id, r) => Right(Append(a, d), id, r)
         /\ AskedFor(Append(a, d), Len(a) + 1, d)
<1>1. \A id, e : AskedFor(a, id, e) => AskedFor(Append(a, d), id, e)
  BY DEF AskedFor
<1>2. AskedFor(Append(a, d), Len(a) + 1, d)
  BY DEF AskedFor
<1>3. \A id, r : Right(a, id, r) => Right(Append(a, d), id, r)
  BY <1>1 DEF Right
<1>4. \A m, x, y : Sent(a, m, x, y) => Sent(Append(a, d), m, x, y)
  <2>1. \A m, x, y : SentRequest(a, m, x, y) => SentRequest(Append(a, d), m, x, y)
    BY <1>1 DEF SentRequest
  <2>2. \A m, x, y : SentOther(a, m, x, y) => SentOther(Append(a, d), m, x, y)
    BY <1>1 DEF SentOther
  <2>3. QED BY <2>1, <2>2, Zenon DEF Sent
<1>5. \A m, x, y : ReceivedResponse(a, m, x, y) => ReceivedResponse(Append(a, d), m, x, y)
  BY <1>3 DEF ReceivedResponse
<1>6. QED BY <1>2, <1>3, <1>4, <1>5 DEF Sends, Receipts

(* The bounds are numbers. *)
LEMMA Bounds == MaxRequests \in Nat /\ MaxEdits \in Nat /\ PipeSize \in Nat
<1>1. {MaxRequests, MaxEdits, PipeSize} \subseteq Nat
  BY LspServerAssumption, Zenon
<1>2. QED BY <1>1

(* asked is as it was, or has a request more. *)
AskedStep == asked' = asked \/ \E d \in Texts \union {NoDoc} : asked' = Append(asked, d)

(* Every step of the client keeps the requests that were asked. *)
LEMMA AskedStepGrows ==
  ASSUME asked \in Seq(Texts \union {NoDoc}), AskedStep
  PROVE  /\ Sends(asked) \subseteq Sends(asked') /\ Receipts(asked) \subseteq Receipts(asked')
         /\ \A id, r : Right(asked, id, r) => Right(asked', id, r)
<1>1. CASE asked' = asked
  BY <1>1
<1>2. CASE \E d \in Texts \union {NoDoc} : asked' = Append(asked, d)
  <2>1. PICK d \in Texts \union {NoDoc} : asked' = Append(asked, d)
    BY <1>2
  <2>2. QED BY <2>1, AskedGrows
<1>3. QED BY <1>1, <1>2 DEF AskedStep

(* The invariant on the way, when the client sends a message. *)
LEMMA SendingKeeps ==
  ASSUME IInv, AskedStep, NEW m \in Messages, Send(m),
         Client' \in Clients, Sent(asked', m, Client, Client')
  PROVE  AnsweredRight' /\ NothingQueued' /\ InTransit'
<1>1. /\ inbox' = Append(inbox, m)
      /\ UNCHANGED <<documents, indexed, unindexed, reply, notifications, exiting, state, outbox, view, answers>>
  BY DEF Send, serverVars
<1>2. inbox \in Seq(Messages) /\ asked \in Seq(Texts \union {NoDoc})
  BY DEF IInv, InTypes
<1>3. /\ Sends(asked) \subseteq Sends(asked') /\ Receipts(asked) \subseteq Receipts(asked')
      /\ \A id, r : Right(asked, id, r) => Right(asked', id, r)
  BY <1>2, AskedStepGrows
<1>4. AnsweredRight'
  BY <1>1, <1>3 DEF IInv, AnsweredRight
<1>5. NothingQueued'
  BY <1>1 DEF IInv, NothingQueued
<1>6. InTransit'
  <2>1. PICK T, W, z : /\ Inbound(T) /\ Outbound(W, z)
                       /\ Running => UpToDate(T[0], z)
    BY DEF IInv, InTransit
  <2>2. Chain(T, inbox, Clients, Sends(asked'))
    BY <1>3, <2>1, ChainWidens DEF Inbound
  <2>3. <<m, T[Len(inbox)], Client'>> \in Sends(asked')
    <3>1. T[Len(inbox)] = Client /\ Client \in Clients
      BY <1>2, <2>1 DEF Inbound, Chain
    <3>2. QED BY <3>1 DEF Sends
  <2>4. PICK R : /\ Chain(R, Append(inbox, m), Clients, Sends(asked'))
                 /\ R[0] = T[0] /\ R[Len(Append(inbox, m))] = Client'
    BY <1>2, <2>2, <2>3, ChainAppend
  <2>5. Inbound(R)'
    BY <1>1, <2>1, <2>4 DEF Inbound
  <2>6. Outbound(W, z)'
    <3>1. Chain(W, outbox', Viewers, Receipts(asked'))
      BY <1>1, <1>3, <2>1, ChainWidens DEF Outbound
    <3>2. Queued(asked', reply', notifications', W[Len(outbox')], z)
      BY <1>1, <1>3, <2>1 DEF Outbound, Queued
    <3>3. QED BY <1>1, <2>1, <3>1, <3>2 DEF Outbound, Viewer
  <2>7. Running' => UpToDate(R[0], z)'
    BY <1>1, <2>1, <2>4 DEF Running, UpToDate
  <2>8. QED BY <2>5, <2>6, <2>7 DEF InTransit
<1>7. QED BY <1>4, <1>5, <1>6

(* The invariant on the way, when the server reads a message and handles   *)
(* it: the handler must do to the documents what the client did, and queue *)
(* what brings the client up to date.                                      *)
LEMMA HandlingKeeps ==
  ASSUME IInv, NEW method, Reads(method), state' # "reading",
         \A x, y \in Clients, w \in Viewers :
           /\ Head(inbox) \in Messages /\ Sent(asked, Head(inbox), x, y)
           /\ x.docs = documents /\ UpToDate(x, w)
           => /\ documents' = y.docs
              /\ \E z \in Viewers : /\ Queued(asked, reply', notifications', w, z)
                                    /\ Running' => UpToDate(y, z)'
  PROVE  AnsweredRight' /\ NothingQueued' /\ InTransit'
<1>1. /\ state = "reading" /\ inbox # <<>> /\ inbox' = Tail(inbox)
      /\ UNCHANGED <<outbox, buffers, moved, asked, edits, view, answers>>
  BY DEF Reads, clientVars
<1>2. inbox \in Seq(Messages) /\ Head(inbox) \in Messages /\ outbox \in Seq(Outgoing)
  BY <1>1 DEF IInv, InTypes
<1>3. AnsweredRight' /\ NothingQueued'
  BY <1>1 DEF IInv, AnsweredRight, NothingQueued
<1>4. InTransit'
  <2>1. PICK T, W, w : /\ Inbound(T) /\ Outbound(W, w)
                       /\ UpToDate(T[0], w)
    BY <1>1 DEF IInv, InTransit, Running
  <2>2. Chain(T, inbox, Clients, Sends(asked))
    BY <2>1 DEF Inbound
  <2>3. /\ T[1] \in Clients /\ <<Head(inbox), T[0], T[1]>> \in Sends(asked)
        /\ \E R : /\ Chain(R, Tail(inbox), Clients, Sends(asked))
                  /\ R[0] = T[1] /\ R[Len(Tail(inbox))] = T[Len(inbox)]
    BY <1>1, <1>2, <2>2, ChainTail
  <2>4. PICK R : /\ Chain(R, Tail(inbox), Clients, Sends(asked))
                 /\ R[0] = T[1] /\ R[Len(Tail(inbox))] = T[Len(inbox)]
    BY <2>3
  <2>5. T[0] \in Clients /\ Sent(asked, Head(inbox), T[0], T[1])
    BY <2>3 DEF Sends
  <2>6. w \in Viewers /\ w = W[Len(outbox)]
    <3>1. reply = <<>> /\ notifications = <<>>
      BY <1>1 DEF IInv, NothingQueued
    <3>2. \A m : <<m>> # <<>>
      OBVIOUS
    <3>3. w \in Viewers /\ Queued(asked, reply, notifications, W[Len(outbox)], w)
      BY <2>1 DEF Outbound
    <3>4. QED BY <3>1, <3>2, <3>3, Zenon DEF Queued
  <2>7. documents' = T[1].docs
    BY <1>2, <2>1, <2>3, <2>5, <2>6 DEF Inbound
  <2>8. PICK z \in Viewers : /\ Queued(asked, reply', notifications', w, z)
                             /\ Running' => UpToDate(T[1], z)'
    BY <1>2, <2>1, <2>3, <2>5, <2>6 DEF Inbound
  <2>9. Inbound(R)'
    BY <1>1, <2>1, <2>4, <2>7 DEF Inbound, Client
  <2>10. Outbound(W, z)'
    BY <1>1, <2>1, <2>6, <2>8 DEF Outbound, Viewer
  <2>11. Running' => UpToDate(R[0], z)'
    BY <2>4, <2>8 DEF UpToDate
  <2>12. QED BY <2>9, <2>10, <2>11 DEF InTransit
<1>5. QED BY <1>3, <1>4

(* The invariant on the way, when the server writes what it has queued. *)
LEMMA WritingKeeps ==
  ASSUME IInv, NEW m \in Outgoing, Writes(m), reply' = <<>>, notifications' = <<>>,
         UNCHANGED <<documents, indexed, unindexed, state, inbox, clientVars>>,
         \A w, z : Queued(asked, reply, notifications, w, z) => <<m, w, z>> \in Receipts(asked)
  PROVE  AnsweredRight' /\ NothingQueued' /\ InTransit'
<1>1. /\ outbox' = Append(outbox, m)
      /\ UNCHANGED <<documents, indexed, unindexed, state, inbox, buffers, moved, asked, edits, view, answers>>
  BY DEF Writes, clientVars
<1>2. AnsweredRight' /\ NothingQueued'
  BY <1>1 DEF IInv, AnsweredRight, NothingQueued
<1>3. PICK T, W, z : /\ Inbound(T) /\ Outbound(W, z)
                     /\ Running => UpToDate(T[0], z)
  BY DEF IInv, InTransit
<1>4. /\ outbox \in Seq(Outgoing) /\ Chain(W, outbox, Viewers, Receipts(asked))
      /\ z \in Viewers /\ <<m, W[Len(outbox)], z>> \in Receipts(asked)
  BY <1>3 DEF IInv, InTypes, Outbound
<1>5. PICK R : /\ Chain(R, Append(outbox, m), Viewers, Receipts(asked))
               /\ R[0] = W[0] /\ R[Len(Append(outbox, m))] = z
  BY <1>4, ChainAppend
<1>6. Inbound(T)'
  BY <1>1, <1>3 DEF Inbound, Client
<1>7. Outbound(R, z)'
  BY <1>1, <1>3, <1>5 DEF Outbound, Viewer, Queued
<1>8. Running' => UpToDate(T[0], z)'
  BY <1>1, <1>3 DEF Running, UpToDate
<1>9. QED BY <1>2, <1>6, <1>7, <1>8 DEF InTransit

(* The invariant on the way, when the client reads a message. *)
LEMMA ReceivingKeeps ==
  ASSUME IInv, ClientReceive
  PROVE  InTypes' /\ AnsweredRight' /\ NothingQueued' /\ InTransit'
<1> DEFINE m == Head(outbox)
<1>1. /\ outbox # <<>> /\ outbox' = Tail(outbox)
      /\ m.kind = "response" => answers' = Append(answers, m) /\ UNCHANGED view
      /\ m.kind # "response" => view' = [view EXCEPT ![m.uri] = m.diagnostics] /\ UNCHANGED answers
      /\ UNCHANGED <<documents, indexed, unindexed, reply, notifications, exiting, state, inbox,
                     buffers, moved, asked, edits>>
  BY DEF ClientReceive, serverVars
<1>2. PICK T, W, z : /\ Inbound(T) /\ Outbound(W, z)
                     /\ Running => UpToDate(T[0], z)
  BY DEF IInv, InTransit
<1>3. /\ outbox \in Seq(Outgoing) /\ m \in Outgoing /\ answers \in Seq(Replies)
      /\ Chain(W, outbox, Viewers, Receipts(asked)) /\ W[0] = Viewer
  BY <1>1, <1>2 DEF IInv, InTypes, Outbound
<1>4. /\ W[1] \in Viewers /\ <<m, W[0], W[1]>> \in Receipts(asked)
      /\ \E R : /\ Chain(R, Tail(outbox), Viewers, Receipts(asked))
                /\ R[0] = W[1] /\ R[Len(Tail(outbox))] = W[Len(outbox)]
  <2>1. outbox # <<>> /\ outbox \in Seq(Outgoing) /\ Chain(W, outbox, Viewers, Receipts(asked))
    BY <1>1, <1>3
  <2>2. QED BY <2>1, ChainTail
<1>5. PICK R : /\ Chain(R, Tail(outbox), Viewers, Receipts(asked))
               /\ R[0] = W[1] /\ R[Len(Tail(outbox))] = W[Len(outbox)]
  BY <1>4
<1>6. ReceivedResponse(asked, m, Viewer, W[1]) \/ ReceivedDiagnostics(m, Viewer, W[1])
  BY <1>3, <1>4 DEF Receipts
<1> HIDE DEF m
<1>7. /\ W[1] = Viewer'
      /\ \/ answers' = answers
         \/ /\ m \in Replies /\ answers' = Append(answers, m)
            /\ m.id = Len(answers) + 1 /\ Right(asked, m.id, m.result)
  <2>1. CASE ReceivedResponse(asked, m, Viewer, W[1])
    <3>1. m.kind = "response" /\ m \in Replies
      BY <1>3, <2>1 DEF ReceivedResponse, Outgoing, Replies, Diagnostics
    <3>2. answers' = Append(answers, m) /\ view' = view
      BY <1>1, <3>1
    <3>3. Len(answers') = Len(answers) + 1
      BY <1>3, <3>1, <3>2
    <3>4. QED BY <2>1, <3>1, <3>2, <3>3 DEF ReceivedResponse, Viewer
  <2>2. CASE ReceivedDiagnostics(m, Viewer, W[1])
    <3>1. m.kind # "response"
      BY <2>2 DEF ReceivedDiagnostics
    <3>2. QED BY <1>1, <2>2, <3>1 DEF ReceivedDiagnostics, Viewer
  <2>3. QED BY <1>6, <2>1, <2>2
<1>8. answers' \in Seq(Replies) /\ AnsweredRight'
  <2>1. AnsweredRight
    BY DEF IInv
  <2>2. CASE answers' = answers
    BY <1>1, <1>3, <2>1, <2>2 DEF AnsweredRight
  <2>3. CASE /\ m \in Replies /\ answers' = Append(answers, m)
             /\ m.id = Len(answers) + 1 /\ Right(asked, m.id, m.result)
    <3>1. answers' \in Seq(Replies) /\ Len(answers') = Len(answers) + 1
      BY <1>3, <2>3
    <3>2. \A i \in 1..Len(answers') : i \in 1..Len(answers) \/ i = Len(answers) + 1
      BY <1>3, <3>1
    <3>3. \A i \in 1..Len(answers) : answers'[i] = answers[i]
      BY <1>3, <2>3
    <3>4. answers'[Len(answers) + 1] = m
      BY <1>3, <2>3
    <3>5. \A i \in 1..Len(answers') : answers'[i].id = i /\ Right(asked, i, answers'[i].result)
      BY <2>1, <2>3, <3>2, <3>3, <3>4 DEF AnsweredRight
    <3>6. QED BY <1>1, <3>1, <3>5 DEF AnsweredRight
  <2>4. QED BY <1>7, <2>2, <2>3
<1>9. InTypes'
  <2>1. view' \in Docs
    BY <1>4, <1>7 DEF Viewers, Viewer
  <2>2. outbox' \in Seq(Outgoing) /\ Len(outbox') <= PipeSize
    <3>1. outbox' \in Seq(Outgoing) /\ Len(outbox') = Len(outbox) - 1 /\ Len(outbox) \in Nat
      BY <1>1, <1>3
    <3>2. Len(outbox) <= PipeSize /\ PipeSize \in Nat
      BY Bounds DEF IInv, InTypes, TypeOK
    <3>3. QED BY <3>1, <3>2
  <2>3. QED BY <1>1, <1>8, <2>1, <2>2 DEF IInv, InTypes, TypeOK, Docs
<1>10. NothingQueued'
  BY <1>1 DEF IInv, NothingQueued
<1>11. Inbound(T)'
  BY <1>1, <1>2 DEF Inbound, Client
<1>12. Outbound(R, z)'
  <2>1. Chain(R, outbox', Viewers, Receipts(asked'))
    BY <1>1, <1>5
  <2>2. R[0] = Viewer' /\ R[Len(outbox')] = W[Len(outbox)]
    BY <1>1, <1>5, <1>7
  <2>3. z \in Viewers /\ Queued(asked', reply', notifications', R[Len(outbox')], z)
    BY <1>1, <1>2, <2>2 DEF Outbound
  <2>4. QED BY <2>1, <2>2, <2>3 DEF Outbound
<1>13. Running' => UpToDate(T[0], z)'
  BY <1>1, <1>2 DEF Running, UpToDate
<1>14. QED BY <1>8, <1>9, <1>10, <1>11, <1>12, <1>13 DEF InTransit
------------------------------------------------------------------------------
(* The steps of the client. *)

LEMMA SendingTypes ==
  ASSUME IInv, AskedStep, NEW m \in Messages, Send(m),
         buffers' \in Docs, moved' \subseteq Uris, Len(asked') <= MaxRequests, edits' \in 0..MaxEdits
  PROVE  InTypes' /\ Client' \in Clients
<1>1. /\ Len(inbox) < PipeSize /\ inbox' = Append(inbox, m)
      /\ UNCHANGED <<documents, indexed, unindexed, reply, notifications, exiting, state, outbox, view, answers>>
  BY DEF Send, serverVars
<1>2. InTypes
  BY DEF IInv
<1>3. asked' \in Seq(Texts \union {NoDoc})
  <2>1. asked \in Seq(Texts \union {NoDoc})
    BY <1>2 DEF InTypes
  <2>2. \A d \in Texts \union {NoDoc} : Append(asked, d) \in Seq(Texts \union {NoDoc})
    BY <2>1
  <2>3. QED BY <2>1, <2>2 DEF AskedStep
<1>4. inbox' \in Seq(Messages) /\ Len(inbox') <= PipeSize
  <2>1. inbox \in Seq(Messages)
    BY <1>2 DEF InTypes
  <2>2. inbox' \in Seq(Messages) /\ Len(inbox') = Len(inbox) + 1 /\ Len(inbox) \in Nat
    BY <1>1, <2>1
  <2>3. QED BY <1>1, <2>2, Bounds
<1>5. InTypes'
  BY <1>1, <1>2, <1>3, <1>4 DEF InTypes, TypeOK, Docs
<1>6. Client' \in Clients
  BY <1>3 DEF Client, Clients
<1>7. QED BY <1>5, <1>6

(* A notification sent: the chain of what is on its way grows by it. *)
LEMMA NotifyingKeeps ==
  ASSUME IInv, NEW m \in Messages, Notify(m), buffers' \in Docs, moved' \subseteq Uris,
         Sent(asked', m, Client, Client')
  PROVE  IInv'
<1>1. Send(m) /\ asked' = asked /\ edits < MaxEdits /\ edits' = edits + 1
  BY DEF Notify
<1>2. AskedStep
  BY <1>1 DEF AskedStep
<1>3. edits' \in 0..MaxEdits /\ Len(asked') <= MaxRequests
  BY <1>1, Bounds DEF IInv, InTypes, TypeOK
<1>4. InTypes' /\ Client' \in Clients
  BY <1>1, <1>2, <1>3, SendingTypes
<1>5. AnsweredRight' /\ NothingQueued' /\ InTransit'
  BY <1>1, <1>2, <1>4, SendingKeeps
<1>6. QED BY <1>4, <1>5 DEF IInv

(* A request sent: its text is what the chain before it leads to. *)
LEMMA AskingKeeps ==
  ASSUME IInv, NEW m \in Messages, Send(m), NEW d \in Texts \union {NoDoc},
         Len(asked) < MaxRequests, asked' = Append(asked, d),
         UNCHANGED <<buffers, moved, edits>>, Sent(asked', m, Client, Client')
  PROVE  IInv'
<1>1. AskedStep
  BY DEF AskedStep
<1>2. Len(asked') <= MaxRequests
  <2>1. asked \in Seq(Texts \union {NoDoc})
    BY DEF IInv, InTypes
  <2>2. Len(asked') = Len(asked) + 1 /\ Len(asked) \in Nat
    BY <2>1
  <2>3. QED BY <2>2, Bounds
<1>3. buffers' \in Docs /\ moved' \subseteq Uris /\ edits' \in 0..MaxEdits
  BY DEF IInv, InTypes, TypeOK, Docs
<1>4. InTypes' /\ Client' \in Clients
  BY <1>1, <1>2, <1>3, SendingTypes
<1>5. AnsweredRight' /\ NothingQueued' /\ InTransit'
  BY <1>1, <1>4, SendingKeeps
<1>6. QED BY <1>4, <1>5 DEF IInv

(* A batch moved at once leaves each uri a text or none. *)
LEMMA MovedTyped ==
  ASSUME NEW d \in Docs, NEW b \in Batches
  PROVE  MovedAtOnce(d, b) \in Docs /\ Olds(b) \subseteq Uris /\ News(b) \subseteq Uris
<1>1. /\ \A i \in 1..Len(b) : b[i].old \in Uris /\ b[i].new \in Uris
      /\ ToSet(b) = {b[i] : i \in 1..Len(b)}
  BY BatchParts
<1>2. \A p \in ToSet(b) : p.old \in Uris /\ p.new \in Uris
  BY <1>1
<1>3. ASSUME NEW u \in News(b) PROVE (CHOOSE p \in ToSet(b) : p.new = u).old \in Uris
  <2>1. \E p \in ToSet(b) : p.new = u
    BY <1>3 DEF News
  <2>2. (CHOOSE p \in ToSet(b) : p.new = u) \in ToSet(b)
    BY <2>1
  <2>3. QED BY <1>2, <2>2
<1>4. MovedAtOnce(d, b) \in Docs
  BY <1>3 DEF MovedAtOnce, Docs
<1>5. QED BY <1>2, <1>4 DEF Olds, News

(* The actions of the client, one by one. *)
LEMMA ClientOpenKeeps ==
  ASSUME IInv, NEW u \in Uris, NEW t \in Texts, ClientOpen(u, t)
  PROVE  IInv'
<1> DEFINE m == [method |-> "didOpen", uri |-> u, text |-> t]
<1>1. m \in Messages
  BY DEF Messages
<1>2. /\ buffers' = [buffers EXCEPT ![u] = t] /\ moved' = moved \ {u}
      /\ Notify(m) /\ asked' = asked
  BY DEF ClientOpen, Notify
<1>3. buffers' \in Docs /\ moved' \subseteq Uris
  BY <1>2 DEF IInv, InTypes, TypeOK, Docs
<1>4. SentOpen(m, Client, Client')
  BY <1>2 DEF SentOpen, Client
<1> HIDE DEF m
<1>5. QED BY <1>1, <1>2, <1>3, <1>4, NotifyingKeeps DEF Sent

LEMMA ClientChangeKeeps ==
  ASSUME IInv, NEW u \in Uris, NEW changes \in Seq(Texts), ClientChange(u, changes)
  PROVE  IInv'
<1> DEFINE m == [method |-> "didChange", uri |-> u, changes |-> changes]
<1>1. m \in Messages
  BY DEF Messages
<1>2. /\ buffers' = [buffers EXCEPT ![u] = IF changes = <<>> THEN @ ELSE Last(changes)]
      /\ moved' = IF changes = <<>> THEN moved ELSE moved \ {u}
      /\ Notify(m) /\ asked' = asked
  BY DEF ClientChange, Notify
<1>3. changes # <<>> => Last(changes) \in Texts
  BY DEF Last
<1>4. buffers \in Docs /\ moved \subseteq Uris
  BY DEF IInv, InTypes, TypeOK, Docs
<1>5. buffers' \in Docs /\ moved' \subseteq Uris
  BY <1>2, <1>3, <1>4 DEF Docs
<1>6. SentChange(m, Client, Client')
  <2>1. CASE changes = <<>>
    <3>1. buffers' = buffers /\ moved' = moved
      BY <1>2, <1>4, <2>1 DEF Docs
    <3>2. QED BY <1>2, <2>1, <3>1 DEF SentChange, Client
  <2>2. CASE changes # <<>>
    BY <1>2, <2>2 DEF SentChange, Client
  <2>3. QED BY <2>1, <2>2
<1> HIDE DEF m
<1>7. QED BY <1>1, <1>2, <1>5, <1>6, NotifyingKeeps DEF Sent

LEMMA ClientCloseKeeps ==
  ASSUME IInv, NEW u \in Uris, ClientClose(u)
  PROVE  IInv'
<1> DEFINE m == [method |-> "didClose", uri |-> u]
<1>1. m \in Messages
  BY DEF Messages
<1>2. /\ buffers' = [buffers EXCEPT ![u] = NoDoc] /\ moved' = moved \ {u}
      /\ Notify(m) /\ asked' = asked
  BY DEF ClientClose, Notify
<1>3. buffers' \in Docs /\ moved' \subseteq Uris
  BY <1>2 DEF IInv, InTypes, TypeOK, Docs
<1>4. SentClose(m, Client, Client')
  BY <1>2 DEF SentClose, Client
<1> HIDE DEF m
<1>5. QED BY <1>1, <1>2, <1>3, <1>4, NotifyingKeeps DEF Sent

LEMMA ClientRenameKeeps ==
  ASSUME IInv, NEW b \in Batches, ClientRename(b)
  PROVE  IInv'
<1> DEFINE m == [method |-> "didRenameFiles", files |-> b]
<1>1. m \in Messages
  BY DEF Messages
<1>2. /\ \A u \in News(b) \ Olds(b) : ~Open(buffers[u])
      /\ buffers' = MovedAtOnce(buffers, b)
      /\ moved' = moved \union Olds(b) \union News(b)
      /\ Notify(m) /\ asked' = asked
  BY DEF ClientRename, Notify, MovedAtOnce, Olds, News
<1>3. buffers \in Docs /\ moved \subseteq Uris
  BY DEF IInv, InTypes, TypeOK, Docs
<1>4. buffers' \in Docs /\ moved' \subseteq Uris
  BY <1>2, <1>3, MovedTyped
<1>5. SentRename(m, Client, Client')
  BY <1>2 DEF SentRename, Client
<1> HIDE DEF m
<1>6. QED BY <1>1, <1>2, <1>4, <1>5, NotifyingKeeps DEF Sent

LEMMA ClientEndKeeps ==
  ASSUME IInv, NEW how \in {"exit", "garbage", "eof"}, ClientEnd(how)
  PROVE  IInv'
<1> DEFINE m == [method |-> how]
<1>1. m \in Messages
  BY DEF Messages
<1>2. UNCHANGED <<buffers, moved, asked>> /\ Notify(m)
  BY DEF ClientEnd, Notify
<1>3. buffers' \in Docs /\ moved' \subseteq Uris
  BY <1>2 DEF IInv, InTypes, TypeOK, Docs
<1>4. SentEnd(m, Client, Client')
  BY <1>2 DEF SentEnd, Client
<1> HIDE DEF m
<1>5. QED BY <1>1, <1>2, <1>3, <1>4, NotifyingKeeps DEF Sent

LEMMA ClientAskKeeps ==
  ASSUME IInv, NEW u \in Uris, ClientAsk(u)
  PROVE  IInv'
<1> DEFINE m == [method |-> "request", id |-> Len(asked) + 1, uri |-> u]
<1>1. asked \in Seq(Texts \union {NoDoc}) /\ buffers[u] \in Texts \union {NoDoc}
  BY DEF IInv, InTypes, TypeOK
<1>2. m \in Messages
  BY <1>1 DEF Messages
<1>3. /\ Len(asked) < MaxRequests /\ asked' = Append(asked, buffers[u])
      /\ Send(m) /\ UNCHANGED <<buffers, moved, edits>>
  BY DEF ClientAsk
<1>4. AskedFor(asked', Len(asked) + 1, buffers[u]) /\ Len(asked') = Len(asked) + 1
  BY <1>1, <1>3, AskedGrows
<1>5. SentRequest(asked', m, Client, Client')
  BY <1>3, <1>4 DEF SentRequest, Client
<1> HIDE DEF m
<1>6. QED BY <1>1, <1>2, <1>3, <1>5, AskingKeeps DEF Sent

LEMMA ClientAskOtherKeeps ==
  ASSUME IInv, NEW method \in {"shutdown", "unknown"}, ClientAskOther(method)
  PROVE  IInv'
<1> DEFINE m == [method |-> method, id |-> Len(asked) + 1]
<1>1. asked \in Seq(Texts \union {NoDoc})
  BY DEF IInv, InTypes
<1>2. m \in Messages
  BY <1>1 DEF Messages
<1>3. /\ Len(asked) < MaxRequests /\ asked' = Append(asked, NoDoc)
      /\ Send(m) /\ UNCHANGED <<buffers, moved, edits>>
  BY DEF ClientAskOther
<1>4. AskedFor(asked', Len(asked) + 1, NoDoc) /\ Len(asked') = Len(asked) + 1
  BY <1>1, <1>3, AskedGrows
<1>5. SentOther(asked', m, Client, Client')
  BY <1>3, <1>4 DEF SentOther, Client
<1> HIDE DEF m
<1>6. QED BY <1>1, <1>2, <1>3, <1>5, AskingKeeps DEF Sent

LEMMA ClientStep ==
  ASSUME IInv, ClientSends
  PROVE  IInv'
<1>1. CASE \E u \in Uris : \E t \in Texts : ClientOpen(u, t) \/ ClientChange(u, <<t>>)
  <2>1. \A t \in Texts : <<t>> \in Seq(Texts)
    OBVIOUS
  <2>2. QED BY <1>1, <2>1, ClientOpenKeeps, ClientChangeKeeps
<1>2. CASE \E u \in Uris : \E c \in {<<>>} \union {<<t, v>> : t, v \in Texts} : ClientChange(u, c)
  <2>1. PICK u \in Uris, c \in {<<>>} \union {<<t, v>> : t, v \in Texts} : ClientChange(u, c)
    BY <1>2
  <2>2. c \in Seq(Texts)
    <3>1. CASE c = <<>>
      BY <3>1
    <3>2. CASE \E t, v \in Texts : c = <<t, v>>
      BY <3>2
    <3>3. QED BY <3>1, <3>2
  <2>3. QED BY <2>1, <2>2, ClientChangeKeeps
<1>3. CASE \E u \in Uris : ClientClose(u) \/ ClientAsk(u)
  BY <1>3, ClientCloseKeeps, ClientAskKeeps
<1>4. CASE \E b \in Batches : ClientRename(b)
  BY <1>4, ClientRenameKeeps
<1>5. CASE \E method \in {"shutdown", "unknown"} : ClientAskOther(method)
  BY <1>5, ClientAskOtherKeeps
<1>6. CASE \E how \in {"exit", "garbage", "eof"} : ClientEnd(how)
  BY <1>6, ClientEndKeeps
<1>7. QED BY <1>1, <1>2, <1>3, <1>4, <1>5, <1>6 DEF ClientSends
------------------------------------------------------------------------------
(* The steps of the server. *)

LEMMA ReadingTypes ==
  ASSUME IInv, NEW method, Reads(method), documents' \in Docs, indexed' \in Docs, unindexed' \subseteq Uris,
         Len(reply') <= 1, exiting' \in BOOLEAN,
         state' \in {"reading", "writing", "exited", "failed", "ended", "crashed"}
  PROVE  InTypes'
<1>1. /\ inbox # <<>> /\ inbox' = Tail(inbox)
      /\ UNCHANGED <<outbox, buffers, moved, asked, edits, view, answers>>
  BY DEF Reads, clientVars
<1>2. inbox' \in Seq(Messages) /\ Len(inbox') <= PipeSize
  <2>1. inbox \in Seq(Messages)
    BY DEF IInv, InTypes
  <2>2. inbox' \in Seq(Messages) /\ Len(inbox') = Len(inbox) - 1 /\ Len(inbox) \in Nat
    BY <1>1, <2>1
  <2>3. Len(inbox) <= PipeSize
    BY DEF IInv, InTypes, TypeOK
  <2>4. QED BY <2>2, <2>3, Bounds
<1>3. QED BY <1>1, <1>2 DEF IInv, InTypes, TypeOK, Docs

(* The first message in the pipe is a message. *)
LEMMA HeadTyped ==
  ASSUME IInv, NEW method, Reads(method)
  PROVE  Head(inbox) \in Messages /\ Head(inbox).method = method
BY DEF IInv, InTypes, Reads

(* didOpen, and a didChange with a change: u has the text. *)
LEMMA AnalyzingKeeps ==
  ASSUME IInv, NEW method, Reads(method), NEW u \in Uris, NEW text \in Texts,
         AnalyzesAndPublishes(u, text),
         \A x, y \in Clients : Sent(asked, Head(inbox), x, y) =>
           y = [docs |-> [x.docs EXCEPT ![u] = text], moved |-> x.moved \ {u}, count |-> x.count]
  PROVE  IInv'
<1> DEFINE n == [kind |-> "diagnostics", uri |-> u, diagnostics |-> text]
<1>1. /\ reply = <<>> /\ notifications = <<>> /\ reply' = reply /\ exiting' = exiting
      /\ documents' = [documents EXCEPT ![u] = text]
  BY DEF AnalyzesAndPublishes, Reads, IInv, NothingQueued
<1>2. /\ \/ state' = "crashed" /\ notifications' = <<>>
         \/ state' = "writing" /\ notifications' = <<n>> /\ Analyzes(u, text)
      /\ Analyzes(u, text) \/ (indexed' = indexed /\ unindexed' = unindexed)
  BY <1>1 DEF AnalyzesAndPublishes, Publishes
<1>3. documents \in Docs /\ indexed \in Docs /\ unindexed \subseteq Uris /\ exiting \in BOOLEAN /\ Len(reply) <= 1
  BY DEF IInv, InTypes, TypeOK, Docs
<1>4. n \in Diagnostics /\ n \in Outgoing
  BY DEF Diagnostics, Outgoing
<1>5. InTypes'
  <2>1. documents' \in Docs /\ indexed' \in Docs /\ unindexed' \subseteq Uris
    BY <1>1, <1>2, <1>3 DEF Docs, Analyzes
  <2>2. QED BY <1>1, <1>2, <1>3, <2>1, ReadingTypes
<1>6. ASSUME NEW x \in Clients, NEW y \in Clients, NEW w \in Viewers,
             Sent(asked, Head(inbox), x, y), x.docs = documents, UpToDate(x, w)
      PROVE  /\ documents' = y.docs
             /\ \E z \in Viewers : /\ Queued(asked, reply', notifications', w, z)
                                   /\ Running' => UpToDate(y, z)'
  <2>1. y = [docs |-> [x.docs EXCEPT ![u] = text], moved |-> x.moved \ {u}, count |-> x.count]
    BY <1>6
  <2>2. CASE state' = "crashed" /\ notifications' = <<>>
    BY <1>1, <1>6, <2>1, <2>2 DEF Running, Queued
  <2>3. CASE state' = "writing" /\ notifications' = <<n>> /\ Analyzes(u, text)
    <3> DEFINE z == [view |-> [w.view EXCEPT ![u] = text], count |-> w.count]
    <3>1. z \in Viewers
      BY DEF Viewers, Docs
    <3>2. ReceivedDiagnostics(n, w, z)
      BY DEF ReceivedDiagnostics
    <3>3. <<n, w, z>> \in Receipts(asked)
      BY <1>4, <3>1, <3>2 DEF Receipts
    <3>4. Queued(asked, reply', notifications', w, z)
      BY <1>1, <1>4, <2>3, <3>3 DEF Queued
    <3>5. \A v \in Uris : Open(documents'[v]) /\ v \notin unindexed' => indexed'[v] = documents'[v]
      BY <1>1, <1>3, <1>6, <2>3 DEF UpToDate, Analyzes, Docs
    <3>6. z.count = y.count /\ \A v \in Uris \ y.moved : z.view[v] = documents'[v]
      BY <1>1, <1>3, <1>6, <2>1 DEF UpToDate, Viewers, Docs
    <3>7. UpToDate(y, z)'
      BY <3>5, <3>6 DEF UpToDate
    <3>8. QED BY <1>1, <1>6, <2>1, <3>1, <3>4, <3>7
  <2>4. QED BY <1>2, <2>2, <2>3
<1>7. state' # "reading"
  BY <1>2
<1>8. AnsweredRight' /\ NothingQueued' /\ InTransit'
  BY <1>6, <1>7, HandlingKeeps
<1>9. QED BY <1>5, <1>8 DEF IInv

(* The handlers, one by one. *)
LEMMA HandleDidOpenKeeps ==
  ASSUME IInv, HandleDidOpen
  PROVE  IInv'
<1> DEFINE m == Head(inbox)
<1>1. Reads("didOpen") /\ AnalyzesAndPublishes(m.uri, m.text)
  BY DEF HandleDidOpen
<1>2. m.method = "didOpen" /\ m.uri \in Uris /\ m.text \in Texts
  BY <1>1, HeadTyped DEF Messages
<1>3. \A x, y \in Clients : Sent(asked, m, x, y) =>
        y = [docs |-> [x.docs EXCEPT ![m.uri] = m.text], moved |-> x.moved \ {m.uri}, count |-> x.count]
  BY <1>2 DEF Sent, SentOpen, SentChange, SentClose, SentRename, SentRequest, SentOther, SentEnd
<1>4. QED BY <1>1, <1>2, <1>3, AnalyzingKeeps

(* What changes nothing the client must learn of. *)
LEMMA IgnoringKeeps ==
  ASSUME IInv, NEW method, Reads(method),
         UNCHANGED <<documents, indexed, unindexed, reply, notifications>>, exiting' \in BOOLEAN,
         state' \in {"writing", "failed", "ended"},
         \A x, y \in Clients : Sent(asked, Head(inbox), x, y) => y = x
  PROVE  IInv'
<1>1. /\ reply' = <<>> /\ notifications' = <<>>
  BY DEF Reads, IInv, NothingQueued
<1>2. InTypes'
  <2>1. documents' \in Docs /\ indexed' \in Docs /\ unindexed' \subseteq Uris /\ Len(reply') <= 1
    BY DEF IInv, InTypes, TypeOK, Docs
  <2>2. QED BY <2>1, ReadingTypes
<1>3. ASSUME NEW x \in Clients, NEW y \in Clients, NEW w \in Viewers,
             Sent(asked, Head(inbox), x, y), x.docs = documents, UpToDate(x, w)
      PROVE  /\ documents' = y.docs
             /\ \E z \in Viewers : /\ Queued(asked, reply', notifications', w, z)
                                   /\ Running' => UpToDate(y, z)'
  <2>1. y = x
    BY <1>3
  <2>2. Queued(asked, reply', notifications', w, w) /\ UpToDate(y, w)'
    BY <1>1, <1>3, <2>1 DEF Queued, UpToDate
  <2>3. QED BY <1>3, <2>1, <2>2
<1>4. AnsweredRight' /\ NothingQueued' /\ InTransit'
  BY <1>3, HandlingKeeps
<1>5. QED BY <1>2, <1>4 DEF IInv

LEMMA HandleDidChangeKeeps ==
  ASSUME IInv, HandleDidChange
  PROVE  IInv'
<1> DEFINE m == Head(inbox)
<1>1. /\ Reads("didChange")
      /\ IF m.changes = <<>>
         THEN state' = "writing" /\ UNCHANGED <<documents, indexed, unindexed, reply, notifications, exiting>>
         ELSE AnalyzesAndPublishes(m.uri, Last(m.changes))
  BY DEF HandleDidChange
<1>2. m.method = "didChange" /\ m.uri \in Uris /\ m.changes \in Seq(Texts)
  BY <1>1, HeadTyped DEF Messages
<1>3. \A x, y \in Clients : Sent(asked, m, x, y) =>
        y = IF m.changes = <<>> THEN x
            ELSE [docs |-> [x.docs EXCEPT ![m.uri] = Last(m.changes)],
                  moved |-> x.moved \ {m.uri}, count |-> x.count]
  BY <1>2 DEF Sent, SentOpen, SentChange, SentClose, SentRename, SentRequest, SentOther, SentEnd
<1>4. CASE m.changes = <<>>
  <2>1. exiting' \in BOOLEAN
    BY <1>1, <1>4 DEF IInv, InTypes, TypeOK
  <2>2. \A x, y \in Clients : Sent(asked, m, x, y) => y = x
    BY <1>3, <1>4
  <2>3. QED BY <1>1, <1>4, <2>1, <2>2, IgnoringKeeps
<1>5. CASE m.changes # <<>>
  <2>1. Last(m.changes) \in Texts
    <3> DEFINE c == m.changes
    <3> HIDE DEF c
    <3>1. c \in Seq(Texts) /\ c # <<>>
      BY <1>2, <1>5 DEF c
    <3>2. Last(c) \in Texts
      BY <3>1 DEF Last
    <3>3. QED BY <3>2 DEF c
  <2>2. \A x, y \in Clients : Sent(asked, m, x, y) =>
          y = [docs |-> [x.docs EXCEPT ![m.uri] = Last(m.changes)],
               moved |-> x.moved \ {m.uri}, count |-> x.count]
    BY <1>3, <1>5
  <2>3. QED BY <1>1, <1>2, <1>5, <2>1, <2>2, AnalyzingKeeps
<1>6. QED BY <1>4, <1>5

LEMMA HandleDidCloseKeeps ==
  ASSUME IInv, HandleDidClose
  PROVE  IInv'
<1> DEFINE m == Head(inbox)
<1>1. Reads("didClose")
  BY DEF HandleDidClose
<1>2. m.method = "didClose" /\ m.uri \in Uris
  BY <1>1, HeadTyped DEF Messages
<1>3. PICK u \in Uris : u = m.uri
  BY <1>2
<1> DEFINE n == [kind |-> "diagnostics", uri |-> u, diagnostics |-> NoDoc]
<1>4. /\ reply' = <<>> /\ notifications' = <<n>> /\ exiting' = exiting
      /\ indexed' = indexed /\ unindexed' = unindexed
      /\ documents' = [documents EXCEPT ![u] = NoDoc] /\ state' = "writing"
  BY <1>3, <1>1 DEF HandleDidClose, Publishes, Reads, IInv, NothingQueued
<1>5. documents \in Docs /\ indexed \in Docs /\ unindexed \subseteq Uris /\ exiting \in BOOLEAN
  BY DEF IInv, InTypes, TypeOK, Docs
<1>6. n \in Diagnostics /\ n \in Outgoing
  BY <1>2 DEF Diagnostics, Outgoing
<1>7. \A x, y \in Clients : Sent(asked, m, x, y) =>
        y = [docs |-> [x.docs EXCEPT ![u] = NoDoc], moved |-> x.moved \ {u}, count |-> x.count]
  BY <1>3, <1>2 DEF Sent, SentOpen, SentChange, SentClose, SentRename, SentRequest, SentOther, SentEnd
<1>8. InTypes'
  <2>1. documents' \in Docs
    BY <1>4, <1>5 DEF Docs
  <2>2. Len(reply') <= 1 /\ indexed' \in Docs /\ unindexed' \subseteq Uris /\ exiting' \in BOOLEAN
    BY <1>4, <1>5
  <2>3. QED BY <1>1, <1>4, <2>1, <2>2, ReadingTypes
<1>9. ASSUME NEW x \in Clients, NEW y \in Clients, NEW w \in Viewers,
             Sent(asked, m, x, y), x.docs = documents, UpToDate(x, w)
      PROVE  /\ documents' = y.docs
             /\ \E z \in Viewers : /\ Queued(asked, reply', notifications', w, z)
                                   /\ Running' => UpToDate(y, z)'
  <2> DEFINE z == [view |-> [w.view EXCEPT ![u] = NoDoc], count |-> w.count]
  <2>1. y = [docs |-> [x.docs EXCEPT ![u] = NoDoc], moved |-> x.moved \ {u}, count |-> x.count]
    BY <1>7, <1>9
  <2>2. z \in Viewers
    BY DEF Viewers, Docs
  <2>3. ReceivedDiagnostics(n, w, z)
    BY DEF ReceivedDiagnostics
  <2>4. <<n, w, z>> \in Receipts(asked)
    BY <1>6, <2>2, <2>3 DEF Receipts
  <2>5. Queued(asked, reply', notifications', w, z)
    BY <1>4, <1>6, <2>4 DEF Queued
  <2>6. UpToDate(y, z)'
    BY <1>4, <1>2, <1>5, <1>9, <2>1 DEF UpToDate, Viewers, Docs, Open
  <2>7. QED BY <1>4, <1>9, <2>1, <2>2, <2>5, <2>6
<1>10. AnsweredRight' /\ NothingQueued' /\ InTransit'
  BY <1>1, <1>4, <1>9, HandlingKeeps
<1>11. QED BY <1>8, <1>10 DEF IInv

LEMMA HandleDidRenameFilesKeeps ==
  ASSUME IInv, HandleDidRenameFiles
  PROVE  IInv'
<1> DEFINE m == Head(inbox)
           b == m.files
           before == [documents |-> documents, indexed |-> indexed, unindexed |-> unindexed]
<1>0. /\ Reads("didRenameFiles") /\ state' = "writing"
      /\ UNCHANGED <<reply, notifications, exiting>>
      /\ \E F \in SUBSET {p.new : p \in ToSet(b)} :
           /\ documents' = MoveAll(before, b, F).documents
           /\ indexed' = MoveAll(before, b, F).indexed
           /\ unindexed' = MoveAll(before, b, F).unindexed
  BY DEF HandleDidRenameFiles
<1> PICK F : /\ documents' = MoveAll(before, b, F).documents
             /\ indexed' = MoveAll(before, b, F).indexed
             /\ unindexed' = MoveAll(before, b, F).unindexed
  BY <1>0
<1> DEFINE after == MoveAll(before, b, F)
<1>1. /\ Reads("didRenameFiles")
      /\ documents' = after.documents /\ indexed' = after.indexed /\ unindexed' = after.unindexed
      /\ state' = "writing"
      /\ UNCHANGED <<reply, notifications, exiting>>
  BY <1>0
<1>2. m.method = "didRenameFiles" /\ b \in Batches
  BY <1>1, HeadTyped DEF Messages
<1>3. documents \in Docs /\ indexed \in Docs /\ unindexed \subseteq Uris /\ exiting \in BOOLEAN
  BY DEF IInv, InTypes, TypeOK, Docs
<1>4. \A x, y \in Clients : Sent(asked, m, x, y) =>
        /\ \A u \in News(b) \ Olds(b) : ~Open(x.docs[u])
        /\ y = [docs |-> MovedAtOnce(x.docs, b),
                moved |-> x.moved \union Olds(b) \union News(b), count |-> x.count]
  BY <1>2 DEF Sent, SentOpen, SentChange, SentClose, SentRename, SentRequest, SentOther, SentEnd
<1>5. /\ before \in Servers /\ before.documents = documents
      /\ before.indexed = indexed /\ before.unindexed = unindexed
  BY <1>3 DEF Servers
<1>6. reply' = <<>> /\ notifications' = <<>>
  BY <1>1 DEF Reads, IInv, NothingQueued
<1> HIDE DEF b, before, after
<1>7. ASSUME NEW x \in Clients, NEW w \in Viewers, x.docs = documents, UpToDate(x, w),
             \A u \in News(b) \ Olds(b) : ~Open(x.docs[u])
      PROVE  /\ after \in Servers /\ IndexFollows(after)
             /\ after.documents = MovedAtOnce(documents, b)
  <2>1. IndexFollows(before)
    BY <1>5, <1>7 DEF IndexFollows, UpToDate
  <2>2. QED BY <1>2, <1>5, <1>7, <2>1, BatchMoves DEF after
<1>8. ASSUME NEW x \in Clients, NEW y \in Clients, NEW w \in Viewers,
             Sent(asked, m, x, y), x.docs = documents, UpToDate(x, w)
      PROVE  /\ documents' = y.docs
             /\ \E z \in Viewers : /\ Queued(asked, reply', notifications', w, z)
                                   /\ Running' => UpToDate(y, z)'
  <2>1. /\ y = [docs |-> MovedAtOnce(x.docs, b),
                moved |-> x.moved \union Olds(b) \union News(b), count |-> x.count]
        /\ IndexFollows(after) /\ after.documents = MovedAtOnce(documents, b)
    BY <1>4, <1>7, <1>8
  <2>2. \A u \in Uris \ (Olds(b) \union News(b)) : MovedAtOnce(documents, b)[u] = documents[u]
    BY DEF MovedAtOnce
  <2>3. UpToDate(y, w)'
    BY <1>1, <1>8, <2>1, <2>2 DEF UpToDate, IndexFollows
  <2>4. Queued(asked, reply', notifications', w, w)
    BY <1>6 DEF Queued
  <2>5. QED BY <1>1, <1>8, <2>1, <2>3, <2>4
<1>9. AnsweredRight' /\ NothingQueued' /\ InTransit'
  BY <1>1, <1>8, HandlingKeeps
<1>10. documents' \in Docs /\ indexed' \in Docs /\ unindexed' \subseteq Uris
  <2>1. PICK T, W, w : Inbound(T) /\ Outbound(W, w) /\ UpToDate(T[0], w)
    BY <1>1 DEF IInv, InTransit, Running, Reads
  <2>2. /\ inbox \in Seq(Messages) /\ inbox # <<>>
        /\ Chain(T, inbox, Clients, Sends(asked))
    BY <1>1, <2>1 DEF Inbound, IInv, InTypes, Reads
  <2>3. <<m, T[0], T[1]>> \in Sends(asked)
    BY <2>2, ChainTail
  <2>4. T[0] \in Clients /\ T[1] \in Clients /\ Sent(asked, m, T[0], T[1])
    BY <2>3 DEF Sends
  <2>5. w \in Viewers /\ T[0].docs = documents
    BY <2>1 DEF Inbound, Outbound
  <2>6. after \in Servers
    BY <1>4, <1>7, <2>1, <2>4, <2>5
  <2>7. QED BY <1>1, <2>6 DEF Servers
<1>11. InTypes'
  BY <1>1, <1>3, <1>6, <1>10, ReadingTypes
<1>12. QED BY <1>9, <1>11 DEF IInv

(* A response queued that is right for the request. *)
LEMMA RespondingKeeps ==
  ASSUME IInv, NEW method, Reads(method), NEW r \in Texts \union {"disk", "error", "empty"},
         Responds(Head(inbox).id, r), Head(inbox).id \in Nat,
         \A x, y \in Clients : Sent(asked, Head(inbox), x, y) /\ x.docs = documents =>
           /\ y = [docs |-> x.docs, moved |-> x.moved, count |-> x.count + 1]
           /\ Head(inbox).id = x.count + 1 /\ Right(asked, Head(inbox).id, r)
  PROVE  IInv'
<1> DEFINE n == [kind |-> "response", id |-> Head(inbox).id, result |-> r]
<1>1. /\ reply' = <<n>> /\ notifications' = <<>> /\ exiting' = exiting
      /\ documents' = documents /\ indexed' = indexed /\ unindexed' = unindexed /\ state' = "writing"
  BY DEF Responds, Reads, IInv, NothingQueued
<1>2. n \in Replies /\ n \in Outgoing
  BY DEF Replies, Outgoing
<1>3. InTypes'
  <2>1. documents' \in Docs /\ indexed' \in Docs /\ unindexed' \subseteq Uris /\ exiting' \in BOOLEAN
    BY <1>1 DEF IInv, InTypes, TypeOK, Docs
  <2>2. Len(reply') <= 1
    BY <1>1
  <2>3. QED BY <1>1, <2>1, <2>2, ReadingTypes
<1>4. ASSUME NEW x \in Clients, NEW y \in Clients, NEW w \in Viewers,
             Sent(asked, Head(inbox), x, y), x.docs = documents, UpToDate(x, w)
      PROVE  /\ documents' = y.docs
             /\ \E z \in Viewers : /\ Queued(asked, reply', notifications', w, z)
                                   /\ Running' => UpToDate(y, z)'
  <2> DEFINE z == [view |-> w.view, count |-> w.count + 1]
  <2>1. /\ y = [docs |-> x.docs, moved |-> x.moved, count |-> x.count + 1]
        /\ n.id = x.count + 1 /\ Right(asked, n.id, n.result)
    BY <1>4
  <2>2. z \in Viewers
    BY DEF Viewers
  <2>3. w.count = x.count
    BY <1>4 DEF UpToDate
  <2> HIDE DEF n
  <2>4. ReceivedResponse(asked, n, w, z)
    BY <2>1, <2>3 DEF ReceivedResponse, n
  <2>5. <<n, w, z>> \in Receipts(asked)
    BY <1>2, <2>2, <2>4 DEF Receipts
  <2>6. Queued(asked, reply', notifications', w, z)
    BY <1>1, <1>2, <2>5 DEF Queued
  <2>7. UpToDate(y, z)'
    BY <1>1, <1>4, <2>1, <2>3 DEF UpToDate
  <2>8. QED BY <1>1, <1>4, <2>1, <2>2, <2>6, <2>7
<1>5. AnsweredRight' /\ NothingQueued' /\ InTransit'
  BY <1>1, <1>4, HandlingKeeps
<1>6. QED BY <1>3, <1>5 DEF IInv

(* What stands for a result without a buffer is no text. *)
LEMMA NoTexts == "disk" \notin Texts /\ "error" \notin Texts /\ "empty" \notin Texts /\ NoDoc \notin Texts
<1>1. NoDoc \notin Texts /\ {"disk", "error", "empty"} \intersect Texts = {}
  BY LspServerAssumption, Zenon
<1>2. QED BY <1>1

LEMMA HandleRequestKeeps ==
  ASSUME IInv, HandleRequest
  PROVE  IInv'
<1> DEFINE m == Head(inbox)
<1>1. /\ Reads("request")
      /\ IF Open(documents[m.uri])
         THEN Responds(m.id, documents[m.uri])
         ELSE \E r \in {"disk", "error"} : Responds(m.id, r)
  BY DEF HandleRequest
<1>2. m.method = "request" /\ m.uri \in Uris /\ m.id \in Nat
  BY <1>1, HeadTyped DEF Messages
<1>3. \A x, y \in Clients : Sent(asked, m, x, y) =>
        /\ y = [docs |-> x.docs, moved |-> x.moved, count |-> x.count + 1]
        /\ m.id = x.count + 1 /\ AskedFor(asked, m.id, x.docs[m.uri])
  BY <1>2 DEF Sent, SentOpen, SentChange, SentClose, SentRename, SentRequest, SentOther, SentEnd
<1>4. documents[m.uri] \in Texts \union {NoDoc}
  BY <1>2 DEF IInv, InTypes, TypeOK
<1>5. PICK r \in Texts \union {"disk", "error", "empty"} :
        /\ Responds(m.id, r)
        /\ IF Open(documents[m.uri]) THEN r = documents[m.uri] ELSE r \notin Texts
  BY <1>1, <1>4, NoTexts DEF Open
<1>6. AskedFor(asked, m.id, documents[m.uri]) => Right(asked, m.id, r)
  BY <1>4, <1>5 DEF Right
<1>7. \A x, y \in Clients : Sent(asked, m, x, y) /\ x.docs = documents =>
        /\ y = [docs |-> x.docs, moved |-> x.moved, count |-> x.count + 1]
        /\ m.id = x.count + 1 /\ Right(asked, m.id, r)
  BY <1>3, <1>6
<1>8. QED BY <1>1, <1>2, <1>5, <1>7, RespondingKeeps

LEMMA HandleOtherKeeps ==
  ASSUME IInv, HandleOther
  PROVE  IInv'
<1> DEFINE m == Head(inbox)
<1>1. PICK method \in {"shutdown", "unknown"}, r \in {"empty", "error"} : Reads(method) /\ Responds(m.id, r)
  BY DEF HandleOther
<1>2. m.method \in {"shutdown", "unknown"} /\ m.id \in Nat
  BY <1>1, HeadTyped DEF Messages
<1>3. \A x, y \in Clients : Sent(asked, m, x, y) =>
        /\ y = [docs |-> x.docs, moved |-> x.moved, count |-> x.count + 1]
        /\ m.id = x.count + 1 /\ AskedFor(asked, m.id, NoDoc)
  BY <1>2 DEF Sent, SentOpen, SentChange, SentClose, SentRename, SentRequest, SentOther, SentEnd
<1>4. AskedFor(asked, m.id, NoDoc) => Right(asked, m.id, r)
  BY NoTexts DEF Right, Open
<1>5. \A x, y \in Clients : Sent(asked, m, x, y) /\ x.docs = documents =>
        /\ y = [docs |-> x.docs, moved |-> x.moved, count |-> x.count + 1]
        /\ m.id = x.count + 1 /\ Right(asked, m.id, r)
  BY <1>3, <1>4
<1>6. r \in Texts \union {"disk", "error", "empty"}
  BY <1>1
<1>7. QED BY <1>1, <1>2, <1>5, <1>6, RespondingKeeps

LEMMA DiskTextPanicsKeeps ==
  ASSUME IInv, DiskTextPanics
  PROVE  IInv'
<1> DEFINE m == Head(inbox)
<1>1. /\ Reads("request") /\ state' = "crashed"
      /\ UNCHANGED <<documents, indexed, unindexed, reply, notifications, exiting>>
  BY DEF DiskTextPanics
<1>2. m.method = "request"
  BY <1>1, HeadTyped
<1>3. \A x, y \in Clients : Sent(asked, m, x, y) => y.docs = x.docs
  BY <1>2 DEF Sent, SentOpen, SentChange, SentClose, SentRename, SentRequest, SentOther, SentEnd
<1>4. reply' = <<>> /\ notifications' = <<>>
  BY <1>1 DEF Reads, IInv, NothingQueued
<1>5. InTypes'
  <2>1. documents' \in Docs /\ indexed' \in Docs /\ unindexed' \subseteq Uris /\ Len(reply') <= 1 /\ exiting' \in BOOLEAN
    BY <1>1 DEF IInv, InTypes, TypeOK, Docs
  <2>2. QED BY <1>1, <2>1, ReadingTypes
<1>6. ASSUME NEW x \in Clients, NEW y \in Clients, NEW w \in Viewers,
             Sent(asked, m, x, y), x.docs = documents
      PROVE  /\ documents' = y.docs
             /\ \E z \in Viewers : /\ Queued(asked, reply', notifications', w, z)
                                   /\ Running' => UpToDate(y, z)'
  BY <1>1, <1>3, <1>4, <1>6 DEF Running, Queued
<1>7. AnsweredRight' /\ NothingQueued' /\ InTransit'
  BY <1>1, <1>6, HandlingKeeps
<1>8. QED BY <1>5, <1>7 DEF IInv

(* A panic of the prewarming changes nothing but that the server has ended. *)
LEMMA PrewarmPanicsKeeps ==
  ASSUME IInv, PrewarmPanics
  PROVE  IInv'
<1>1. /\ state' = "crashed"
      /\ UNCHANGED <<documents, indexed, unindexed, reply, notifications, exiting, inbox, outbox,
                     buffers, moved, asked, edits, view, answers>>
  BY DEF PrewarmPanics, clientVars
<1>2. InTypes' /\ AnsweredRight' /\ NothingQueued'
  BY <1>1 DEF IInv, InTypes, TypeOK, AnsweredRight, NothingQueued
<1>3. PICK T, W, z : Inbound(T) /\ Outbound(W, z)
  BY DEF IInv, InTransit
<1>4. Inbound(T)' /\ Outbound(W, z)'
  BY <1>1, <1>3 DEF Inbound, Client, Outbound, Viewer
<1>5. ~Running'
  BY <1>1 DEF Running
<1>6. QED BY <1>2, <1>4, <1>5 DEF IInv, InTransit

LEMMA EndingKeeps ==
  ASSUME IInv, HandleExit \/ ReadFails
  PROVE  IInv'
<1>1. PICK method \in {"exit", "garbage", "eof"} : Reads(method)
  BY DEF HandleExit, ReadFails
<1>2. /\ UNCHANGED <<documents, indexed, unindexed, reply, notifications>> /\ exiting' \in BOOLEAN
      /\ state' \in {"writing", "failed", "ended"}
  BY DEF HandleExit, ReadFails, IInv, InTypes, TypeOK
<1>3. Head(inbox).method \in {"exit", "garbage", "eof"}
  BY <1>1, HeadTyped
<1>4. \A x, y \in Clients : Sent(asked, Head(inbox), x, y) => y = x
  BY <1>3 DEF Sent, SentOpen, SentChange, SentClose, SentRename, SentRequest, SentOther, SentEnd
<1>5. QED BY <1>1, <1>2, <1>4, IgnoringKeeps

(* A message more in the pipe to the client. *)
LEMMA WritingTypes ==
  ASSUME IInv, NEW m \in Outgoing, Writes(m), reply' = <<>>,
         UNCHANGED <<documents, indexed, unindexed, exiting, state, inbox, clientVars>>
  PROVE  InTypes'
<1>1. /\ Len(outbox) < PipeSize /\ outbox' = Append(outbox, m)
      /\ UNCHANGED <<documents, indexed, unindexed, exiting, state, inbox, buffers, moved, asked, edits, view, answers>>
  BY DEF Writes, clientVars
<1>2. outbox' \in Seq(Outgoing) /\ Len(outbox') <= PipeSize
  <2>1. outbox \in Seq(Outgoing)
    BY DEF IInv, InTypes
  <2>2. outbox' \in Seq(Outgoing) /\ Len(outbox') = Len(outbox) + 1 /\ Len(outbox) \in Nat
    BY <1>1, <2>1
  <2>3. QED BY <1>1, <2>2, Bounds
<1>3. Len(reply') <= 1
  OBVIOUS
<1>4. QED BY <1>1, <1>2, <1>3 DEF IInv, InTypes, TypeOK

(* What is queued is one message. *)
LEMMA OneQueued ==
  ASSUME NEW r, NEW n, NEW w, NEW z, Queued(asked, r, n, w, z)
  PROVE  /\ r # <<>> => n = <<>> /\ \E m \in Replies : Head(r) = m /\ <<m, w, z>> \in Receipts(asked)
         /\ n # <<>> => Tail(n) = <<>> /\ \E m \in Diagnostics : Head(n) = m /\ <<m, w, z>> \in Receipts(asked)
<1>1. \A m : <<m>> # <<>> /\ Head(<<m>>) = m /\ Tail(<<m>>) = <<>>
  OBVIOUS
<1>2. QED BY <1>1, Zenon DEF Queued

(* Writing, and what follows a message. *)
LEMMA WriteResponseKeeps ==
  ASSUME IInv, WriteResponse
  PROVE  IInv'
<1>1. /\ reply # <<>> /\ Writes(Head(reply)) /\ reply' = <<>>
      /\ UNCHANGED <<documents, indexed, unindexed, notifications, exiting, state, inbox, clientVars>>
  BY DEF WriteResponse
<1>2. \E w, z : Queued(asked, reply, notifications, w, z)
  BY DEF IInv, InTransit, Outbound
<1>3. Head(reply) \in Outgoing /\ notifications' = <<>>
  <2>1. Head(reply) \in Replies /\ notifications = <<>>
    BY <1>1, <1>2, OneQueued, Zenon
  <2>2. QED BY <1>1, <2>1 DEF Outgoing
<1>4. \A w, z : Queued(asked, reply, notifications, w, z) => <<Head(reply), w, z>> \in Receipts(asked)
  BY <1>1, OneQueued, Zenon
<1>5. InTypes'
  BY <1>1, <1>3, WritingTypes
<1>6. AnsweredRight' /\ NothingQueued' /\ InTransit'
  BY <1>1, <1>3, <1>4, WritingKeeps
<1>7. QED BY <1>5, <1>6 DEF IInv

LEMMA WriteNotificationKeeps ==
  ASSUME IInv, WriteNotification
  PROVE  IInv'
<1>1. /\ reply = <<>> /\ notifications # <<>> /\ Writes(Head(notifications)) /\ reply' = <<>>
      /\ notifications' = Tail(notifications)
      /\ UNCHANGED <<documents, indexed, unindexed, exiting, state, inbox, clientVars>>
  BY DEF WriteNotification
<1>2. \E w, z : Queued(asked, reply, notifications, w, z)
  BY DEF IInv, InTransit, Outbound
<1>3. Head(notifications) \in Outgoing /\ notifications' = <<>>
  <2>1. Head(notifications) \in Diagnostics /\ Tail(notifications) = <<>>
    BY <1>1, <1>2, OneQueued, Zenon
  <2>2. QED BY <1>1, <2>1 DEF Outgoing
<1>4. \A w, z : Queued(asked, reply, notifications, w, z) => <<Head(notifications), w, z>> \in Receipts(asked)
  BY <1>1, OneQueued, Zenon
<1>5. InTypes'
  BY <1>1, <1>3, WritingTypes
<1>6. AnsweredRight' /\ NothingQueued' /\ InTransit'
  BY <1>1, <1>3, <1>4, WritingKeeps
<1>7. QED BY <1>5, <1>6 DEF IInv

LEMMA MessageDoneKeeps ==
  ASSUME IInv, MessageDone
  PROVE  IInv'
<1>1. /\ state = "writing" /\ reply = <<>> /\ notifications = <<>> /\ state' \in {"exited", "reading"}
      /\ UNCHANGED <<documents, indexed, unindexed, reply, notifications, exiting, inbox, outbox,
                     buffers, moved, asked, edits, view, answers>>
  BY DEF MessageDone, clientVars
<1>2. InTypes' /\ AnsweredRight' /\ NothingQueued'
  BY <1>1 DEF IInv, InTypes, TypeOK, AnsweredRight, NothingQueued
<1>3. PICK T, W, z : /\ Inbound(T) /\ Outbound(W, z)
                     /\ Running => UpToDate(T[0], z)
  BY DEF IInv, InTransit
<1>4. Inbound(T)' /\ Outbound(W, z)'
  BY <1>1, <1>3 DEF Inbound, Client, Outbound, Viewer
<1>5. Running' => UpToDate(T[0], z)'
  BY <1>1, <1>3 DEF Running, UpToDate
<1>6. QED BY <1>2, <1>4, <1>5 DEF IInv, InTransit
------------------------------------------------------------------------------
(* The invariant holds before any message is sent. *)
LEMMA Initially == Init => IInv
<1> SUFFICES ASSUME Init PROVE IInv
  OBVIOUS
<1>1. InTypes /\ AnsweredRight /\ NothingQueued
  <2>1. InTypes
    <3>1. /\ inbox = <<>> /\ outbox = <<>> /\ asked = <<>> /\ answers = <<>> /\ reply = <<>> /\ edits = 0
          /\ documents = [u \in Uris |-> NoDoc] /\ indexed = documents /\ unindexed = {}
          /\ buffers = documents /\ view = documents
          /\ moved = {} /\ exiting = FALSE /\ state = "reading"
      BY DEF Init
    <3>2. TypeOK
      <4>1. Len(inbox) = 0 /\ Len(outbox) = 0 /\ Len(asked) = 0 /\ Len(reply) = 0
        BY <3>1
      <4>2. 0 <= PipeSize /\ 0 <= MaxRequests /\ 0 \in 0..MaxEdits
        BY Bounds
      <4>3. documents \in [Uris -> Texts \union {NoDoc}]
        BY <3>1
      <4>4. /\ indexed \in [Uris -> Texts \union {NoDoc}] /\ buffers \in [Uris -> Texts \union {NoDoc}]
            /\ view \in [Uris -> Texts \union {NoDoc}]
        BY <3>1, <4>3
      <4>5. /\ moved \subseteq Uris /\ unindexed \subseteq Uris /\ exiting \in BOOLEAN
            /\ state \in {"reading", "writing", "exited", "failed", "ended", "crashed"}
            /\ edits \in 0..MaxEdits
        BY <3>1, <4>2
      <4>6. Len(inbox) <= PipeSize /\ Len(outbox) <= PipeSize /\ Len(asked) <= MaxRequests /\ Len(reply) <= 1
        BY <4>1, <4>2
      <4>7. QED BY <4>3, <4>4, <4>5, <4>6 DEF TypeOK
    <3>3. QED BY <3>1, <3>2 DEF InTypes
  <2>2. QED BY <2>1 DEF Init, AnsweredRight, NothingQueued
<1>2. InTransit
  <2> DEFINE T == [i \in 0..0 |-> Client]
             W == [i \in 0..0 |-> Viewer]
  <2>1. Client \in Clients /\ Viewer \in Viewers
    BY DEF Init, Client, Clients, Viewer, Viewers, Docs
  <2>2. Inbound(T)
    BY <2>1 DEF Init, Inbound, Chain, Client
  <2>3. Outbound(W, Viewer)
    BY <2>1 DEF Init, Outbound, Chain, Queued
  <2>4. UpToDate(T[0], Viewer)
    BY NoTexts DEF Init, UpToDate, Client, Viewer, Open
  <2>5. QED BY <2>2, <2>3, <2>4 DEF InTransit
<1>3. QED BY <1>1, <1>2 DEF IInv

(* Nothing happens. *)
LEMMA StutterKeeps ==
  ASSUME IInv, UNCHANGED vars
  PROVE  IInv'
<1>1. UNCHANGED <<documents, indexed, unindexed, reply, notifications, exiting, state, inbox, outbox,
                  buffers, moved, asked, edits, view, answers>>
  BY DEF vars, serverVars, clientVars
<1>2. InTypes' /\ AnsweredRight' /\ NothingQueued'
  BY <1>1 DEF IInv, InTypes, TypeOK, AnsweredRight, NothingQueued
<1>3. PICK T, W, z : /\ Inbound(T) /\ Outbound(W, z)
                     /\ Running => UpToDate(T[0], z)
  BY DEF IInv, InTransit
<1>4. Inbound(T)' /\ Outbound(W, z)'
  BY <1>1, <1>3 DEF Inbound, Client, Outbound, Viewer
<1>5. Running' => UpToDate(T[0], z)'
  BY <1>1, <1>3 DEF Running, UpToDate
<1>6. QED BY <1>2, <1>4, <1>5 DEF IInv, InTransit

(* Every step keeps the invariant. *)
LEMMA Inductive == IInv /\ [Next]_vars => IInv'
<1> SUFFICES ASSUME IInv, [Next]_vars PROVE IInv'
  OBVIOUS
<1>1. CASE HandleDidOpen \/ HandleDidChange \/ HandleDidClose \/ HandleDidRenameFiles
  BY <1>1, HandleDidOpenKeeps, HandleDidChangeKeeps, HandleDidCloseKeeps, HandleDidRenameFilesKeeps
<1>2. CASE HandleRequest \/ DiskTextPanics \/ HandleOther
  BY <1>2, HandleRequestKeeps, DiskTextPanicsKeeps, HandleOtherKeeps
<1>3. CASE HandleExit \/ ReadFails
  BY <1>3, EndingKeeps
<1>4. CASE WriteResponse \/ WriteNotification \/ MessageDone
  BY <1>4, WriteResponseKeeps, WriteNotificationKeeps, MessageDoneKeeps
<1>5. CASE ClientReceive
  BY <1>5, ReceivingKeeps DEF IInv
<1>6. CASE ClientSends
  BY <1>6, ClientStep
<1>7. CASE UNCHANGED vars
  BY <1>7, StutterKeeps
<1>8. CASE PrewarmPanics
  BY <1>8, PrewarmPanicsKeeps
<1>9. QED BY <1>1, <1>2, <1>3, <1>4, <1>5, <1>6, <1>7, <1>8 DEF Next, Serve

(* The inductive invariant: whatever is in the pipes leads from what the   *)
(* server has to what the client has, and from what the client shows to    *)
(* what the server has published.                                          *)
THEOREM Invariant == Spec => []IInv
<1>1. QED BY Initially, Inductive, PTL DEF Spec
------------------------------------------------------------------------------
(* What the invariant says once nothing is on its way. *)
LEMMA QuietStates ==
  ASSUME IInv, Quiet
  PROVE  /\ documents = buffers
         /\ \A u \in Uris \ moved : view[u] = buffers[u]
         /\ \A u \in Uris : Open(buffers[u]) /\ u \notin unindexed => indexed[u] = buffers[u]
<1>1. state = "reading" /\ Len(inbox) = 0 /\ Len(outbox) = 0
  BY DEF Quiet
<1>2. PICK T, W, z : Inbound(T) /\ Outbound(W, z) /\ UpToDate(T[0], z)
  BY <1>1 DEF IInv, InTransit, Running
<1>3. T[0] = Client /\ documents = buffers
  BY <1>1, <1>2 DEF Inbound, Client
<1>4. reply = <<>> /\ notifications = <<>>
  BY <1>1 DEF IInv, NothingQueued
<1>5. z = Viewer
  <2>1. \A m : <<m>> # <<>>
    OBVIOUS
  <2>2. W[Len(outbox)] = Viewer /\ Queued(asked, reply, notifications, W[Len(outbox)], z)
    BY <1>1, <1>2 DEF Outbound
  <2>3. QED BY <1>4, <2>1, <2>2, Zenon DEF Queued
<1>6. QED BY <1>2, <1>3, <1>5 DEF UpToDate, Client, Viewer

(* Every variable has its type. *)
THEOREM TypeCorrect == Spec => []TypeOK
<1>1. IInv => TypeOK
  BY DEF IInv, InTypes
<1>2. QED BY <1>1, Invariant, PTL

(* The server has the documents of the client once it has handled all it   *)
(* was sent: handleDidOpen to handleDidRenameFiles do what the client did. *)
THEOREM Mirrored == Spec => []BuffersMirrored
<1>1. IInv => BuffersMirrored
  BY QuietStates DEF BuffersMirrored
<1>2. QED BY <1>1, Invariant, PTL

(* What is shown for a document not renamed since is of its present text:  *)
(* publishDiagnostics follows each open, change and close, and the queue   *)
(* of notifications keeps their order.                                     *)
THEOREM Shown == Spec => []DiagnosticsMirrored
<1>1. IInv => DiagnosticsMirrored
  BY QuietStates DEF DiagnosticsMirrored
<1>2. QED BY <1>1, Invariant, PTL

(* The index has the present text of each open document, where a rename    *)
(* has put it, but for those whose last analysis failed: no change is      *)
(* analyzed out of order or under another uri, whatever was sent.          *)
THEOREM Indexed == Spec => []IndexMirrored
<1>1. IInv => IndexMirrored
  BY QuietStates DEF IndexMirrored
<1>2. QED BY <1>1, Invariant, PTL

(* Serve answers each request once and in the order of the requests. *)
THEOREM InOrder == Spec => []AnsweredInOrder
<1>1. IInv => AnsweredInOrder
  BY DEF IInv, AnsweredRight, AnsweredInOrder
<1>2. QED BY <1>1, Invariant, PTL

(* A request is answered from the text its document had when it was sent,  *)
(* however many messages were on their way, and from no text if it was not *)
(* open.                                                                   *)
THEOREM FromBuffer == Spec => []AnsweredFromBuffer
<1>1. IInv => AnsweredFromBuffer
  BY DEF IInv, AnsweredRight, Right, AskedFor, AnsweredFromBuffer
<1>2. QED BY <1>1, Invariant, PTL
==============================================================================
