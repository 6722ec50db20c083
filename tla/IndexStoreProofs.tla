--------------------------- MODULE IndexStoreProofs ---------------------------
(***************************************************************************)
(* Proofs about IndexStore, for any files, classes and class bodies.       *)
(* First what the index says of a class, for any body: which members, in   *)
(* which order, and which getters.  The parser's slices share arrays, so   *)
(* what the fields look at while the body is parsed is part of the         *)
(* argument.  The three loops are functions defined by recursion over the  *)
(* position; that they exist, and what they compute, is by induction.      *)
(* Then that the store, the batch and the walk keep snapshots and          *)
(* references together, whatever fails or is killed.                       *)
(***************************************************************************)
EXTENDS IndexStore, FiniteSetTheorems, SequenceTheorems, WellFoundedInduction, TLAPS

(* A nonempty set of numbers has a least one. *)
LEMMA LeastNumber ==
  ASSUME NEW T, T \subseteq Nat, T # {}
  PROVE  \E x \in T : \A y \in T : x <= y
<1>1. IsWellFoundedOn(OpToRel(<, Nat), Nat)
  BY NatLessThanWellFounded, Zenon
<1>2. PICK x \in T : \A y \in T : <<y, x>> \notin OpToRel(<, Nat)
  BY <1>1, WFMin, Zenon
<1>3. \A y \in T : ~(y < x)
  BY <1>2 DEF OpToRel
<1>4. QED BY <1>3

(* A set of numbers with 0 and with the successor of each has them all up  *)
(* to a bound: induction, with a set for the predicate.                    *)
LEMMA UpToBound ==
  ASSUME NEW n \in Nat, NEW S, 0 \in S, \A k \in 0..(n - 1) : k \in S => k + 1 \in S
  PROVE  \A k \in 0..n : k \in S
<1> SUFFICES ASSUME {k \in 0..n : k \notin S} # {} PROVE FALSE
  OBVIOUS
<1> DEFINE T == {k \in 0..n : k \notin S}
<1>1. PICK m \in T : \A k \in T : m <= k
  <2>1. T \subseteq Nat /\ T # {}
    OBVIOUS
  <2> HIDE DEF T
  <2>2. QED BY <2>1, LeastNumber
<1>2. m # 0 /\ m - 1 \in 0..(n - 1) /\ m - 1 \in 0..n
  BY <1>1
<1>3. m - 1 \in S
  BY <1>1, <1>2
<1>4. m \in S
  BY <1>2, <1>3
<1>5. QED BY <1>4

(* A function on 0..m and one more value. *)
Longer(g, m, v) == [k \in 0..(m + 1) |-> IF k <= m THEN g[k] ELSE v]

LEMMA LongerValues ==
  ASSUME NEW g, NEW m \in Nat, NEW v
  PROVE  /\ \A k \in 0..m : Longer(g, m, v)[k] = g[k]
         /\ Longer(g, m, v)[m + 1] = v
         /\ Longer(g, m, v) = [k \in 0..(m + 1) |-> Longer(g, m, v)[k]]
BY DEF Longer

------------------------------------------------------------------------------
(* The loop over the annotations of a member. *)
AnnotationRun(g, p, s, n) ==
  g = [k \in 0..n |-> IF k = 0 THEN p ELSE AppendAnnotation(g[k - 1], s[k])]

LEMMA AnnotationRunExists ==
  ASSUME NEW p, NEW s, NEW n \in Nat
  PROVE  \E g : AnnotationRun(g, p, s, n)
<1> DEFINE S == {m \in Nat : \E g : AnnotationRun(g, p, s, m)}
<1>1. 0 \in S
  <2>1. AnnotationRun([k \in 0..0 |-> p], p, s, 0)
    BY DEF AnnotationRun
  <2>2. QED BY <2>1
<1>2. ASSUME NEW m \in 0..(n - 1), m \in S PROVE m + 1 \in S
  <2>1. PICK g : AnnotationRun(g, p, s, m)
    BY <1>2
  <2>2. \A k \in 0..m : g[k] = IF k = 0 THEN p ELSE AppendAnnotation(g[k - 1], s[k])
    BY <2>1 DEF AnnotationRun
  <2>3. PICK h : h = Longer(g, m, AppendAnnotation(g[m], s[m + 1]))
    OBVIOUS
  <2>4. \A k \in 0..m : h[k] = g[k]
    BY <2>3, LongerValues
  <2>5. h[m + 1] = AppendAnnotation(g[m], s[m + 1])
    BY <2>3, LongerValues
  <2>6. h = [k \in 0..(m + 1) |-> h[k]]
    BY <2>3, LongerValues
  <2>7. ASSUME NEW k \in 0..(m + 1)
        PROVE  h[k] = IF k = 0 THEN p ELSE AppendAnnotation(h[k - 1], s[k])
    <3>1. CASE k \in 0..m
      <4>1. h[k] = g[k] /\ (k # 0 => k - 1 \in 0..m /\ h[k - 1] = g[k - 1])
        BY <2>4, <3>1
      <4>2. QED BY <2>2, <3>1, <4>1
    <3>2. CASE k = m + 1
      <4>1. k # 0 /\ k - 1 = m /\ h[m] = g[m]
        BY <2>4, <3>2
      <4>2. QED BY <2>5, <3>2, <4>1
    <3>3. QED BY <3>1, <3>2
  <2>8. AnnotationRun(h, p, s, m + 1)
    BY <2>6, <2>7 DEF AnnotationRun
  <2>9. QED BY <2>8
<1>3. \A m \in 0..(n - 1) : m \in S => m + 1 \in S
  BY <1>2
<1> HIDE DEF S
<1>4. n \in S
  BY <1>1, <1>3, UpToBound
<1>5. QED BY <1>4 DEF S

(* Its states satisfy its recursion. *)
LEMMA ParseMemberRuns ==
  ASSUME NEW p, NEW m, Len(m.annotations) \in Nat
  PROVE  \E g : /\ g[0] = p
                /\ \A k \in 1..Len(m.annotations) : g[k] = AppendAnnotation(g[k - 1], m.annotations[k])
                /\ ParseMember(p, m) = EndMember(g[Len(m.annotations)], m)
<1> DEFINE s == m.annotations
           n == Len(s)
           g == CHOOSE h : AnnotationRun(h, p, s, n)
<1>1. g = [k \in 0..n |-> IF k = 0 THEN p ELSE AppendAnnotation(g[k - 1], s[k])]
  <2>1. AnnotationRun(g, p, s, n)
    BY AnnotationRunExists
  <2>2. QED BY <2>1, Zenon DEF AnnotationRun
<1>2. ParseMember(p, m) = EndMember(g[n], m)
  BY Zenon DEF ParseMember, AnnotationRun
<1> HIDE DEF g
<1>3. g[0] = p
  BY <1>1
<1>4. \A k \in 1..n : g[k] = AppendAnnotation(g[k - 1], s[k])
  BY <1>1
<1>5. QED BY <1>2, <1>3, <1>4

(* The loop over the members of a body. *)
MemberRun(g, body, n) ==
  g = [k \in 0..n |-> IF k = 0 THEN NothingParsed ELSE ParseMember(g[k - 1], body[k])]

LEMMA MemberRunExists ==
  ASSUME NEW body, NEW n \in Nat
  PROVE  \E g : MemberRun(g, body, n)
<1> DEFINE S == {m \in Nat : \E g : MemberRun(g, body, m)}
<1>1. 0 \in S
  <2>1. MemberRun([k \in 0..0 |-> NothingParsed], body, 0)
    BY DEF MemberRun
  <2>2. QED BY <2>1
<1>2. ASSUME NEW m \in 0..(n - 1), m \in S PROVE m + 1 \in S
  <2>1. PICK g : MemberRun(g, body, m)
    BY <1>2
  <2>2. \A k \in 0..m : g[k] = IF k = 0 THEN NothingParsed ELSE ParseMember(g[k - 1], body[k])
    BY <2>1 DEF MemberRun
  <2>3. PICK h : h = Longer(g, m, ParseMember(g[m], body[m + 1]))
    OBVIOUS
  <2>4. \A k \in 0..m : h[k] = g[k]
    BY <2>3, LongerValues
  <2>5. h[m + 1] = ParseMember(g[m], body[m + 1])
    BY <2>3, LongerValues
  <2>6. h = [k \in 0..(m + 1) |-> h[k]]
    BY <2>3, LongerValues
  <2>7. ASSUME NEW k \in 0..(m + 1)
        PROVE  h[k] = IF k = 0 THEN NothingParsed ELSE ParseMember(h[k - 1], body[k])
    <3>1. CASE k \in 0..m
      <4>1. h[k] = g[k] /\ (k # 0 => k - 1 \in 0..m /\ h[k - 1] = g[k - 1])
        BY <2>4, <3>1
      <4>2. QED BY <2>2, <3>1, <4>1
    <3>2. CASE k = m + 1
      <4>1. k # 0 /\ k - 1 = m /\ h[m] = g[m]
        BY <2>4, <3>2
      <4>2. QED BY <2>5, <3>2, <4>1
    <3>3. QED BY <3>1, <3>2
  <2>8. MemberRun(h, body, m + 1)
    BY <2>6, <2>7 DEF MemberRun
  <2>9. QED BY <2>8
<1>3. \A m \in 0..(n - 1) : m \in S => m + 1 \in S
  BY <1>2
<1> HIDE DEF S
<1>4. n \in S
  BY <1>1, <1>3, UpToBound
<1>5. QED BY <1>4 DEF S

(* Its states satisfy its recursion. *)
LEMMA ParseTypeBodyRuns ==
  ASSUME NEW body, Len(body) \in Nat
  PROVE  \E g : /\ g[0] = NothingParsed
                /\ \A k \in 1..Len(body) : g[k] = ParseMember(g[k - 1], body[k])
                /\ ParseTypeBody(body) = g[Len(body)]
<1> DEFINE n == Len(body)
           g == CHOOSE h : MemberRun(h, body, n)
<1>1. g = [k \in 0..n |-> IF k = 0 THEN NothingParsed ELSE ParseMember(g[k - 1], body[k])]
  <2>1. MemberRun(g, body, n)
    BY MemberRunExists
  <2>2. QED BY <2>1, Zenon DEF MemberRun
<1>2. ParseTypeBody(body) = g[n]
  BY Zenon DEF ParseTypeBody, MemberRun
<1> HIDE DEF g
<1>3. g[0] = NothingParsed
  BY <1>1
<1>4. \A k \in 1..n : g[k] = ParseMember(g[k - 1], body[k])
  BY <1>1
<1>5. QED BY <1>2, <1>3, <1>4

(* The loop over the fields of a class. *)
GetterRun(g, class, n) ==
  g = [k \in 0..n |-> IF k = 0 THEN <<>> ELSE Generate(class, g[k - 1], class.fields[k])]

LEMMA GetterRunExists ==
  ASSUME NEW class, NEW n \in Nat
  PROVE  \E g : GetterRun(g, class, n)
<1> DEFINE S == {m \in Nat : \E g : GetterRun(g, class, m)}
<1>1. 0 \in S
  <2>1. GetterRun([k \in 0..0 |-> <<>>], class, 0)
    BY DEF GetterRun
  <2>2. QED BY <2>1
<1>2. ASSUME NEW m \in 0..(n - 1), m \in S PROVE m + 1 \in S
  <2>1. PICK g : GetterRun(g, class, m)
    BY <1>2
  <2>2. \A k \in 0..m : g[k] = IF k = 0 THEN <<>> ELSE Generate(class, g[k - 1], class.fields[k])
    BY <2>1 DEF GetterRun
  <2>3. PICK h : h = Longer(g, m, Generate(class, g[m], class.fields[m + 1]))
    OBVIOUS
  <2>4. \A k \in 0..m : h[k] = g[k]
    BY <2>3, LongerValues
  <2>5. h[m + 1] = Generate(class, g[m], class.fields[m + 1])
    BY <2>3, LongerValues
  <2>6. h = [k \in 0..(m + 1) |-> h[k]]
    BY <2>3, LongerValues
  <2>7. ASSUME NEW k \in 0..(m + 1)
        PROVE  h[k] = IF k = 0 THEN <<>> ELSE Generate(class, h[k - 1], class.fields[k])
    <3>1. CASE k \in 0..m
      <4>1. h[k] = g[k] /\ (k # 0 => k - 1 \in 0..m /\ h[k - 1] = g[k - 1])
        BY <2>4, <3>1
      <4>2. QED BY <2>2, <3>1, <4>1
    <3>2. CASE k = m + 1
      <4>1. k # 0 /\ k - 1 = m /\ h[m] = g[m]
        BY <2>4, <3>2
      <4>2. QED BY <2>5, <3>2, <4>1
    <3>3. QED BY <3>1, <3>2
  <2>8. GetterRun(h, class, m + 1)
    BY <2>6, <2>7 DEF GetterRun
  <2>9. QED BY <2>8
<1>3. \A m \in 0..(n - 1) : m \in S => m + 1 \in S
  BY <1>2
<1> HIDE DEF S
<1>4. n \in S
  BY <1>1, <1>3, UpToBound
<1>5. QED BY <1>4 DEF S

(* Its states satisfy its recursion. *)
LEMMA GeneratedMethodsRuns ==
  ASSUME NEW class, Len(class.fields) \in Nat
  PROVE  \E g : /\ g[0] = <<>>
                /\ \A k \in 1..Len(class.fields) : g[k] = Generate(class, g[k - 1], class.fields[k])
                /\ GeneratedMethods(class) = g[Len(class.fields)]
<1> DEFINE n == Len(class.fields)
           g == CHOOSE h : GetterRun(h, class, n)
<1>1. g = [k \in 0..n |-> IF k = 0 THEN <<>> ELSE Generate(class, g[k - 1], class.fields[k])]
  <2>1. GetterRun(g, class, n)
    BY GetterRunExists
  <2>2. QED BY <2>1, Zenon DEF GetterRun
<1>2. GeneratedMethods(class) = g[n]
  BY Zenon DEF GeneratedMethods, GetterRun
<1> HIDE DEF g
<1>3. g[0] = <<>>
  BY <1>1
<1>4. \A k \in 1..n : g[k] = Generate(class, g[k - 1], class.fields[k])
  BY <1>1
<1>5. QED BY <1>2, <1>3, <1>4
------------------------------------------------------------------------------
(* The arrays of the heap, and the slice of the pending annotations.  The  *)
(* fields and methods are those given.                                     *)
Cells == Annotations \union {Unset}

IsParser(p) ==
  /\ p = [heap |-> p.heap, pending |-> p.pending, fields |-> p.fields, methods |-> p.methods]
  /\ p.heap \in Seq(Seq(Cells))

(* A slice lies within its array. *)
Within(heap, s) ==
  /\ s = [array |-> s.array, len |-> s.len]
  /\ s.array \in 1..Len(heap)
  /\ s.len \in 0..Len(heap[s.array])

(* The arrays there were keep their lengths, and a cell changes only to    *)
(* one of the annotations of A.                                            *)
Grown(old, heap, A) ==
  /\ Len(old) <= Len(heap)
  /\ \A x \in 1..Len(old) :
       /\ Len(heap[x]) = Len(old[x])
       /\ \A c \in 1..Len(old[x]) : heap[x][c] \in {old[x][c]} \union A

(* What one append does to the parser. *)
Appended(p, q, a) ==
  /\ IsParser(q) /\ Within(q.heap, q.pending)
  /\ q.fields = p.fields /\ q.methods = p.methods
  /\ Grown(p.heap, q.heap, {a})
  /\ q.pending.len = p.pending.len + 1
  /\ \A c \in 1..p.pending.len : q.heap[q.pending.array][c] = p.heap[p.pending.array][c]
  /\ q.heap[q.pending.array][q.pending.len] = a

LEMMA AppendOne ==
  ASSUME NEW p, IsParser(p), Within(p.heap, p.pending), NEW a \in Annotations,
         NEW q, q = AppendAnnotation(p, a)
  PROVE  Appended(p, q, a)
<1> DEFINE s == p.pending
           h == p.heap
<1> USE DEF IsParser, Within
<1>1. /\ h \in Seq(Seq(Cells)) /\ s.array \in 1..Len(h) /\ h[s.array] \in Seq(Cells)
      /\ Len(h[s.array]) \in Nat /\ s.len \in 0..Len(h[s.array]) /\ a \in Cells
      /\ Len(h) \in Nat /\ s = [array |-> s.array, len |-> s.len]
  BY DEF Cells
<1>2. CASE s.len < Len(h[s.array])
  <2> DEFINE row == [h[s.array] EXCEPT ![s.len + 1] = a]
             heap == [h EXCEPT ![s.array] = row]
  <2>1. s.len + 1 \in 1..Len(h[s.array])
    BY <1>1, <1>2
  <2>2. q = [heap |-> heap, pending |-> [array |-> s.array, len |-> s.len + 1],
             fields |-> p.fields, methods |-> p.methods]
    BY <1>1, <1>2 DEF AppendAnnotation, Cap
  <2>3. /\ row \in Seq(Cells) /\ Len(row) = Len(h[s.array]) /\ row[s.len + 1] = a
        /\ \A c \in 1..Len(h[s.array]) : c # s.len + 1 => row[c] = h[s.array][c]
    BY <1>1, <2>1, ExceptSeq
  <2> HIDE DEF row
  <2>4. /\ heap \in Seq(Seq(Cells)) /\ Len(heap) = Len(h) /\ heap[s.array] = row
        /\ \A x \in 1..Len(h) : x # s.array => heap[x] = h[x]
    BY <1>1, <2>3, ExceptSeq
  <2> HIDE DEF heap
  <2>5. Grown(h, heap, {a})
    <3>1. ASSUME NEW x \in 1..Len(h)
          PROVE  /\ Len(heap[x]) = Len(h[x])
                 /\ \A c \in 1..Len(h[x]) : heap[x][c] \in {h[x][c]} \union {a}
      <4>1. CASE x = s.array
        BY <2>1, <2>3, <2>4, <4>1
      <4>2. CASE x # s.array
        BY <2>4, <4>2
      <4>3. QED BY <4>1, <4>2
    <3>2. QED BY <1>1, <2>4, <3>1 DEF Grown
  <2>6. /\ q.heap = heap /\ q.pending.array = s.array /\ q.pending.len = s.len + 1
        /\ q.fields = p.fields /\ q.methods = p.methods
    BY <2>2
  <2>7. IsParser(q)
    BY <2>2, <2>4
  <2>8. Within(q.heap, q.pending)
    <3>1. q.pending = [array |-> s.array, len |-> s.len + 1]
      BY <2>2
    <3>2. s.array \in 1..Len(heap) /\ s.len + 1 \in 0..Len(heap[s.array])
      BY <1>1, <2>1, <2>3, <2>4
    <3>3. QED BY <2>6, <3>1, <3>2
  <2>9. /\ \A c \in 1..s.len : heap[s.array][c] = h[s.array][c]
        /\ heap[s.array][s.len + 1] = a
    <3>1. \A c \in 1..s.len : c \in 1..Len(h[s.array]) /\ c # s.len + 1
      BY <1>1
    <3>2. QED BY <2>3, <2>4, <3>1
  <2> HIDE DEF h, s, Appended
  <2>10. QED BY <2>5, <2>6, <2>7, <2>8, <2>9 DEF h, s, Appended
<1>3. CASE s.len = Len(h[s.array])
  <2> DEFINE room == Len(h[s.array])
             spare == [i \in 1..(IF room = 0 THEN 0 ELSE room - 1) |-> Unset]
             kept == SubSeq(h[s.array], 1, s.len)
             row == kept \o <<a>> \o spare
             heap == Append(h, row)
  <2>1. q = [heap |-> heap, pending |-> [array |-> Len(h) + 1, len |-> s.len + 1],
             fields |-> p.fields, methods |-> p.methods]
    <3>1. ~(s.len < room)
      BY <1>1, <1>3
    <3>2. q = [p EXCEPT !.heap = heap, !.pending = [array |-> Len(h) + 1, len |-> s.len + 1]]
      BY <3>1, Zenon DEF AppendAnnotation, Cap, Contents
    <3> HIDE DEF heap
    <3>3. QED BY <1>1, <3>2
  <2>2. /\ kept \in Seq(Cells) /\ Len(kept) = s.len
        /\ \A c \in 1..s.len : kept[c] = h[s.array][c]
    BY <1>1, <1>3
  <2>3. spare \in Seq(Cells) /\ Len(spare) \in Nat
    BY <1>1 DEF Cells
  <2> HIDE DEF kept, spare
  <2>4. /\ kept \o <<a>> \in Seq(Cells) /\ Len(kept \o <<a>>) = s.len + 1
        /\ \A c \in 1..s.len : (kept \o <<a>>)[c] = h[s.array][c]
        /\ (kept \o <<a>>)[s.len + 1] = a
    BY <1>1, <2>2
  <2>5. PICK longer : longer = kept \o <<a>>
    OBVIOUS
  <2>6. /\ longer \in Seq(Cells) /\ Len(longer) = s.len + 1
        /\ \A c \in 1..s.len : longer[c] = h[s.array][c]
        /\ longer[s.len + 1] = a
    BY <2>4, <2>5
  <2> HIDE DEF row
  <2>7. row = longer \o spare
    BY <2>5, Zenon DEF row
  <2>8. /\ longer \o spare \in Seq(Cells) /\ Len(longer \o spare) = Len(longer) + Len(spare)
        /\ \A i \in 1..Len(longer) + Len(spare) : (longer \o spare)[i] =
              IF i <= Len(longer) THEN longer[i] ELSE spare[i - Len(longer)]
    BY <2>3, <2>6, ConcatProperties
  <2>9. /\ row \in Seq(Cells) /\ Len(row) \in Nat /\ s.len + 1 <= Len(row)
        /\ \A c \in 1..s.len : row[c] = h[s.array][c]
        /\ row[s.len + 1] = a
    <3>1. /\ row \in Seq(Cells) /\ Len(row) = s.len + 1 + Len(spare)
          /\ \A i \in 1..(s.len + 1) : row[i] = longer[i]
      BY <1>1, <2>3, <2>6, <2>7, <2>8
    <3>2. s.len \in Nat
      BY <1>1
    <3>3. \A i \in 1..s.len : i \in 1..(s.len + 1)
      BY <3>2
    <3> HIDE DEF h, s, room, heap
    <3>4. Len(row) \in Nat /\ s.len + 1 <= Len(row)
      BY <2>3, <3>1, <3>2
    <3>5. \A c \in 1..s.len : row[c] = h[s.array][c]
      BY <2>6, <3>1, <3>3
    <3>6. row[s.len + 1] = a
      <4>1. s.len + 1 \in 1..(s.len + 1)
        BY <3>2
      <4>2. row[s.len + 1] = longer[s.len + 1]
        BY <3>1, <4>1, Zenon
      <4>3. QED BY <2>6, <4>2, Zenon
    <3>7. QED BY <3>1, <3>4, <3>5, <3>6
  <2>10. /\ heap \in Seq(Seq(Cells)) /\ Len(heap) = Len(h) + 1 /\ heap[Len(h) + 1] = row
        /\ \A x \in 1..Len(h) : heap[x] = h[x]
    BY <1>1, <2>9, AppendProperties
  <2> HIDE DEF heap
  <2>11. Grown(h, heap, {a})
    BY <1>1, <2>10 DEF Grown
  <2>12. /\ q.heap = heap /\ q.pending.array = Len(h) + 1 /\ q.pending.len = s.len + 1
         /\ q.fields = p.fields /\ q.methods = p.methods
    BY <2>1
  <2>13. IsParser(q)
    BY <2>1, <2>10
  <2>14. Within(q.heap, q.pending)
    <3>1. q.pending = [array |-> Len(h) + 1, len |-> s.len + 1]
      BY <2>1
    <3>2. Len(h) + 1 \in 1..Len(heap) /\ s.len + 1 \in 0..Len(heap[Len(h) + 1])
      BY <1>1, <2>9, <2>10
    <3>3. QED BY <2>12, <3>1, <3>2
  <2> HIDE DEF h, s, Appended
  <2>15. QED BY <2>9, <2>10, <2>11, <2>12, <2>13, <2>14 DEF h, s, Appended
<1>4. QED BY <1>1, <1>2, <1>3

(* Appending all the annotations of a member, pending being empty: it then *)
(* holds them, and cells change only to one of them.                       *)
AllAppended(p, q, a) ==
  /\ IsParser(q) /\ Within(q.heap, q.pending)
  /\ q.fields = p.fields /\ q.methods = p.methods
  /\ Grown(p.heap, q.heap, ToSet(a))
  /\ Contents(q.heap, q.pending) = a

LEMMA AppendAll ==
  ASSUME NEW p, IsParser(p), Within(p.heap, p.pending), p.pending.len = 0,
         NEW a \in Seq(Annotations), NEW g, g[0] = p,
         \A k \in 1..Len(a) : g[k] = AppendAnnotation(g[k - 1], a[k])
  PROVE  AllAppended(p, g[Len(a)], a)
<1> DEFINE Reached(k, q) ==
             /\ IsParser(q) /\ Within(q.heap, q.pending)
             /\ q.fields = p.fields /\ q.methods = p.methods
             /\ Grown(p.heap, q.heap, ToSet(a))
             /\ q.pending.len = k
             /\ \A c \in 1..k : q.heap[q.pending.array][c] = a[c]
           S == {k \in 0..Len(a) : Reached(k, g[k])}
<1>1. 0 \in S
  <2>1. Grown(p.heap, p.heap, ToSet(a))
    BY DEF Grown, IsParser
  <2>2. QED BY <2>1
<1>2. ASSUME NEW k \in 0..(Len(a) - 1), k \in S PROVE k + 1 \in S
  <2>1. PICK q : q = g[k]
    OBVIOUS
  <2>2. PICK r : r = AppendAnnotation(q, a[k + 1])
    OBVIOUS
  <2>3. k + 1 \in 1..Len(a) /\ (k + 1) - 1 = k /\ k \in Nat
    OBVIOUS
  <2>4. g[k + 1] = r
    BY <2>1, <2>2, <2>3
  <2>5. Reached(k, q)
    BY <1>2, <2>1
  <2>6. a[k + 1] \in Annotations /\ a[k + 1] \in ToSet(a)
    BY <2>3 DEF ToSet
  <2>7. /\ IsParser(r) /\ Within(r.heap, r.pending)
        /\ r.fields = q.fields /\ r.methods = q.methods
        /\ Grown(q.heap, r.heap, {a[k + 1]})
        /\ r.pending.len = q.pending.len + 1
        /\ \A c \in 1..q.pending.len : r.heap[r.pending.array][c] = q.heap[q.pending.array][c]
        /\ r.heap[r.pending.array][r.pending.len] = a[k + 1]
    <3>1. IsParser(q) /\ Within(q.heap, q.pending)
      BY <2>5
    <3> HIDE DEF Reached, S
    <3>2. Appended(q, r, a[k + 1])
      BY <2>2, <2>6, <3>1, AppendOne
    <3>3. QED BY <3>2 DEF Appended
  <2>8. Grown(p.heap, r.heap, ToSet(a))
    <3>1. Len(p.heap) \in Nat /\ Len(q.heap) \in Nat /\ Len(r.heap) \in Nat
      BY <2>5, <2>7 DEF IsParser
    <3>2. Grown(p.heap, q.heap, ToSet(a)) /\ Grown(q.heap, r.heap, {a[k + 1]})
      BY <2>5, <2>7
    <3> HIDE DEF Reached, S
    <3>3. Len(p.heap) <= Len(r.heap)
      BY <3>1, <3>2 DEF Grown
    <3>4. ASSUME NEW x \in 1..Len(p.heap)
          PROVE  /\ Len(r.heap[x]) = Len(p.heap[x])
                 /\ \A c \in 1..Len(p.heap[x]) : r.heap[x][c] \in {p.heap[x][c]} \union ToSet(a)
      <4>1. x \in 1..Len(q.heap)
        BY <3>1, <3>2 DEF Grown
      <4>2. Len(q.heap[x]) = Len(p.heap[x]) /\ Len(r.heap[x]) = Len(q.heap[x])
        BY <3>2, <4>1 DEF Grown
      <4>3. ASSUME NEW c \in 1..Len(p.heap[x])
            PROVE  r.heap[x][c] \in {p.heap[x][c]} \union ToSet(a)
        <5>1. q.heap[x][c] \in {p.heap[x][c]} \union ToSet(a)
          BY <3>2 DEF Grown
        <5>2. r.heap[x][c] \in {q.heap[x][c]} \union {a[k + 1]}
          BY <3>2, <4>1, <4>2 DEF Grown
        <5>3. QED BY <2>6, <5>1, <5>2
      <4>4. QED BY <4>2, <4>3
    <3>5. QED BY <3>3, <3>4 DEF Grown
  <2>9. \A c \in 1..(k + 1) : r.heap[r.pending.array][c] = a[c]
    <3>1. \A c \in 1..(k + 1) : c \in 1..k \/ c = k + 1
      BY <2>3
    <3>2. QED BY <2>5, <2>7, <3>1
  <2>10. Reached(k + 1, r)
    BY <2>5, <2>7, <2>8, <2>9
  <2>11. QED BY <2>3, <2>4, <2>10
<1>3. \A k \in 0..(Len(a) - 1) : k \in S => k + 1 \in S
  BY <1>2
<1>4. Len(a) \in S
  <2>1. PICK n : n = Len(a)
    OBVIOUS
  <2>2. n \in Nat
    BY <2>1
  <2> HIDE DEF S
  <2>3. \A k \in 0..(n - 1) : k \in S => k + 1 \in S
    BY <1>3, <2>1
  <2>4. \A k \in 0..n : k \in S
    BY <1>1, <2>2, <2>3, UpToBound
  <2>5. QED BY <2>1, <2>2, <2>4
<1>5. PICK q : q = g[Len(a)]
  OBVIOUS
<1>6. Reached(Len(a), q)
  BY <1>4, <1>5
<1>7. Contents(q.heap, q.pending) = a
  <2>1. \A c \in 1..Len(a) : q.heap[q.pending.array][c] = a[c]
    BY <1>6
  <2>2. PICK s : s = SubSeq(q.heap[q.pending.array], 1, Len(a))
    OBVIOUS
  <2>3. Len(a) \in Nat /\ \A c \in 1..Len(a) : q.heap[q.pending.array][c] \in Annotations
    BY <2>1
  <2>4. s \in Seq(Annotations) /\ Len(s) = Len(a)
    BY <2>2, <2>3, SubSeqProperties
  <2>5. \A c \in 1..Len(a) : s[c] = q.heap[q.pending.array][c]
    <3>1. \A c \in 1..(Len(a) - 1 + 1) : s[c] = q.heap[q.pending.array][1 + c - 1]
      BY <2>2, <2>3, SubSeqProperties
    <3>2. QED BY <2>3, <3>1
  <2>6. s = a
    BY <2>1, <2>4, <2>5, SeqEqual
  <2>7. QED BY <1>6, <2>2, <2>6 DEF Contents
<1>8. AllAppended(p, q, a)
  BY <1>6, <1>7 DEF AllAppended
<1>9. QED BY <1>5, <1>8

(* What the parsing of one member does: a field gets a slice that holds    *)
(* its annotations.                                                        *)
MemberParsed(p, q, m) ==
  /\ IsParser(q) /\ Within(q.heap, q.pending) /\ q.pending.len = 0
  /\ Grown(p.heap, q.heap, ToSet(m.annotations))
  /\ m.annotations = <<>> => q.heap = p.heap
  /\ \E s : /\ Within(q.heap, s) /\ Contents(q.heap, s) = m.annotations
            /\ q.fields = IF m.kind = "field"
                          THEN Append(p.fields, [name |-> m.name, annotations |-> s])
                          ELSE p.fields
  /\ q.methods = IF m.kind = "method" THEN Append(p.methods, m.name) ELSE p.methods

LEMMA ParseOne ==
  ASSUME NEW p, IsParser(p), Within(p.heap, p.pending), p.pending.len = 0,
         NEW m, m.annotations \in Seq(Annotations)
  PROVE  MemberParsed(p, ParseMember(p, m), m)
<1> DEFINE a == m.annotations
<1>1. Len(a) \in Nat
  OBVIOUS
<1>2. PICK g : /\ g[0] = p
               /\ \A k \in 1..Len(a) : g[k] = AppendAnnotation(g[k - 1], a[k])
               /\ ParseMember(p, m) = EndMember(g[Len(a)], m)
  BY <1>1, ParseMemberRuns
<1>3. PICK q : q = g[Len(a)]
  OBVIOUS
<1>4. AllAppended(p, q, a)
  BY <1>2, <1>3, AppendAll
<1>5. a = <<>> => q = p
  BY <1>2, <1>3
<1>6. PICK r : r = EndMember(q, m)
  OBVIOUS
<1> DEFINE fields == IF m.kind = "field"
                     THEN Append(p.fields, [name |-> m.name, annotations |-> q.pending])
                     ELSE p.fields
           methods == IF m.kind = "method" THEN Append(p.methods, m.name) ELSE p.methods
<1>7. /\ IsParser(q) /\ Within(q.heap, q.pending)
      /\ q.fields = p.fields /\ q.methods = p.methods
      /\ Grown(p.heap, q.heap, ToSet(a))
      /\ Contents(q.heap, q.pending) = a
  BY <1>4 DEF AllAppended
<1>8. r = [heap |-> q.heap, pending |-> [array |-> q.pending.array, len |-> 0],
           fields |-> fields, methods |-> methods]
  <2>1. r = [q EXCEPT !.fields = fields, !.methods = methods, !.pending.len = 0]
    BY <1>6, <1>7, Zenon DEF EndMember
  <2> HIDE DEF fields, methods
  <2>2. QED BY <1>7, <2>1 DEF IsParser, Within
<1> HIDE DEF fields, methods
<1>9. /\ r.heap = q.heap /\ r.pending = [array |-> q.pending.array, len |-> 0]
      /\ r.fields = fields /\ r.methods = methods
  BY <1>8
<1>10. IsParser(r)
  BY <1>7, <1>8, <1>9 DEF IsParser
<1>11. Within(r.heap, r.pending) /\ r.pending.len = 0
  BY <1>7, <1>9 DEF Within, IsParser
<1>12. MemberParsed(p, r, m)
  BY <1>5, <1>7, <1>9, <1>10, <1>11 DEF MemberParsed, fields, methods
<1>13. QED BY <1>2, <1>3, <1>6, <1>12

(* Counting from no member to the next. *)
LEMMA CountNone == \A body, kind : Count(body, kind, 0) = 0
<1> SUFFICES ASSUME NEW body, NEW kind PROVE Count(body, kind, 0) = 0
  OBVIOUS
<1>1. {j \in 1..0 : body[j].kind = kind} = {}
  OBVIOUS
<1>2. QED BY <1>1, FS_EmptySet DEF Count

LEMMA CountNext ==
  ASSUME NEW body, NEW kind, NEW n \in Nat
  PROVE  \E c \in Nat :
           /\ Count(body, kind, n) = c
           /\ body[n + 1].kind = kind => Count(body, kind, n + 1) = c + 1
           /\ body[n + 1].kind # kind => Count(body, kind, n + 1) = c
<1> DEFINE S(m) == {j \in 1..m : body[j].kind = kind}
<1>1. IsFiniteSet(S(n))
  <2>1. IsFiniteSet(1..n) /\ S(n) \in SUBSET (1..n)
    BY FS_Interval
  <2> HIDE DEF S
  <2>2. QED BY <2>1, FS_Subset
<1>2. Count(body, kind, n) = Cardinality(S(n)) /\ Count(body, kind, n + 1) = Cardinality(S(n + 1))
  BY Zenon DEF Count
<1>3. PICK c \in Nat : Cardinality(S(n)) = c
  BY <1>1, FS_CardinalityType
<1>4. ASSUME body[n + 1].kind = kind PROVE Cardinality(S(n + 1)) = c + 1
  <2>1. S(n + 1) = S(n) \union {n + 1} /\ n + 1 \notin S(n)
    BY <1>4
  <2> HIDE DEF S
  <2>2. QED BY <1>1, <1>3, <2>1, FS_AddElement
<1>5. ASSUME body[n + 1].kind # kind PROVE S(n + 1) = S(n)
  BY <1>5
<1> HIDE DEF S
<1>6. QED BY <1>2, <1>3, <1>4, <1>5

(* A member counts among those of its kind up to it, and no more than      *)
(* those up to a later one.                                                *)
LEMMA CountOfMember ==
  ASSUME NEW body, NEW kind, NEW n \in Nat, NEW i \in 1..n, body[i].kind = kind
  PROVE  Count(body, kind, i) \in 1..Count(body, kind, n)
<1> DEFINE S(m) == {j \in 1..m : body[j].kind = kind}
<1>1. Cardinality(S(i)) <= Cardinality(S(n))
  <2>1. IsFiniteSet(1..n) /\ S(n) \in SUBSET (1..n) /\ S(i) \in SUBSET S(n)
    BY FS_Interval
  <2> HIDE DEF S
  <2>2. IsFiniteSet(S(n))
    BY <2>1, FS_Subset
  <2>3. QED BY <2>1, <2>2, FS_Subset
<1>2. Count(body, kind, i) <= Count(body, kind, n)
  BY <1>1, Zenon DEF Count
<1>3. PICK k \in Nat : i = k + 1
  <2>1. i - 1 \in Nat /\ i = (i - 1) + 1
    OBVIOUS
  <2>2. QED BY <2>1
<1>4. PICK c \in Nat : Count(body, kind, i) = c + 1
  BY <1>3, CountNext
<1>5. Count(body, kind, n) \in Nat
  BY CountNext
<1>6. QED BY <1>2, <1>4, <1>5
------------------------------------------------------------------------------
(* After the first n members, the slice of a field declared by the i-th:   *)
(* its cells hold annotations of that member or of a later one, and just   *)
(* those of the member if the later ones have none.                        *)
Holds(heap, s, body, i, n) ==
  /\ Within(heap, s)
  /\ \A c \in 1..s.len : \E j \in i..n : heap[s.array][c] \in ToSet(body[j].annotations)
  /\ (\A j \in (i + 1)..n : body[j].annotations = <<>>) => Contents(heap, s) = body[i].annotations

NamesOf(body) == {body[i].name : i \in DOMAIN body}
FieldsOf(body) == [name : NamesOf(body), annotations : [array : Nat, len : Nat]]

(* The fields after the first n members, and the methods.                  *)
FieldsParsed(p, body, n) ==
  /\ p.fields \in Seq(FieldsOf(body)) /\ Len(p.fields) = Count(body, "field", n)
  /\ \A i \in 1..n : body[i].kind = "field" =>
       /\ p.fields[Count(body, "field", i)].name = body[i].name
       /\ Holds(p.heap, p.fields[Count(body, "field", i)].annotations, body, i, n)
  /\ \A k \in 1..Len(p.fields) : \E i \in 1..n : body[i].kind = "field" /\ Count(body, "field", i) = k

MethodsParsed(methods, body, n) ==
  /\ methods \in Seq(NamesOf(body)) /\ Len(methods) = Count(body, "method", n)
  /\ \A i \in 1..n : body[i].kind = "method" => methods[Count(body, "method", i)] = body[i].name

Parsed(p, body, n) ==
  /\ IsParser(p) /\ Within(p.heap, p.pending) /\ p.pending.len = 0
  /\ FieldsParsed(p, body, n)
  /\ MethodsParsed(p.methods, body, n)

(* A slice of an earlier member, when one more has been parsed.            *)
LEMMA HoldsAfterMember ==
  ASSUME NEW body, NEW n \in Nat, NEW i \in 1..n, NEW old, NEW heap, NEW s,
         Len(old) \in Nat, Len(heap) \in Nat, \A x \in 1..Len(old) : Len(old[x]) \in Nat,
         Grown(old, heap, ToSet(body[n + 1].annotations)),
         body[n + 1].annotations = <<>> => heap = old,
         Holds(old, s, body, i, n)
  PROVE  Holds(heap, s, body, i, n + 1)
<1>1. s.array \in 1..Len(old) /\ s.len \in 0..Len(old[s.array]) /\ Len(old[s.array]) \in Nat
  BY DEF Holds, Within
<1>2. /\ s.array \in 1..Len(heap) /\ Len(heap[s.array]) = Len(old[s.array])
      /\ \A c \in 1..Len(old[s.array]) :
           heap[s.array][c] \in {old[s.array][c]} \union ToSet(body[n + 1].annotations)
  BY <1>1 DEF Grown
<1>3. Within(heap, s)
  BY <1>1, <1>2 DEF Holds, Within
<1>4. \A j \in i..n : j \in i..(n + 1)
  OBVIOUS
<1>5. n + 1 \in i..(n + 1) /\ n + 1 \in (i + 1)..(n + 1) /\ \A j \in (i + 1)..n : j \in (i + 1)..(n + 1)
  OBVIOUS
<1>6. ASSUME NEW c \in 1..s.len
      PROVE  \E j \in i..(n + 1) : heap[s.array][c] \in ToSet(body[j].annotations)
  <2>1. c \in 1..Len(old[s.array])
    BY <1>1
  <2>2. PICK j \in i..n : old[s.array][c] \in ToSet(body[j].annotations)
    BY DEF Holds
  <2>3. CASE heap[s.array][c] = old[s.array][c]
    BY <1>4, <2>2, <2>3
  <2>4. CASE heap[s.array][c] \in ToSet(body[n + 1].annotations)
    BY <1>5, <2>4
  <2>5. QED BY <1>2, <2>1, <2>3, <2>4
<1>7. (\A j \in (i + 1)..(n + 1) : body[j].annotations = <<>>) => Contents(heap, s) = body[i].annotations
  BY <1>5 DEF Holds
<1>8. QED BY <1>3, <1>6, <1>7 DEF Holds

(* The slice of the field just parsed. *)
LEMMA HoldsOwn ==
  ASSUME NEW body, NEW n \in Nat, NEW heap, NEW s, Within(heap, s), heap \in Seq(Seq(Cells)),
         body[n].annotations \in Seq(Annotations), Contents(heap, s) = body[n].annotations
  PROVE  Holds(heap, s, body, n, n)
<1> DEFINE row == heap[s.array]
           a == body[n].annotations
<1>1. row \in Seq(Cells) /\ Len(row) \in Nat /\ s.len \in 0..Len(row)
  BY DEF Within
<1>2. SubSeq(row, 1, s.len) = a
  BY DEF Contents
<1> HIDE DEF row
<1>3. \A c \in 1..s.len : row[c] \in Cells
  BY <1>1
<1>4. Len(a) = s.len
  BY <1>1, <1>2, <1>3, SubSeqProperties
<1>5. \A c \in 1..s.len : a[c] = row[c]
  <2>1. \A c \in 1..(s.len - 1 + 1) : SubSeq(row, 1, s.len)[c] = row[1 + c - 1]
    BY <1>1, <1>3, SubSeqProperties
  <2>2. QED BY <1>1, <1>2, <2>1
<1>6. ASSUME NEW c \in 1..s.len
      PROVE  \E j \in n..n : row[c] \in ToSet(body[j].annotations)
  <2>1. c \in DOMAIN a
    BY <1>4
  <2>2. row[c] \in ToSet(a)
    BY <1>5, <2>1 DEF ToSet
  <2>3. n \in n..n
    OBVIOUS
  <2>4. QED BY <2>2, <2>3
<1>7. QED BY <1>6 DEF Holds, row

LEMMA FieldsAfterMember ==
  ASSUME NEW body, IsBody(body), NEW n \in Nat, n + 1 \in 1..Len(body), NEW p, NEW q,
         Parsed(p, body, n), MemberParsed(p, q, body[n + 1])
  PROVE  FieldsParsed(q, body, n + 1)
<1> DEFINE m == body[n + 1]
           N(i) == Count(body, "field", i)
<1>1. /\ p.heap \in Seq(Seq(Cells)) /\ q.heap \in Seq(Seq(Cells)) /\ Len(p.heap) \in Nat /\ Len(q.heap) \in Nat
      /\ \A x \in 1..Len(p.heap) : Len(p.heap[x]) \in Nat
  BY DEF Parsed, MemberParsed, IsParser
<1>2. /\ p.fields \in Seq(FieldsOf(body)) /\ Len(p.fields) = N(n)
      /\ \A i \in 1..n : body[i].kind = "field" =>
           /\ p.fields[N(i)].name = body[i].name
           /\ Holds(p.heap, p.fields[N(i)].annotations, body, i, n)
      /\ \A k \in 1..Len(p.fields) : \E i \in 1..n : body[i].kind = "field" /\ N(i) = k
  BY DEF Parsed, FieldsParsed
<1>3. /\ Grown(p.heap, q.heap, ToSet(m.annotations))
      /\ m.annotations = <<>> => q.heap = p.heap
  BY DEF MemberParsed
<1>4. PICK s : /\ Within(q.heap, s) /\ Contents(q.heap, s) = m.annotations
               /\ q.fields = IF m.kind = "field"
                             THEN Append(p.fields, [name |-> m.name, annotations |-> s])
                             ELSE p.fields
  BY DEF MemberParsed
<1>5. /\ N(n) \in Nat
      /\ N(n + 1) = IF m.kind = "field" THEN N(n) + 1 ELSE N(n)
      /\ \A i \in 1..n : body[i].kind = "field" => N(i) \in 1..N(n)
  <2>1. \A i \in 1..n : body[i].kind = "field" => N(i) \in 1..N(n)
    BY CountOfMember
  <2>2. PICK c \in Nat : N(n) = c /\ N(n + 1) = IF m.kind = "field" THEN c + 1 ELSE c
    BY CountNext
  <2>3. QED BY <2>1, <2>2
<1>6. m.name \in NamesOf(body) /\ m.annotations \in Seq(Annotations)
  BY DEF IsBody, NamesOf
<1> HIDE DEF N, m
<1>7. ASSUME NEW i \in 1..n, body[i].kind = "field"
      PROVE  Holds(q.heap, p.fields[N(i)].annotations, body, i, n + 1)
  <2>1. Holds(p.heap, p.fields[N(i)].annotations, body, i, n)
    BY <1>2, <1>7
  <2>2. QED BY <1>1, <1>3, <2>1, HoldsAfterMember DEF m
<1>8. CASE m.kind # "field"
  <2>1. q.fields = p.fields /\ N(n + 1) = N(n)
    BY <1>4, <1>5, <1>8
  <2>2. \A i \in 1..(n + 1) : body[i].kind = "field" => i \in 1..n
    BY <1>8 DEF m
  <2>3. q.fields \in Seq(FieldsOf(body)) /\ Len(q.fields) = N(n + 1)
    BY <1>2, <2>1
  <2>4. ASSUME NEW i \in 1..(n + 1), body[i].kind = "field"
        PROVE  /\ q.fields[N(i)].name = body[i].name
               /\ Holds(q.heap, q.fields[N(i)].annotations, body, i, n + 1)
    BY <1>2, <1>7, <2>1, <2>2, <2>4
  <2>5. ASSUME NEW k \in 1..Len(q.fields)
        PROVE  \E i \in 1..(n + 1) : body[i].kind = "field" /\ N(i) = k
    <3>1. PICK i \in 1..n : body[i].kind = "field" /\ N(i) = k
      BY <1>2, <2>1
    <3>2. i \in 1..(n + 1)
      OBVIOUS
    <3>3. QED BY <3>1, <3>2
  <2>6. QED BY <2>3, <2>4, <2>5 DEF FieldsParsed, N
<1>9. CASE m.kind = "field"
  <2> DEFINE e == [name |-> m.name, annotations |-> s]
  <2>1. s \in [array : Nat, len : Nat]
    <3>1. s.array \in Nat /\ s.len \in Nat /\ s = [array |-> s.array, len |-> s.len]
      <4>1. s.array \in 1..Len(q.heap)
        BY <1>4 DEF Within
      <4>2. Len(q.heap[s.array]) \in Nat
        BY <1>1, <4>1
      <4>3. QED BY <1>1, <1>4, <4>1, <4>2 DEF Within
    <3>2. QED BY <3>1
  <2>2. e \in FieldsOf(body) /\ e.name = m.name /\ e.annotations = s
    BY <1>6, <2>1 DEF FieldsOf
  <2>3. q.fields = Append(p.fields, e) /\ N(n + 1) = N(n) + 1
    BY <1>4, <1>5, <1>9
  <2> HIDE DEF e
  <2>4. /\ q.fields \in Seq(FieldsOf(body)) /\ Len(q.fields) = N(n + 1)
        /\ \A k \in 1..N(n) : q.fields[k] = p.fields[k]
        /\ q.fields[N(n + 1)] = e
    BY <1>2, <2>2, <2>3, AppendProperties
  <2>5. ASSUME NEW i \in 1..(n + 1), body[i].kind = "field"
        PROVE  /\ q.fields[N(i)].name = body[i].name
               /\ Holds(q.heap, q.fields[N(i)].annotations, body, i, n + 1)
    <3>1. CASE i \in 1..n
      <4>1. q.fields[N(i)] = p.fields[N(i)]
        BY <1>5, <2>4, <2>5, <3>1
      <4>2. QED BY <1>2, <1>7, <2>5, <3>1, <4>1
    <3>2. CASE i = n + 1
      <4>1. Holds(q.heap, s, body, n + 1, n + 1)
        BY <1>1, <1>4, <1>6, HoldsOwn DEF m
      <4>2. QED BY <2>2, <2>4, <3>2, <4>1 DEF m
    <3>3. QED BY <3>1, <3>2
  <2>6. ASSUME NEW k \in 1..Len(q.fields)
        PROVE  \E i \in 1..(n + 1) : body[i].kind = "field" /\ N(i) = k
    <3>1. CASE k \in 1..N(n)
      <4>1. PICK i \in 1..n : body[i].kind = "field" /\ N(i) = k
        BY <1>2, <3>1
      <4>2. i \in 1..(n + 1)
        OBVIOUS
      <4>3. QED BY <4>1, <4>2
    <3>2. CASE k = N(n) + 1
      <4>1. n + 1 \in 1..(n + 1)
        OBVIOUS
      <4>2. QED BY <1>9, <2>3, <3>2, <4>1 DEF m
    <3>3. QED BY <1>5, <2>3, <2>4, <3>1, <3>2
  <2>7. QED BY <2>4, <2>5, <2>6 DEF FieldsParsed, N
<1>10. QED BY <1>8, <1>9

LEMMA MethodsAfterMember ==
  ASSUME NEW body, IsBody(body), NEW n \in Nat, n + 1 \in 1..Len(body), NEW p, NEW q,
         Parsed(p, body, n), MemberParsed(p, q, body[n + 1])
  PROVE  MethodsParsed(q.methods, body, n + 1)
<1> DEFINE m == body[n + 1]
           N(i) == Count(body, "method", i)
<1>1. /\ p.methods \in Seq(NamesOf(body)) /\ Len(p.methods) = N(n)
      /\ \A i \in 1..n : body[i].kind = "method" => p.methods[N(i)] = body[i].name
  BY DEF Parsed, MethodsParsed
<1>2. q.methods = IF m.kind = "method" THEN Append(p.methods, m.name) ELSE p.methods
  BY DEF MemberParsed
<1>3. /\ N(n) \in Nat
      /\ N(n + 1) = IF m.kind = "method" THEN N(n) + 1 ELSE N(n)
      /\ \A i \in 1..n : body[i].kind = "method" => N(i) \in 1..N(n)
  <2>1. \A i \in 1..n : body[i].kind = "method" => N(i) \in 1..N(n)
    BY CountOfMember
  <2>2. PICK c \in Nat : N(n) = c /\ N(n + 1) = IF m.kind = "method" THEN c + 1 ELSE c
    BY CountNext
  <2>3. QED BY <2>1, <2>2
<1>4. m.name \in NamesOf(body)
  BY DEF IsBody, NamesOf
<1> HIDE DEF N, m
<1>5. CASE m.kind # "method"
  <2>1. q.methods = p.methods /\ N(n + 1) = N(n)
    BY <1>2, <1>3, <1>5
  <2>2. \A i \in 1..(n + 1) : body[i].kind = "method" => i \in 1..n
    BY <1>5 DEF m
  <2>3. QED BY <1>1, <2>1, <2>2 DEF MethodsParsed, N
<1>6. CASE m.kind = "method"
  <2>1. q.methods = Append(p.methods, m.name) /\ N(n + 1) = N(n) + 1
    BY <1>2, <1>3, <1>6
  <2>2. /\ q.methods \in Seq(NamesOf(body)) /\ Len(q.methods) = N(n + 1)
        /\ \A k \in 1..N(n) : q.methods[k] = p.methods[k]
        /\ q.methods[N(n + 1)] = m.name
    BY <1>1, <1>4, <2>1, AppendProperties
  <2>3. ASSUME NEW i \in 1..(n + 1), body[i].kind = "method"
        PROVE  q.methods[N(i)] = body[i].name
    <3>1. CASE i \in 1..n
      BY <1>1, <1>3, <2>2, <2>3, <3>1
    <3>2. CASE i = n + 1
      BY <2>2, <3>2 DEF m
    <3>3. QED BY <3>1, <3>2
  <2>4. QED BY <2>2, <2>3 DEF MethodsParsed, N
<1>7. QED BY <1>5, <1>6

(* The whole body. *)
LEMMA BodyParsed ==
  ASSUME NEW body, IsBody(body)
  PROVE  Parsed(ParseTypeBody(body), body, Len(body))
<1>1. PICK n : n = Len(body) /\ n \in Nat
  BY DEF IsBody
<1>2. PICK g : /\ g[0] = NothingParsed
               /\ \A k \in 1..n : g[k] = ParseMember(g[k - 1], body[k])
               /\ ParseTypeBody(body) = g[n]
  BY <1>1, ParseTypeBodyRuns
<1> DEFINE S == {k \in 0..n : Parsed(g[k], body, k)}
<1>3. 0 \in S
  <2> DEFINE none == NothingParsed
  <2>1. IsParser(none)
    <3>1. <<>> \in Seq(Cells) /\ << <<>> >> \in Seq(Seq(Cells))
      OBVIOUS
    <3>2. QED BY <3>1 DEF IsParser, NothingParsed
  <2>2. Within(none.heap, none.pending) /\ none.pending.len = 0
    BY DEF Within, NothingParsed
  <2>3. none.fields = <<>> /\ none.methods = <<>>
    BY DEF NothingParsed
  <2> HIDE DEF none
  <2>4. FieldsParsed(none, body, 0) /\ MethodsParsed(none.methods, body, 0)
    BY <2>3, CountNone DEF FieldsParsed, MethodsParsed
  <2>5. Parsed(none, body, 0)
    BY <2>1, <2>2, <2>4 DEF Parsed
  <2>6. QED BY <1>1, <1>2, <2>5 DEF none
<1>4. ASSUME NEW k \in 0..(n - 1), k \in S PROVE k + 1 \in S
  <2>1. k + 1 \in 1..n /\ k + 1 \in 0..n /\ (k + 1) - 1 = k /\ k \in Nat
    BY <1>1
  <2>2. PICK p : p = g[k]
    OBVIOUS
  <2>3. PICK q : q = g[k + 1]
    OBVIOUS
  <2>4. q = ParseMember(p, body[k + 1])
    BY <1>2, <2>1, <2>2, <2>3
  <2>5. Parsed(p, body, k)
    BY <1>4, <2>2
  <2>6. body[k + 1].annotations \in Seq(Annotations)
    BY <1>1, <2>1 DEF IsBody
  <2> HIDE DEF S
  <2>7. MemberParsed(p, q, body[k + 1])
    BY <2>4, <2>5, <2>6, ParseOne DEF Parsed
  <2>8. FieldsParsed(q, body, k + 1) /\ MethodsParsed(q.methods, body, k + 1)
    BY <1>1, <2>1, <2>5, <2>7, FieldsAfterMember, MethodsAfterMember
  <2>9. Parsed(q, body, k + 1)
    BY <2>7, <2>8 DEF Parsed, MemberParsed
  <2>10. QED BY <2>1, <2>3, <2>9 DEF S
<1>5. \A k \in 0..(n - 1) : k \in S => k + 1 \in S
  BY <1>4
<1> HIDE DEF S
<1>6. n \in S
  <2>1. \A k \in 0..n : k \in S
    BY <1>1, <1>3, <1>5, UpToBound
  <2>2. QED BY <1>1, <2>1
<1>7. Parsed(g[n], body, n)
  BY <1>6 DEF S
<1>8. QED BY <1>1, <1>2, <1>7
------------------------------------------------------------------------------
LEMMA ContainsConcat ==
  ASSUME NEW A, NEW B, NEW s \in Seq(A), NEW t \in Seq(B), NEW e
  PROVE  Contains(s \o t, e) <=> Contains(s, e) \/ Contains(t, e)
<1>1. s \in Seq(A \union B) /\ t \in Seq(A \union B)
  BY SeqMonotonic
<1>2. PICK u : u = s \o t
  OBVIOUS
<1>3. /\ Len(s) \in Nat /\ Len(t) \in Nat /\ Len(u) = Len(s) + Len(t)
      /\ \A i \in 1..(Len(s) + Len(t)) : u[i] = IF i <= Len(s) THEN s[i] ELSE t[i - Len(s)]
  BY <1>1, <1>2, ConcatProperties
<1>4. ASSUME NEW i \in 1..Len(u), u[i] = e
      PROVE  Contains(s, e) \/ Contains(t, e)
  <2>1. CASE i <= Len(s)
    BY <1>3, <1>4, <2>1 DEF Contains
  <2>2. CASE ~(i <= Len(s))
    <3>1. i - Len(s) \in 1..Len(t) /\ t[i - Len(s)] = e
      BY <1>3, <1>4, <2>2
    <3>2. QED BY <3>1 DEF Contains
  <2>3. QED BY <2>1, <2>2
<1>5. ASSUME NEW i \in 1..Len(s), s[i] = e
      PROVE  Contains(u, e)
  <2>1. i \in 1..Len(u) /\ u[i] = e
    BY <1>3, <1>5
  <2>2. QED BY <2>1 DEF Contains
<1>6. ASSUME NEW i \in 1..Len(t), t[i] = e
      PROVE  Contains(u, e)
  <2>1. Len(s) + i \in 1..Len(u) /\ ~(Len(s) + i <= Len(s)) /\ (Len(s) + i) - Len(s) = i
    BY <1>3
  <2>2. u[Len(s) + i] = e
    BY <1>3, <1>6, <2>1
  <2>3. QED BY <2>1, <2>2 DEF Contains
<1>7. QED BY <1>2, <1>4, <1>5, <1>6 DEF Contains

(* After the first k fields: no getter doubles a method or another getter, *)
(* each is of a field with the annotation, and each such field has one or  *)
(* a method of that name.                                                  *)
Gets(class, f, name) ==
  Contains(class.fields[f].annotations, Getter) /\ name = GetterName(class.fields[f].name)

Generated(class, methods, k) ==
  /\ methods \in Seq({GetterName(class.fields[f].name) : f \in 1..Len(class.fields)})
  /\ IsInjective(methods)
  /\ \A i \in 1..Len(methods) :
       ~Contains(class.methods, methods[i]) /\ \E f \in 1..k : Gets(class, f, methods[i])
  /\ \A f \in 1..k : \A name : Gets(class, f, name) =>
       Contains(class.methods, name) \/ Contains(methods, name)

LEMMA GenerateOne ==
  ASSUME NEW class, NEW M, class.methods \in Seq(M), Len(class.fields) \in Nat,
         NEW k \in Nat, k + 1 \in 1..Len(class.fields), NEW methods, Generated(class, methods, k)
  PROVE  Generated(class, Generate(class, methods, class.fields[k + 1]), k + 1)
<1> DEFINE field == class.fields[k + 1]
           get == GetterName(field.name)
           All == {GetterName(class.fields[f].name) : f \in 1..Len(class.fields)}
<1>1. PICK new : new = Generate(class, methods, field)
  OBVIOUS
<1>2. get \in All
  OBVIOUS
<1>3. \A f \in 1..k : f \in 1..(k + 1)
  OBVIOUS
<1>4. k + 1 \in 1..(k + 1) /\ \A f \in 1..(k + 1) : f \in 1..k \/ f = k + 1
  OBVIOUS
<1>5. \A name : Gets(class, k + 1, name) <=> Contains(field.annotations, Getter) /\ name = get
  BY DEF Gets
<1>6. methods \in Seq(All) /\ Len(methods) \in Nat /\ DOMAIN methods = 1..Len(methods)
  BY DEF Generated
<1> HIDE DEF All, get, field
<1>7. Contains(class.methods \o methods, get) <=> Contains(class.methods, get) \/ Contains(methods, get)
  BY <1>6, ContainsConcat
<1>8. CASE Contains(field.annotations, Getter) /\ ~Contains(class.methods \o methods, get)
  <2>1. new = Append(methods, get)
    BY <1>1, <1>8 DEF Generate, get
  <2>2. /\ new \in Seq(All) /\ Len(new) = Len(methods) + 1
        /\ \A i \in 1..Len(methods) : new[i] = methods[i]
        /\ new[Len(methods) + 1] = get
    BY <1>2, <1>6, <2>1, AppendProperties
  <2>3. DOMAIN new = 1..Len(new) /\ \A i \in 1..Len(new) : i \in 1..Len(methods) \/ i = Len(methods) + 1
    BY <1>6, <2>2
  <2>4. ~Contains(class.methods, get) /\ ~Contains(methods, get)
    BY <1>7, <1>8
  <2>5. IsInjective(new)
    <3>1. \A i \in 1..Len(methods) : methods[i] # get
      BY <2>4 DEF Contains
    <3>2. \A i, j \in 1..Len(methods) : methods[i] = methods[j] => i = j
      BY <1>6 DEF Generated, IsInjective
    <3>3. \A i, j \in 1..Len(new) : new[i] = new[j] => i = j
      BY <2>2, <2>3, <3>1, <3>2
    <3>4. QED BY <2>3, <3>3 DEF IsInjective
  <2>6. ASSUME NEW i \in 1..Len(new)
        PROVE  ~Contains(class.methods, new[i]) /\ \E f \in 1..(k + 1) : Gets(class, f, new[i])
    <3>1. CASE i \in 1..Len(methods)
      BY <1>3, <2>2, <3>1 DEF Generated
    <3>2. CASE i = Len(methods) + 1
      BY <1>4, <1>5, <1>8, <2>2, <2>4, <3>2
    <3>3. QED BY <2>3, <3>1, <3>2
  <2>7. ASSUME NEW f \in 1..(k + 1), NEW name, Gets(class, f, name)
        PROVE  Contains(class.methods, name) \/ Contains(new, name)
    <3>1. CASE f \in 1..k
      <4>1. Contains(class.methods, name) \/ Contains(methods, name)
        BY <2>7, <3>1 DEF Generated
      <4>2. Contains(methods, name) => Contains(new, name)
        BY <1>6, <2>2 DEF Contains
      <4>3. QED BY <4>1, <4>2
    <3>2. CASE f = k + 1
      <4>1. name = get
        BY <1>5, <2>7, <3>2
      <4>2. Len(methods) + 1 \in 1..Len(new)
        BY <1>6, <2>2
      <4>3. QED BY <2>2, <4>1, <4>2 DEF Contains
    <3>3. QED BY <1>4, <3>1, <3>2
  <2>8. QED BY <1>1, <2>2, <2>5, <2>6, <2>7 DEF Generated, field, All
<1>9. CASE ~(Contains(field.annotations, Getter) /\ ~Contains(class.methods \o methods, get))
  <2>1. new = methods
    BY <1>1, <1>9 DEF Generate, get
  <2>2. ASSUME NEW f \in 1..(k + 1), NEW name, Gets(class, f, name)
        PROVE  Contains(class.methods, name) \/ Contains(methods, name)
    <3>1. CASE f \in 1..k
      BY <2>2, <3>1 DEF Generated
    <3>2. CASE f = k + 1
      BY <1>5, <1>7, <1>9, <2>2, <3>2
    <3>3. QED BY <1>4, <3>1, <3>2
  <2>3. \A i \in 1..Len(methods) :
          ~Contains(class.methods, methods[i]) /\ \E f \in 1..(k + 1) : Gets(class, f, methods[i])
    BY <1>3 DEF Generated
  <2>4. methods \in Seq({GetterName(class.fields[f].name) : f \in 1..Len(class.fields)}) /\ IsInjective(methods)
    BY DEF Generated
  <2>5. QED BY <1>1, <2>1, <2>2, <2>3, <2>4 DEF Generated, field
<1>10. QED BY <1>8, <1>9

LEMMA AllGenerated ==
  ASSUME NEW class, NEW M, class.methods \in Seq(M), Len(class.fields) \in Nat
  PROVE  Generated(class, GeneratedMethods(class), Len(class.fields))
<1>1. PICK n \in Nat : n = Len(class.fields)
  OBVIOUS
<1>2. PICK g : /\ g[0] = <<>>
               /\ \A k \in 1..n : g[k] = Generate(class, g[k - 1], class.fields[k])
               /\ GeneratedMethods(class) = g[n]
  BY <1>1, GeneratedMethodsRuns
<1> DEFINE S == {k \in 0..n : Generated(class, g[k], k)}
<1>3. 0 \in S
  <2>1. Generated(class, <<>>, 0)
    BY DEF Generated, IsInjective
  <2>2. QED BY <1>2, <2>1
<1>4. ASSUME NEW k \in 0..(n - 1), k \in S PROVE k + 1 \in S
  <2>1. k + 1 \in 1..n /\ k + 1 \in 0..n /\ (k + 1) - 1 = k /\ k \in Nat
    OBVIOUS
  <2>2. g[k + 1] = Generate(class, g[k], class.fields[k + 1])
    BY <1>2, <2>1
  <2>3. PICK methods : methods = g[k]
    OBVIOUS
  <2>4. Generated(class, methods, k)
    BY <1>4, <2>3
  <2>5. Generated(class, Generate(class, methods, class.fields[k + 1]), k + 1)
    BY <1>1, <2>1, <2>4, GenerateOne
  <2>6. QED BY <2>1, <2>2, <2>3, <2>5
<1>5. \A k \in 0..(n - 1) : k \in S => k + 1 \in S
  BY <1>4
<1> HIDE DEF S
<1>6. \A k \in 0..n : k \in S
  BY <1>3, <1>5, UpToBound
<1>7. Generated(class, g[n], n)
  BY <1>6 DEF S
<1>8. QED BY <1>1, <1>2, <1>7
------------------------------------------------------------------------------
(* What is read of the heap after the parsing. *)
LEMMA ParsedClass ==
  ASSUME NEW body, IsBody(body), NEW p, p = ParseTypeBody(body), NEW class, class = Parse(body)
  PROVE  /\ class.methods = p.methods
         /\ DOMAIN class.fields = 1..Len(p.fields) /\ Len(class.fields) = Len(p.fields)
         /\ \A k \in 1..Len(p.fields) :
              /\ class.fields[k].name = p.fields[k].name
              /\ class.fields[k].annotations = Contents(p.heap, p.fields[k].annotations)
<1>1. p.fields \in Seq(FieldsOf(body))
  BY BodyParsed DEF Parsed, FieldsParsed
<1>2. DOMAIN p.fields = 1..Len(p.fields) /\ Len(p.fields) \in Nat
  BY <1>1
<1>3. class = [fields  |-> [i \in DOMAIN p.fields |->
                             [name |-> p.fields[i].name, annotations |-> Contents(p.heap, p.fields[i].annotations)]],
               methods |-> p.methods]
  BY Zenon DEF Parse
<1>4. QED BY <1>2, <1>3

(* The names of the members are as declared. *)
LEMMA NamesAsDeclared ==
  ASSUME NEW body, IsBody(body), NEW s, s = ClassSnapshot(body)
  PROVE  AsDeclared(s.fields, "field", body) /\ AsDeclared(s.methods, "method", body)
<1>1. PICK p : p = ParseTypeBody(body)
  OBVIOUS
<1>2. PICK class : class = Parse(body)
  OBVIOUS
<1>3. Parsed(p, body, Len(body))
  BY <1>1, BodyParsed
<1>4. s.methods = p.methods /\ s.fields = [i \in 1..Len(p.fields) |-> p.fields[i].name]
  <2>1. s.methods = class.methods /\ s.fields = [i \in DOMAIN class.fields |-> class.fields[i].name]
    BY <1>2 DEF ClassSnapshot
  <2>2. QED BY <1>1, <1>2, <2>1, ParsedClass
<1>5. AsDeclared(s.methods, "method", body)
  BY <1>3, <1>4 DEF Parsed, MethodsParsed, AsDeclared
<1>6. Len(s.fields) = Count(body, "field", Len(body))
  <2>1. Len(p.fields) = Count(body, "field", Len(body)) /\ Len(p.fields) \in Nat
    BY <1>3 DEF Parsed, FieldsParsed
  <2>2. QED BY <1>4, <2>1
<1>7. ASSUME NEW i \in 1..Len(body), body[i].kind = "field"
      PROVE  s.fields[Count(body, "field", i)] = body[i].name
  <2>1. p.fields[Count(body, "field", i)].name = body[i].name
    BY <1>3, <1>7 DEF Parsed, FieldsParsed
  <2>2. Len(body) \in Nat
    BY DEF IsBody
  <2>3. Count(body, "field", i) \in 1..Count(body, "field", Len(body))
    BY <1>7, <2>2, CountOfMember
  <2>4. Len(p.fields) = Count(body, "field", Len(body))
    BY <1>3 DEF Parsed, FieldsParsed
  <2>5. QED BY <1>4, <2>1, <2>3, <2>4
<1>8. QED BY <1>5, <1>6, <1>7 DEF AsDeclared

(* The getters of a class as the plugin sees it. *)
LEMMA SnapshotGenerated ==
  ASSUME NEW body, IsBody(body), NEW class, class = Parse(body)
  PROVE  /\ Generated(class, ClassSnapshot(body).generated, Len(class.fields))
         /\ ClassSnapshot(body).methods = class.methods
         /\ class.methods \in Seq(NamesOf(body))
<1>1. PICK p : p = ParseTypeBody(body)
  OBVIOUS
<1>2. class.methods = p.methods /\ Len(class.fields) = Len(p.fields)
  BY <1>1, ParsedClass
<1>3. p.methods \in Seq(NamesOf(body)) /\ p.fields \in Seq(FieldsOf(body))
  BY <1>1, BodyParsed DEF Parsed, MethodsParsed, FieldsParsed
<1>4. Generated(class, GeneratedMethods(class), Len(class.fields))
  BY <1>2, <1>3, AllGenerated
<1>5. QED BY <1>2, <1>3, <1>4 DEF ClassSnapshot

(* Where the annotation of a field that gets a getter was written. *)
LEMMA GetterWritten ==
  ASSUME NEW body, IsBody(body), NEW class, class = Parse(body),
         NEW k \in 1..Len(class.fields), NEW name, Gets(class, k, name)
  PROVE  \E i \in 1..Len(body) : \E j \in i..Len(body) :
           /\ body[i].kind = "field" /\ GetterName(body[i].name) = name
           /\ Contains(body[j].annotations, Getter)
<1>1. PICK p : p = ParseTypeBody(body)
  OBVIOUS
<1>2. k \in 1..Len(p.fields) /\ Parsed(p, body, Len(body))
  BY <1>1, ParsedClass, BodyParsed
<1>3. PICK i \in 1..Len(body) : body[i].kind = "field" /\ Count(body, "field", i) = k
  BY <1>2 DEF Parsed, FieldsParsed
<1>4. PICK s : s = p.fields[k].annotations
  OBVIOUS
<1>5. p.fields[k].name = body[i].name /\ Holds(p.heap, s, body, i, Len(body))
  BY <1>2, <1>3, <1>4 DEF Parsed, FieldsParsed
<1>6. class.fields[k].name = body[i].name /\ class.fields[k].annotations = Contents(p.heap, s)
  BY <1>1, <1>2, <1>4, <1>5, ParsedClass
<1>7. GetterName(body[i].name) = name /\ Contains(Contents(p.heap, s), Getter)
  BY <1>6 DEF Gets
<1>8. PICK c \in 1..s.len : p.heap[s.array][c] = Getter
  <2> DEFINE row == p.heap[s.array]
  <2>1. row \in Seq(Cells) /\ s.len \in 0..Len(row)
    BY <1>2, <1>5 DEF Parsed, IsParser, Holds, Within
  <2>2. Contains(SubSeq(row, 1, s.len), Getter)
    BY <1>7 DEF Contents
  <2> HIDE DEF row
  <2>3. /\ s.len \in Nat /\ \A c \in 1..s.len : row[c] \in Cells
    BY <2>1
  <2>4. /\ Len(SubSeq(row, 1, s.len)) = s.len
        /\ \A c \in 1..(s.len - 1 + 1) : SubSeq(row, 1, s.len)[c] = row[1 + c - 1]
    BY <2>3, SubSeqProperties
  <2>5. QED BY <2>2, <2>3, <2>4 DEF Contains, row
<1>9. PICK j \in i..Len(body) : Getter \in ToSet(body[j].annotations)
  BY <1>5, <1>8 DEF Holds
<1>10. Contains(body[j].annotations, Getter)
  <2>1. j \in DOMAIN body
    BY DEF IsBody
  <2>2. body[j].annotations \in Seq(Annotations)
    BY <2>1 DEF IsBody
  <2>3. QED BY <1>9, <2>2 DEF ToSet, Contains
<1>11. QED BY <1>3, <1>7, <1>10

(* The field whose annotations no later member overwrites. *)
LEMMA LastGetter ==
  ASSUME NEW body, IsBody(body), NEW class, class = Parse(body), NEW i \in 1..Len(body),
         body[i].kind = "field", Contains(body[i].annotations, Getter),
         \A j \in (i + 1)..Len(body) : body[j].annotations = <<>>
  PROVE  \E k \in 1..Len(class.fields) : Gets(class, k, GetterName(body[i].name))
<1> DEFINE k == Count(body, "field", i)
<1>1. PICK p : p = ParseTypeBody(body)
  OBVIOUS
<1>2. Parsed(p, body, Len(body))
  BY <1>1, BodyParsed
<1>3. k \in 1..Len(p.fields)
  <2>1. Len(body) \in Nat
    BY DEF IsBody
  <2>2. k \in 1..Count(body, "field", Len(body))
    BY <2>1, CountOfMember
  <2>3. QED BY <1>2, <2>2 DEF Parsed, FieldsParsed
<1>4. /\ p.fields[k].name = body[i].name
      /\ Contents(p.heap, p.fields[k].annotations) = body[i].annotations
  BY <1>2 DEF Parsed, FieldsParsed, Holds
<1> HIDE DEF k
<1>5. /\ k \in 1..Len(class.fields) /\ class.fields[k].name = body[i].name
      /\ class.fields[k].annotations = body[i].annotations
  BY <1>1, <1>3, <1>4, ParsedClass
<1>6. QED BY <1>5 DEF Gets
------------------------------------------------------------------------------
(* What a class has in the store is the snapshot of the body last          *)
(* committed for it.                                                       *)
StoredIsLatest ==
  \A c \in Classes :
    classes[c] = IF latest[c] = None THEN None ELSE ClassSnapshot(latest[c])

Collected == [class : Classes, snapshot : {ClassSnapshot(b) : b \in Bodies}]

MergedTyped == merged \in Seq(Collected)

IInv ==
  /\ TypeOK
  /\ StoredIsLatest
  /\ MergedTyped
  /\ MembersHaveReferences
  /\ ReturnedWasPersisted
------------------------------------------------------------------------------
(* The references of a class name that class. *)
LEMMA ReferencesOfClass ==
  ASSUME NEW c \in Classes, NEW snapshot, NEW r \in References(c, snapshot)
  PROVE  r.class \in Classes
BY DEF References

(* The invariant holds of an empty store. *)
LEMMA InitIInv == Init => IInv
<1> SUFFICES ASSUME Init PROVE IInv
  OBVIOUS
<1> USE IndexStoreAssumption DEF Init
<1>1. TypeOK
  BY DEF TypeOK
<1>2. StoredIsLatest /\ MergedTyped /\ MembersHaveReferences /\ ReturnedWasPersisted
  BY DEF StoredIsLatest, MergedTyped, MembersHaveReferences, ReturnedWasPersisted
<1>3. QED BY <1>1, <1>2 DEF IInv

(* A failure or a kill leaves the store as it is and collects nothing. *)
LEMMA FailsIInv ==
  ASSUME IInv, Fails, UNCHANGED <<disk, classes, references, latest, edits, walks>>
  PROVE  IInv'
<1> USE DEF IInv, Fails
<1>1. TypeOK'
  BY DEF TypeOK
<1>2. StoredIsLatest' /\ MergedTyped' /\ MembersHaveReferences' /\ ReturnedWasPersisted'
  BY DEF StoredIsLatest, MergedTyped, MembersHaveReferences, ReturnedWasPersisted
<1>3. QED BY <1>1, <1>2

(* Steps that do not touch the store, and collect nothing or start afresh. *)
LEMMA StoreUnchanged ==
  ASSUME IInv, UNCHANGED <<classes, references, latest>>, TypeOK',
         \/ merged' = <<>>
         \/ merged' = merged /\ (walk' # None => walk # None)
  PROVE  IInv'
<1> USE DEF IInv
<1>1. StoredIsLatest' /\ MembersHaveReferences'
  BY DEF StoredIsLatest, MembersHaveReferences
<1>2. CASE merged' = <<>>
  BY <1>1, <1>2 DEF MergedTyped, ReturnedWasPersisted
<1>3. CASE merged' = merged /\ (walk' # None => walk # None)
  BY <1>1, <1>3 DEF MergedTyped, ReturnedWasPersisted
<1>4. QED BY <1>2, <1>3

(* The files change, a document is analyzed, the walk starts and ends. *)
LEMMA AroundIInv ==
  ASSUME IInv,
         \/ \E f \in ToSet(Files) : ChangeFile(f)
         \/ \E text \in Texts : AnalyzeDocument(text)
         \/ StartWalk \/ FinishWalk
  PROVE  IInv'
<1> USE IndexStoreAssumption
<1>1. ASSUME NEW f \in ToSet(Files), ChangeFile(f) PROVE IInv'
  <2>1. TypeOK'
    BY <1>1 DEF IInv, TypeOK, ChangeFile
  <2>2. QED BY <1>1, <2>1, StoreUnchanged DEF ChangeFile
<1>2. ASSUME NEW text \in Texts, AnalyzeDocument(text) PROVE IInv'
  <2>1. TypeOK'
    BY <1>2 DEF IInv, TypeOK, AnalyzeDocument
  <2>2. QED BY <1>2, <2>1, StoreUnchanged DEF AnalyzeDocument
<1>3. ASSUME StartWalk PROVE IInv'
  <2>1. TypeOK'
    BY <1>3 DEF IInv, TypeOK, StartWalk
  <2>2. QED BY <1>3, <2>1, StoreUnchanged DEF StartWalk
<1>4. ASSUME FinishWalk PROVE IInv'
  <2>1. TypeOK'
    BY <1>4 DEF IInv, TypeOK, FinishWalk
  <2>2. QED BY <1>4, <2>1, StoreUnchanged DEF FinishWalk
<1>5. QED BY <1>1, <1>2, <1>3, <1>4

(* The next file of the walk is read, or is not there any more. *)
LEMMA ReadFileIInv ==
  ASSUME IInv, ReadFile
  PROVE  IInv'
<1>1. PICK i \in walk :
        IF disk[Files[i]] = None THEN Fails
        ELSE batch' = disk[Files[i]] /\ walk' = walk \ {i} /\ UNCHANGED merged
  BY DEF ReadFile
<1>2. walk # None /\ UNCHANGED <<disk, classes, references, latest, edits, walks>>
  BY DEF ReadFile
<1>3. CASE disk[Files[i]] = None
  BY <1>1, <1>2, <1>3, FailsIInv
<1>4. CASE disk[Files[i]] # None
  <2>1. i \in DOMAIN Files /\ Files[i] \in ToSet(Files)
    BY <1>2 DEF IInv, TypeOK, ToSet
  <2>2. TypeOK'
    BY <1>1, <1>2, <1>4, <2>1 DEF IInv, TypeOK
  <2>3. QED BY <1>1, <1>2, <1>4, <2>2, StoreUnchanged
<1>5. QED BY <1>3, <1>4

(* A commit sets the class and its references in one step; the snapshot    *)
(* collected with it is the last one of its class in the list.             *)
LEMMA CommitIInv ==
  ASSUME IInv, Commit
  PROVE  IInv'
<1> DEFINE class == batch.class
           body == batch.body
           snapshot == ClassSnapshot(body)
           new == [class |-> class, snapshot |-> snapshot]
<1>1. batch \in Texts /\ class \in Classes /\ body \in Bodies /\ body # None /\ snapshot # None
  BY IndexStoreAssumption DEF IInv, TypeOK, Commit, Texts
<1>2. new \in Collected /\ new.class = class /\ new.snapshot = snapshot
  BY <1>1 DEF Collected
<1>3. /\ classes' = [classes EXCEPT ![class] = snapshot]
      /\ references' = references \union References(class, snapshot)
      /\ merged' = IF walk = None THEN merged ELSE Append(merged, new)
      /\ latest' = [latest EXCEPT ![class] = body]
      /\ batch' = None
      /\ UNCHANGED <<disk, walk, edits, walks>>
  BY DEF Commit
<1> HIDE DEF class, body, snapshot, new
<1>4. \A c \in Classes : /\ classes'[c] = IF c = class THEN snapshot ELSE classes[c]
                         /\ latest'[c] = IF c = class THEN body ELSE latest[c]
  BY <1>1, <1>3 DEF IInv, TypeOK
<1>5. TypeOK'
  <2>1. \A r \in references' : r.class \in Classes
    BY <1>1, <1>3, ReferencesOfClass DEF IInv, TypeOK
  <2>2. latest' \in [Classes -> Bodies \union {None}] /\ DOMAIN classes' = Classes
    BY <1>1, <1>3 DEF IInv, TypeOK
  <2>3. \A c \in Classes : (classes'[c] = None) <=> (latest'[c] = None)
    BY <1>1, <1>4 DEF IInv, TypeOK
  <2>4. QED BY <1>3, <2>1, <2>2, <2>3 DEF IInv, TypeOK
<1>6. StoredIsLatest'
  BY <1>1, <1>4 DEF IInv, StoredIsLatest, snapshot
<1>7. MergedTyped'
  BY <1>2, <1>3 DEF IInv, MergedTyped
<1>8. MembersHaveReferences'
  BY <1>3, <1>4 DEF IInv, MembersHaveReferences
<1>9. ReturnedWasPersisted'
  <2> SUFFICES ASSUME walk # None, NEW i \in 1..Len(merged')
               PROVE  \/ classes'[merged'[i].class] = merged'[i].snapshot
                      \/ \E j \in (i + 1)..Len(merged') : merged'[j].class = merged'[i].class
    BY <1>3 DEF ReturnedWasPersisted
  <2>1. /\ merged \in Seq(Collected)
        /\ Len(merged') = Len(merged) + 1
        /\ merged'[Len(merged) + 1] = new
        /\ \A k \in 1..Len(merged) : merged'[k] = merged[k] /\ merged[k].class \in Classes
    <3>1. merged \in Seq(Collected) /\ merged' = Append(merged, new)
      BY <1>3 DEF IInv, MergedTyped
    <3>2. \A k \in 1..Len(merged) : merged[k] \in Collected
      BY <3>1
    <3>3. QED BY <1>2, <3>1, <3>2 DEF Collected
  <2>2. CASE i = Len(merged) + 1
    BY <1>1, <1>2, <1>4, <2>1, <2>2
  <2>3. CASE i \in 1..Len(merged) /\ merged[i].class = class
    <3>1. Len(merged) + 1 \in (i + 1)..Len(merged') /\ merged'[Len(merged) + 1].class = merged'[i].class
      BY <1>2, <2>1, <2>3
    <3>2. QED BY <3>1
  <2>4. CASE i \in 1..Len(merged) /\ merged[i].class # class
    <3>1. CASE classes[merged[i].class] = merged[i].snapshot
      BY <1>4, <2>1, <2>4, <3>1
    <3>2. ASSUME NEW j \in (i + 1)..Len(merged), merged[j].class = merged[i].class
          PROVE  \E k \in (i + 1)..Len(merged') : merged'[k].class = merged'[i].class
      <4>1. j \in (i + 1)..Len(merged') /\ merged'[j].class = merged'[i].class
        BY <2>1, <2>4, <3>2
      <4>2. QED BY <4>1
    <3>3. QED BY <2>4, <3>1, <3>2 DEF IInv, ReturnedWasPersisted
  <2>5. QED BY <2>1, <2>2, <2>3, <2>4
<1>10. QED BY <1>5, <1>6, <1>7, <1>8, <1>9 DEF IInv

(* A commit that fails stores nothing, and ends the walk if there is one. *)
LEMMA CommitFailsIInv ==
  ASSUME IInv, CommitFails
  PROVE  IInv'
<1>1. CASE walk = None
  <2>1. TypeOK'
    BY <1>1 DEF IInv, TypeOK, CommitFails
  <2>2. QED BY <1>1, <2>1, StoreUnchanged DEF CommitFails
<1>2. CASE walk # None
  BY <1>2, FailsIInv DEF CommitFails
<1>3. QED BY <1>1, <1>2

(* No step breaks the invariant. *)
LEMMA StepIInv == IInv /\ [Next]_vars => IInv'
<1> SUFFICES ASSUME IInv, [Next]_vars PROVE IInv'
  OBVIOUS
<1>1. CASE UNCHANGED vars
  <2>1. TypeOK'
    BY <1>1 DEF vars, IInv, TypeOK
  <2>2. QED BY <1>1, <2>1, StoreUnchanged DEF vars
<1>2. CASE Restart
  BY <1>2, FailsIInv DEF Restart
<1>3. QED
  BY <1>1, <1>2, AroundIInv, ReadFileIInv, CommitIInv, CommitFailsIInv DEF Next

(* In every reachable state the inductive invariant holds. *)
LEMMA Invariance == Spec => []IInv
BY InitIInv, StepIInv, PTL DEF Spec
------------------------------------------------------------------------------
(* Every variable has its type, for all values of the constants. *)
THEOREM TypeCorrect == Spec => []TypeOK
<1>1. IInv => TypeOK
  BY DEF IInv
<1>2. QED BY <1>1, Invariance, PTL

(* Whatever was killed or failed on the way, every member the store lists  *)
(* for a class has its reference in the store.                             *)
THEOREM ReferencesKept == Spec => []MembersHaveReferences
<1>1. IInv => MembersHaveReferences
  BY DEF IInv
<1>2. QED BY <1>1, Invariance, PTL

(* What AnalyzeWorkspace collects is what it persisted: the last snapshot  *)
(* it lists for a class is the class in the store.                         *)
THEOREM ReturnedPersisted == Spec => []ReturnedWasPersisted
<1>1. IInv => ReturnedWasPersisted
  BY DEF IInv
<1>2. QED BY <1>1, Invariance, PTL

(* The store lists the fields and methods of a class as last analyzed, all *)
(* of them and in their order.                                             *)
THEOREM MembersListed == Spec => []MembersAsDeclared
<1>1. ASSUME TypeOK, StoredIsLatest, NEW c \in Classes, latest[c] # None
      PROVE  /\ AsDeclared(classes[c].fields, "field", latest[c])
             /\ AsDeclared(classes[c].methods, "method", latest[c])
  <2>1. PICK body \in Bodies : body = latest[c]
    BY <1>1 DEF TypeOK
  <2>2. classes[c] = ClassSnapshot(body) /\ IsBody(body)
    BY <1>1, <2>1, IndexStoreAssumption DEF StoredIsLatest
  <2>3. QED BY <2>1, <2>2, NamesAsDeclared
<1>2. IInv => MembersAsDeclared
  BY <1>1 DEF IInv, MembersAsDeclared
<1>3. QED BY <1>2, Invariance, PTL

(* No generated getter doubles a declared method or another getter, and    *)
(* each is of a declared field that is annotated with Getter or followed   *)
(* by a member that is.                                                    *)
THEOREM GettersAreJustified == Spec => []GettersJustified
<1>1. ASSUME TypeOK, StoredIsLatest, NEW c \in Classes, latest[c] # None
      PROVE  /\ IsInjective(classes[c].generated)
             /\ ToSet(classes[c].generated) \intersect ToSet(classes[c].methods) = {}
             /\ \A g \in ToSet(classes[c].generated) :
                  \E i \in 1..Len(latest[c]) : \E j \in i..Len(latest[c]) :
                    /\ latest[c][i].kind = "field" /\ GetterName(latest[c][i].name) = g
                    /\ Contains(latest[c][j].annotations, Getter)
  <2>1. PICK body \in Bodies : body = latest[c]
    BY <1>1 DEF TypeOK
  <2>2. classes[c] = ClassSnapshot(body) /\ IsBody(body)
    BY <1>1, <2>1, IndexStoreAssumption DEF StoredIsLatest
  <2>3. PICK class : class = Parse(body)
    OBVIOUS
  <2>4. PICK getters : getters = classes[c].generated
    OBVIOUS
  <2>5. /\ Generated(class, getters, Len(class.fields))
        /\ classes[c].methods = class.methods /\ class.methods \in Seq(NamesOf(body))
    BY <2>2, <2>3, <2>4, SnapshotGenerated
  <2>6. DOMAIN getters = 1..Len(getters) /\ DOMAIN class.methods = 1..Len(class.methods)
    BY <2>5 DEF Generated
  <2>7. IsInjective(getters)
    BY <2>5 DEF Generated
  <2>8. ToSet(getters) \intersect ToSet(class.methods) = {}
    BY <2>5, <2>6 DEF Generated, ToSet, Contains
  <2>9. ASSUME NEW g \in ToSet(getters)
        PROVE  \E i \in 1..Len(body) : \E j \in i..Len(body) :
                 /\ body[i].kind = "field" /\ GetterName(body[i].name) = g
                 /\ Contains(body[j].annotations, Getter)
    <3>1. PICK k \in 1..Len(class.fields) : Gets(class, k, g)
      BY <2>5, <2>6 DEF Generated, ToSet
    <3>2. QED BY <2>2, <2>3, <3>1, GetterWritten
  <2>10. QED BY <2>1, <2>4, <2>5, <2>7, <2>8, <2>9
<1>2. IInv => GettersJustified
  BY <1>1 DEF IInv, GettersJustified
<1>3. QED BY <1>2, Invariance, PTL

(* A field with Getter after which no member has annotations has its       *)
(* getter.                                                                 *)
THEOREM LastGetterIsGenerated == Spec => []LastGetterGenerated
<1>1. ASSUME TypeOK, StoredIsLatest, NEW c \in Classes, latest[c] # None,
             NEW i \in 1..Len(latest[c]),
             latest[c][i].kind = "field", Contains(latest[c][i].annotations, Getter),
             \A j \in (i + 1)..Len(latest[c]) : latest[c][j].annotations = <<>>
      PROVE  HasGetter(c, latest[c][i])
  <2>1. PICK body \in Bodies : body = latest[c]
    BY <1>1 DEF TypeOK
  <2>2. classes[c] = ClassSnapshot(body) /\ IsBody(body)
    BY <1>1, <2>1, IndexStoreAssumption DEF StoredIsLatest
  <2>3. PICK class : class = Parse(body)
    OBVIOUS
  <2>4. PICK getters : getters = classes[c].generated
    OBVIOUS
  <2>5. /\ Generated(class, getters, Len(class.fields))
        /\ classes[c].methods = class.methods /\ class.methods \in Seq(NamesOf(body))
    BY <2>2, <2>3, <2>4, SnapshotGenerated
  <2>6. PICK name : name = GetterName(body[i].name)
    OBVIOUS
  <2>7. PICK k \in 1..Len(class.fields) : Gets(class, k, name)
    BY <1>1, <2>1, <2>2, <2>3, <2>6, LastGetter
  <2>8. Contains(class.methods, name) \/ Contains(getters, name)
    BY <2>5, <2>7 DEF Generated
  <2>9. getters \in Seq({GetterName(class.fields[f].name) : f \in 1..Len(class.fields)})
    BY <2>5 DEF Generated
  <2>10. Contains(class.methods \o getters, name)
    BY <2>5, <2>8, <2>9, ContainsConcat
  <2>11. QED BY <2>1, <2>4, <2>5, <2>6, <2>10 DEF HasGetter
<1>2. IInv => LastGetterGenerated
  BY <1>1 DEF IInv, LastGetterGenerated
<1>3. QED BY <1>2, Invariance, PTL
==============================================================================
