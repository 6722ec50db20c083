---------------------------- MODULE TextScanProofs ----------------------------
(***************************************************************************)
(* Proofs about TextScan, for texts of any length over any characters: the *)
(* ends of runs of characters, what the loops compute, and the properties, *)
(* which come down to what the functions say of one text and one offset.   *)
(***************************************************************************)
EXTENDS TextScan, FiniteSetTheorems, SequenceTheorems, WellFoundedInduction, TLAPS

(* A nonempty set of numbers has a least one. *)
LEMMA LeastNumber ==
  ASSUME NEW T, T \subseteq Nat, T # {}
  PROVE  \E x \in T : \A y \in T : x <= y
<1>1. IsWellFoundedOn(OpToRel(<, Nat), Nat)
  BY NatLessThanWellFounded, Zenon
<1>2. PICK x \in T : \A y \in T : <<y, x>> \notin OpToRel(<, Nat)
  BY <1>1, WFMin, Zenon
<1>3. \A y \in T : ~(y < x)
  BY <1>2 DEF OpToRel
<1>4. QED BY <1>3

(* A set of numbers with 0 and with the successor of each has them all up  *)
(* to a bound: induction, with a set for the predicate.                    *)
LEMMA UpToBound ==
  ASSUME NEW n \in Nat, NEW S, 0 \in S, \A k \in 0..(n - 1) : k \in S => k + 1 \in S
  PROVE  \A k \in 0..n : k \in S
<1> SUFFICES ASSUME {k \in 0..n : k \notin S} # {} PROVE FALSE
  OBVIOUS
<1> DEFINE T == {k \in 0..n : k \notin S}
<1>1. PICK m \in T : \A k \in T : m <= k
  <2>1. T \subseteq Nat /\ T # {}
    OBVIOUS
  <2> HIDE DEF T
  <2>2. QED BY <2>1, LeastNumber
<1>2. m # 0 /\ m - 1 \in 0..(n - 1) /\ m - 1 \in 0..n
  BY <1>1
<1>3. m - 1 \in S
  BY <1>1, <1>2
<1>4. m \in S
  BY <1>2, <1>3
<1>5. QED BY <1>4

(* A loop of n steps has a run: states from S, each from the one before by *)
(* a step of the loop.                                                     *)
Run(g, S, F, a, n) ==
  /\ g = [k \in 0..n |-> IF k = 0 THEN a ELSE F[k][g[k - 1]]]
  /\ \A k \in 0..n : g[k] \in S

LEMMA RunExists ==
  ASSUME NEW S, NEW a \in S, NEW n \in Nat, NEW F, \A k \in 1..n : \A s \in S : F[k][s] \in S
  PROVE  \E g : Run(g, S, F, a, n)
<1> DEFINE T == {m \in 0..n : \E g : Run(g, S, F, a, m)}
<1>1. 0 \in T
  <2>1. Run([k \in 0..0 |-> a], S, F, a, 0)
    BY DEF Run
  <2>2. QED BY <2>1
<1>2. ASSUME NEW m \in 0..(n - 1), m \in T PROVE m + 1 \in T
  <2>1. PICK g : Run(g, S, F, a, m)
    BY <1>2
  <2> DEFINE v == F[m + 1][g[m]]
             h == [k \in 0..(m + 1) |-> IF k <= m THEN g[k] ELSE v]
  <2>2. v \in S
    BY <2>1 DEF Run
  <2>3. \A k \in 0..m : h[k] = g[k] /\ g[k] \in S
    BY <2>1 DEF Run
  <2>4. h[m + 1] = v /\ h = [k \in 0..(m + 1) |-> h[k]]
    OBVIOUS
  <2> HIDE DEF h
  <2>5. ASSUME NEW k \in 0..(m + 1)
        PROVE  h[k] = (IF k = 0 THEN a ELSE F[k][h[k - 1]]) /\ h[k] \in S
    <3>1. CASE k \in 0..m
      <4>1. h[k] = g[k] /\ (k # 0 => k - 1 \in 0..m /\ h[k - 1] = g[k - 1])
        BY <2>3, <3>1
      <4>2. g[k] = IF k = 0 THEN a ELSE F[k][g[k - 1]]
        BY <2>1, <3>1 DEF Run
      <4>3. QED BY <2>3, <3>1, <4>1, <4>2
    <3>2. CASE k = m + 1
      <4>1. k # 0 /\ k - 1 = m /\ h[m] = g[m]
        BY <2>3, <3>2
      <4>2. QED BY <2>2, <2>4, <3>2, <4>1
    <3>3. QED BY <3>1, <3>2
  <2>6. Run(h, S, F, a, m + 1)
    BY <2>4, <2>5 DEF Run
  <2>7. QED BY <2>6
<1>3. \A m \in 0..(n - 1) : m \in T => m + 1 \in T
  BY <1>2
<1> HIDE DEF T
<1>4. n \in T
  BY <1>1, <1>3, UpToBound
<1>5. QED BY <1>4 DEF T
------------------------------------------------------------------------------
(* Runs of characters. *)
LEMMA MinIs ==
  ASSUME NEW S, NEW x \in S, S \subseteq Int, \A y \in S : x <= y
  PROVE  Min(S) = x
<1>1. Min(S) \in S /\ \A y \in S : Min(S) <= y
  BY Zenon DEF Min
<1>2. PICK m : m = Min(S)
  OBVIOUS
<1>3. m \in S /\ m <= x /\ x <= m
  BY <1>1, <1>2
<1>4. m = x
  BY <1>3
<1>5. QED BY <1>2, <1>4

LEMMA MaxIs ==
  ASSUME NEW S, NEW x \in S, S \subseteq Int, \A y \in S : y <= x
  PROVE  Max(S) = x
<1>1. \E z \in S : \A y \in S : z >= y
  BY SMT
<1>2. Max(S) \in S /\ \A y \in S : Max(S) >= y
  BY <1>1, Zenon DEF Max
<1>3. PICK m : m = Max(S)
  OBVIOUS
<1>4. m \in S /\ m <= x /\ x <= m
  BY <1>2, <1>3
<1>5. m = x
  BY <1>4
<1>6. QED BY <1>3, <1>5

LEMMA MinOf ==
  ASSUME NEW S, S \subseteq Nat, S # {}
  PROVE  Min(S) \in S /\ \A y \in S : Min(S) <= y
<1>1. \E x \in S : \A y \in S : x <= y
  BY LeastNumber
<1>2. QED BY <1>1, Zenon DEF Min

LEMMA MinOfTwo ==
  ASSUME NEW a \in Int, NEW b \in Int
  PROVE  Min({a, b}) = IF a <= b THEN a ELSE b
<1>1. {a, b} \subseteq Int
  OBVIOUS
<1>2. CASE a <= b
  <2>1. a \in {a, b} /\ \A y \in {a, b} : a <= y
    BY <1>2
  <2>2. QED BY <1>1, <1>2, <2>1, MinIs
<1>3. CASE ~(a <= b)
  <2>1. b \in {a, b} /\ \A y \in {a, b} : b <= y
    BY <1>3
  <2>2. QED BY <1>1, <1>3, <2>1, MinIs
<1>4. QED BY <1>2, <1>3

(* Where a run begins, and that this is how to tell. *)
LEMMA RunStartIs ==
  ASSUME NEW t, NEW at \in Nat, NEW set, NEW s, s = RunStart(t, at, set)
  PROVE  /\ s \in 0..at
         /\ \A i \in s+1..at : t[i] \in set
         /\ s = 0 \/ t[s] \notin set
<1> DEFINE T == {r \in 0..at : \A i \in r+1..at : t[i] \in set}
<1>1. at \in T /\ T \subseteq Nat
  OBVIOUS
<1>2. s = Min(T)
  BY DEF RunStart
<1> HIDE DEF T
<1>3. s \in T /\ \A r \in T : s <= r
  BY <1>1, <1>2, MinOf
<1>4. s \in 0..at /\ \A i \in s+1..at : t[i] \in set
  BY <1>3 DEF T
<1>5. ASSUME s # 0, t[s] \in set PROVE FALSE
  <2>1. s - 1 \in T
    BY <1>4, <1>5 DEF T
  <2>2. QED BY <1>3, <1>4, <2>1
<1>6. QED BY <1>4, <1>5

LEMMA RunStartIf ==
  ASSUME NEW t, NEW at \in Nat, NEW set, NEW s \in 0..at,
         \A i \in s+1..at : t[i] \in set, s = 0 \/ t[s] \notin set
  PROVE  RunStart(t, at, set) = s
<1> DEFINE r == RunStart(t, at, set)
<1>1. r \in 0..at /\ (\A i \in r+1..at : t[i] \in set) /\ (r = 0 \/ t[r] \notin set)
  BY RunStartIs
<1> HIDE DEF r
<1>2. ~(r < s)
  BY <1>1
<1>3. ~(s < r)
  BY <1>1
<1>4. QED BY <1>1, <1>2, <1>3 DEF r

(* Where a run ends, and that this is how to tell. *)
LEMMA RunEndIs ==
  ASSUME NEW t, Len(t) \in Nat, NEW at \in 0..Len(t), NEW set, NEW e, e = RunEnd(t, at, set)
  PROVE  /\ e \in at..Len(t)
         /\ \A i \in at+1..e : t[i] \in set
         /\ e = Len(t) \/ t[e + 1] \notin set
<1> DEFINE T == {d \in at..Len(t) : \A i \in at+1..d : t[i] \in set}
           U == {n \in 0..Len(t) : Len(t) - n \in T}
<1>1. at \in T /\ T \subseteq Nat
  OBVIOUS
<1>2. e = Max(T)
  BY DEF RunEnd
<1>3. U \subseteq Nat /\ Len(t) - at \in U
  BY <1>1
<1>4. PICK u \in U : \A w \in U : u <= w
  <2> HIDE DEF U
  <2>1. QED BY <1>3, LeastNumber
<1>5. PICK d \in T : d = Len(t) - u
  BY <1>4
<1>6. \A c \in T : c <= d
  <2>1. \A c \in T : Len(t) - c \in U
    OBVIOUS
  <2>2. u \in 0..Len(t) /\ \A c \in T : u <= Len(t) - c
    BY <1>4, <2>1
  <2>3. T \subseteq Nat /\ d = Len(t) - u
    BY <1>1, <1>5
  <2> HIDE DEF T, U
  <2>4. QED BY <2>2, <2>3
<1>7. e = d
  <2>1. d \in T /\ T \subseteq Int /\ \A y \in T : y <= d
    BY <1>1, <1>5, <1>6
  <2> HIDE DEF T
  <2>2. QED BY <1>2, <2>1, MaxIs
<1>8. e \in at..Len(t) /\ \A i \in at+1..e : t[i] \in set
  BY <1>5, <1>7
<1>9. ASSUME e # Len(t), t[e + 1] \in set PROVE FALSE
  <2>1. e + 1 \in T
    BY <1>8, <1>9
  <2>2. QED BY <1>6, <1>7, <1>8, <2>1
<1>10. QED BY <1>8, <1>9

LEMMA RunEndIf ==
  ASSUME NEW t, Len(t) \in Nat, NEW at \in 0..Len(t), NEW set, NEW e \in at..Len(t),
         \A i \in at+1..e : t[i] \in set, e = Len(t) \/ t[e + 1] \notin set
  PROVE  RunEnd(t, at, set) = e
<1> DEFINE r == RunEnd(t, at, set)
<1>1. r \in at..Len(t) /\ (\A i \in at+1..r : t[i] \in set) /\ (r = Len(t) \/ t[r + 1] \notin set)
  BY RunEndIs
<1> HIDE DEF r
<1>2. ~(r < e)
  BY <1>1
<1>3. ~(e < r)
  BY <1>1
<1>4. QED BY <1>1, <1>2, <1>3 DEF r
------------------------------------------------------------------------------
(* Parts of a text. *)
LEMMA SliceParts ==
  ASSUME NEW S, NEW t \in Seq(S), NEW from \in 0..Len(t), NEW to \in 0..Len(t)
  PROVE  /\ Slice(t, from, to) \in Seq(S)
         /\ Len(Slice(t, from, to)) = IF from <= to THEN to - from ELSE 0
         /\ \A i \in 1..(to - from) : Slice(t, from, to)[i] = t[from + i]
         /\ Slice(t, from, to) = <<>> <=> to <= from
BY DEF Slice

(* The token around a cursor. *)
LEMMA TokenIs ==
  ASSUME NEW S, NEW line \in Seq(S), line # <<>>, NEW at \in 0..Len(line),
         NEW index, index = IndexAt(line, at), NEW token, token = TokenAt(line, at)
  PROVE  /\ index \in 0..Len(line)-1 /\ index <= at
         /\ token.start \in 0..index /\ token.end \in index+1..Len(line)
         /\ token.start = RunStart(line, index, IdentifierPart)
         /\ token.end = RunEnd(line, index + 1, IdentifierPart)
         /\ at < Len(line) /\ line[at + 1] \in IdentifierPart => index = at
         /\ at > 0 /\ line[at] \in IdentifierPart /\ (at < Len(line) => line[at + 1] \notin IdentifierPart)
              => index = at - 1
         /\ at # index /\ line[index + 1] \in IdentifierPart /\ at <= token.end => index = at - 1
<1>1. Len(line) \in Nat \ {0} /\ at \in Nat
  OBVIOUS
<1>2. PICK m \in 0..Len(line)-1 : m = Min({at, Len(line) - 1}) /\ m = IF at < Len(line) THEN at ELSE at - 1
  BY <1>1, MinOfTwo
<1>3. index = IF line[m + 1] \notin IdentifierPart /\ m > 0 /\ line[m] \in IdentifierPart THEN m - 1 ELSE m
  BY <1>2 DEF IndexAt
<1>4. index \in 0..Len(line)-1 /\ index + 1 \in 0..Len(line) /\ index <= at
  BY <1>1, <1>2, <1>3
<1>5. /\ token.start = RunStart(line, index, IdentifierPart)
      /\ token.end = RunEnd(line, index + 1, IdentifierPart)
  BY DEF TokenAt
<1>6. token.start \in 0..index
  BY <1>4, <1>5, RunStartIs
<1>7. token.end \in index+1..Len(line)
  BY <1>1, <1>4, <1>5, RunEndIs
<1>8. at < Len(line) /\ line[at + 1] \in IdentifierPart => index = at
  BY <1>1, <1>2, <1>3
<1>9. at > 0 /\ line[at] \in IdentifierPart /\ (at < Len(line) => line[at + 1] \notin IdentifierPart)
        => index = at - 1
  BY <1>1, <1>2, <1>3
<1>10. ASSUME at # index, line[index + 1] \in IdentifierPart, at <= token.end PROVE index = at - 1
  <2>1. CASE index = m
    BY <1>1, <1>2, <1>10, <2>1
  <2>2. CASE index # m
    <3>1. index = m - 1 /\ line[m + 1] \notin IdentifierPart /\ m > 0
      BY <1>3, <2>2
    <3>2. RunEnd(line, m, IdentifierPart) = m
      <4>1. m \in 0..Len(line) /\ m \in m..Len(line) /\ \A i \in m+1..m : line[i] \in IdentifierPart
        BY <1>1
      <4>2. QED BY <1>1, <3>1, <4>1, RunEndIf
    <3>3. QED BY <1>1, <1>2, <1>5, <1>10, <3>1, <3>2
  <2>3. QED BY <2>1, <2>2
<1>11. QED BY <1>4, <1>5, <1>6, <1>7, <1>8, <1>9, <1>10

(* Completion and hover mean the same receiver at any place of any line. *)
OneReceiverAt(line, at) ==
  LET target == CompletionTargetAtPosition(line, at)
      access == MemberAccessAtPosition(line, at)
      word == WordAtPosition(line, at)
  IN /\ target.receiver # <<>> /\ target.prefix # <<>> /\ access.focus # "receiver"
          => access = [receiver |-> target.receiver, member |-> target.prefix, focus |-> "member"]
     /\ access.focus = "member" /\ word # <<>> /\ at <= TokenAt(line, at).end
          => target = [receiver |-> access.receiver, prefix |-> word]
     /\ access.focus = "receiver" /\ word # <<>> => access.receiver = word

(* The word left and right of a cursor is the token, if it is not empty or *)
(* the token is a word that reaches to the cursor.                         *)
LEMMA WordIsToken ==
  ASSUME NEW S, NEW line \in Seq(S), line # <<>>, NEW at \in 0..Len(line),
         NEW token, token = TokenAt(line, at), NEW start, start = RunStart(line, at, IdentifierPart),
         NEW end, end = RunEnd(line, at, IdentifierPart),
         \/ start < end
         \/ line[IndexAt(line, at) + 1] \in IdentifierPart /\ at <= token.end
  PROVE  token.start = start /\ token.end = end
<1> DEFINE index == IndexAt(line, at)
<1>1. Len(line) \in Nat \ {0} /\ at \in Nat
  OBVIOUS
<1>2. /\ start \in 0..at /\ (\A i \in start+1..at : line[i] \in IdentifierPart)
      /\ start = 0 \/ line[start] \notin IdentifierPart
  BY <1>1, RunStartIs
<1>3. /\ end \in at..Len(line) /\ (\A i \in at+1..end : line[i] \in IdentifierPart)
      /\ end = Len(line) \/ line[end + 1] \notin IdentifierPart
  BY <1>1, RunEndIs
<1>4. /\ index \in 0..Len(line)-1 /\ index <= at
      /\ token.start = RunStart(line, index, IdentifierPart)
      /\ token.end = RunEnd(line, index + 1, IdentifierPart)
      /\ at < Len(line) /\ line[at + 1] \in IdentifierPart => index = at
      /\ at > 0 /\ line[at] \in IdentifierPart /\ (at < Len(line) => line[at + 1] \notin IdentifierPart)
           => index = at - 1
      /\ at # index /\ line[index + 1] \in IdentifierPart /\ at <= token.end => index = at - 1
  BY TokenIs
<1> HIDE DEF index
<1>5. (index = at \/ index = at - 1) /\ line[index + 1] \in IdentifierPart
  <2>1. CASE start < end
    <3>1. CASE at < end
      <4>1. at + 1 \in at+1..end /\ at < Len(line)
        BY <1>1, <1>3, <3>1
      <4>2. QED BY <1>3, <1>4, <4>1
    <3>2. CASE at = end
      <4>1. at \in start+1..at /\ at > 0
        BY <1>1, <1>2, <2>1, <3>2
      <4>2. QED BY <1>1, <1>2, <1>3, <1>4, <3>2, <4>1
    <3>3. QED BY <1>3, <3>1, <3>2
  <2>2. CASE line[index + 1] \in IdentifierPart /\ at <= token.end
    BY <1>4, <2>2
  <2>3. QED BY <2>1, <2>2 DEF index
<1>6. RunStart(line, index, IdentifierPart) = start
  <2>1. CASE index = at
    BY <2>1
  <2>2. CASE index = at - 1
    <3>1. line[at] \in IdentifierPart /\ start <= at - 1
      BY <1>1, <1>2, <1>4, <1>5, <2>2
    <3>2. index \in Nat /\ start \in 0..index /\ \A i \in start+1..index : line[i] \in IdentifierPart
      BY <1>2, <1>4, <2>2, <3>1
    <3>3. QED BY <1>2, <3>2, RunStartIf
  <2>3. QED BY <1>5, <2>1, <2>2
<1>7. RunEnd(line, index + 1, IdentifierPart) = end
  <2>1. CASE index = at
    <3>1. at < Len(line) /\ line[at + 1] \in IdentifierPart
      BY <1>4, <1>5, <2>1
    <3>2. end # at
      BY <1>3, <3>1
    <3>3. /\ index + 1 \in 0..Len(line) /\ end \in index+1..Len(line)
          /\ \A i \in index+1+1..end : line[i] \in IdentifierPart
      BY <1>1, <1>3, <2>1, <3>1, <3>2
    <3>4. QED BY <1>1, <1>3, <3>3, RunEndIf
  <2>2. CASE index = at - 1
    <3>1. index + 1 = at
      BY <1>1, <2>2
    <3>2. QED BY <3>1
  <2>3. QED BY <1>5, <2>1, <2>2
<1>8. QED BY <1>4, <1>6, <1>7

LEMMA OneReceiverHolds ==
  ASSUME NEW S, NEW line \in Seq(S), NEW at \in 0..Len(line)
  PROVE  OneReceiverAt(line, at)
<1> DEFINE start == RunStart(line, at, IdentifierPart)
           end == RunEnd(line, at, IdentifierPart)
           prefix == Slice(line, start, end)
           Receiver(dot) == Slice(line, RunStart(line, dot, IdentifierPart), dot)
           dotted == start > 0 /\ line[start] = "." /\ Receiver(start - 1) # <<>>
           target == CompletionTargetAtPosition(line, at)
           access == MemberAccessAtPosition(line, at)
           word == WordAtPosition(line, at)
           token == TokenAt(line, at)
           member == Slice(line, token.end + 1, RunEnd(line, token.end + 1, IdentifierPart))
           ahead == token.end < Len(line) /\ line[token.end + 1] = "." /\ member # <<>>
<1>1. target = IF dotted THEN [receiver |-> Receiver(start - 1), prefix |-> prefix]
               ELSE IF at < Len(line) /\ line[at + 1] = "." /\ Receiver(at) # <<>>
               THEN [receiver |-> Receiver(at), prefix |-> <<>>]
               ELSE [receiver |-> <<>>, prefix |-> prefix]
  BY Zenon DEF CompletionTargetAtPosition
<1>2. Len(line) \in Nat /\ at \in Nat /\ (line = <<>> <=> Len(line) = 0)
  OBVIOUS
<1>3. start \in 0..at /\ end \in at..Len(line)
  BY <1>2, RunStartIs, RunEndIs
<1>4. prefix # <<>> => start < end
  <2>1. start \in 0..Len(line) /\ end \in 0..Len(line)
    BY <1>2, <1>3
  <2> HIDE DEF start, end
  <2>2. QED BY <2>1, SliceParts
<1>5. ASSUME line # <<>>
      PROVE  access = IF ahead
                      THEN [receiver |-> Slice(line, token.start, token.end), member |-> member, focus |-> "receiver"]
                      ELSE IF token.start > 0 /\ line[token.start] = "." /\ Receiver(token.start - 1) # <<>>
                      THEN [receiver |-> Receiver(token.start - 1), member |-> Slice(line, token.start, token.end),
                            focus |-> "member"]
                      ELSE NoAccess
  BY <1>5 DEF MemberAccessAtPosition
<1>6. line = <<>> => access = NoAccess /\ word = <<>>
  BY Zenon DEF MemberAccessAtPosition, WordAtPosition
<1>7. line # <<>> /\ word # <<>> =>
        /\ word = Slice(line, token.start, token.end)
        /\ line[IndexAt(line, at) + 1] \in IdentifierPart
  BY Zenon DEF WordAtPosition
<1>8. /\ start < end \/ (line[IndexAt(line, at) + 1] \in IdentifierPart /\ at <= token.end)
      /\ line # <<>>
      => token.start = start /\ token.end = end
  BY WordIsToken
<1> HIDE DEF target, access, word, token, start, end, prefix, Receiver, member
<1>9. ASSUME target.receiver # <<>>, target.prefix # <<>>, access.focus # "receiver"
      PROVE  access = [receiver |-> target.receiver, member |-> target.prefix, focus |-> "member"]
  <2>1. dotted /\ target = [receiver |-> Receiver(start - 1), prefix |-> prefix]
    BY <1>1, <1>9
  <2>2. start < end /\ line # <<>>
    BY <1>2, <1>3, <1>4, <1>9, <2>1
  <2>3. token.start = start /\ token.end = end
    BY <1>8, <2>2
  <2>4. ~ahead
    BY <1>5, <1>9, <2>2
  <2>5. access = [receiver |-> Receiver(start - 1), member |-> Slice(line, start, end), focus |-> "member"]
    BY <1>5, <2>1, <2>2, <2>3, <2>4
  <2>6. QED BY <2>1, <2>5 DEF prefix
<1>10. ASSUME access.focus = "member", word # <<>>, at <= token.end
       PROVE  target = [receiver |-> access.receiver, prefix |-> word]
  <2>1. line # <<>>
    BY <1>6, <1>10
  <2>2. word = Slice(line, token.start, token.end) /\ token.start = start /\ token.end = end
    BY <1>7, <1>8, <1>10, <2>1
  <2>3. /\ access.receiver = Receiver(start - 1)
        /\ start > 0 /\ line[start] = "." /\ Receiver(start - 1) # <<>>
    BY <1>5, <1>10, <2>1, <2>2 DEF NoAccess
  <2>4. QED BY <1>1, <2>2, <2>3 DEF prefix
<1>11. ASSUME access.focus = "receiver", word # <<>> PROVE access.receiver = word
  <2>1. line # <<>>
    BY <1>6, <1>11
  <2>2. QED BY <1>5, <1>7, <1>11, <2>1 DEF NoAccess
<1>12. QED BY <1>9, <1>10, <1>11 DEF OneReceiverAt, target, access, word, token
------------------------------------------------------------------------------
(* Newlines and lines. *)
LEMMA NewlinesAre ==
  ASSUME NEW t, NEW from \in Nat, NEW to \in Nat
  PROVE  /\ IsFiniteSet({i \in from+1..to : t[i] = Newline})
         /\ NewlinesIn(t, from, to) \in Nat
         /\ NewlinesIn(t, from, to) = 0 <=> \A i \in from+1..to : t[i] # Newline
<1> DEFINE N == {i \in from+1..to : t[i] = Newline}
<1>1. IsFiniteSet(from+1..to)
  BY FS_Interval
<1>2. IsFiniteSet(N)
  BY <1>1, FS_Subset
<1>3. Cardinality(N) \in Nat /\ (Cardinality(N) = 0 <=> N = {})
  BY <1>2, FS_CardinalityType, FS_EmptySet
<1>4. N = {} <=> \A i \in from+1..to : t[i] # Newline
  OBVIOUS
<1> HIDE DEF N
<1>5. QED BY <1>2, <1>3, <1>4 DEF NewlinesIn, N

LEMMA NewlinesSplit ==
  ASSUME NEW t, NEW from \in Nat, NEW to \in Nat, NEW between \in from..to
  PROVE  NewlinesIn(t, from, to) = NewlinesIn(t, from, between) + NewlinesIn(t, between, to)
<1> DEFINE N(a, b) == {i \in a+1..b : t[i] = Newline}
<1>1. N(from, to) = N(from, between) \union N(between, to)
  OBVIOUS
<1>2. N(from, between) \intersect N(between, to) = {}
  OBVIOUS
<1>3. between \in Nat
  OBVIOUS
<1>4. IsFiniteSet(N(from, between)) /\ IsFiniteSet(N(between, to))
  BY <1>3, NewlinesAre
<1>5. Cardinality(N(from, to)) = Cardinality(N(from, between)) + Cardinality(N(between, to))
  <2>1. PICK A, B : A = N(from, between) /\ B = N(between, to)
    OBVIOUS
  <2>2. IsFiniteSet(A) /\ IsFiniteSet(B) /\ A \intersect B = {} /\ N(from, to) = A \union B
    BY <1>1, <1>2, <1>4, <2>1
  <2> HIDE DEF N
  <2>3. Cardinality(A \union B) = Cardinality(A) + Cardinality(B) - Cardinality(A \intersect B)
    BY <2>2, FS_Union
  <2>4. Cardinality(A \intersect B) = 0
    BY <2>2, FS_EmptySet
  <2>5. Cardinality(A) \in Nat /\ Cardinality(B) \in Nat
    BY <2>2, FS_CardinalityType
  <2>6. Cardinality(A \union B) = Cardinality(A) + Cardinality(B)
    BY <2>3, <2>4, <2>5
  <2>7. QED BY <2>1, <2>2, <2>6
<1>6. QED BY <1>5 DEF NewlinesIn

LEMMA NewlinesStep ==
  ASSUME NEW t, NEW from \in Nat, NEW to \in Nat, from <= to
  PROVE  NewlinesIn(t, from, to + 1) = NewlinesIn(t, from, to) + (IF t[to + 1] = Newline THEN 1 ELSE 0)
<1>1. NewlinesIn(t, from, to + 1) = NewlinesIn(t, from, to) + NewlinesIn(t, to, to + 1)
  BY NewlinesSplit
<1>2. CASE t[to + 1] = Newline
  <2>1. {i \in to+1..to+1 : t[i] = Newline} = {to + 1}
    BY <1>2
  <2>2. NewlinesIn(t, to, to + 1) = 1
    BY <2>1, FS_Singleton DEF NewlinesIn
  <2>3. QED BY <1>1, <1>2, <2>2
<1>3. CASE t[to + 1] # Newline
  <2>1. \A i \in to+1..to+1 : t[i] # Newline
    BY <1>3
  <2>2. to + 1 \in Nat
    OBVIOUS
  <2>3. NewlinesIn(t, to, to + 1) = 0
    BY <2>1, <2>2, NewlinesAre
  <2>4. QED BY <1>1, <1>3, <2>3, NewlinesAre
<1>4. QED BY <1>2, <1>3

(* The line of an offset, and the way back from its position.              *)
LEMMA PositionIs ==
  ASSUME NEW S, NEW t \in Seq(S), NEW offset \in 0..Len(t), NEW pos, pos = PositionOf(t, offset)
  PROVE  /\ Line(t, pos.line) \in Seq(S)
         /\ pos.character \in 0..Len(Line(t, pos.line))
         /\ OffsetForPosition(t, pos) = offset
<1> DEFINE l == NewlinesIn(t, 0, offset)
           Starts == {s \in 0..Len(t) : NewlinesIn(t, 0, s) = l}
           from == LineStart(t, l)
           end == RunEnd(t, from, ToSet(t) \ {Newline})
<1>1. offset \in Starts /\ Starts \subseteq Nat
  OBVIOUS
<1>2. from \in Starts /\ from <= offset
  <2>1. from = Min(Starts)
    BY DEF LineStart
  <2> HIDE DEF Starts, from
  <2>2. QED BY <1>1, <2>1, MinOf
<1>3. from \in 0..Len(t) /\ from \in 0..offset /\ NewlinesIn(t, 0, from) = l
  BY <1>2
<1>4. pos.line = l /\ pos.character = offset - from
  BY DEF PositionOf
<1>5. \A i \in from+1..offset : t[i] # Newline
  <2>1. NewlinesIn(t, 0, offset) = NewlinesIn(t, 0, from) + NewlinesIn(t, from, offset)
    BY <1>3, NewlinesSplit
  <2>2. NewlinesIn(t, 0, from) \in Nat /\ NewlinesIn(t, from, offset) \in Nat
    <3>1. from \in Nat /\ offset \in Nat
      BY <1>3
    <3>2. QED BY <3>1, NewlinesAre
  <2>3. NewlinesIn(t, from, offset) = 0
    BY <1>3, <2>1, <2>2
  <2>4. from \in Nat /\ offset \in Nat
    BY <1>3
  <2>5. QED BY <2>3, <2>4, NewlinesAre
<1> HIDE DEF from
<1>6. /\ end \in from..Len(t)
      /\ end = Len(t) \/ t[end + 1] \notin ToSet(t) \ {Newline}
  BY <1>3, RunEndIs
<1> HIDE DEF end
<1>7. end >= offset
  <2>1. SUFFICES ASSUME end < offset PROVE FALSE
    BY <1>3, <1>6
  <2>2. end + 1 \in from+1..offset /\ end + 1 \in 1..Len(t)
    BY <1>3, <1>6, <2>1
  <2>3. t[end + 1] \in ToSet(t)
    BY <2>2 DEF ToSet
  <2>4. QED BY <1>3, <1>5, <1>6, <2>1, <2>2, <2>3
<1>8. Line(t, l) = Slice(t, from, end)
  BY Zenon DEF Line, from, end
<1>9. end \in 0..Len(t)
  BY <1>3, <1>6
<1>10. Line(t, l) \in Seq(S) /\ Len(Line(t, l)) = end - from
  BY <1>3, <1>6, <1>8, <1>9, SliceParts
<1>11. OffsetForPosition(t, pos) = from + Min({offset - from, end - from})
  BY <1>4, <1>10 DEF OffsetForPosition, from
<1>12. Min({offset - from, end - from}) = offset - from
  BY <1>3, <1>7, <1>9, MinOfTwo
<1>13. OffsetForPosition(t, pos) = offset
  BY <1>3, <1>11, <1>12
<1>14. pos.character \in 0..Len(Line(t, pos.line))
  BY <1>3, <1>4, <1>7, <1>9, <1>10
<1>15. QED BY <1>4, <1>10, <1>13, <1>14
------------------------------------------------------------------------------
(* The parenthesis that is open at an offset, as a relation: o is open at  *)
(* offset if some depths, 0 at the offset, lead back to it by the          *)
(* characters between, 0 again; o = -1 if they lead back to the beginning. *)
Depths(t, d, from, offset) ==
  /\ \A i \in from..offset : d[i] \in Nat
  /\ d[offset] = 0
  /\ \A i \in from..offset-1 :
       CASE t[i + 1] = ")" -> d[i] = d[i + 1] + 1
         [] t[i + 1] = "(" -> d[i + 1] = d[i] + 1
         [] OTHER -> d[i] = d[i + 1]

Open(t, d, offset, o) ==
  IF o = -1 THEN Depths(t, d, 0, offset)
  ELSE /\ o \in 0..offset-1 /\ t[o + 1] = "("
       /\ Depths(t, d, o + 1, offset) /\ d[o + 1] = 0

(* There is one at most. *)
LEMMA OpenOnce ==
  ASSUME NEW t, NEW offset \in Nat, NEW o, NEW d, Open(t, d, offset, o),
         NEW q, NEW e, Open(t, e, offset, q)
  PROVE  ~(o < q)
<1> SUFFICES ASSUME o < q PROVE FALSE
  OBVIOUS
<1>1. o \in -1..offset-1 /\ q \in 0..offset-1 /\ o + 1 \in 0..q
  BY DEF Open
<1>2. Depths(t, d, o + 1, offset) /\ Depths(t, e, q + 1, offset) /\ e[q + 1] = 0 /\ t[q + 1] = "("
  BY <1>1 DEF Open
<1> DEFINE T == {k \in 0..offset-q-1 : d[offset - k] = e[offset - k]}
<1>3. 0 \in T
  BY <1>1, <1>2 DEF Depths
<1>4. ASSUME NEW k \in 0..(offset-q-1 - 1), k \in T PROVE k + 1 \in T
  <2> DEFINE i == offset - k - 1
  <2>1. i \in o+1..offset-1 /\ i \in q+1..offset-1 /\ offset - k = i + 1 /\ offset - (k + 1) = i
    BY <1>1
  <2>2. d[offset - k] = e[offset - k]
    BY <1>4
  <2>3. i \in o+1..offset /\ i + 1 \in o+1..offset /\ i \in q+1..offset
    BY <1>1, <2>1
  <2> HIDE DEF i, T
  <2>4. d[i + 1] = e[i + 1] /\ d[i] \in Nat /\ e[i] \in Nat /\ d[i + 1] \in Nat
    BY <1>2, <2>1, <2>2, <2>3 DEF Depths
  <2>5. d[i] = e[i]
    <3>1. CASE t[i + 1] = ")"
      BY <1>2, <2>1, <2>4, <3>1 DEF Depths
    <3>2. CASE t[i + 1] = "("
      BY <1>2, <2>1, <2>4, <3>2 DEF Depths
    <3>3. CASE t[i + 1] \notin {"(", ")"}
      BY <1>2, <2>1, <2>4, <3>3 DEF Depths
    <3>4. QED BY <3>1, <3>2, <3>3
  <2>6. k + 1 \in 0..offset-q-1
    BY <1>1
  <2>7. QED BY <2>1, <2>5, <2>6 DEF T
<1>5. \A k \in 0..(offset-q-1 - 1) : k \in T => k + 1 \in T
  BY <1>4
<1>6. offset - q - 1 \in Nat
  BY <1>1
<1> HIDE DEF T
<1>7. offset - q - 1 \in T
  BY <1>3, <1>5, <1>6, UpToBound
<1>8. d[q + 1] = 0
  BY <1>1, <1>2, <1>7 DEF T
<1>9. q \in o+1..offset-1 /\ d[q + 1] = d[q] + 1 /\ d[q] \in Nat
  BY <1>1, <1>2 DEF Depths
<1>10. QED BY <1>8, <1>9

(* The search finds it. *)
LEMMA OpenParenthesisRuns ==
  ASSUME NEW t, NEW offset \in Nat
  PROVE  \E g : /\ g[0] = [depth |-> 0, open |-> -1]
                /\ \A k \in 1..offset : g[k] = Back(g[k - 1], t[offset + 1 - k], offset + 1 - k)
                /\ \A k \in 0..offset : g[k] \in [depth : Nat, open : Int]
                /\ OpenParenthesis(t, offset) = g[offset].open
<1> DEFINE S == [depth : Nat, open : Int]
           a == [depth |-> 0, open |-> -1]
           F == [k \in 1..offset |-> [s \in S |-> Back(s, t[offset + 1 - k], offset + 1 - k)]]
           IsRun(h) == h = [k \in 0..offset |->
                              IF k = 0 THEN a ELSE Back(h[k - 1], t[offset + 1 - k], offset + 1 - k)]
           g == CHOOSE h : IsRun(h)
<1>1. a \in S
  OBVIOUS
<1>2. ASSUME NEW s \in S, NEW c, NEW i \in Int PROVE Back(s, c, i) \in S
  BY DEF Back
<1>3. \A k \in 1..offset : \A s \in S : F[k][s] \in S
  BY <1>2
<1>4. PICK h : Run(h, S, F, a, offset)
  <2> HIDE DEF S, F, a
  <2>1. QED BY <1>1, <1>3, RunExists
<1>5. \A k \in 0..offset : h[k] \in S /\ h[k] = IF k = 0 THEN a ELSE F[k][h[k - 1]]
  BY <1>4, Zenon DEF Run
<1>6. h = [k \in 0..offset |-> h[k]]
  BY <1>4 DEF Run
<1>7. ASSUME NEW k \in 0..offset
      PROVE  h[k] = IF k = 0 THEN a ELSE Back(h[k - 1], t[offset + 1 - k], offset + 1 - k)
  <2>1. k # 0 => k \in 1..offset /\ k - 1 \in 0..offset
    OBVIOUS
  <2> HIDE DEF S, a
  <2>3. k # 0 => h[k - 1] \in S
    BY <1>5, <2>1
  <2>2. QED BY <1>5, <2>1, <2>3
<1>8. IsRun(h)
  <2> HIDE DEF S, a, F
  <2>1. QED BY <1>6, <1>7
<1>9. IsRun(g)
  BY <1>8, Zenon
<1>10. OpenParenthesis(t, offset) = g[offset].open
  BY Zenon DEF OpenParenthesis
<1>11. g[0] = a /\ \A k \in 1..offset : g[k] = Back(g[k - 1], t[offset + 1 - k], offset + 1 - k)
  <2> HIDE DEF g, a
  <2>1. QED BY <1>9
<1> DEFINE T == {k \in 0..offset : g[k] \in S}
<1>12. 0 \in T
  BY <1>1, <1>11
<1>13. \A k \in 0..(offset - 1) : k \in T => k + 1 \in T
  <2> SUFFICES ASSUME NEW k \in 0..(offset - 1), k \in T PROVE k + 1 \in T
    OBVIOUS
  <2>1. k + 1 \in 1..offset /\ k + 1 - 1 = k /\ g[k] \in S /\ offset + 1 - (k + 1) \in Int
    OBVIOUS
  <2> HIDE DEF g, S, a
  <2>2. g[k + 1] = Back(g[k], t[offset + 1 - (k + 1)], offset + 1 - (k + 1))
    BY <1>11, <2>1
  <2>3. g[k + 1] \in S
    BY <1>2, <2>1, <2>2
  <2>4. QED BY <2>1, <2>3
<1> HIDE DEF T
<1>14. \A k \in 0..offset : k \in T
  BY <1>12, <1>13, UpToBound
<1> HIDE DEF g
<1>15. \A k \in 0..offset : g[k] \in S
  BY <1>14 DEF T
<1>16. QED BY <1>10, <1>11, <1>15

LEMMA OpenParenthesisIs ==
  ASSUME NEW t, NEW offset \in Nat, NEW o, o = OpenParenthesis(t, offset)
  PROVE  /\ o \in -1..offset-1
         /\ \E d : Open(t, d, offset, o)
         /\ \A q, e : Open(t, e, offset, q) => q = o
<1>1. PICK g : /\ g[0] = [depth |-> 0, open |-> -1]
               /\ \A k \in 1..offset : g[k] = Back(g[k - 1], t[offset + 1 - k], offset + 1 - k)
               /\ \A k \in 0..offset : g[k] \in [depth : Nat, open : Int]
               /\ o = g[offset].open
  BY OpenParenthesisRuns
<1> DEFINE Searching(k, d) == g[k].open = -1 /\ Depths(t, d, offset - k, offset) /\ d[offset - k] = g[k].depth
           Found(k, d) == g[k].open # -1 /\ Open(t, d, offset, g[k].open)
           T == {k \in 0..offset : \E d : Searching(k, d) \/ Found(k, d)}
<1>2. 0 \in T
  <2>1. Searching(0, [i \in {offset} |-> 0])
    BY <1>1 DEF Depths
  <2> HIDE DEF Searching, Found
  <2>2. QED BY <2>1
<1>3. ASSUME NEW k \in 0..(offset - 1), k \in T PROVE k + 1 \in T
  <2>1. PICK d : Searching(k, d) \/ Found(k, d)
    BY <1>3
  <2> DEFINE i == offset - k
  <2>2. /\ i \in 1..offset /\ offset - (k + 1) = i - 1 /\ k + 1 \in 0..offset
        /\ g[k + 1] = Back(g[k], t[i], i) /\ g[k] \in [depth : Nat, open : Int]
    <3>1. /\ k + 1 \in 1..offset /\ k + 1 - 1 = k /\ offset + 1 - (k + 1) = i /\ k \in 0..offset
          /\ i \in 1..offset /\ offset - (k + 1) = i - 1 /\ k + 1 \in 0..offset
      OBVIOUS
    <3> HIDE DEF i, T
    <3>2. g[k + 1] = Back(g[k + 1 - 1], t[offset + 1 - (k + 1)], offset + 1 - (k + 1))
      BY <1>1, <3>1
    <3>3. QED BY <1>1, <3>1, <3>2
  <2> HIDE DEF T
  <2>3. CASE Found(k, d)
    <3>1. g[k].open >= 0
      BY <2>3 DEF Open
    <3>2. g[k + 1] = g[k]
      BY <2>2, <3>1 DEF Back
    <3>3. Found(k + 1, d)
      BY <2>3, <3>2
    <3> HIDE DEF Searching, Found
    <3>4. QED BY <2>2, <3>3 DEF T
  <2>4. CASE Searching(k, d)
    <3>1. g[k].open = -1 /\ Depths(t, d, i, offset) /\ d[i] = g[k].depth /\ d[i] \in Nat
      BY <2>2, <2>4
    <3> DEFINE e(n) == [j \in Nat |-> IF j = i - 1 THEN n ELSE d[j]]
    <3> HIDE DEF i
    <3>2. ASSUME NEW n \in Nat, CASE t[i] = ")" -> n = d[i] + 1 [] t[i] = "(" -> d[i] = n + 1 [] OTHER -> n = d[i]
          PROVE  Depths(t, e(n), i - 1, offset)
      <4>1. \A j \in i..offset : e(n)[j] = d[j] /\ j \in i-1..offset
        BY <2>2
      <4>2. e(n)[i - 1] = n
        BY <2>2
      <4> HIDE DEF e
      <4>3. \A j \in i-1..offset : e(n)[j] \in Nat
        <5>1. \A j \in i-1..offset : j = i - 1 \/ j \in i..offset
          BY <2>2
        <5>2. QED BY <3>1, <3>2, <4>1, <4>2, <5>1 DEF Depths
      <4>4. e(n)[offset] = 0
        BY <2>2, <3>1, <4>1 DEF Depths
      <4>5. ASSUME NEW j \in i-1..offset-1
            PROVE  CASE t[j + 1] = ")" -> e(n)[j] = e(n)[j + 1] + 1
                     [] t[j + 1] = "(" -> e(n)[j + 1] = e(n)[j] + 1
                     [] OTHER -> e(n)[j] = e(n)[j + 1]
        <5>1. CASE j = i - 1
          <6>1. j + 1 = i /\ e(n)[j] = n /\ e(n)[j + 1] = d[i]
            BY <2>2, <4>1, <4>2, <5>1
          <6>2. QED BY <3>2, <6>1
        <5>2. CASE j \in i..offset-1
          <6>1. j \in i..offset /\ j + 1 \in i..offset
            BY <2>2, <5>2
          <6>2. e(n)[j] = d[j] /\ e(n)[j + 1] = d[j + 1]
            BY <4>1, <6>1
          <6>3. QED BY <3>1, <5>2, <6>2 DEF Depths
        <5>3. QED BY <2>2, <5>1, <5>2
      <4>6. QED BY <4>3, <4>4, <4>5 DEF Depths
    <3>3. ASSUME NEW n \in Nat, g[k + 1] = [depth |-> n, open |-> -1],
                 CASE t[i] = ")" -> n = d[i] + 1 [] t[i] = "(" -> d[i] = n + 1 [] OTHER -> n = d[i]
          PROVE  k + 1 \in T
      <4>1. Depths(t, e(n), i - 1, offset) /\ e(n)[i - 1] = n
        BY <2>2, <3>2, <3>3
      <4> HIDE DEF e
      <4>2. Searching(k + 1, e(n))
        BY <2>2, <3>3, <4>1
      <4> HIDE DEF Searching, Found
      <4>3. QED BY <2>2, <4>2 DEF T
    <3> HIDE DEF e
    <3>4. CASE t[i] = ")"
      <4>1. g[k + 1] = [depth |-> d[i] + 1, open |-> -1] /\ d[i] + 1 \in Nat
        BY <2>2, <3>1, <3>4 DEF Back
      <4>2. QED BY <3>3, <3>4, <4>1
    <3>5. CASE t[i] = "(" /\ d[i] # 0
      <4>1. g[k + 1] = [depth |-> d[i] - 1, open |-> -1] /\ d[i] - 1 \in Nat /\ d[i] = d[i] - 1 + 1
        BY <2>2, <3>1, <3>5 DEF Back
      <4>2. QED BY <3>3, <3>5, <4>1
    <3>6. CASE t[i] = "(" /\ d[i] = 0
      <4>1. g[k + 1].open = i - 1
        BY <2>2, <3>1, <3>6 DEF Back
      <4>2. i - 1 \in 0..offset-1 /\ i - 1 + 1 = i
        BY <2>2
      <4>3. Open(t, d, offset, i - 1)
        BY <3>1, <3>6, <4>2 DEF Open
      <4>4. Found(k + 1, d)
        BY <4>1, <4>2, <4>3
      <4> HIDE DEF Searching, Found
      <4>5. QED BY <2>2, <4>4 DEF T
    <3>7. CASE t[i] \notin {"(", ")"}
      <4>1. g[k + 1] = [depth |-> d[i], open |-> -1]
        BY <2>2, <3>1, <3>7 DEF Back
      <4>2. QED BY <3>1, <3>3, <3>7, <4>1
    <3>8. QED BY <3>4, <3>5, <3>6, <3>7
  <2>5. QED BY <2>1, <2>3, <2>4
<1>4. \A k \in 0..(offset - 1) : k \in T => k + 1 \in T
  BY <1>3
<1>5. offset \in T
  <2> HIDE DEF T
  <2>1. QED BY <1>2, <1>4, UpToBound
<1>6. PICK d : Searching(offset, d) \/ Found(offset, d)
  BY <1>5
<1>7. Open(t, d, offset, o)
  BY <1>1, <1>6 DEF Open
<1>8. o \in -1..offset-1
  BY <1>7 DEF Open
<1>9. ASSUME NEW q, NEW e, Open(t, e, offset, q) PROVE q = o
  <2>1. ~(q < o) /\ ~(o < q)
    BY <1>7, <1>9, OpenOnce
  <2>2. q \in Int
    BY <1>9 DEF Open
  <2>3. QED BY <1>8, <2>1, <2>2
<1>10. QED BY <1>7, <1>8, <1>9

(* A character more: "(" is open behind itself, ")" leads back to what is  *)
(* open in front of the one it closes, any other character changes nothing.*)
LEMMA OpenParenthesisStep ==
  ASSUME NEW t, NEW offset \in Nat, NEW o, o = OpenParenthesis(t, offset), NEW c, c = t[offset + 1]
  PROVE  OpenParenthesis(t, offset + 1) = IF c = "(" THEN offset
                                          ELSE IF c # ")" THEN o
                                          ELSE IF o = -1 THEN -1 ELSE OpenParenthesis(t, o)
<1>1. o \in -1..offset-1 /\ offset + 1 \in Nat
  BY OpenParenthesisIs
<1>2. PICK d : Open(t, d, offset, o)
  BY OpenParenthesisIs
<1>3. ASSUME NEW q, NEW e, Open(t, e, offset + 1, q) PROVE OpenParenthesis(t, offset + 1) = q
  BY <1>1, <1>3, OpenParenthesisIs
<1>4. CASE c = "("
  <2>1. Open(t, [i \in {offset + 1} |-> 0], offset + 1, offset)
    BY <1>4 DEF Open, Depths
  <2>2. QED BY <1>3, <1>4, <2>1
<1>5. CASE c \notin {"(", ")"}
  <2> DEFINE e == [i \in Nat |-> IF i = offset + 1 THEN 0 ELSE d[i]]
  <2>1. \A i \in 0..offset : e[i] = d[i] /\ i # offset + 1
    OBVIOUS
  <2>2. e[offset + 1] = 0
    OBVIOUS
  <2> HIDE DEF e
  <2>3. ASSUME NEW from \in 0..offset, Depths(t, d, from, offset)
        PROVE  Depths(t, e, from, offset + 1)
    <3>1. d[offset] = 0 /\ e[offset] = 0
      BY <2>1, <2>3 DEF Depths
    <3>2. \A i \in from..offset+1 : i \in from..offset \/ i = offset + 1
      OBVIOUS
    <3>3. \A i \in from..offset+1 : e[i] \in Nat
      BY <2>1, <2>2, <2>3, <3>2 DEF Depths
    <3>4. ASSUME NEW i \in from..offset
          PROVE  CASE t[i + 1] = ")" -> e[i] = e[i + 1] + 1
                   [] t[i + 1] = "(" -> e[i + 1] = e[i] + 1
                   [] OTHER -> e[i] = e[i + 1]
      <4>1. CASE i = offset
        BY <1>5, <2>2, <3>1, <4>1
      <4>2. CASE i \in from..offset-1
        <5>1. e[i] = d[i] /\ e[i + 1] = d[i + 1]
          BY <2>1, <4>2
        <5>2. QED BY <2>3, <4>2, <5>1 DEF Depths
      <4>3. QED BY <4>1, <4>2
    <3>5. offset + 1 - 1 = offset
      OBVIOUS
    <3>6. QED BY <2>2, <3>3, <3>4, <3>5 DEF Depths
  <2>4. Open(t, e, offset + 1, o)
    <3>1. CASE o = -1
      BY <1>1, <1>2, <2>3, <3>1 DEF Open
    <3>2. CASE o # -1
      <4>1. o \in 0..offset-1 /\ o + 1 \in 0..offset /\ o \in 0..offset+1-1
        BY <1>1, <3>2
      <4>2. Depths(t, e, o + 1, offset + 1)
        BY <1>2, <2>3, <3>2, <4>1 DEF Open
      <4>3. QED BY <1>2, <2>1, <3>2, <4>1, <4>2 DEF Open
    <3>3. QED BY <3>1, <3>2
  <2>5. QED BY <1>3, <1>5, <2>4
<1>6. CASE c = ")" /\ o = -1
  <2> DEFINE e == [i \in Nat |-> IF i = offset + 1 THEN 0 ELSE d[i] + 1]
  <2>1. Depths(t, d, 0, offset)
    BY <1>2, <1>6 DEF Open
  <2>2. \A i \in 0..offset : e[i] = d[i] + 1 /\ d[i] \in Nat
    BY <2>1 DEF Depths
  <2>3. e[offset + 1] = 0 /\ e[offset] = 1
    <3>1. d[offset] = 0
      BY <2>1 DEF Depths
    <3>2. QED BY <3>1
  <2> HIDE DEF e
  <2>4. \A i \in 0..offset+1 : i \in 0..offset \/ i = offset + 1
    OBVIOUS
  <2>5. \A i \in 0..offset+1 : e[i] \in Nat
    BY <2>2, <2>3, <2>4
  <2>6. ASSUME NEW i \in 0..offset
        PROVE  CASE t[i + 1] = ")" -> e[i] = e[i + 1] + 1
                 [] t[i + 1] = "(" -> e[i + 1] = e[i] + 1
                 [] OTHER -> e[i] = e[i + 1]
    <3>1. CASE i = offset
      <4>1. t[i + 1] = ")"
        BY <1>6, <3>1
      <4>2. e[i] = 1 /\ e[i + 1] = 0
        BY <2>3, <3>1
      <4>3. e[i] = e[i + 1] + 1
        BY <4>2
      <4>4. QED BY <4>1, <4>3
    <3>2. CASE i \in 0..offset-1
      <4>1. e[i] = d[i] + 1 /\ e[i + 1] = d[i + 1] + 1 /\ d[i] \in Nat /\ d[i + 1] \in Nat
        BY <2>2, <3>2
      <4>2. QED BY <2>1, <3>2, <4>1 DEF Depths
    <3>3. QED BY <3>1, <3>2
  <2>7. offset + 1 - 1 = offset
    OBVIOUS
  <2>8. Open(t, e, offset + 1, -1)
    BY <2>3, <2>5, <2>6, <2>7 DEF Open, Depths
  <2>9. QED BY <1>3, <1>6, <2>8
<1>7. CASE c = ")" /\ o # -1
  <2> DEFINE q == OpenParenthesis(t, o)
  <2>1. o \in 0..offset-1 /\ t[o + 1] = "(" /\ Depths(t, d, o + 1, offset) /\ d[o + 1] = 0
    BY <1>2, <1>7 DEF Open
  <2>2. q \in -1..o-1
    BY <2>1, OpenParenthesisIs
  <2>3. PICK b : Open(t, b, o, q)
    BY <2>1, OpenParenthesisIs
  <2> HIDE DEF q
  <2> DEFINE from == q + 1
             e == [i \in Nat |-> IF i = offset + 1 THEN 0 ELSE IF i <= o THEN b[i] ELSE d[i] + 1]
  <2>4. from \in 0..o /\ Depths(t, b, from, o)
    <3>1. from \in 0..o
      BY <2>1, <2>2
    <3>2. Depths(t, b, from, o)
      BY <2>2, <2>3 DEF Open
    <3>3. QED BY <3>1, <3>2
  <2>5. \A i \in from..o : e[i] = b[i] /\ b[i] \in Nat
    BY <2>1, <2>4 DEF Depths
  <2>6. \A i \in o+1..offset : e[i] = d[i] + 1 /\ d[i] \in Nat
    BY <2>1 DEF Depths
  <2>7. e[offset + 1] = 0 /\ e[offset] = 1 /\ e[o] = 0 /\ e[o + 1] = 1
    <3>1. d[offset] = 0 /\ b[o] = 0
      BY <2>1, <2>4 DEF Depths
    <3>2. o \in from..o /\ offset \in o+1..offset /\ o + 1 \in o+1..offset
      BY <2>1, <2>4
    <3>3. e[offset + 1] = 0
      OBVIOUS
    <3> HIDE DEF e
    <3>4. QED BY <2>1, <2>5, <2>6, <3>1, <3>2, <3>3
  <2> HIDE DEF e
  <2>8. \A i \in from..offset+1 : i \in from..o \/ i \in o+1..offset \/ i = offset + 1
    BY <2>1, <2>4
  <2>9. \A i \in from..offset+1 : e[i] \in Nat
    BY <2>5, <2>6, <2>7, <2>8
  <2>10. ASSUME NEW i \in from..offset
         PROVE  CASE t[i + 1] = ")" -> e[i] = e[i + 1] + 1
                  [] t[i + 1] = "(" -> e[i + 1] = e[i] + 1
                  [] OTHER -> e[i] = e[i + 1]
    <3>1. CASE i = offset
      <4>1. t[i + 1] = ")"
        BY <1>7, <3>1
      <4>2. e[i] = 1 /\ e[i + 1] = 0
        BY <2>7, <3>1
      <4>3. e[i] = e[i + 1] + 1
        BY <4>2
      <4>4. QED BY <4>1, <4>3
    <3>2. CASE i = o
      BY <2>1, <2>7, <3>2
    <3>3. CASE i \in from..o-1
      <4>1. i \in from..o /\ i + 1 \in from..o
        BY <2>1, <2>4, <3>3
      <4>2. e[i] = b[i] /\ e[i + 1] = b[i + 1]
        BY <2>5, <4>1
      <4>3. QED BY <2>4, <3>3, <4>2 DEF Depths
    <3>4. CASE i \in o+1..offset-1
      <4>1. i \in o+1..offset /\ i + 1 \in o+1..offset
        BY <2>1, <3>4
      <4>2. e[i] = d[i] + 1 /\ e[i + 1] = d[i + 1] + 1 /\ d[i] \in Nat /\ d[i + 1] \in Nat
        BY <2>6, <4>1
      <4>3. QED BY <2>1, <3>4, <4>2 DEF Depths
    <3>5. QED BY <2>1, <2>4, <3>1, <3>2, <3>3, <3>4
  <2>11. offset + 1 - 1 = offset
    OBVIOUS
  <2>12. Depths(t, e, from, offset + 1)
    BY <2>7, <2>9, <2>10, <2>11 DEF Depths
  <2>13. Open(t, e, offset + 1, q)
    <3>1. CASE q = -1
      BY <2>12, <3>1 DEF Open
    <3>2. CASE q # -1
      <4>1. b[q + 1] = 0 /\ t[q + 1] = "("
        BY <2>3, <3>2 DEF Open
      <4>2. q + 1 \in from..o /\ q \in 0..offset+1-1
        BY <2>1, <2>2, <3>2
      <4>3. QED BY <2>5, <2>12, <3>2, <4>1, <4>2 DEF Open
    <3>3. QED BY <3>1, <3>2
  <2>14. OpenParenthesis(t, offset + 1) = q
    BY <1>3, <2>13
  <2>15. QED BY <1>7, <2>14 DEF q
<1>8. QED BY <1>4, <1>5, <1>6, <1>7

(* What is right of an offset does not matter. *)
LEMMA OpenParenthesisAgrees ==
  ASSUME NEW t, NEW u, NEW offset \in Nat, \A i \in 1..offset : t[i] = u[i]
  PROVE  OpenParenthesis(t, offset) = OpenParenthesis(u, offset)
<1>1. PICK o : o = OpenParenthesis(t, offset)
  OBVIOUS
<1>2. PICK d : Open(t, d, offset, o)
  BY <1>1, OpenParenthesisIs
<1>3. ASSUME NEW from \in Nat, Depths(t, d, from, offset) PROVE Depths(u, d, from, offset)
  <2>1. \A i \in from..offset-1 : t[i + 1] = u[i + 1]
    OBVIOUS
  <2>2. QED BY <1>3, <2>1 DEF Depths
<1>4. Open(u, d, offset, o)
  <2>1. CASE o = -1
    BY <1>2, <1>3, <2>1 DEF Open
  <2>2. CASE o # -1
    <3>1. o \in 0..offset-1 /\ o + 1 \in Nat /\ t[o + 1] = u[o + 1]
      BY <1>2, <2>2 DEF Open
    <3>2. QED BY <1>2, <1>3, <2>2, <3>1 DEF Open
  <2>3. QED BY <2>1, <2>2
<1>5. QED BY <1>1, <1>4, OpenParenthesisIs
------------------------------------------------------------------------------
(* The commas behind a "(", as a relation: s[i] is the state at i.         *)
Commas(t, s, open, offset) ==
  /\ s[open + 1] = [nested |-> 0, active |-> 0]
  /\ \A i \in open+1..offset-1 : s[i + 1] = CountComma(s[i], t[i + 1])
  /\ \A i \in open+1..offset : s[i] \in [nested : Nat, active : Nat]

LEMMA ActiveParameterIs ==
  ASSUME NEW t, NEW open \in Nat, NEW offset \in Nat, open < offset
  PROVE  \E s : Commas(t, s, open, offset) /\ ActiveParameter(t, open, offset) = s[offset].active
<1> DEFINE S == [nested : Nat, active : Nat]
           n == offset - open - 1
           a == [nested |-> 0, active |-> 0]
           F == [k \in 1..n |-> [r \in S |-> CountComma(r, t[open + 1 + k])]]
           IsRun(h) == h = [k \in 0..n |-> IF k = 0 THEN a ELSE CountComma(h[k - 1], t[open + 1 + k])]
           g == CHOOSE h : IsRun(h)
<1>1. a \in S /\ n \in Nat
  OBVIOUS
<1>2. ASSUME NEW r \in S, NEW c PROVE CountComma(r, c) \in S
  <2>1. /\ r.nested \in Nat /\ r.active \in Nat
        /\ (IF r.nested > 0 THEN r.nested - 1 ELSE 0) \in Nat
    OBVIOUS
  <2>2. CASE c = "("
    BY <2>1, <2>2 DEF CountComma
  <2>3. CASE c = ")"
    <3>1. CountComma(r, c) = [r EXCEPT !.nested = IF r.nested > 0 THEN r.nested - 1 ELSE 0]
      BY <2>3 DEF CountComma
    <3>2. QED BY <2>1, <3>1
  <2>4. CASE c \notin {"(", ")"}
    <3>1. CountComma(r, c) = r \/ CountComma(r, c) = [r EXCEPT !.active = r.active + 1]
      BY <2>4 DEF CountComma
    <3>2. QED BY <2>1, <3>1
  <2>5. QED BY <2>2, <2>3, <2>4
<1>3. \A k \in 1..n : \A r \in S : F[k][r] \in S
  BY <1>2
<1>4. ActiveParameter(t, open, offset) = g[n].active
  BY Zenon DEF ActiveParameter
<1> HIDE DEF n, S, a
<1>5. PICK h : Run(h, S, F, a, n)
  <2> HIDE DEF F
  <2>1. QED BY <1>1, <1>3, RunExists
<1>6. \A k \in 0..n : h[k] \in S /\ h[k] = IF k = 0 THEN a ELSE F[k][h[k - 1]]
  BY <1>5, Zenon DEF Run
<1>7. h = [k \in 0..n |-> h[k]]
  BY <1>5 DEF Run
<1>8. ASSUME NEW k \in 0..n
      PROVE  h[k] = IF k = 0 THEN a ELSE CountComma(h[k - 1], t[open + 1 + k])
  <2>1. k # 0 => k \in 1..n /\ k - 1 \in 0..n
    BY <1>1
  <2>2. k # 0 => h[k - 1] \in S
    BY <1>6, <2>1
  <2>3. QED BY <1>6, <2>1, <2>2
<1>9. IsRun(h)
  <2> HIDE DEF F
  <2>1. QED BY <1>7, <1>8
<1>10. IsRun(g)
  BY <1>9, Zenon
<1>11. g[0] = a /\ \A k \in 1..n : g[k] = CountComma(g[k - 1], t[open + 1 + k])
  <2> HIDE DEF g
  <2>1. QED BY <1>1, <1>10
<1> DEFINE T == {k \in 0..n : g[k] \in S}
<1> HIDE DEF g
<1>12. 0 \in T
  BY <1>1, <1>11
<1>13. \A k \in 0..(n - 1) : k \in T => k + 1 \in T
  <2> SUFFICES ASSUME NEW k \in 0..(n - 1), k \in T PROVE k + 1 \in T
    OBVIOUS
  <2>1. k + 1 \in 1..n /\ k + 1 - 1 = k /\ g[k] \in S
    BY <1>1
  <2>2. g[k + 1] = CountComma(g[k], t[open + 1 + (k + 1)])
    BY <1>11, <2>1
  <2>3. QED BY <1>1, <1>2, <2>1, <2>2
<1>14. \A k \in 0..n : g[k] \in S
  <2>1. \A k \in 0..n : k \in T
    <3> HIDE DEF T
    <3>1. QED BY <1>1, <1>12, <1>13, UpToBound
  <2>2. QED BY <2>1
<1> DEFINE s == [i \in open+1..offset |-> g[i - open - 1]]
<1>15. Commas(t, s, open, offset)
  <2>1. s[open + 1] = a
    <3>1. open + 1 \in open+1..offset /\ open + 1 - open - 1 = 0
      OBVIOUS
    <3>2. QED BY <1>11, <3>1
  <2>2. ASSUME NEW i \in open+1..offset-1 PROVE s[i + 1] = CountComma(s[i], t[i + 1])
    <3> DEFINE k == i - open
    <3>1. k \in 1..n /\ open + 1 + k = i + 1 /\ i + 1 - open - 1 = k /\ k - 1 = i - open - 1
      BY DEF n
    <3>2. i \in open+1..offset /\ i + 1 \in open+1..offset
      OBVIOUS
    <3>3. s[i + 1] = g[k] /\ s[i] = g[k - 1]
      BY <3>1, <3>2
    <3> HIDE DEF k, s
    <3>4. QED BY <1>11, <3>1, <3>3
  <2>3. ASSUME NEW i \in open+1..offset PROVE s[i] \in S
    <3>1. i - open - 1 \in 0..n
      BY DEF n
    <3>2. QED BY <1>14, <3>1
  <2> HIDE DEF s
  <2>4. QED BY <2>1, <2>2, <2>3 DEF Commas, a, S
<1>16. s[offset] = g[n]
  BY DEF n
<1>17. QED BY <1>4, <1>15, <1>16

LEMMA CommasOnce ==
  ASSUME NEW t, NEW open \in Nat, NEW m \in Nat, NEW offset \in open+1..m,
         NEW s, Commas(t, s, open, m), NEW r, Commas(t, r, open, offset)
  PROVE  s[offset] = r[offset]
<1> DEFINE T == {k \in 0..offset-open-1 : s[open + 1 + k] = r[open + 1 + k]}
<1>1. 0 \in T
  BY DEF Commas
<1>2. ASSUME NEW k \in 0..(offset-open-1 - 1), k \in T PROVE k + 1 \in T
  <2> DEFINE i == open + 1 + k
  <2>1. i \in open+1..offset-1 /\ i \in open+1..m-1 /\ open + 1 + (k + 1) = i + 1 /\ k + 1 \in 0..offset-open-1
    OBVIOUS
  <2>2. s[i] = r[i]
    BY <1>2
  <2> HIDE DEF i
  <2>3. s[i + 1] = r[i + 1]
    BY <2>1, <2>2 DEF Commas
  <2>4. QED BY <2>1, <2>3
<1>3. \A k \in 0..(offset-open-1 - 1) : k \in T => k + 1 \in T
  BY <1>2
<1>4. offset - open - 1 \in T
  <2> HIDE DEF T
  <2>1. offset - open - 1 \in Nat
    OBVIOUS
  <2>2. QED BY <1>1, <1>3, <2>1, UpToBound
<1>5. QED BY <1>4

(* What is nested is what the search for the "(" passes.                   *)
LEMMA NestedIsDepth ==
  ASSUME NEW t, NEW open \in Nat, NEW offset \in Nat, NEW d, Open(t, d, offset, open),
         NEW s, Commas(t, s, open, offset)
  PROVE  s[offset].nested = 0
<1>1. offset \in open+1..offset /\ Depths(t, d, open + 1, offset) /\ d[open + 1] = 0
  BY DEF Open
<1> DEFINE T == {k \in 0..offset-open-1 : s[open + 1 + k].nested = d[open + 1 + k]}
<1>2. 0 \in T
  BY <1>1 DEF Commas
<1>3. ASSUME NEW k \in 0..(offset-open-1 - 1), k \in T PROVE k + 1 \in T
  <2> DEFINE i == open + 1 + k
  <2>1. /\ i \in open+1..offset-1 /\ i \in open+1..offset /\ i + 1 \in open+1..offset
        /\ open + 1 + (k + 1) = i + 1 /\ k + 1 \in 0..offset-open-1
    BY <1>1
  <2>2. s[i].nested = d[i]
    BY <1>3
  <2> HIDE DEF i
  <2>3. s[i + 1] = CountComma(s[i], t[i + 1]) /\ s[i] \in [nested : Nat, active : Nat]
    BY <2>1 DEF Commas
  <2>4. d[i] \in Nat /\ d[i + 1] \in Nat
    BY <1>1, <2>1 DEF Depths
  <2>5. s[i + 1].nested = d[i + 1]
    <3>1. CASE t[i + 1] = "("
      <4>1. d[i + 1] = d[i] + 1
        BY <1>1, <2>1, <3>1 DEF Depths
      <4>2. QED BY <2>2, <2>3, <3>1, <4>1 DEF CountComma
    <3>2. CASE t[i + 1] = ")"
      <4>1. d[i] = d[i + 1] + 1
        BY <1>1, <2>1, <3>2 DEF Depths
      <4>2. QED BY <2>2, <2>3, <2>4, <3>2, <4>1 DEF CountComma
    <3>3. CASE t[i + 1] \notin {"(", ")"}
      <4>1. d[i] = d[i + 1]
        BY <1>1, <2>1, <3>3 DEF Depths
      <4>2. QED BY <2>2, <2>3, <3>3, <4>1 DEF CountComma
    <3>4. QED BY <3>1, <3>2, <3>3
  <2>6. QED BY <2>1, <2>5
<1>4. \A k \in 0..(offset-open-1 - 1) : k \in T => k + 1 \in T
  BY <1>3
<1>5. offset - open - 1 \in T
  <2> HIDE DEF T
  <2>1. offset - open - 1 \in Nat
    BY <1>1
  <2>2. QED BY <1>2, <1>4, <2>1, UpToBound
<1>6. QED BY <1>1, <1>5 DEF Depths

(* Inside parentheses of their own, commas do not count.                   *)
LEMMA NestedCommas ==
  ASSUME NEW t, NEW q \in Nat, NEW offset \in Nat, NEW s, Commas(t, s, q, offset + 1),
         NEW o \in Nat, q < o, NEW d, Open(t, d, offset, o), t[offset + 1] = ")", s[o].nested = 0
  PROVE  s[offset + 1].active = s[o].active
<1>1. o \in q+1..offset-1 /\ t[o + 1] = "(" /\ Depths(t, d, o + 1, offset) /\ d[o + 1] = 0 /\ d[offset] = 0
  BY DEF Open, Depths
<1> DEFINE a == s[o].active
           T == {k \in 0..offset-o-1 : s[o + 1 + k].nested = d[o + 1 + k] + 1 /\ s[o + 1 + k].active = a}
<1>2. \A i \in q+1..offset : s[i + 1] = CountComma(s[i], t[i + 1]) /\ s[i] \in [nested : Nat, active : Nat]
  BY DEF Commas
<1>3. 0 \in T
  <2>1. s[o + 1] = CountComma(s[o], t[o + 1]) /\ s[o] \in [nested : Nat, active : Nat]
    BY <1>1, <1>2
  <2>2. s[o + 1].nested = 1 /\ s[o + 1].active = a
    BY <1>1, <2>1 DEF CountComma
  <2>3. QED BY <1>1, <2>2
<1> HIDE DEF a
<1>4. ASSUME NEW k \in 0..(offset-o-1 - 1), k \in T PROVE k + 1 \in T
  <2> DEFINE i == o + 1 + k
  <2>1. /\ i \in o+1..offset-1 /\ i \in o+1..offset /\ i + 1 \in o+1..offset /\ i \in q+1..offset
        /\ o + 1 + (k + 1) = i + 1 /\ k + 1 \in 0..offset-o-1
    BY <1>1
  <2>2. s[i].nested = d[i] + 1 /\ s[i].active = a
    BY <1>4
  <2> HIDE DEF i
  <2>3. s[i + 1] = CountComma(s[i], t[i + 1]) /\ s[i] \in [nested : Nat, active : Nat]
    BY <1>2, <2>1
  <2>4. d[i] \in Nat /\ d[i + 1] \in Nat
    BY <1>1, <2>1 DEF Depths
  <2>5. s[i + 1].nested = d[i + 1] + 1 /\ s[i + 1].active = a
    <3>1. CASE t[i + 1] = "("
      <4>1. d[i + 1] = d[i] + 1
        BY <1>1, <2>1, <3>1 DEF Depths
      <4>2. QED BY <2>2, <2>3, <3>1, <4>1 DEF CountComma
    <3>2. CASE t[i + 1] = ")"
      <4>1. d[i] = d[i + 1] + 1
        BY <1>1, <2>1, <3>2 DEF Depths
      <4>2. QED BY <2>2, <2>3, <2>4, <3>2, <4>1 DEF CountComma
    <3>3. CASE t[i + 1] \notin {"(", ")"}
      <4>1. d[i] = d[i + 1]
        BY <1>1, <2>1, <3>3 DEF Depths
      <4>2. s[i].nested # 0
        BY <2>2, <2>4
      <4>3. s[i + 1] = s[i]
        BY <2>3, <3>3, <4>2 DEF CountComma
      <4>4. QED BY <2>2, <4>1, <4>3
    <3>4. QED BY <3>1, <3>2, <3>3
  <2>6. QED BY <2>1, <2>5
<1>5. \A k \in 0..(offset-o-1 - 1) : k \in T => k + 1 \in T
  BY <1>4
<1>6. offset - o - 1 \in T
  <2> HIDE DEF T
  <2>1. offset - o - 1 \in Nat
    BY <1>1
  <2>2. QED BY <1>3, <1>5, <2>1, UpToBound
<1>7. s[offset].active = a /\ o + 1 + (offset - o - 1) = offset
  BY <1>1, <1>6
<1>8. s[offset + 1] = CountComma(s[offset], t[offset + 1]) /\ s[offset] \in [nested : Nat, active : Nat]
  BY <1>1, <1>2
<1>9. QED BY <1>7, <1>8 DEF CountComma, a

(* A character more: commas count, unless they are in parentheses.         *)
LEMMA ActiveParameterStep ==
  ASSUME NEW t, NEW offset \in Nat, NEW o, o = OpenParenthesis(t, offset), NEW c, c = t[offset + 1]
  PROVE  /\ c = "(" => ActiveParameter(t, offset, offset + 1) = 0
         /\ o >= 0 /\ c = "," => ActiveParameter(t, o, offset + 1) = ActiveParameter(t, o, offset) + 1
         /\ o >= 0 /\ c \notin {"(", ")", ","} =>
              ActiveParameter(t, o, offset + 1) = ActiveParameter(t, o, offset)
         /\ o >= 0 => ActiveParameter(t, o, offset) \in Nat
<1>1. o \in -1..offset-1 /\ offset + 1 \in Nat
  BY OpenParenthesisIs
<1>2. PICK d : Open(t, d, offset, o)
  BY OpenParenthesisIs
<1>3. ActiveParameter(t, offset, offset + 1) = 0
  <2>1. PICK s : Commas(t, s, offset, offset + 1) /\ ActiveParameter(t, offset, offset + 1) = s[offset + 1].active
    BY <1>1, ActiveParameterIs
  <2>2. QED BY <2>1 DEF Commas
<1>4. ASSUME o >= 0
      PROVE  /\ c = "," => ActiveParameter(t, o, offset + 1) = ActiveParameter(t, o, offset) + 1
             /\ c \notin {"(", ")", ","} => ActiveParameter(t, o, offset + 1) = ActiveParameter(t, o, offset)
             /\ ActiveParameter(t, o, offset) \in Nat
  <2>1. o \in Nat /\ o < offset /\ o < offset + 1 /\ offset \in o+1..offset+1
    BY <1>1, <1>4
  <2>2. PICK r : Commas(t, r, o, offset) /\ ActiveParameter(t, o, offset) = r[offset].active
    BY <2>1, ActiveParameterIs
  <2>3. PICK s : Commas(t, s, o, offset + 1) /\ ActiveParameter(t, o, offset + 1) = s[offset + 1].active
    BY <1>1, <2>1, ActiveParameterIs
  <2>4. s[offset] = r[offset]
    BY <1>1, <2>1, <2>2, <2>3, CommasOnce
  <2>5. r[offset].nested = 0
    BY <1>2, <2>1, <2>2, NestedIsDepth
  <2>6. offset \in o+1..offset+1-1 /\ offset \in o+1..offset
    BY <2>1
  <2>7. s[offset + 1] = CountComma(s[offset], c) /\ r[offset] \in [nested : Nat, active : Nat]
    BY <2>2, <2>3, <2>6 DEF Commas
  <2>8. c = "," => s[offset + 1].active = r[offset].active + 1
    BY <2>4, <2>5, <2>7 DEF CountComma
  <2>9. c \notin {"(", ")", ","} => s[offset + 1].active = r[offset].active
    BY <2>4, <2>5, <2>7 DEF CountComma
  <2>10. QED BY <2>2, <2>3, <2>7, <2>8, <2>9
<1>5. QED BY <1>3, <1>4

LEMMA ActiveParameterClosed ==
  ASSUME NEW t, NEW offset \in Nat, NEW o \in Nat, o = OpenParenthesis(t, offset), t[offset + 1] = ")",
         NEW q \in Nat, q = OpenParenthesis(t, o)
  PROVE  ActiveParameter(t, q, offset + 1) = ActiveParameter(t, q, o)
<1>1. o \in 0..offset-1 /\ offset + 1 \in Nat
  BY OpenParenthesisIs
<1>2. PICK d : Open(t, d, offset, o)
  BY OpenParenthesisIs
<1>3. q \in 0..o-1
  BY OpenParenthesisIs
<1>4. q < o /\ q < offset + 1 /\ o \in q+1..offset+1
  BY <1>1, <1>3
<1>5. PICK r : Commas(t, r, q, o) /\ ActiveParameter(t, q, o) = r[o].active
  BY <1>4, ActiveParameterIs
<1>6. PICK s : Commas(t, s, q, offset + 1) /\ ActiveParameter(t, q, offset + 1) = s[offset + 1].active
  BY <1>1, <1>4, ActiveParameterIs
<1>7. s[o] = r[o]
  BY <1>1, <1>4, <1>5, <1>6, CommasOnce
<1>8. PICK b : Open(t, b, o, q)
  BY OpenParenthesisIs
<1>9. r[o].nested = 0
  BY <1>5, <1>8, NestedIsDepth
<1>10. s[offset + 1].active = s[o].active
  <2>1. t[offset + 1] = ")" /\ s[o].nested = 0 /\ q < o
    BY <1>4, <1>7, <1>9
  <2>2. QED BY <1>2, <1>6, <2>1, NestedCommas
<1>11. QED BY <1>5, <1>6, <1>7, <1>10

LEMMA ActiveParameterAgrees ==
  ASSUME NEW t, NEW u, NEW offset \in Nat, \A i \in 1..offset : t[i] = u[i], NEW open \in Nat, open < offset
  PROVE  ActiveParameter(t, open, offset) = ActiveParameter(u, open, offset)
<1>1. PICK s : Commas(t, s, open, offset) /\ ActiveParameter(t, open, offset) = s[offset].active
  BY ActiveParameterIs
<1>2. PICK r : Commas(u, r, open, offset) /\ ActiveParameter(u, open, offset) = r[offset].active
  BY ActiveParameterIs
<1>3. \A i \in open+1..offset-1 : t[i + 1] = u[i + 1]
  OBVIOUS
<1>4. Commas(u, s, open, offset)
  BY <1>1, <1>3 DEF Commas
<1>5. offset \in open+1..offset
  OBVIOUS
<1>6. s[offset] = r[offset]
  BY <1>2, <1>4, <1>5, CommasOnce
<1>7. QED BY <1>1, <1>2, <1>6
------------------------------------------------------------------------------
(* The call around an offset. *)
Name(t, open) ==
  LET end == RunStart(t, open, Blank)
  IN Slice(t, RunStart(t, end, IdentifierPart \union {"."}), end)

Called(t, open) ==
  LET end == RunStart(t, open, Blank) IN RunStart(t, end, IdentifierPart \union {"."}) # end

LEMMA InvocationIs ==
  ASSUME NEW t, NEW offset, NEW o, o = OpenParenthesis(t, offset)
  PROVE  InvocationAtOffset(t, offset) =
           IF o < 0 \/ ~Called(t, o) THEN NoCall
           ELSE [method |-> Name(t, o), active |-> ActiveParameter(t, o, offset)]
BY Zenon DEF InvocationAtOffset, Called, Name

LEMMA RunStartAgrees ==
  ASSUME NEW t, NEW u, NEW at \in Nat, \A i \in 1..at : t[i] = u[i], NEW set
  PROVE  RunStart(t, at, set) = RunStart(u, at, set)
<1>1. PICK s : s = RunStart(t, at, set)
  OBVIOUS
<1>2. s \in 0..at /\ (\A i \in s+1..at : t[i] \in set) /\ (s = 0 \/ t[s] \notin set)
  BY <1>1, RunStartIs
<1>3. (\A i \in s+1..at : u[i] \in set) /\ (s = 0 \/ u[s] \notin set)
  BY <1>2
<1>4. QED BY <1>1, <1>2, <1>3, RunStartIf

LEMMA NameAgrees ==
  ASSUME NEW S, NEW t \in Seq(S), NEW u \in Seq(S), NEW open \in 0..Len(t), open \in 0..Len(u),
         \A i \in 1..open : t[i] = u[i]
  PROVE  (Called(t, open) <=> Called(u, open)) /\ Name(t, open) = Name(u, open)
<1> DEFINE end == RunStart(t, open, Blank)
           start == RunStart(t, end, IdentifierPart \union {"."})
<1>1. open \in Nat
  OBVIOUS
<1>2. end = RunStart(u, open, Blank) /\ end \in 0..open
  BY <1>1, RunStartAgrees, RunStartIs
<1> HIDE DEF end
<1>3. end \in Nat /\ \A i \in 1..end : t[i] = u[i]
  BY <1>2
<1>4. start = RunStart(u, end, IdentifierPart \union {"."}) /\ start \in 0..end
  BY <1>3, RunStartAgrees, RunStartIs
<1> HIDE DEF start
<1>5. start \in 0..Len(t) /\ end \in 0..Len(t) /\ start \in 0..Len(u) /\ end \in 0..Len(u)
  BY <1>2, <1>4
<1>6. ASSUME NEW v \in Seq(S), end \in 0..Len(v)
      PROVE  /\ Slice(v, start, end) \in Seq(S) /\ Len(Slice(v, start, end)) = end - start
             /\ \A i \in 1..(end - start) : Slice(v, start, end)[i] = v[start + i]
  <2>1. start \in 0..Len(v) /\ start <= end
    BY <1>4, <1>6
  <2>2. /\ Slice(v, start, end) \in Seq(S)
        /\ Len(Slice(v, start, end)) = IF start <= end THEN end - start ELSE 0
        /\ \A i \in 1..(end - start) : Slice(v, start, end)[i] = v[start + i]
    BY <1>6, <2>1, SliceParts
  <2>3. QED BY <2>1, <2>2
<1>7. \A i \in 1..(end - start) : t[start + i] = u[start + i]
  <2>1. \A i \in 1..(end - start) : start + i \in 1..end
    BY <1>5
  <2>2. QED BY <1>3, <2>1
<1>8. \A i \in 1..(end - start) : Slice(t, start, end)[i] = Slice(u, start, end)[i]
  BY <1>5, <1>6, <1>7
<1>9. Slice(t, start, end) = Slice(u, start, end)
  <2>1. /\ Slice(t, start, end) \in Seq(S) /\ Len(Slice(t, start, end)) = end - start
        /\ Slice(u, start, end) \in Seq(S) /\ Len(Slice(u, start, end)) = end - start
    BY <1>5, <1>6
  <2>2. QED BY <1>8, <2>1
<1>10. (Called(t, open) <=> start # end) /\ (Called(u, open) <=> start # end)
  BY <1>2, <1>4, Zenon DEF Called, start, end
<1>11. Name(t, open) = Slice(t, start, end) /\ Name(u, open) = Slice(u, start, end)
  BY <1>2, <1>4, Zenon DEF Name, start, end
<1>12. QED BY <1>9, <1>10, <1>11

LEMMA InvocationAgrees ==
  ASSUME NEW S, NEW t \in Seq(S), NEW u \in Seq(S), NEW offset \in 0..Len(t), offset \in 0..Len(u),
         \A i \in 1..offset : t[i] = u[i]
  PROVE  InvocationAtOffset(t, offset) = InvocationAtOffset(u, offset)
<1>1. PICK o : o = OpenParenthesis(t, offset)
  OBVIOUS
<1>2. offset \in Nat
  OBVIOUS
<1>3. o = OpenParenthesis(u, offset) /\ o \in -1..offset-1
  BY <1>1, <1>2, OpenParenthesisAgrees, OpenParenthesisIs
<1>4. CASE o < 0
  BY <1>1, <1>3, <1>4, InvocationIs
<1>5. CASE ~(o < 0)
  <2>1. /\ o \in 0..Len(t) /\ o \in 0..Len(u) /\ o \in Nat /\ o < offset
        /\ \A i \in 1..o : t[i] = u[i]
    BY <1>3, <1>5
  <2>2. (Called(t, o) <=> Called(u, o)) /\ Name(t, o) = Name(u, o)
    BY <2>1, NameAgrees
  <2>3. ActiveParameter(t, o, offset) = ActiveParameter(u, o, offset)
    BY <1>2, <2>1, ActiveParameterAgrees
  <2>4. /\ InvocationAtOffset(t, offset) = IF o < 0 \/ ~Called(t, o) THEN NoCall
           ELSE [method |-> Name(t, o), active |-> ActiveParameter(t, o, offset)]
        /\ InvocationAtOffset(u, offset) = IF o < 0 \/ ~Called(u, o) THEN NoCall
           ELSE [method |-> Name(u, o), active |-> ActiveParameter(u, o, offset)]
    BY <1>1, <1>3, InvocationIs
  <2>5. CASE Called(t, o)
    BY <2>2, <2>3, <2>4, <2>5
  <2>6. CASE ~Called(t, o)
    BY <2>2, <2>4, <2>6
  <2>7. QED BY <2>5, <2>6
<1>6. QED BY <1>4, <1>5

(* What a character does to the call. *)
LEMMA NextParameter ==
  ASSUME NEW m, NEW n \in Nat
  PROVE  [[method |-> m, active |-> n] EXCEPT !.active = @ + 1] = [method |-> m, active |-> n + 1]
<1>1. PICK b \in [method : {m}, active : Nat] : b = [method |-> m, active |-> n]
  OBVIOUS
<1>2. [b EXCEPT !.active = b.active + 1] = [method |-> m, active |-> n + 1]
  BY <1>1
<1>3. QED BY <1>1, <1>2, Zenon

Around(t, open) == IF open < 0 THEN NoCall ELSE InvocationAtOffset(t, open)

Followed(c, before, after, around) ==
  /\ c = "," /\ before # NoCall => after = [before EXCEPT !.active = @ + 1]
  /\ c = ")" => after = around
  /\ c = "(" => after.active = 0
  /\ c \notin {",", "(", ")"} => after = before

LEMMA InvocationStep ==
  ASSUME NEW t, NEW offset \in Nat
  PROVE  Followed(t[offset + 1], InvocationAtOffset(t, offset), InvocationAtOffset(t, offset + 1),
                  Around(t, OpenParenthesis(t, offset)))
<1> DEFINE o == OpenParenthesis(t, offset)
           c == t[offset + 1]
           before == InvocationAtOffset(t, offset)
           after == InvocationAtOffset(t, offset + 1)
<1>1. offset + 1 \in Nat /\ (o < 0 <=> o = -1) /\ (~(o < 0) => o \in Nat /\ o >= 0)
  <2>1. o \in -1..offset-1
    BY OpenParenthesisIs
  <2>2. QED BY <2>1
<1>2. PICK q : q = OpenParenthesis(t, offset + 1)
  OBVIOUS
<1>3. q = IF c = "(" THEN offset ELSE IF c # ")" THEN o ELSE IF o = -1 THEN -1 ELSE OpenParenthesis(t, o)
  BY <1>2, OpenParenthesisStep
<1>4. before = IF o < 0 \/ ~Called(t, o) THEN NoCall
               ELSE [method |-> Name(t, o), active |-> ActiveParameter(t, o, offset)]
  BY InvocationIs
<1>5. after = IF q < 0 \/ ~Called(t, q) THEN NoCall
              ELSE [method |-> Name(t, q), active |-> ActiveParameter(t, q, offset + 1)]
  BY <1>2, InvocationIs
<1>6. /\ c = "(" => ActiveParameter(t, offset, offset + 1) = 0
      /\ o >= 0 /\ c = "," => ActiveParameter(t, o, offset + 1) = ActiveParameter(t, o, offset) + 1
      /\ o >= 0 /\ c \notin {"(", ")", ","} =>
           ActiveParameter(t, o, offset + 1) = ActiveParameter(t, o, offset)
  BY ActiveParameterStep
<1>7. c = "," /\ before # NoCall => after = [before EXCEPT !.active = @ + 1]
  <2> SUFFICES ASSUME c = ",", before # NoCall PROVE after = [before EXCEPT !.active = @ + 1]
    OBVIOUS
  <2>1. ~(o < 0) /\ Called(t, o) /\ q = o
    BY <1>3, <1>4
  <2>2. o >= 0
    BY <1>1, <2>1
  <2>3. ActiveParameter(t, o, offset + 1) = ActiveParameter(t, o, offset) + 1
    BY <1>6, <2>2
  <2>4. before = [method |-> Name(t, o), active |-> ActiveParameter(t, o, offset)]
    BY <1>4, <2>1
  <2>5. after = [method |-> Name(t, o), active |-> ActiveParameter(t, o, offset) + 1]
    BY <1>5, <2>1, <2>3
  <2>6. ActiveParameter(t, o, offset) \in Nat
    BY <2>2, ActiveParameterStep
  <2> DEFINE m == Name(t, o)
             n == ActiveParameter(t, o, offset)
  <2> HIDE DEF m, n
  <2>7. [[method |-> m, active |-> n] EXCEPT !.active = @ + 1] = [method |-> m, active |-> n + 1]
    BY <2>6, NextParameter DEF n
  <2>8. QED BY <2>4, <2>5, <2>7, Zenon DEF m, n
<1>8. c = ")" => after = IF o < 0 THEN NoCall ELSE InvocationAtOffset(t, o)
  <2> SUFFICES ASSUME c = ")" PROVE after = IF o < 0 THEN NoCall ELSE InvocationAtOffset(t, o)
    OBVIOUS
  <2>1. CASE o < 0
    <3>1. q < 0
      BY <1>1, <1>3, <2>1
    <3>2. QED BY <1>5, <2>1, <3>1
  <2>2. CASE ~(o < 0)
    <3>1. o \in Nat /\ o >= 0 /\ q = OpenParenthesis(t, o)
      BY <1>1, <1>3, <2>2
    <3>2. q \in -1..o-1
      BY <3>1, OpenParenthesisIs
    <3>3. InvocationAtOffset(t, o) = IF q < 0 \/ ~Called(t, q) THEN NoCall
                                     ELSE [method |-> Name(t, q), active |-> ActiveParameter(t, q, o)]
      BY <3>1, InvocationIs
    <3>4. ASSUME NEW p \in Nat, p = OpenParenthesis(t, o)
          PROVE  ActiveParameter(t, p, offset + 1) = ActiveParameter(t, p, o)
      <4>1. t[offset + 1] = ")" /\ o \in Nat
        BY <3>1
      <4>2. QED BY <3>4, <4>1, ActiveParameterClosed
    <3>5. CASE q < 0
      BY <1>5, <2>2, <3>3, <3>5
    <3>6. CASE ~(q < 0)
      <4>1. q \in Nat
        BY <3>1, <3>2, <3>6
      <4>2. QED BY <1>5, <2>2, <3>1, <3>3, <3>4, <4>1
    <3>7. QED BY <3>5, <3>6
  <2>3. QED BY <2>1, <2>2
<1>9. c = "(" => after.active = 0
  BY <1>3, <1>5, <1>6 DEF NoCall
<1>10. c \notin {",", "(", ")"} => after = before
  <2> SUFFICES ASSUME c \notin {",", "(", ")"} PROVE after = before
    OBVIOUS
  <2>1. q = o /\ (~(o < 0) => o >= 0)
    BY <1>1, <1>3
  <2> HIDE DEF before, after, o, c
  <2>2. CASE ~(o < 0) /\ Called(t, o)
    <3>1. ActiveParameter(t, o, offset + 1) = ActiveParameter(t, o, offset)
      BY <1>6, <2>1, <2>2
    <3>2. QED BY <1>4, <1>5, <2>1, <2>2, <3>1
  <2>3. CASE o < 0 \/ ~Called(t, o)
    BY <1>4, <1>5, <2>1, <2>3
  <2>4. QED BY <2>2, <2>3
<1>11. QED BY <1>7, <1>8, <1>9, <1>10 DEF Followed, Around
------------------------------------------------------------------------------
(* The properties of the specification.                                    *)
Characters == UNION Alphabets

Typed == alphabet \in Alphabets /\ text \in Seq(Characters) /\ cursor \in 0..Len(text)

LEMMA InsertIs ==
  ASSUME NEW S, NEW t \in Seq(S), NEW c \in S, NEW at \in 0..Len(t)
  PROVE  \E u : /\ u = InsertAt(t, at + 1, c)
                /\ u \in Seq(S) /\ Len(u) = Len(t) + 1
                /\ \A i \in 1..at : u[i] = t[i]
                /\ u[at + 1] = c
<1> DEFINE x == SubSeq(t, 1, at)
           y == SubSeq(t, at + 1, Len(t))
           u == InsertAt(t, at + 1, c)
<1>1. u = x \o <<c>> \o y
  <2>1. (at + 1) - 1 = at
    OBVIOUS
  <2>2. u = SubSeq(t, 1, (at + 1) - 1) \o <<c>> \o y
    BY Zenon DEF InsertAt
  <2>3. QED BY <2>1, <2>2
<1> HIDE DEF u
<1>2. x \in Seq(S) /\ Len(x) = at /\ y \in Seq(S) /\ Len(y) = Len(t) - at
  OBVIOUS
<1>3. \A i \in 1..at : x[i] = t[i]
  OBVIOUS
<1> HIDE DEF x, y
<1>4. x \o <<c>> \in Seq(S) /\ Len(x \o <<c>>) = at + 1
  BY <1>2
<1>5. (\A i \in 1..at : (x \o <<c>>)[i] = x[i]) /\ (x \o <<c>>)[at + 1] = c
  <2>1. \A i \in 1..at : (x \o <<c>>)[i] = x[i]
    BY <1>2
  <2>2. (x \o <<c>>)[at + 1] = c
    BY <1>2
  <2>3. QED BY <2>1, <2>2
<1>6. PICK z \in Seq(S) : z = x \o <<c>>
  BY <1>4
<1>7. /\ z \o y \in Seq(S) /\ Len(z \o y) = Len(t) + 1
      /\ \A i \in 1..at+1 : (z \o y)[i] = z[i]
  BY <1>2, <1>4, <1>6
<1>8. at + 1 \in 1..at+1 /\ \A i \in 1..at : i \in 1..at+1
  OBVIOUS
<1>9. QED BY <1>1, <1>3, <1>5, <1>6, <1>7, <1>8 DEF u

LEMMA TypedInit == Init => Typed
<1>1. <<>> \in Seq(Characters) /\ 0 \in 0..Len(<<>>)
  OBVIOUS
<1>2. QED BY <1>1, Zenon DEF Init, Typed

LEMMA TypedType ==
  ASSUME Typed, NEW c \in alphabet, Type(c)
  PROVE  /\ Typed'
         /\ cursor' = cursor + 1
         /\ \A i \in 1..cursor : text'[i] = text[i]
         /\ text'[cursor + 1] = c
<1>1. c \in Characters
  BY DEF Typed, Characters
<1>2. text \in Seq(Characters) /\ cursor \in 0..Len(text) /\ text' = InsertAt(text, cursor + 1, c)
  BY DEF Typed, Type
<1>3. /\ text' \in Seq(Characters) /\ Len(text') = Len(text) + 1
      /\ \A i \in 1..cursor : text'[i] = text[i]
      /\ text'[cursor + 1] = c
  <2>1. PICK u : /\ u = InsertAt(text, cursor + 1, c)
                 /\ u \in Seq(Characters) /\ Len(u) = Len(text) + 1
                 /\ \A i \in 1..cursor : u[i] = text[i]
                 /\ u[cursor + 1] = c
    BY <1>1, <1>2, InsertIs
  <2>2. QED BY <1>2, <2>1
<1>4. cursor' = cursor + 1 /\ alphabet' = alphabet
  BY DEF Type
<1>5. cursor' \in 0..Len(text')
  BY <1>2, <1>3, <1>4
<1>6. QED BY <1>3, <1>4, <1>5 DEF Typed

LEMMA TypedNext == Typed /\ [Next]_vars => Typed'
<1> SUFFICES ASSUME Typed, [Next]_vars PROVE Typed'
  OBVIOUS
<1>1. ASSUME NEW c \in alphabet, Type(c) PROVE Typed'
  BY <1>1, TypedType
<1>2. CASE MoveCursor
  BY <1>2 DEF MoveCursor, Typed
<1>3. CASE UNCHANGED vars
  BY <1>3 DEF vars, Typed
<1>4. QED BY <1>1, <1>2, <1>3 DEF Next

LEMMA AlwaysTyped == Spec => []Typed
<1>1. QED BY TypedInit, TypedNext, PTL DEF Spec

(* Completion, hover and definition mean the same receiver, at any cursor  *)
(* in any text (completion.go, navigation.go).                             *)
THEOREM OneReceiverAlways == Spec => []OneReceiver
<1>1. Typed => OneReceiver
  <2> SUFFICES ASSUME Typed PROVE OneReceiver
    OBVIOUS
  <2>1. text \in Seq(Characters) /\ cursor \in 0..Len(text)
    BY DEF Typed
  <2>2. CurrentLine \in Seq(Characters) /\ Column \in 0..Len(CurrentLine)
    BY <2>1, PositionIs DEF CurrentLine, Column
  <2>3. OneReceiverAt(CurrentLine, Column)
    BY <2>2, OneReceiverHolds
  <2>4. QED BY <2>3 DEF OneReceiver, OneReceiverAt
<1>2. QED BY <1>1, AlwaysTyped, PTL

(* Signature help at a cursor. *)
LEMMA HelpIs ==
  ASSUME NEW S, NEW t \in Seq(S), NEW at \in 0..Len(t),
         NEW call, call = InvocationAtOffset(t, at)
  PROVE  /\ Help(t, at).method = call.method
         /\ Help(t, at).active = IF LookupSignature(call.method) = 0 THEN call.active ELSE Min({call.active, 1})
<1>1. OffsetForPosition(t, PositionOf(t, at)) = at
  BY PositionIs
<1> DEFINE parameters == LookupSignature(call.method)
<1>2. Help(t, at) = [parameters |-> parameters, method |-> call.method,
                     active |-> IF parameters > 0 THEN Min({call.active, parameters - 1}) ELSE call.active]
  BY <1>1, Zenon DEF Help, SignatureHelpAtPosition
<1>3. parameters = 0 \/ parameters = 2
  BY DEF LookupSignature
<1> HIDE DEF parameters
<1>4. CASE parameters = 0
  BY <1>2, <1>4 DEF parameters
<1>5. CASE parameters = 2
  <2>1. parameters - 1 = 1 /\ parameters > 0 /\ parameters # 0
    BY <1>5
  <2>2. Help(t, at) = [parameters |-> parameters, method |-> call.method, active |-> Min({call.active, 1})]
    BY <1>2, <2>1
  <2>3. Help(t, at).method = call.method /\ Help(t, at).active = Min({call.active, 1})
    BY <2>2
  <2>4. QED BY <2>1, <2>3 DEF parameters
<1>6. QED BY <1>3, <1>4, <1>5

(* Signature help follows what is typed (signature_help.go).               *)
THEOREM CallFollowsTypingAlways == Spec => CallFollowsTyping
<1> DEFINE Follows == \A c \in alphabet : Type(c) =>
       LET before == InvocationAtOffset(text, cursor)
           after == InvocationAtOffset(text', cursor')
           open == OpenParenthesis(text, cursor)
       IN /\ c = "," /\ before # NoCall => after = [before EXCEPT !.active = @ + 1]
          /\ c = ")" => after = IF open < 0 THEN NoCall ELSE InvocationAtOffset(text, open)
          /\ c = "(" => after.active = 0
          /\ c \notin {",", "(", ")"} => after = before
          /\ Help(text', cursor').method = after.method
          /\ Help(text', cursor').active = IF LookupSignature(after.method) = 0 THEN after.active
                                           ELSE Min({after.active, 1})
<1>1. Typed => Follows
  <2> SUFFICES ASSUME Typed, NEW c \in alphabet, Type(c)
               PROVE  LET before == InvocationAtOffset(text, cursor)
                          after == InvocationAtOffset(text', cursor')
                          open == OpenParenthesis(text, cursor)
                      IN /\ c = "," /\ before # NoCall => after = [before EXCEPT !.active = @ + 1]
                         /\ c = ")" => after = IF open < 0 THEN NoCall ELSE InvocationAtOffset(text, open)
                         /\ c = "(" => after.active = 0
                         /\ c \notin {",", "(", ")"} => after = before
                         /\ Help(text', cursor').method = after.method
                         /\ Help(text', cursor').active =
                              IF LookupSignature(after.method) = 0 THEN after.active
                              ELSE Min({after.active, 1})
    BY Zenon
  <2> DEFINE before == InvocationAtOffset(text, cursor)
             after == InvocationAtOffset(text', cursor')
             open == OpenParenthesis(text, cursor)
  <2>1. Typed' /\ cursor' = cursor + 1 /\ text'[cursor + 1] = c /\ \A i \in 1..cursor : text'[i] = text[i]
    BY TypedType
  <2>2. /\ text \in Seq(Characters) /\ cursor \in 0..Len(text) /\ cursor \in Nat
        /\ text' \in Seq(Characters) /\ cursor' \in 0..Len(text')
    BY <2>1 DEF Typed
  <2>3. cursor \in 0..Len(text')
    BY <2>1, <2>2
  <2>4. before = InvocationAtOffset(text', cursor)
    BY <2>1, <2>2, <2>3, InvocationAgrees
  <2>5. open = OpenParenthesis(text', cursor) /\ open \in -1..cursor-1
    BY <2>1, <2>2, OpenParenthesisAgrees, OpenParenthesisIs
  <2>6. ~(open < 0) => InvocationAtOffset(text, open) = InvocationAtOffset(text', open)
    <3>1. SUFFICES ASSUME ~(open < 0) PROVE InvocationAtOffset(text, open) = InvocationAtOffset(text', open)
      OBVIOUS
    <3>2. open \in 0..Len(text) /\ open \in 0..Len(text') /\ \A i \in 1..open : text[i] = text'[i]
      BY <2>1, <2>2, <2>3, <2>5, <3>1
    <3> HIDE DEF open
    <3>3. QED BY <2>2, <3>2, InvocationAgrees
  <2>7. after = InvocationAtOffset(text', cursor + 1)
    BY <2>1
  <2>8. /\ Help(text', cursor').method = after.method
        /\ Help(text', cursor').active = IF LookupSignature(after.method) = 0 THEN after.active
                                         ELSE Min({after.active, 1})
    BY <2>2, HelpIs
  <2> HIDE DEF before, after, open
  <2>9. Followed(c, before, after, Around(text', open))
    <3>1. Followed(text'[cursor + 1], InvocationAtOffset(text', cursor), InvocationAtOffset(text', cursor + 1),
                   Around(text', OpenParenthesis(text', cursor)))
      BY <2>2, InvocationStep
    <3>2. QED BY <2>1, <2>4, <2>5, <2>7, <3>1
  <2>10. Around(text', open) = Around(text, open)
    BY <2>6, Zenon DEF Around
  <2>11. Followed(c, before, after, Around(text, open))
    BY <2>9, <2>10
  <2>12. QED BY <2>8, <2>11, Zenon DEF Followed, Around, before, after, open
<1>2. Typed => [Follows]_vars
  BY <1>1, Zenon
<1>3. QED BY <1>2, AlwaysTyped, PTL DEF CallFollowsTyping
------------------------------------------------------------------------------
(* Tokens. *)
Escaped(t, i) == i > 1 /\ t[i] = Newline /\ t[i - 1] = "\\"

(* The lines counted from an offset to another: right, unless a newline is *)
(* escaped between them.                                                   *)
Counted(t, from, to, lines) ==
  lines = NewlinesIn(t, from, to) \/ \E j \in from+1..to : Escaped(t, j)

(* What the loop of a literal has read up to the offset at.                *)
Read(t, start, at, s) ==
  /\ s.end \in start+1..at+1
  /\ s.closed => s.end <= at
  /\ ~s.closed /\ ~s.escaped => s.end = at
  /\ ~s.closed /\ s.escaped => s.end = at + 1 /\ t[at] = "\\"
  /\ s.end <= Len(t) => Counted(t, start, s.end, s.lines)

LiteralStates == [closed : BOOLEAN, escaped : BOOLEAN, end : Nat, lines : Nat]

LEMMA ReadLiteralIs ==
  ASSUME NEW t, NEW start \in Nat, NEW at \in Nat, start < at, NEW s \in LiteralStates, Read(t, start, at, s),
         NEW quote \in Quotes, Len(t) \in Nat
  PROVE  /\ ReadLiteral(s, quote, t[at + 1], at + 1) \in LiteralStates
         /\ Read(t, start, at + 1, ReadLiteral(s, quote, t[at + 1], at + 1))
<1> DEFINE c == t[at + 1]
           r == ReadLiteral(s, quote, c, at + 1)
<1>1. /\ s.closed \in BOOLEAN /\ s.escaped \in BOOLEAN /\ s.end \in Nat /\ s.lines \in Nat
      /\ at + 1 \in Nat /\ at + 1 + 1 \in Nat
  BY DEF LiteralStates
<1>2. CASE s.closed
  <2>1. r = s
    BY <1>2 DEF ReadLiteral
  <2>2. QED BY <1>2, <2>1 DEF Read
<1>3. CASE ~s.closed /\ s.escaped
  <2>1. r = [s EXCEPT !.escaped = FALSE, !.end = at + 1]
    BY <1>3 DEF ReadLiteral
  <2>2. r = [closed |-> s.closed, escaped |-> FALSE, end |-> at + 1, lines |-> s.lines]
    BY <2>1 DEF LiteralStates
  <2>3. s.end = at + 1
    BY <1>3 DEF Read
  <2> HIDE DEF r
  <2>4. r \in LiteralStates
    BY <1>1, <2>2 DEF LiteralStates
  <2>5. r.closed = s.closed /\ r.escaped = FALSE /\ r.end = at + 1 /\ r.lines = s.lines
    BY <2>2
  <2>6. Read(t, start, at + 1, r)
    BY <1>3, <2>3, <2>5 DEF Read
  <2>7. QED BY <2>4, <2>6 DEF r
<1>4. CASE ~s.closed /\ ~s.escaped
  <2>1. s.end = at
    BY <1>4 DEF Read
  <2>2. at + 1 <= Len(t) => Counted(t, start, at, s.lines)
    BY <2>1 DEF Read
  <2>3. ASSUME NEW lines, at + 1 <= Len(t),
               lines = s.lines + (IF c = Newline THEN 1 ELSE 0)
        PROVE  Counted(t, start, at + 1, lines)
    <3>1. CASE s.lines = NewlinesIn(t, start, at)
      <4>1. NewlinesIn(t, start, at + 1) = NewlinesIn(t, start, at) + (IF c = Newline THEN 1 ELSE 0)
        BY NewlinesStep
      <4>2. QED BY <2>3, <3>1, <4>1 DEF Counted
    <3>2. CASE \E j \in start+1..at : Escaped(t, j)
      BY <3>2 DEF Counted
    <3>3. QED BY <2>2, <2>3, <3>1, <3>2 DEF Counted
  <2>4. CASE c = "\\"
    <3>1. r = [s EXCEPT !.escaped = TRUE, !.end = at + 1 + 1]
      BY <1>4, <2>4 DEF ReadLiteral
    <3>2. r = [closed |-> s.closed, escaped |-> TRUE, end |-> at + 1 + 1, lines |-> s.lines]
      BY <3>1 DEF LiteralStates
    <3> HIDE DEF r
    <3>3. r \in LiteralStates
      BY <1>1, <3>2 DEF LiteralStates
    <3>4. r.closed = s.closed /\ r.escaped = TRUE /\ r.end = at + 1 + 1 /\ r.lines = s.lines
      BY <3>2
    <3>5. ASSUME at + 1 + 1 <= Len(t) PROVE Counted(t, start, at + 1 + 1, s.lines)
      <4>1. c # Newline
        BY <2>4 DEF Newline
      <4>2. Counted(t, start, at + 1, s.lines)
        BY <1>1, <2>3, <3>5, <4>1
      <4>3. CASE t[at + 1 + 1] = Newline
        <5>1. Escaped(t, at + 1 + 1) /\ at + 1 + 1 \in start+1..at+1+1
          BY <2>4, <4>3 DEF Escaped
        <5>2. QED BY <5>1 DEF Counted
      <4>4. CASE t[at + 1 + 1] # Newline
        <5>1. NewlinesIn(t, start, at + 1 + 1) = NewlinesIn(t, start, at + 1) + 0
          <6>1. start <= at + 1
            OBVIOUS
          <6>2. QED BY <1>1, <4>4, <6>1, NewlinesStep
        <5>2. NewlinesIn(t, start, at + 1) \in Nat
          BY <1>1, NewlinesAre
        <5>3. CASE s.lines = NewlinesIn(t, start, at + 1)
          BY <5>1, <5>2, <5>3 DEF Counted
        <5>4. CASE \E j \in start+1..at+1 : Escaped(t, j)
          BY <5>4 DEF Counted
        <5>5. QED BY <4>2, <5>3, <5>4 DEF Counted
      <4>5. QED BY <4>3, <4>4
    <3>6. Read(t, start, at + 1, r)
      BY <1>4, <2>4, <3>4, <3>5 DEF Read
    <3>7. QED BY <3>3, <3>6 DEF r
  <2>5. CASE c # "\\" /\ c = quote
    <3>1. r = [s EXCEPT !.closed = TRUE, !.end = at + 1]
      BY <1>4, <2>5 DEF ReadLiteral
    <3>2. r = [closed |-> TRUE, escaped |-> s.escaped, end |-> at + 1, lines |-> s.lines]
      BY <3>1 DEF LiteralStates
    <3> HIDE DEF r
    <3>3. r \in LiteralStates
      BY <1>1, <3>2 DEF LiteralStates
    <3>4. r.closed = TRUE /\ r.escaped = s.escaped /\ r.end = at + 1 /\ r.lines = s.lines
      BY <3>2
    <3>5. c # Newline
      BY <2>5 DEF Quotes, Newline
    <3>6. at + 1 <= Len(t) => Counted(t, start, at + 1, s.lines)
      BY <1>1, <2>3, <3>5
    <3>7. Read(t, start, at + 1, r)
      BY <3>4, <3>6 DEF Read
    <3>8. QED BY <3>3, <3>7 DEF r
  <2>6. CASE c # "\\" /\ c # quote
    <3> DEFINE lines == IF c = Newline THEN s.lines + 1 ELSE s.lines
    <3>1. r = [s EXCEPT !.end = at + 1, !.lines = lines]
      BY <1>4, <2>6 DEF ReadLiteral
    <3>2. r = [closed |-> s.closed, escaped |-> s.escaped, end |-> at + 1, lines |-> lines]
      BY <3>1 DEF LiteralStates
    <3>3. lines \in Nat /\ lines = s.lines + (IF c = Newline THEN 1 ELSE 0)
      BY <1>1
    <3> HIDE DEF lines
    <3>4. r \in LiteralStates
      BY <1>1, <3>2, <3>3 DEF LiteralStates
    <3>5. r.closed = s.closed /\ r.escaped = s.escaped /\ r.end = at + 1 /\ r.lines = lines
      BY <3>2
    <3> HIDE DEF r
    <3>6. at + 1 <= Len(t) => Counted(t, start, at + 1, lines)
      BY <2>3, <3>3
    <3>7. Read(t, start, at + 1, r)
      BY <1>4, <3>5, <3>6 DEF Read
    <3>8. QED BY <3>4, <3>7 DEF r
  <2>7. QED BY <2>4, <2>5, <2>6
<1>5. QED BY <1>1, <1>2, <1>3, <1>4

LEMMA ReadLiteralTyped ==
  ASSUME NEW s \in LiteralStates, NEW quote, NEW c, NEW i \in Nat
  PROVE  ReadLiteral(s, quote, c, i) \in LiteralStates
<1>1. /\ s.closed \in BOOLEAN /\ s.escaped \in BOOLEAN /\ s.end \in Nat /\ s.lines \in Nat /\ i + 1 \in Nat
      /\ (IF c = Newline THEN s.lines + 1 ELSE s.lines) \in Nat
  BY DEF LiteralStates
<1>2. \A v \in Nat : [s EXCEPT !.escaped = FALSE, !.end = v] \in LiteralStates
  BY DEF LiteralStates
<1>3. \A v \in Nat : [s EXCEPT !.escaped = TRUE, !.end = v] \in LiteralStates
  BY DEF LiteralStates
<1>4. \A v \in Nat : [s EXCEPT !.closed = TRUE, !.end = v] \in LiteralStates
  BY DEF LiteralStates
<1>5. \A v, w \in Nat : [s EXCEPT !.end = v, !.lines = w] \in LiteralStates
  BY DEF LiteralStates
<1>6. ReadLiteral(s, quote, c, i) =
        IF s.closed THEN s
        ELSE IF s.escaped THEN [s EXCEPT !.escaped = FALSE, !.end = i]
        ELSE IF c = "\\" THEN [s EXCEPT !.escaped = TRUE, !.end = i + 1]
        ELSE IF c = quote THEN [s EXCEPT !.closed = TRUE, !.end = i]
        ELSE [s EXCEPT !.end = i, !.lines = IF c = Newline THEN s.lines + 1 ELSE s.lines]
  BY Zenon DEF ReadLiteral
<1> DEFINE w == IF c = Newline THEN s.lines + 1 ELSE s.lines
<1>7. w \in Nat
  BY <1>1
<1> HIDE DEF w
<1>8. [s EXCEPT !.end = i, !.lines = w] \in LiteralStates
  BY <1>5, <1>7
<1>9. /\ [s EXCEPT !.escaped = FALSE, !.end = i] \in LiteralStates
      /\ [s EXCEPT !.escaped = TRUE, !.end = i + 1] \in LiteralStates
      /\ [s EXCEPT !.closed = TRUE, !.end = i] \in LiteralStates
  BY <1>1, <1>2, <1>3, <1>4
<1>10. QED BY <1>6, <1>8, <1>9, Zenon DEF w

LEMMA LiteralIs ==
  ASSUME NEW t, Len(t) \in Nat, NEW start \in 0..Len(t)-1, t[start + 1] \in Quotes, NEW s, s = Literal(t, start)
  PROVE  /\ s \in LiteralStates
         /\ s.end \in start+1..Len(t)+1
         /\ s.end > Len(t) => t[Len(t)] = "\\"
         /\ s.end <= Len(t) => Counted(t, start, s.end, s.lines)
<1> DEFINE S == LiteralStates
           n == Len(t) - start - 1
           quote == t[start + 1]
           a == [closed |-> FALSE, escaped |-> FALSE, end |-> start + 1, lines |-> 0]
           F == [k \in 1..n |-> [r \in S |-> ReadLiteral(r, quote, t[start + 1 + k], start + 1 + k)]]
           IsRun(h) == h = [k \in 0..n |-> IF k = 0 THEN a
                                           ELSE ReadLiteral(h[k - 1], quote, t[start + 1 + k], start + 1 + k)]
           g == CHOOSE h : IsRun(h)
<1>1. n \in Nat /\ start \in Nat /\ quote \in Quotes /\ start + 1 + n = Len(t)
  OBVIOUS
<1>2. s = g[n]
  BY Zenon DEF Literal
<1>3. a \in S
  BY DEF LiteralStates
<1>4. Read(t, start, start + 1, a)
  <2>1. NewlinesIn(t, start, start + 1) = NewlinesIn(t, start, start) + 0
    <3>1. t[start + 1] # Newline
      BY DEF Quotes, Newline
    <3>2. QED BY <1>1, <3>1, NewlinesStep
  <2>2. NewlinesIn(t, start, start) = 0
    <3>1. \A i \in start+1..start : t[i] # Newline
      OBVIOUS
    <3>2. QED BY <1>1, <3>1, NewlinesAre
  <2>3. QED BY <2>1, <2>2 DEF Read, Counted
<1> HIDE DEF n, S, a, quote
<1>5. \A k \in 1..n : \A r \in S : F[k][r] \in S
  <2>1. \A k \in 1..n : start + 1 + k \in Nat
    BY <1>1
  <2>2. ASSUME NEW k \in 1..n, NEW r \in S
        PROVE  ReadLiteral(r, quote, t[start + 1 + k], start + 1 + k) \in S
    BY <2>1, <2>2, ReadLiteralTyped DEF S
  <2>3. QED BY <2>2
<1>6. PICK h : Run(h, S, F, a, n)
  <2> HIDE DEF F
  <2>1. QED BY <1>1, <1>3, <1>5, RunExists
<1>7. \A k \in 0..n : h[k] \in S /\ h[k] = IF k = 0 THEN a ELSE F[k][h[k - 1]]
  BY <1>6, Zenon DEF Run
<1>8. h = [k \in 0..n |-> h[k]]
  BY <1>6 DEF Run
<1>9. ASSUME NEW k \in 0..n
      PROVE  h[k] = IF k = 0 THEN a ELSE ReadLiteral(h[k - 1], quote, t[start + 1 + k], start + 1 + k)
  <2>1. k # 0 => k \in 1..n /\ k - 1 \in 0..n
    BY <1>1
  <2>2. k # 0 => h[k - 1] \in S
    BY <1>7, <2>1
  <2>3. QED BY <1>7, <2>1, <2>2
<1>10. IsRun(h)
  <2> HIDE DEF F
  <2>1. QED BY <1>8, <1>9
<1>11. IsRun(g)
  BY <1>10, Zenon
<1>12. g[0] = a /\ \A k \in 1..n : g[k] = ReadLiteral(g[k - 1], quote, t[start + 1 + k], start + 1 + k)
  <2> HIDE DEF g
  <2>1. QED BY <1>1, <1>11
<1> HIDE DEF g
<1> DEFINE T == {k \in 0..n : g[k] \in S /\ Read(t, start, start + 1 + k, g[k])}
<1>13. 0 \in T
  <2>1. start + 1 + 0 = start + 1
    BY <1>1
  <2>2. QED BY <1>1, <1>3, <1>4, <1>12, <2>1
<1>14. \A k \in 0..(n - 1) : k \in T => k + 1 \in T
  <2> SUFFICES ASSUME NEW k \in 0..(n - 1), k \in T PROVE k + 1 \in T
    OBVIOUS
  <2> DEFINE at == start + 1 + k
  <2>1. at \in Nat /\ start < at /\ start + 1 + (k + 1) = at + 1 /\ k + 1 \in 1..n /\ k + 1 - 1 = k /\ k + 1 \in 0..n
    BY <1>1
  <2>2. g[k] \in LiteralStates /\ Read(t, start, at, g[k])
    BY DEF S
  <2> HIDE DEF at, T
  <2>3. g[k + 1] = ReadLiteral(g[k], quote, t[at + 1], at + 1)
    BY <1>12, <2>1
  <2>4. g[k + 1] \in S /\ Read(t, start, at + 1, g[k + 1])
    BY <1>1, <2>1, <2>2, <2>3, ReadLiteralIs DEF S
  <2>5. QED BY <2>1, <2>4 DEF T
<1>15. n \in T
  <2> HIDE DEF T
  <2>1. n \in 0..n
    BY <1>1
  <2>2. QED BY <1>1, <1>13, <1>14, <2>1, UpToBound
<1>16. s \in LiteralStates /\ Read(t, start, Len(t), s)
  BY <1>1, <1>2, <1>15 DEF S
<1>17. QED BY <1>16 DEF Read, LiteralStates

(* The token at an offset, by what it has there. *)
Kinds == {"comment", "string", "identifier", "number", "symbol"}
Tokens == [kind : Kinds, start : Nat, end : Nat, line : Nat, after : Nat]

Reaches(t, i, kind, end, lines) ==
  /\ kind \in Kinds /\ lines \in Nat
  /\ end \in i+1..Len(t)+1
  /\ end > Len(t) => kind = "string" /\ t[Len(t)] = "\\"
  /\ end <= Len(t) => Counted(t, i, end, lines)
  /\ kind \notin {"comment", "string"} => \A o \in i+1..end-1 : t[o + 1] \notin Braces

LEMMA NoNewlines ==
  ASSUME NEW t, NEW i \in Nat, NEW end \in Nat, \A j \in i+1..end : t[j] # Newline
  PROVE  Counted(t, i, end, 0)
BY NewlinesAre DEF Counted

LEMMA CommentEndIs ==
  ASSUME NEW t, Len(t) \in Nat, NEW i \in Nat, i + 2 <= Len(t)
  PROVE  CommentEnd(t, i) \in i+2..Len(t)
<1> DEFINE closes == {j \in i+2..Len(t)-2 : t[j + 1] = "*" /\ t[j + 2] = "/"}
<1>1. CommentEnd(t, i) = IF closes # {} THEN Min(closes) + 2 ELSE Max({i + 2, Len(t) - 1})
  BY Zenon DEF CommentEnd
<1>2. CASE closes # {}
  <2>1. closes \subseteq Nat
    OBVIOUS
  <2>2. Min(closes) \in closes
    <3> HIDE DEF closes
    <3>1. QED BY <1>2, <2>1, MinOf
  <2>3. Min(closes) \in i+2..Len(t)-2
    BY <2>2
  <2> HIDE DEF closes
  <2>4. QED BY <1>1, <1>2, <2>3
<1>3. CASE closes = {}
  <2>1. {i + 2, Len(t) - 1} \subseteq Int
    OBVIOUS
  <2>2. CASE i + 2 <= Len(t) - 1
    <3>1. Len(t) - 1 \in {i + 2, Len(t) - 1} /\ \A y \in {i + 2, Len(t) - 1} : y <= Len(t) - 1
      BY <2>2
    <3>2. Max({i + 2, Len(t) - 1}) = Len(t) - 1
      BY <2>1, <3>1, MaxIs
    <3> HIDE DEF closes
    <3>3. QED BY <1>1, <1>3, <2>2, <3>2
  <2>3. CASE ~(i + 2 <= Len(t) - 1)
    <3>1. i + 2 \in {i + 2, Len(t) - 1} /\ \A y \in {i + 2, Len(t) - 1} : y <= i + 2
      BY <2>3
    <3>2. Max({i + 2, Len(t) - 1}) = i + 2
      BY <2>1, <3>1, MaxIs
    <3> HIDE DEF closes
    <3>3. QED BY <1>1, <1>3, <2>3, <3>2
  <2>4. QED BY <2>2, <2>3
<1>4. QED BY <1>2, <1>3

LEMMA SymbolsDiffer ==
  /\ LeftBrace # RightBrace
  /\ "." # Newline /\ "." \notin Braces
  /\ Newline \notin Braces /\ " " \notin Braces
<1>1. /\ LeftBrace # RightBrace
      /\ "." # Newline /\ "." # LeftBrace /\ "." # RightBrace
      /\ Newline # LeftBrace /\ Newline # RightBrace
      /\ " " # LeftBrace /\ " " # RightBrace
  BY Zenon DEF Newline, LeftBrace, RightBrace
<1>2. QED BY <1>1 DEF Braces

LEMMA TokenFromIs ==
  ASSUME NEW S, NEW t \in Seq(S), NEW i \in 0..Len(t)-1, t[i + 1] \notin Blank, NEW line \in Nat
  PROVE  \E kind, end, lines :
           /\ TokenFrom(t, i, line) = [kind |-> kind, start |-> i, end |-> end, line |-> line, after |-> line + lines]
           /\ Reaches(t, i, kind, end, lines)
<1> DEFINE c == t[i + 1]
           Token(kind, end, lines) == [kind |-> kind, start |-> i, end |-> end, line |-> line, after |-> line + lines]
           token == TokenFrom(t, i, line)
           next == CharAt(t, i + 1)
<1>1. Len(t) \in Nat /\ i \in Nat /\ i < Len(t) /\ i + 1 \in 0..Len(t) /\ i + 1 \in Nat
  OBVIOUS
<1>13. CharAt(t, i) = c
  BY <1>1 DEF CharAt
<1>14. next # "" => i + 2 <= Len(t) /\ t[i + 2] = next
  <2>1. next = IF i + 1 < Len(t) THEN t[i + 1 + 1] ELSE ""
    BY DEF CharAt
  <2>2. i + 1 + 1 = i + 2
    BY <1>1
  <2> HIDE DEF next
  <2>3. CASE i + 1 < Len(t)
    <3>1. i + 2 <= Len(t)
      BY <1>1, <2>3
    <3>2. t[i + 2] = next
      BY <2>1, <2>2, <2>3
    <3>3. QED BY <3>1, <3>2
  <2>4. CASE ~(i + 1 < Len(t))
    BY <2>1, <2>4
  <2>5. QED BY <2>3, <2>4
<1>2. c # Newline
  BY DEF Blank
<1>3. /\ Letters \subseteq IdentifierPart /\ Digits \subseteq IdentifierPart
      /\ Newline \notin IdentifierPart /\ IdentifierPart \intersect Braces = {}
      /\ IdentifierPart \intersect (Quotes \union {"/"}) = {} /\ Letters \intersect Digits = {}
      /\ "/" \notin Quotes
  BY TextScanAssumption DEF IdentifierPart, Blank, Quotes
<1>4. token = CASE c = "/" /\ next = "/" -> Token("comment", RunEnd(t, i + 2, ToSet(t) \ {Newline}), 0)
       [] c = "/" /\ next = "*" -> Token("comment", CommentEnd(t, i), CommentLines(t, i))
       [] c \in Quotes -> Token("string", Literal(t, i).end, Literal(t, i).lines)
       [] c \in Letters -> Token("identifier", RunEnd(t, i + 1, IdentifierPart), 0)
       [] c \in Digits -> Token("number", RunEnd(t, i + 1, Digits \union {"."}), 0)
       [] OTHER -> Token("symbol", IF Slice(t, i, Min({i + 3, Len(t)})) = <<".", ".", ".">> THEN i + 3 ELSE i + 1, 0)
  BY <1>13, Zenon DEF TokenFrom
<1> HIDE DEF token, c, next
<1> USE DEF Kinds
<1>5. CASE c = "/" /\ next = "/"
  <2> DEFINE end == RunEnd(t, i + 2, ToSet(t) \ {Newline})
  <2>1. token = Token("comment", end, 0)
    BY <1>3, <1>4, <1>5
  <2>2. i + 2 <= Len(t) /\ t[i + 2] = "/" /\ i + 2 \in 0..Len(t)
    BY <1>1, <1>5, <1>14
  <2>3. end \in i+2..Len(t) /\ \A j \in i+3..end : t[j] # Newline
    <3>1. end \in i+2..Len(t) /\ \A j \in (i+2)+1..end : t[j] \in ToSet(t) \ {Newline}
      BY <1>1, <2>2, RunEndIs
    <3>2. (i + 2) + 1 = i + 3
      BY <1>1
    <3> HIDE DEF end
    <3>3. QED BY <3>1, <3>2
  <2> HIDE DEF end
  <2>4. \A j \in i+1..end : t[j] # Newline
    <3>1. \A j \in i+1..end : j = i + 1 \/ j = i + 2 \/ j \in i+3..end
      BY <2>3
    <3>2. QED BY <1>2, <2>2, <2>3, <3>1 DEF Newline, c
  <2>5. end \in Nat /\ end \in i+1..Len(t)
    BY <2>3
  <2>6. Counted(t, i, end, 0)
    BY <1>1, <2>4, <2>5, NoNewlines
  <2>7. Reaches(t, i, "comment", end, 0)
    BY <2>5, <2>6 DEF Reaches
  <2>8. QED BY <2>1, <2>7 DEF token
<1>6. CASE c = "/" /\ next = "*"
  <2> DEFINE end == CommentEnd(t, i)
             lines == NewlinesIn(t, i + 2, end)
  <2>1. token = Token("comment", end, lines)
    <3>1. CommentLines(t, i) = lines
      BY DEF CommentLines
    <3>2. QED BY <1>3, <1>4, <1>6, <3>1
  <2>2. i + 2 <= Len(t) /\ t[i + 2] = "*"
    BY <1>1, <1>6, <1>14
  <2>3. end \in i+2..Len(t)
    BY <1>1, <2>2, CommentEndIs
  <2> HIDE DEF end, lines
  <2>4. i + 2 \in Nat /\ end \in Nat /\ i + 2 \in i..end /\ end \in i+1..Len(t)
    BY <1>1, <2>3
  <2>5. NewlinesIn(t, i, end) = NewlinesIn(t, i, i + 2) + lines
    BY <1>1, <2>4, NewlinesSplit DEF lines
  <2>6. NewlinesIn(t, i, i + 2) = 0
    <3>1. \A j \in i+1..i+2 : j = i + 1 \/ j = i + 2
      OBVIOUS
    <3>2. \A j \in i+1..i+2 : t[j] # Newline
      BY <1>2, <2>2, <3>1 DEF Newline, c
    <3>3. QED BY <1>1, <2>4, <3>2, NewlinesAre
  <2>7. lines \in Nat
    BY <2>4, NewlinesAre DEF lines
  <2>8. Counted(t, i, end, lines)
    BY <2>5, <2>6, <2>7 DEF Counted
  <2>9. Reaches(t, i, "comment", end, lines)
    BY <2>4, <2>7, <2>8 DEF Reaches
  <2>10. QED BY <2>1, <2>9 DEF token
<1>7. CASE c \in Quotes
  <2> DEFINE s == Literal(t, i)
  <2>1. token = Token("string", s.end, s.lines)
    BY <1>3, <1>4, <1>7
  <2>2. /\ s \in LiteralStates
        /\ s.end \in i+1..Len(t)+1
        /\ s.end > Len(t) => t[Len(t)] = "\\"
        /\ s.end <= Len(t) => Counted(t, i, s.end, s.lines)
    BY <1>1, <1>7, LiteralIs DEF c
  <2> HIDE DEF s
  <2>3. Reaches(t, i, "string", s.end, s.lines)
    BY <2>2 DEF Reaches, LiteralStates
  <2>4. QED BY <2>1, <2>3 DEF token
<1>8. ASSUME NEW set, Newline \notin set, set \intersect Braces = {}, NEW kind \in Kinds,
             token = Token(kind, RunEnd(t, i + 1, set), 0)
      PROVE  \E k, end, lines : token = Token(k, end, lines) /\ Reaches(t, i, k, end, lines)
  <2> DEFINE end == RunEnd(t, i + 1, set)
  <2>1. end \in i+1..Len(t) /\ \A j \in i+1+1..end : t[j] \in set
    BY <1>1, RunEndIs
  <2> HIDE DEF end
  <2>2. \A j \in i+1..end : t[j] # Newline
    <3>1. \A j \in i+1..end : j = i + 1 \/ j \in i+1+1..end
      BY <2>1
    <3>2. QED BY <1>2, <1>8, <2>1, <3>1 DEF c
  <2>3. end \in Nat
    BY <2>1
  <2>4. Counted(t, i, end, 0)
    BY <1>1, <2>2, <2>3, NoNewlines
  <2>5. \A o \in i+1..end-1 : t[o + 1] \notin Braces
    <3>1. \A o \in i+1..end-1 : o + 1 \in i+1+1..end
      BY <2>1
    <3>2. QED BY <1>8, <2>1, <3>1
  <2>6. Reaches(t, i, kind, end, 0)
    BY <2>1, <2>4, <2>5 DEF Reaches
  <2>7. QED BY <1>8, <2>6 DEF end
<1>9. CASE c \in Letters
  <2>1. token = Token("identifier", RunEnd(t, i + 1, IdentifierPart), 0)
    BY <1>3, <1>4, <1>9
  <2> HIDE DEF Token
  <2>2. \E k, end, lines : token = Token(k, end, lines) /\ Reaches(t, i, k, end, lines)
    BY <1>3, <1>8, <2>1
  <2>3. QED BY <2>2 DEF token, Token
<1>10. CASE c \in Digits
  <2>1. token = Token("number", RunEnd(t, i + 1, Digits \union {"."}), 0)
    BY <1>3, <1>4, <1>10
  <2>2. Newline \notin Digits \union {"."} /\ (Digits \union {"."}) \intersect Braces = {}
    BY <1>3, SymbolsDiffer
  <2> HIDE DEF Token
  <2>3. \E k, end, lines : token = Token(k, end, lines) /\ Reaches(t, i, k, end, lines)
    BY <1>8, <2>1, <2>2
  <2>4. QED BY <2>3 DEF token, Token
<1>11. CASE ~(c = "/" /\ next \in {"/", "*"}) /\ c \notin Quotes /\ c \notin Letters /\ c \notin Digits
  <2> DEFINE dots == Slice(t, i, Min({i + 3, Len(t)})) = <<".", ".", ".">>
             end == IF dots THEN i + 3 ELSE i + 1
  <2>1. token = Token("symbol", end, 0)
    BY <1>4, <1>11
  <2>2. CASE ~dots
    <3>1. end = i + 1
      BY <2>2
    <3>2. Counted(t, i, i + 1, 0)
      <4>1. \A j \in i+1..i+1 : t[j] # Newline
        BY <1>2 DEF c
      <4>2. QED BY <1>1, <4>1, NoNewlines
    <3> HIDE DEF end
    <3>3. Reaches(t, i, "symbol", end, 0)
      BY <1>1, <3>1, <3>2 DEF Reaches
    <3>4. QED BY <2>1, <3>3 DEF token
  <2>3. CASE dots
    <3>1. end = i + 3
      BY <2>3
    <3> DEFINE to == Min({i + 3, Len(t)})
    <3>2. to = IF i + 3 <= Len(t) THEN i + 3 ELSE Len(t)
      BY <1>1, MinOfTwo
    <3>3. Slice(t, i, to) = <<".", ".", ".">>
      BY <2>3
    <3> HIDE DEF to, dots, end
    <3>4. to \in 0..Len(t) /\ i \in 0..Len(t) /\ i <= to
      BY <1>1, <3>2
    <3>5. Len(Slice(t, i, to)) = to - i /\ \A j \in 1..(to - i) : Slice(t, i, to)[j] = t[i + j]
      BY <3>4, SliceParts
    <3>6. to - i = 3 /\ to = i + 3 /\ i + 3 <= Len(t)
      <4>1. Len(<<".", ".", ".">>) = 3
        OBVIOUS
      <4>2. to - i = 3
        BY <3>3, <3>5, <4>1
      <4>3. QED BY <1>1, <3>2, <3>4, <4>2
    <3>7. t[i + 1] = "." /\ t[i + 2] = "." /\ t[i + 3] = "."
      BY <3>3, <3>5, <3>6
    <3>8. Counted(t, i, i + 3, 0)
      <4>1. \A j \in i+1..i+3 : j = i + 1 \/ j = i + 2 \/ j = i + 3
        OBVIOUS
      <4>2. \A j \in i+1..i+3 : t[j] # Newline
        BY <3>7, <4>1, SymbolsDiffer
      <4>3. i + 3 \in Nat
        BY <1>1
      <4>4. QED BY <1>1, <4>2, <4>3, NoNewlines
    <3>9. \A o \in i+1..(i + 3)-1 : t[o + 1] \notin Braces
      <4>1. \A o \in i+1..(i + 3)-1 : o + 1 = i + 2 \/ o + 1 = i + 3
        OBVIOUS
      <4>2. QED BY <3>7, <4>1, SymbolsDiffer
    <3>10. Reaches(t, i, "symbol", end, 0)
      BY <1>1, <3>1, <3>6, <3>8, <3>9 DEF Reaches
    <3>11. QED BY <2>1, <3>10 DEF token
  <2>4. QED BY <2>2, <2>3
<1>12. QED BY <1>5, <1>6, <1>7, <1>9, <1>10, <1>11

LEMMA CountedOn ==
  ASSUME NEW t, NEW at \in Nat, NEW end \in Nat, at <= end, NEW line, Counted(t, 0, at, line),
         NEW lines, Counted(t, at, end, lines)
  PROVE  Counted(t, 0, end, line + lines)
<1>1. CASE line = NewlinesIn(t, 0, at) /\ lines = NewlinesIn(t, at, end)
  <2>1. at \in 0..end
    OBVIOUS
  <2>2. QED BY <1>1, <2>1, NewlinesSplit DEF Counted
<1>2. CASE \E j \in 0+1..at : Escaped(t, j)
  BY <1>2 DEF Counted
<1>3. CASE \E j \in at+1..end : Escaped(t, j)
  BY <1>3 DEF Counted
<1>4. QED BY <1>1, <1>2, <1>3 DEF Counted

(* A token of a text, and what the loop has read at an offset.             *)
IsToken(t, token) ==
  /\ token \in Tokens
  /\ token.start \in 0..Len(t)-1 /\ token.end \in token.start+1..Len(t)+1
  /\ token.end > Len(t) => token.kind = "string" /\ t[Len(t)] = "\\"
  /\ Counted(t, 0, token.start, token.line)
  /\ token.kind \notin {"comment", "string"} => \A o \in token.start+1..token.end-1 : t[o + 1] \notin Braces

Tiles(t, tokens, at) ==
  /\ tokens \in Seq(Tokens)
  /\ \A i \in DOMAIN tokens : IsToken(t, tokens[i]) /\ tokens[i].end <= at
  /\ \A i, j \in DOMAIN tokens : i < j => tokens[i].end <= tokens[j].start
  /\ \A o \in 0..Len(t)-1 : o < at => \/ t[o + 1] \in Blank
                                      \/ \E i \in DOMAIN tokens : o \in tokens[i].start..tokens[i].end-1

LexStates == [tokens : Seq(Tokens), at : Nat, line : Nat]

Lexed(t, k, s) ==
  /\ s \in LexStates
  /\ s.at \in k..Len(t)+1
  /\ s.at <= Len(t) => Counted(t, 0, s.at, s.line)
  /\ Tiles(t, s.tokens, s.at)

LEMMA TilesAppend ==
  ASSUME NEW t, Len(t) \in Nat, NEW tokens, NEW at \in Nat, Tiles(t, tokens, at),
         NEW token, IsToken(t, token), token.start = at
  PROVE  Tiles(t, Append(tokens, token), token.end)
<1> DEFINE n == Len(tokens)
           u == Append(tokens, token)
<1>1. /\ tokens \in Seq(Tokens) /\ token \in Tokens /\ token.end \in Nat /\ at < token.end
      /\ n \in Nat /\ DOMAIN tokens = 1..n
  <2>1. tokens \in Seq(Tokens) /\ token \in Tokens /\ at < token.end
    BY DEF Tiles, IsToken
  <2>2. QED BY <2>1 DEF Tokens
<1>2. /\ u \in Seq(Tokens) /\ DOMAIN u = 1..n+1 /\ u[n + 1] = token
      /\ \A i \in 1..n : u[i] = tokens[i]
  BY <1>1
<1> HIDE DEF u, n
<1>3. \A i \in 1..n+1 : i \in 1..n \/ i = n + 1
  BY <1>1
<1>4. \A i \in 1..n : IsToken(t, tokens[i]) /\ tokens[i].end <= at /\ tokens[i].end \in Nat
  <2>1. \A i \in 1..n : IsToken(t, tokens[i]) /\ tokens[i].end <= at
    BY <1>1 DEF Tiles
  <2>2. QED BY <2>1 DEF IsToken, Tokens
<1>5. \A i \in DOMAIN u : IsToken(t, u[i]) /\ u[i].end <= token.end
  BY <1>1, <1>2, <1>3, <1>4
<1>6. ASSUME NEW i \in DOMAIN u, NEW j \in DOMAIN u, i < j PROVE u[i].end <= u[j].start
  <2>1. i \in 1..n
    BY <1>1, <1>2, <1>6
  <2>2. CASE j \in 1..n
    BY <1>1, <1>2, <1>6, <2>1, <2>2 DEF Tiles
  <2>3. CASE j = n + 1
    BY <1>2, <1>4, <2>1, <2>3
  <2>4. QED BY <1>2, <1>3, <2>2, <2>3
<1>7. ASSUME NEW o \in 0..Len(t)-1, o < token.end, t[o + 1] \notin Blank
      PROVE  \E i \in DOMAIN u : o \in u[i].start..u[i].end-1
  <2>1. CASE o < at
    <3>1. PICK i \in 1..n : o \in tokens[i].start..tokens[i].end-1
      BY <1>1, <1>7, <2>1 DEF Tiles
    <3>2. i \in 1..n+1 /\ u[i] = tokens[i]
      BY <1>1, <1>2
    <3>3. QED BY <1>2, <3>1, <3>2
  <2>2. CASE ~(o < at)
    <3>1. o \in token.start..token.end-1
      BY <1>1, <1>7, <2>2
    <3>2. n + 1 \in 1..n+1
      BY <1>1
    <3>3. QED BY <1>2, <3>1, <3>2
  <2>3. QED BY <2>1, <2>2
<1>8. QED BY <1>2, <1>5, <1>6, <1>7 DEF Tiles, u

LEMMA LexAtIs ==
  ASSUME NEW S, NEW t \in Seq(S), NEW k \in 0..Len(t)-1, NEW s, Lexed(t, k, s)
  PROVE  Lexed(t, k + 1, LexAt(s, t, k))
<1> DEFINE c == t[k + 1]
           r == LexAt(s, t, k)
<1>1. Len(t) \in Nat /\ k \in Nat /\ k < Len(t) /\ k + 1 \in 0..Len(t) /\ k + 1 \in Nat
  OBVIOUS
<1>2. CharAt(t, k) = c
  BY <1>1 DEF CharAt
<1>3. s \in LexStates /\ s.tokens \in Seq(Tokens) /\ s.at \in Nat /\ s.line \in Nat /\ s.at \in k..Len(t)+1
  BY DEF Lexed, LexStates
<1>4. CASE k < s.at
  <2>1. r = s
    BY <1>4, Zenon DEF LexAt
  <2>2. s.at \in k+1..Len(t)+1
    BY <1>1, <1>3, <1>4
  <2>3. QED BY <2>1, <2>2 DEF Lexed
<1>5. ASSUME ~(k < s.at)
      PROVE  s.at = k /\ Counted(t, 0, k, s.line) /\ Tiles(t, s.tokens, k)
  <2>1. s.at = k
    BY <1>1, <1>3, <1>5
  <2>2. QED BY <1>1, <2>1 DEF Lexed
<1>6. CASE ~(k < s.at) /\ c \in Blank
  <2> DEFINE line == IF c = Newline THEN s.line + 1 ELSE s.line
  <2>1. r = [s EXCEPT !.at = k + 1, !.line = line]
    BY <1>2, <1>6, Zenon DEF LexAt
  <2>2. line \in Nat /\ line = s.line + (IF c = Newline THEN 1 ELSE 0)
    BY <1>3
  <2> HIDE DEF line
  <2>3. r = [tokens |-> s.tokens, at |-> k + 1, line |-> line]
    BY <1>3, <2>1 DEF LexStates
  <2> HIDE DEF r
  <2>4. r \in LexStates
    BY <1>1, <1>3, <2>2, <2>3 DEF LexStates
  <2>5. r.tokens = s.tokens /\ r.at = k + 1 /\ r.line = line
    BY <2>3
  <2>6. Counted(t, k, k + 1, IF c = Newline THEN 1 ELSE 0)
    <3>1. NewlinesIn(t, k, k + 1) = NewlinesIn(t, k, k) + (IF c = Newline THEN 1 ELSE 0)
      BY <1>1, NewlinesStep
    <3>2. \A i \in k+1..k : t[i] # Newline
      BY <1>1
    <3>3. NewlinesIn(t, k, k) = 0
      BY <1>1, <3>2, NewlinesAre
    <3>4. QED BY <3>1, <3>3 DEF Counted
  <2>7. Counted(t, 0, k + 1, line)
    <3>1. k <= k + 1
      BY <1>1
    <3>2. QED BY <1>1, <1>5, <1>6, <2>2, <2>6, <3>1, CountedOn
  <2>8. Tiles(t, s.tokens, k + 1)
    <3>1. Tiles(t, s.tokens, k)
      BY <1>5, <1>6
    <3>2. \A i \in DOMAIN s.tokens : s.tokens[i].end <= k + 1
      <4>1. \A i \in DOMAIN s.tokens : IsToken(t, s.tokens[i]) /\ s.tokens[i].end <= k
        BY <3>1 DEF Tiles
      <4>2. \A i \in DOMAIN s.tokens : s.tokens[i].end \in Nat
        BY <4>1 DEF IsToken, Tokens
      <4>3. QED BY <1>1, <4>1, <4>2
    <3>3. \A o \in 0..Len(t)-1 : o < k + 1 => o < k \/ t[o + 1] \in Blank
      <4>1. \A o \in 0..Len(t)-1 : o < k + 1 => o < k \/ o = k
        BY <1>1
      <4>2. QED BY <1>6, <4>1
    <3>4. QED BY <3>1, <3>2, <3>3 DEF Tiles
  <2>9. k + 1 \in k+1..Len(t)+1
    BY <1>1
  <2>10. QED BY <2>4, <2>5, <2>7, <2>8, <2>9 DEF Lexed, r
<1>7. CASE ~(k < s.at) /\ c \notin Blank
  <2> DEFINE token == TokenFrom(t, k, s.line)
  <2>1. r = [tokens |-> Append(s.tokens, token), at |-> token.end, line |-> token.after]
    BY <1>2, <1>7, Zenon DEF LexAt
  <2>2. PICK kind, end, lines :
           /\ token = [kind |-> kind, start |-> k, end |-> end, line |-> s.line, after |-> s.line + lines]
           /\ Reaches(t, k, kind, end, lines)
    BY <1>3, <1>7, TokenFromIs
  <2> HIDE DEF token, r
  <2>3. /\ kind \in Kinds /\ lines \in Nat /\ end \in Nat
        /\ end \in k+1..Len(t)+1
        /\ end > Len(t) => kind = "string" /\ t[Len(t)] = "\\"
        /\ end <= Len(t) => Counted(t, k, end, lines)
        /\ kind \notin {"comment", "string"} => \A o \in k+1..end-1 : t[o + 1] \notin Braces
    BY <1>1, <2>2 DEF Reaches
  <2>4. s.line + lines \in Nat
    BY <1>3, <2>3
  <2>5. token \in Tokens
    BY <1>1, <1>3, <2>2, <2>3, <2>4 DEF Tokens
  <2>6. token.kind = kind /\ token.start = k /\ token.end = end /\ token.line = s.line /\ token.after = s.line + lines
    BY <2>2
  <2>7. IsToken(t, token)
    BY <1>1, <1>5, <1>7, <2>3, <2>5, <2>6 DEF IsToken
  <2>8. Tiles(t, Append(s.tokens, token), end)
    BY <1>1, <1>5, <1>7, <2>6, <2>7, TilesAppend
  <2>9. r = [tokens |-> Append(s.tokens, token), at |-> end, line |-> s.line + lines]
    BY <2>1, <2>6
  <2>10. Append(s.tokens, token) \in Seq(Tokens)
    BY <1>3, <2>5
  <2>11. r \in LexStates
    BY <2>3, <2>4, <2>9, <2>10 DEF LexStates
  <2>12. r.tokens = Append(s.tokens, token) /\ r.at = end /\ r.line = s.line + lines
    BY <2>9
  <2>13. end <= Len(t) => Counted(t, 0, end, s.line + lines)
    <3>1. k <= end
      BY <1>1, <2>3
    <3>2. QED BY <1>1, <1>5, <1>7, <2>3, <3>1, CountedOn
  <2>14. QED BY <2>3, <2>8, <2>11, <2>12, <2>13 DEF Lexed, r
<1>8. QED BY <1>4, <1>6, <1>7

LEMMA LexAtTyped ==
  ASSUME NEW S, NEW t \in Seq(S), NEW k \in 0..Len(t)-1, NEW s \in LexStates
  PROVE  LexAt(s, t, k) \in LexStates
<1> DEFINE c == t[k + 1]
           r == LexAt(s, t, k)
<1>1. Len(t) \in Nat /\ k \in Nat /\ k < Len(t) /\ k + 1 \in Nat
  OBVIOUS
<1>2. CharAt(t, k) = c
  BY <1>1 DEF CharAt
<1>3. s.tokens \in Seq(Tokens) /\ s.at \in Nat /\ s.line \in Nat /\ s.line + 1 \in Nat
  BY DEF LexStates
<1>4. CASE k < s.at
  BY <1>4, Zenon DEF LexAt
<1>5. CASE ~(k < s.at) /\ c \in Blank
  <2> DEFINE line == IF c = Newline THEN s.line + 1 ELSE s.line
  <2>1. r = [s EXCEPT !.at = k + 1, !.line = line]
    BY <1>2, <1>5, Zenon DEF LexAt
  <2>2. line \in Nat
    BY <1>3
  <2> HIDE DEF line, r
  <2>3. r \in LexStates
    BY <1>1, <1>3, <2>1, <2>2 DEF LexStates
  <2>4. QED BY <2>3 DEF r
<1>6. CASE ~(k < s.at) /\ c \notin Blank
  <2> DEFINE token == TokenFrom(t, k, s.line)
  <2>1. r = [tokens |-> Append(s.tokens, token), at |-> token.end, line |-> token.after]
    BY <1>2, <1>6, Zenon DEF LexAt
  <2>2. PICK kind, end, lines :
           /\ token = [kind |-> kind, start |-> k, end |-> end, line |-> s.line, after |-> s.line + lines]
           /\ Reaches(t, k, kind, end, lines)
    BY <1>3, <1>6, TokenFromIs
  <2> HIDE DEF token, r
  <2>3. kind \in Kinds /\ lines \in Nat /\ end \in k+1..Len(t)+1
    BY <2>2 DEF Reaches
  <2>4. s.line + lines \in Nat /\ end \in Nat
    BY <1>1, <1>3, <2>3
  <2>5. token \in Tokens
    BY <1>1, <1>3, <2>2, <2>3, <2>4 DEF Tokens
  <2>6. Append(s.tokens, token) \in Seq(Tokens)
    BY <1>3, <2>5
  <2>7. token.end \in Nat /\ token.after \in Nat
    BY <2>2, <2>4
  <2>8. r \in LexStates
    BY <2>1, <2>6, <2>7 DEF LexStates
  <2>9. QED BY <2>8 DEF r
<1>7. QED BY <1>4, <1>5, <1>6

(* The tokens of a text are tokens, and tile it.                           *)
LEMMA LexIs ==
  ASSUME NEW S, NEW t \in Seq(S)
  PROVE  \E at \in Len(t)..Len(t)+1 : Tiles(t, Lex(t), at)
<1> DEFINE n == Len(t)
           a == [tokens |-> <<>>, at |-> 0, line |-> 0]
           F == [k \in 1..n |-> [r \in LexStates |-> LexAt(r, t, k - 1)]]
           IsRun(h) == h = [k \in 0..n |-> IF k = 0 THEN a ELSE LexAt(h[k - 1], t, k - 1)]
           g == CHOOSE h : IsRun(h)
<1>1. n \in Nat
  OBVIOUS
<1>2. Lex(t) = g[n].tokens
  BY Zenon DEF Lex
<1>3. a \in LexStates
  BY DEF LexStates
<1>4. Lexed(t, 0, a)
  <2>1. NewlinesIn(t, 0, 0) = 0
    <3>1. \A i \in 0+1..0 : t[i] # Newline
      OBVIOUS
    <3>2. QED BY <3>1, NewlinesAre
  <2>2. a.tokens = <<>> /\ a.at = 0 /\ a.line = 0
    OBVIOUS
  <2>3. Counted(t, 0, 0, 0)
    BY <2>1 DEF Counted
  <2>4. Tiles(t, <<>>, 0)
    BY <1>1 DEF Tiles
  <2> HIDE DEF a
  <2>5. QED BY <1>1, <1>3, <2>2, <2>3, <2>4 DEF Lexed
<1> HIDE DEF a
<1>5. \A k \in 1..n : \A r \in LexStates : F[k][r] \in LexStates
  <2>1. \A k \in 1..n : k - 1 \in 0..n-1
    OBVIOUS
  <2>2. ASSUME NEW k \in 1..n, NEW r \in LexStates PROVE LexAt(r, t, k - 1) \in LexStates
    BY <2>1, <2>2, LexAtTyped
  <2>3. QED BY <2>2
<1> HIDE DEF n
<1>6. PICK h : Run(h, LexStates, F, a, n)
  <2> HIDE DEF F
  <2>1. QED BY <1>1, <1>3, <1>5, RunExists
<1>7. \A k \in 0..n : h[k] \in LexStates /\ h[k] = IF k = 0 THEN a ELSE F[k][h[k - 1]]
  BY <1>6, Zenon DEF Run
<1>8. h = [k \in 0..n |-> h[k]]
  BY <1>6 DEF Run
<1>9. ASSUME NEW k \in 0..n
      PROVE  h[k] = IF k = 0 THEN a ELSE LexAt(h[k - 1], t, k - 1)
  <2>1. k # 0 => k \in 1..n /\ k - 1 \in 0..n
    BY <1>1
  <2>2. k # 0 => h[k - 1] \in LexStates
    BY <1>7, <2>1
  <2>3. QED BY <1>7, <2>1, <2>2
<1>10. IsRun(h)
  <2> HIDE DEF F
  <2>1. QED BY <1>8, <1>9
<1>11. IsRun(g)
  BY <1>10, Zenon
<1>12. g[0] = a /\ \A k \in 1..n : g[k] = LexAt(g[k - 1], t, k - 1)
  <2> HIDE DEF g
  <2>1. QED BY <1>1, <1>11
<1> HIDE DEF g
<1> DEFINE T == {k \in 0..n : Lexed(t, k, g[k])}
<1>13. 0 \in T
  BY <1>1, <1>4, <1>12
<1>14. \A k \in 0..(n - 1) : k \in T => k + 1 \in T
  <2> SUFFICES ASSUME NEW k \in 0..(n - 1), k \in T PROVE k + 1 \in T
    OBVIOUS
  <2>1. k + 1 \in 1..n /\ k + 1 - 1 = k /\ k + 1 \in 0..n /\ k \in 0..Len(t)-1
    BY <1>1 DEF n
  <2>2. g[k + 1] = LexAt(g[k], t, k)
    BY <1>12, <2>1
  <2>3. Lexed(t, k + 1, g[k + 1])
    BY <2>1, <2>2, LexAtIs
  <2>4. QED BY <2>1, <2>3
<1>15. n \in T
  <2> HIDE DEF T
  <2>1. n \in 0..n
    BY <1>1
  <2>2. QED BY <1>1, <1>13, <1>14, <2>1, UpToBound
<1>16. Lexed(t, Len(t), g[n])
  BY <1>15 DEF n
<1>17. QED BY <1>2, <1>16 DEF Lexed

(* The tokens of a text tile it and carry their lines (analysis.go, lex).  *)
THEOREM TokensTileAlways == Spec => []TokensTile
<1>1. Typed => TokensTile
  <2> SUFFICES ASSUME Typed PROVE TokensTile
    OBVIOUS
  <2> DEFINE tokens == Lex(text)
  <2>1. text \in Seq(Characters) /\ Len(text) \in Nat
    BY DEF Typed
  <2>2. PICK at \in Len(text)..Len(text)+1 : Tiles(text, tokens, at)
    BY <2>1, LexIs
  <2> HIDE DEF tokens
  <2>3. /\ tokens \in Seq(Tokens)
        /\ \A i \in DOMAIN tokens : IsToken(text, tokens[i])
        /\ \A i, j \in DOMAIN tokens : i < j => tokens[i].end <= tokens[j].start
    BY <2>2 DEF Tiles
  <2>4. \A i \in DOMAIN tokens : tokens[i].start < tokens[i].end
    BY <2>3 DEF IsToken, Tokens
  <2>5. \A i \in 1..Len(tokens)-1 : tokens[i].end <= tokens[i + 1].start
    <3>1. \A i \in 1..Len(tokens)-1 : i \in DOMAIN tokens /\ i + 1 \in DOMAIN tokens /\ i < i + 1
      BY <2>3
    <3>2. QED BY <2>3, <3>1
  <2>6. \A o \in 0..Len(text)-1 : \/ text[o + 1] \in Blank
                                  \/ \E i \in DOMAIN tokens : o \in tokens[i].start..tokens[i].end-1
    <3>1. \A o \in 0..Len(text)-1 : o < at
      BY <2>1, <2>2
    <3>2. QED BY <2>2, <3>1 DEF Tiles
  <2>7. tokens # <<>> /\ Last(tokens).end > Len(text) => Last(tokens).kind = "string" /\ Last(text) = "\\"
    <3>1. tokens # <<>> => Len(tokens) \in DOMAIN tokens
      BY <2>3
    <3>2. QED BY <2>3, <3>1, Zenon DEF IsToken, Last
  <2>8. \A i \in DOMAIN tokens : tokens[i].line = NewlinesIn(text, 0, tokens[i].start)
                                   \/ \E j \in 1..tokens[i].start : Escaped(text, j)
    <3>1. 0 + 1 = 1
      OBVIOUS
    <3>2. QED BY <2>3, <3>1, Zenon DEF IsToken, Counted
  <2>9. QED BY <2>4, <2>5, <2>6, <2>7, <2>8, Zenon DEF TokensTile, tokens, Escaped
<1>2. QED BY <1>1, AlwaysTyped, PTL
------------------------------------------------------------------------------
(* Braces: how many there are in front of an offset. *)
Count(t, c, k) == Cardinality({j \in 1..k : t[j] = c})

LEMMA CountStep ==
  ASSUME NEW t, NEW c, NEW k \in Nat
  PROVE  /\ Count(t, c, k) \in Nat
         /\ Count(t, c, 0) = 0
         /\ Count(t, c, k + 1) = Count(t, c, k) + (IF t[k + 1] = c THEN 1 ELSE 0)
<1> DEFINE P(m) == {j \in 1..m : t[j] = c}
<1>1. IsFiniteSet(P(k)) /\ Cardinality(P(k)) \in Nat
  <2>1. IsFiniteSet(1..k)
    BY FS_Interval
  <2>2. IsFiniteSet(P(k))
    BY <2>1, FS_Subset
  <2> HIDE DEF P
  <2>3. QED BY <2>2, FS_CardinalityType
<1>2. P(0) = {}
  OBVIOUS
<1>3. CASE t[k + 1] = c
  <2>1. P(k + 1) = P(k) \union {k + 1} /\ k + 1 \notin P(k)
    BY <1>3
  <2>2. Cardinality(P(k) \union {k + 1}) = Cardinality(P(k)) + 1
    <3>1. k + 1 \notin P(k)
      BY <2>1
    <3> HIDE DEF P
    <3>2. QED BY <1>1, <3>1, FS_AddElement
  <2>3. QED BY <1>1, <1>2, <1>3, <2>1, <2>2, FS_EmptySet DEF Count
<1>4. CASE t[k + 1] # c
  <2>1. P(k + 1) = P(k)
    <3>1. \A j \in 1..k+1 : j \in 1..k \/ j = k + 1
      OBVIOUS
    <3>2. QED BY <1>4, <3>1
  <2>2. QED BY <1>1, <1>2, <1>4, <2>1, FS_EmptySet DEF Count
<1>5. QED BY <1>3, <1>4

(* The diagnostics find the braces balanced if no prefix closes too much   *)
(* and the text closes as much as it opens.                                *)
LEMMA BraceDiagnosticsIs ==
  ASSUME NEW t, Len(t) \in Nat
  PROVE  BraceDiagnostics(t) = "none" <=>
           /\ \A k \in 0..Len(t) : Count(t, LeftBrace, k) >= Count(t, RightBrace, k)
           /\ Count(t, LeftBrace, Len(t)) = Count(t, RightBrace, Len(t))
<1> DEFINE n == Len(t)
           F == [k \in 1..n |-> [d \in Int |-> CountBrace(d, t[k])]]
           IsRun(h) == h = [k \in 0..n |-> IF k = 0 THEN 0 ELSE CountBrace(h[k - 1], t[k])]
           g == CHOOSE h : IsRun(h)
           Ahead(k) == Count(t, LeftBrace, k) >= Count(t, RightBrace, k)
<1>1. BraceDiagnostics(t) = IF g[n] < 0 THEN "unexpected" ELSE IF g[n] > 0 THEN "missing" ELSE "none"
  BY Zenon DEF BraceDiagnostics
<1>2. \A c : \A d \in Int : CountBrace(d, c) \in Int
  BY DEF CountBrace
<1> HIDE DEF n
<1>3. n \in Nat
  BY DEF n
<1>4. \A k \in 1..n : \A d \in Int : F[k][d] \in Int
  BY <1>2
<1>5. PICK h : Run(h, Int, F, 0, n)
  <2> HIDE DEF F
  <2>1. 0 \in Int
    OBVIOUS
  <2>2. QED BY <1>3, <1>4, <2>1, RunExists
<1>6. \A k \in 0..n : h[k] \in Int /\ h[k] = IF k = 0 THEN 0 ELSE F[k][h[k - 1]]
  BY <1>5, Zenon DEF Run
<1>7. h = [k \in 0..n |-> h[k]]
  BY <1>5 DEF Run
<1>8. ASSUME NEW k \in 0..n
      PROVE  h[k] = IF k = 0 THEN 0 ELSE CountBrace(h[k - 1], t[k])
  <2>1. k # 0 => k \in 1..n /\ k - 1 \in 0..n
    BY <1>3
  <2>2. k # 0 => h[k - 1] \in Int
    BY <1>6, <2>1
  <2>3. QED BY <1>6, <2>1, <2>2
<1>9. IsRun(h)
  <2> HIDE DEF F
  <2>1. QED BY <1>7, <1>8
<1>10. IsRun(g)
  BY <1>9, Zenon
<1>11. g[0] = 0 /\ \A k \in 1..n : g[k] = CountBrace(g[k - 1], t[k])
  <2> HIDE DEF g
  <2>1. QED BY <1>3, <1>10
<1> HIDE DEF g
<1> DEFINE T == {k \in 0..n : /\ g[k] \in Int
                              /\ g[k] >= 0 => /\ g[k] = Count(t, LeftBrace, k) - Count(t, RightBrace, k)
                                              /\ \A j \in 0..k : Ahead(j)
                              /\ g[k] < 0 => \E j \in 0..k : ~Ahead(j)}
<1>12. 0 \in T
  <2>1. Count(t, LeftBrace, 0) = 0 /\ Count(t, RightBrace, 0) = 0
    BY CountStep
  <2>2. \A j \in 0..0 : Ahead(j)
    <3>1. \A j \in 0..0 : j = 0
      OBVIOUS
    <3>2. QED BY <2>1, <3>1
  <2>3. 0 \in 0..n
    BY <1>3
  <2> HIDE DEF Ahead
  <2>4. QED BY <1>11, <2>1, <2>2, <2>3
<1>13. \A k \in 0..(n - 1) : k \in T => k + 1 \in T
  <2> SUFFICES ASSUME NEW k \in 0..(n - 1), k \in T PROVE k + 1 \in T
    OBVIOUS
  <2>11. /\ g[k] \in Int
         /\ g[k] >= 0 => g[k] = Count(t, LeftBrace, k) - Count(t, RightBrace, k) /\ \A j \in 0..k : Ahead(j)
         /\ g[k] < 0 => \E j \in 0..k : ~Ahead(j)
    OBVIOUS
  <2> HIDE DEF T
  <2> DEFINE c == t[k + 1]
             opened == Count(t, LeftBrace, k)
             closed == Count(t, RightBrace, k)
  <2>1. k \in Nat /\ k + 1 \in 1..n /\ k + 1 - 1 = k /\ k + 1 \in 0..n
    BY <1>3
  <2>2. /\ opened \in Nat /\ closed \in Nat
        /\ Count(t, LeftBrace, k + 1) = opened + (IF c = LeftBrace THEN 1 ELSE 0)
        /\ Count(t, RightBrace, k + 1) = closed + (IF c = RightBrace THEN 1 ELSE 0)
    <3>1. \A v : /\ Count(t, v, k) \in Nat
                 /\ Count(t, v, k + 1) = Count(t, v, k) + (IF t[k + 1] = v THEN 1 ELSE 0)
      BY <2>1, CountStep
    <3>2. QED BY <3>1
  <2>3. /\ g[k] \in Int
        /\ g[k] >= 0 => g[k] = opened - closed /\ \A j \in 0..k : Ahead(j)
        /\ g[k] < 0 => \E j \in 0..k : ~Ahead(j)
    BY <2>11
  <2>4. g[k + 1] = CountBrace(g[k], c)
    BY <1>11, <2>1
  <2>5. Ahead(k + 1) <=> opened + (IF c = LeftBrace THEN 1 ELSE 0) >= closed + (IF c = RightBrace THEN 1 ELSE 0)
    BY <2>2
  <2>6. \A j \in 0..k+1 : j \in 0..k \/ j = k + 1
    BY <2>1
  <2>7. \A j \in 0..k : j \in 0..k+1
    BY <2>1
  <2> HIDE DEF c, opened, closed, Ahead
  <2>8. CASE g[k] < 0
    <3>1. g[k + 1] = g[k]
      BY <2>3, <2>4, <2>8 DEF CountBrace
    <3>2. \E j \in 0..k+1 : ~Ahead(j)
      BY <2>3, <2>7, <2>8
    <3>3. QED BY <2>1, <2>3, <2>8, <3>1, <3>2 DEF T
  <2>9. CASE ~(g[k] < 0)
    <3>8. LeftBrace # RightBrace
      BY SymbolsDiffer, Zenon
    <3> DEFINE d == g[k] + (IF c = LeftBrace THEN 1 ELSE 0) - (IF c = RightBrace THEN 1 ELSE 0)
    <3>1. g[k] >= 0 /\ g[k] = opened - closed /\ \A j \in 0..k : Ahead(j)
      BY <2>3, <2>9
    <3>2. g[k + 1] = d
      <4>1. CASE c = LeftBrace
        BY <2>3, <2>4, <3>1, <3>8, <4>1 DEF CountBrace
      <4>2. CASE c = RightBrace
        BY <2>3, <2>4, <3>1, <3>8, <4>2 DEF CountBrace
      <4>3. CASE c \notin Braces
        BY <2>3, <2>4, <3>1, <4>3 DEF CountBrace, Braces
      <4>4. QED BY <4>1, <4>2, <4>3 DEF Braces
    <3>3. d \in Int /\ d = Count(t, LeftBrace, k + 1) - Count(t, RightBrace, k + 1)
      BY <2>2, <2>3, <3>1
    <3>4. d >= 0 <=> Ahead(k + 1)
      BY <2>2, <2>5, <3>1
    <3> HIDE DEF d
    <3>5. CASE d >= 0
      <4>1. \A j \in 0..k+1 : Ahead(j)
        BY <2>6, <3>1, <3>4, <3>5
      <4>2. QED BY <2>1, <3>2, <3>3, <3>5, <4>1 DEF T
    <3>6. CASE ~(d >= 0)
      <4>1. k + 1 \in 0..k+1 /\ ~Ahead(k + 1) /\ d < 0
        BY <2>1, <3>3, <3>4, <3>6
      <4>2. QED BY <2>1, <3>2, <3>3, <3>6, <4>1 DEF T
    <3>7. QED BY <3>5, <3>6
  <2>10. QED BY <2>8, <2>9
<1>14. n \in T
  <2> HIDE DEF T
  <2>1. n \in 0..n
    BY <1>3
  <2>2. QED BY <1>3, <1>12, <1>13, <2>1, UpToBound
<1>15. /\ g[n] \in Int
       /\ g[n] >= 0 => g[n] = Count(t, LeftBrace, n) - Count(t, RightBrace, n) /\ \A j \in 0..n : Ahead(j)
       /\ g[n] < 0 => \E j \in 0..n : ~Ahead(j)
  BY <1>14
<1> HIDE DEF T, Ahead
<1>16. Count(t, LeftBrace, n) \in Nat /\ Count(t, RightBrace, n) \in Nat
  BY <1>3, CountStep
<1>17. BraceDiagnostics(t) = "none" <=> g[n] = 0
  BY <1>1, <1>15
<1>18. g[n] = 0 <=> (\A k \in 0..n : Ahead(k)) /\ Count(t, LeftBrace, n) = Count(t, RightBrace, n)
  <2>1. CASE g[n] >= 0
    BY <1>15, <1>16, <2>1
  <2>2. CASE g[n] < 0
    BY <1>15, <2>2
  <2>3. QED BY <1>15, <2>1, <2>2
<1>19. QED BY <1>17, <1>18 DEF n, Ahead

(* Without braces in comments and literals, each brace is a token and each *)
(* token has one at most: there are as many in front of an offset.         *)
Hides(t, token) ==
  token.kind \in {"comment", "string"} /\ \E o \in token.start..token.end-1 : o < Len(t) /\ t[o + 1] \in Braces

LEMMA StartsGrow ==
  ASSUME NEW t, NEW at, NEW tokens, Tiles(t, tokens, at)
  PROVE  /\ tokens \in Seq(Tokens)
         /\ \A i \in DOMAIN tokens : /\ tokens[i].start \in 0..Len(t)-1 /\ tokens[i].end \in Nat
                                     /\ tokens[i].start < tokens[i].end
         /\ \A i, j \in DOMAIN tokens : i < j => tokens[i].start < tokens[j].start
<1>1. \A i \in DOMAIN tokens : /\ tokens[i].start \in 0..Len(t)-1 /\ tokens[i].end \in Nat
                              /\ tokens[i].start < tokens[i].end
  <2>1. \A i \in DOMAIN tokens : IsToken(t, tokens[i])
    BY DEF Tiles
  <2>2. QED BY <2>1 DEF IsToken, Tokens
<1>2. \A i, j \in DOMAIN tokens : i < j => tokens[i].end <= tokens[j].start
  BY DEF Tiles
<1>3. \A i, j \in DOMAIN tokens : i < j => tokens[i].start < tokens[j].start
  BY <1>1, <1>2
<1>4. QED BY <1>1, <1>3 DEF Tiles

BraceTokens(t, tokens, c, n) == Cardinality({i \in DOMAIN tokens : i <= n /\ t[tokens[i].start + 1] = c})

LEMMA BracesCounted ==
  ASSUME NEW t, Len(t) \in Nat, NEW at \in Nat, Len(t) <= at, NEW tokens, Tiles(t, tokens, at),
         \A i \in DOMAIN tokens : ~Hides(t, tokens[i]), Blank \intersect Braces = {},
         NEW c \in Braces, NEW k \in 0..Len(t), NEW m \in Nat,
         \A i \in DOMAIN tokens : tokens[i].start < k <=> i <= m
  PROVE  BraceTokens(t, tokens, c, m) = Count(t, c, k)
<1> DEFINE B == {i \in DOMAIN tokens : i <= m /\ t[tokens[i].start + 1] = c}
           P == {j \in 1..k : t[j] = c}
           f == [i \in B |-> tokens[i].start + 1]
<1>1. tokens \in Seq(Tokens) /\ Len(tokens) \in Nat /\ DOMAIN tokens = 1..Len(tokens)
  BY DEF Tiles
<1>2. \A i \in DOMAIN tokens : /\ tokens[i].start \in Nat /\ tokens[i].end \in Nat
                              /\ tokens[i].start < tokens[i].end
  BY StartsGrow
<1>3. \A i \in B : f[i] \in P
  BY <1>2
<1>4. ASSUME NEW i \in B, NEW j \in B, f[i] = f[j] PROVE i = j
  <2>1. /\ i \in DOMAIN tokens /\ j \in DOMAIN tokens /\ tokens[i].start = tokens[j].start
        /\ i \in Nat /\ j \in Nat
    BY <1>1, <1>2, <1>4
  <2> HIDE DEF B, f
  <2>2. \A a, b \in DOMAIN tokens : a < b => tokens[a].start < tokens[b].start
    BY StartsGrow
  <2>3. ~(i < j) /\ ~(j < i)
    BY <1>2, <2>1, <2>2
  <2>4. QED BY <2>1, <2>3
<1>5. ASSUME NEW j \in P PROVE \E i \in B : f[i] = j
  <2> DEFINE o == j - 1
  <2>1. o \in 0..Len(t)-1 /\ o < at /\ o < k /\ o + 1 = j /\ t[o + 1] = c
    OBVIOUS
  <2> HIDE DEF o, P
  <2>2. t[o + 1] \in Braces /\ t[o + 1] \notin Blank
    BY <2>1
  <2>3. PICK i \in DOMAIN tokens : o \in tokens[i].start..tokens[i].end-1
    BY <2>1, <2>2 DEF Tiles
  <2>4. tokens[i].kind \notin {"comment", "string"}
    BY <2>1, <2>2, <2>3 DEF Hides
  <2>5. o = tokens[i].start
    <3>1. \A q \in tokens[i].start+1..tokens[i].end-1 : t[q + 1] \notin Braces
      BY <2>4 DEF Tiles, IsToken
    <3>2. QED BY <1>2, <2>1, <2>2, <2>3, <3>1
  <2>6. i <= m
    BY <2>1, <2>5
  <2>7. QED BY <2>1, <2>5, <2>6
<1>6. IsFiniteSet(B)
  <2>1. IsFiniteSet(DOMAIN tokens)
    BY <1>1, FS_Interval
  <2>2. QED BY <2>1, FS_Subset
<1>7. f \in [B -> P]
  <2>1. f = [i \in B |-> f[i]]
    OBVIOUS
  <2> HIDE DEF f, B, P
  <2>2. QED BY <1>3, <2>1
<1> HIDE DEF f, B, P
<1>8. f \in Injection(B, P)
  BY <1>4, <1>7, Zenon DEF Injection, IsInjective
<1>9. f \in Surjection(B, P)
  BY <1>5, <1>7, Zenon DEF Surjection
<1>10. ExistsBijection(B, P)
  BY <1>8, <1>9, Zenon DEF ExistsBijection, Bijection
<1>11. Cardinality(P) = Cardinality(B)
  BY <1>6, <1>10, FS_Bijection
<1>12. QED BY <1>11 DEF B, P, Count, BraceTokens

LEMMA BracesAgree ==
  ASSUME NEW t, Len(t) \in Nat, NEW at \in Nat, Len(t) <= at, NEW tokens, Tiles(t, tokens, at),
         \A i \in DOMAIN tokens : ~Hides(t, tokens[i]), Blank \intersect Braces = {}
  PROVE  BraceDiagnostics(t) = "none" <=>
           /\ \A n \in DOMAIN tokens :
                BraceTokens(t, tokens, LeftBrace, n) >= BraceTokens(t, tokens, RightBrace, n)
           /\ BraceTokens(t, tokens, LeftBrace, Len(tokens)) = BraceTokens(t, tokens, RightBrace, Len(tokens))
<1> DEFINE L == Len(tokens)
           Upto(k, m) == \A i \in DOMAIN tokens : tokens[i].start < k <=> i <= m
<1>1. L \in Nat /\ DOMAIN tokens = 1..L
  BY StartsGrow
<1>2. /\ \A i \in DOMAIN tokens : tokens[i].start \in 0..Len(t)-1
      /\ \A i, j \in DOMAIN tokens : i < j => tokens[i].start < tokens[j].start
  BY StartsGrow
<1>3. ASSUME NEW k \in 0..Len(t), NEW m \in Nat, Upto(k, m)
      PROVE  /\ BraceTokens(t, tokens, LeftBrace, m) = Count(t, LeftBrace, k)
             /\ BraceTokens(t, tokens, RightBrace, m) = Count(t, RightBrace, k)
  <2>1. LeftBrace \in Braces /\ RightBrace \in Braces
    BY DEF Braces
  <2>2. QED BY <1>3, <2>1, BracesCounted
<1>4. Upto(Len(t), L)
  BY <1>1, <1>2
<1>5. ASSUME NEW n \in DOMAIN tokens
      PROVE  \E k \in 0..Len(t) : n \in Nat /\ Upto(k, n)
  <2> DEFINE k == tokens[n].start + 1
  <2>1. k \in 0..Len(t) /\ n \in Nat
    BY <1>1, <1>2
  <2>2. ASSUME NEW i \in DOMAIN tokens PROVE tokens[i].start < k <=> i <= n
    <3>1. i \in Nat /\ n \in Nat /\ tokens[i].start \in Int /\ tokens[n].start \in Int
      BY <1>1, <1>2
    <3>2. i < n => tokens[i].start < tokens[n].start
      BY <1>2
    <3>3. n < i => tokens[n].start < tokens[i].start
      BY <1>2
    <3>4. i = n => tokens[i].start = tokens[n].start
      OBVIOUS
    <3>5. QED BY <3>1, <3>2, <3>3, <3>4
  <2>3. QED BY <2>1, <2>2
<1>6. ASSUME NEW k \in 0..Len(t) PROVE \E m \in 0..L : Upto(k, m)
  <2> DEFINE U == {i \in 1..L+1 : i = L + 1 \/ tokens[i].start >= k}
  <2>1. U \subseteq Nat /\ L + 1 \in U
    BY <1>1
  <2>2. PICK u \in U : \A i \in U : u <= i
    <3> HIDE DEF U
    <3>1. QED BY <2>1, LeastNumber
  <2>3. u - 1 \in 0..L /\ u \in 1..L+1
    BY <1>1
  <2>4. ASSUME NEW i \in DOMAIN tokens PROVE tokens[i].start < k <=> i <= u - 1
    <3>1. i \in 1..L /\ i \in 1..L+1 /\ i # L + 1 /\ tokens[i].start \in Int
      BY <1>1, <1>2
    <3>2. i < u => tokens[i].start < k
      BY <2>2, <2>3, <3>1
    <3>3. ASSUME u <= i PROVE tokens[i].start >= k
      <4>1. u \in 1..L /\ tokens[u].start >= k /\ tokens[u].start \in Int
        BY <1>1, <1>2, <2>3, <3>1, <3>3
      <4>2. u < i => tokens[u].start < tokens[i].start
        BY <1>1, <1>2, <4>1
      <4>3. QED BY <2>3, <3>1, <3>3, <4>1, <4>2
    <3>4. QED BY <2>3, <3>1, <3>2, <3>3
  <2>5. Upto(k, u - 1)
    BY <2>4
  <2> HIDE DEF Upto
  <2>6. QED BY <2>3, <2>5
<1> DEFINE TokensAhead(n) == BraceTokens(t, tokens, LeftBrace, n) >= BraceTokens(t, tokens, RightBrace, n)
           Ahead(k) == Count(t, LeftBrace, k) >= Count(t, RightBrace, k)
<1> HIDE DEF Upto, L
<1>7. ASSUME \A k \in 0..Len(t) : Ahead(k) PROVE \A n \in DOMAIN tokens : TokensAhead(n)
  BY <1>3, <1>5, <1>7
<1>8. ASSUME \A n \in DOMAIN tokens : TokensAhead(n), NEW k \in 0..Len(t) PROVE Ahead(k)
  <2>1. PICK m \in 0..L : Upto(k, m)
    BY <1>6
  <2>2. CASE m \in DOMAIN tokens
    BY <1>1, <1>3, <1>8, <2>1, <2>2
  <2>3. CASE m \notin DOMAIN tokens
    <3>1. m = 0
      BY <1>1, <2>3
    <3>2. \A c : BraceTokens(t, tokens, c, 0) = 0
      <4>1. \A c : {i \in DOMAIN tokens : i <= 0 /\ t[tokens[i].start + 1] = c} = {}
        BY <1>1
      <4>2. QED BY <4>1, FS_EmptySet DEF BraceTokens
    <3>3. 0 >= 0 /\ 0 \in Nat
      OBVIOUS
    <3>4. QED BY <1>3, <2>1, <3>1, <3>2, <3>3
  <2>4. QED BY <2>2, <2>3
<1>9. /\ BraceTokens(t, tokens, LeftBrace, L) = Count(t, LeftBrace, Len(t))
      /\ BraceTokens(t, tokens, RightBrace, L) = Count(t, RightBrace, Len(t))
  <2>1. Len(t) \in 0..Len(t)
    OBVIOUS
  <2>2. QED BY <1>1, <1>3, <1>4, <2>1
<1>10. BraceDiagnostics(t) = "none" <=>
         (\A k \in 0..Len(t) : Ahead(k)) /\ Count(t, LeftBrace, Len(t)) = Count(t, RightBrace, Len(t))
  BY BraceDiagnosticsIs
<1> HIDE DEF TokensAhead, Ahead
<1>11. (\A k \in 0..Len(t) : Ahead(k)) <=> \A n \in DOMAIN tokens : TokensAhead(n)
  BY <1>7, <1>8
<1>12. QED BY <1>9, <1>10, <1>11 DEF TokensAhead, L

(* The braces are balanced for the diagnostics if and only if they are for *)
(* the tokens, unless comments or literals have some (diagnostics.go,      *)
(* analysis.go).                                                           *)
THEOREM BracesAsTokensAlways == Spec => []BracesAsTokens
<1>1. Typed => BracesAsTokens
  <2> SUFFICES ASSUME Typed PROVE BracesAsTokens
    OBVIOUS
  <2> DEFINE tokens == Lex(text)
             brace == {i \in DOMAIN tokens : CharAt(text, tokens[i].start) \in Braces}
             hidden == \E i \in DOMAIN tokens : tokens[i].kind \in {"comment", "string"}
               /\ \E o \in tokens[i].start..Min({tokens[i].end, Len(text)})-1 : text[o + 1] \in Braces
             Number(c, n) == Cardinality({i \in brace : i <= n /\ CharAt(text, tokens[i].start) = c})
             balanced == /\ \A n \in DOMAIN tokens : Number(LeftBrace, n) >= Number(RightBrace, n)
                         /\ Number(LeftBrace, Len(tokens)) = Number(RightBrace, Len(tokens))
  <2>1. text \in Seq(Characters) /\ Len(text) \in Nat
    BY DEF Typed
  <2>2. PICK at \in Len(text)..Len(text)+1 : Tiles(text, tokens, at)
    BY <2>1, LexIs
  <2> HIDE DEF tokens
  <2>3. at \in Nat /\ Len(text) <= at
    BY <2>1, <2>2
  <2>4. \A i \in DOMAIN tokens : /\ tokens[i].start \in 0..Len(text)-1
                                /\ CharAt(text, tokens[i].start) = text[tokens[i].start + 1]
    <3>1. \A i \in DOMAIN tokens : tokens[i].start \in 0..Len(text)-1
      BY <2>2, StartsGrow
    <3>2. ASSUME NEW o \in 0..Len(text)-1 PROVE CharAt(text, o) = text[o + 1]
      <4>1. o < Len(text)
        BY <2>1
      <4>2. QED BY <4>1 DEF CharAt
    <3>3. QED BY <3>1, <3>2
  <2>5. ASSUME NEW c \in Braces, NEW n PROVE Number(c, n) = BraceTokens(text, tokens, c, n)
    <3>1. {i \in brace : i <= n /\ CharAt(text, tokens[i].start) = c}
            = {i \in DOMAIN tokens : i <= n /\ text[tokens[i].start + 1] = c}
      BY <2>4, <2>5
    <3>2. QED BY <3>1, Zenon DEF BraceTokens
  <2>6. ASSUME ~hidden, NEW i \in DOMAIN tokens PROVE ~Hides(text, tokens[i])
    <3>1. tokens[i].end \in Nat
      BY <2>2, StartsGrow
    <3>2. Min({tokens[i].end, Len(text)}) = IF tokens[i].end <= Len(text) THEN tokens[i].end ELSE Len(text)
      BY <2>1, <3>1, MinOfTwo
    <3>3. ASSUME NEW o \in tokens[i].start..tokens[i].end-1, o < Len(text)
          PROVE  o \in tokens[i].start..Min({tokens[i].end, Len(text)})-1
      BY <2>1, <2>4, <3>1, <3>2, <3>3
    <3>4. QED BY <2>6, <3>3 DEF Hides
  <2>7. Blank \intersect Braces = {}
    BY SymbolsDiffer DEF Blank
  <2>8. LeftBrace \in Braces /\ RightBrace \in Braces
    BY DEF Braces
  <2>9. balanced <=>
          /\ \A n \in DOMAIN tokens :
               BraceTokens(text, tokens, LeftBrace, n) >= BraceTokens(text, tokens, RightBrace, n)
          /\ BraceTokens(text, tokens, LeftBrace, Len(tokens)) = BraceTokens(text, tokens, RightBrace, Len(tokens))
    <3> HIDE DEF Number
    <3>1. QED BY <2>5, <2>8
  <2> HIDE DEF brace, hidden, Number, balanced
  <2>10. ~hidden => (BraceDiagnostics(text) = "none" <=> balanced)
    <3> SUFFICES ASSUME ~hidden PROVE BraceDiagnostics(text) = "none" <=> balanced
      OBVIOUS
    <3>1. \A i \in DOMAIN tokens : ~Hides(text, tokens[i])
      BY <2>6
    <3>2. BraceDiagnostics(text) = "none" <=>
            /\ \A n \in DOMAIN tokens :
                 BraceTokens(text, tokens, LeftBrace, n) >= BraceTokens(text, tokens, RightBrace, n)
            /\ BraceTokens(text, tokens, LeftBrace, Len(tokens)) = BraceTokens(text, tokens, RightBrace, Len(tokens))
      BY <2>1, <2>2, <2>3, <2>7, <3>1, BracesAgree
    <3>3. QED BY <2>9, <3>2
  <2>11. QED BY <2>10, Zenon DEF BracesAsTokens, tokens, brace, hidden, Number, balanced
<1>2. QED BY <1>1, AlwaysTyped, PTL
==============================================================================
