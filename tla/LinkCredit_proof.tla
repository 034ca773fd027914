-------------------------- MODULE LinkCredit_proof --------------------------
(***************************************************************************)
(* LinkCredit, for every number of links, capacity of the ring, credit     *)
(* window and number of messages.                                          *)
(*                                                                         *)
(* Agreed says of one link what its two ends and the frames under way in   *)
(* both directions have to do with each other.  It goes by limits, the     *)
(* count that a link will have come to when its credit is used up: the     *)
(* limit of the sender is never beyond that of the receiver (Counted), the *)
(* flows under way ask for limits in between that only grow (Announced),   *)
(* and what the counts differ by is messages under way, or the credit that *)
(* the answer to a drain gives up, which no message follows (Answered).    *)
(*                                                                         *)
(* It needs that the receivers leave their credit alone while they wait    *)
(* for a drain (NoTopUp): a flow with drain that was overtaken by more     *)
(* credit is answered with a count that the receiver then takes over, and  *)
(* the sender is left with the credit that came after it; the run          *)
(* drain_window is a case.  That only a lack of credit holds a message     *)
(* back (HeldOnlyByCredit) needs no such assumption: what the loop of      *)
(* process leaves queued begins with a message whose link it has charged   *)
(* all its credit (BlockedIs).                                             *)
(*                                                                         *)
(* What each step does to each field is a lemma about the state ("Is").    *)
(* What it does to Agreed is one about the values of a link before and     *)
(* after, and the two meet in one lemma for each action ("Agreed").        *)
(***************************************************************************)
EXTENDS LinkCredit, Induction_proof, SequenceTheorems

\* The places of a sequence that hold an element of T.
Places(s, T) == {i \in DOMAIN s : s[i] \in T}

LEMMA PlacesFinite ==
    ASSUME NEW S, NEW s \in Seq(S), NEW T
    PROVE  /\ IsFiniteSet(Places(s, T)) /\ Cardinality(Places(s, T)) \in Nat
           /\ Places(s, T) = {i \in 1..Len(s) : s[i] \in T}
           /\ Cardinality(Places(s, T)) = 0 <=> Places(s, T) = {}
<1>1. Len(s) \in Nat /\ DOMAIN s = 1..Len(s)
    BY LenProperties
<1>2. IsFiniteSet(1..Len(s)) /\ Places(s, T) \in SUBSET (1..Len(s))
    BY <1>1, FS_Interval DEF Places
<1>3. IsFiniteSet(Places(s, T))
    BY <1>2, FS_Subset
<1>4. Cardinality(Places(s, T)) \in Nat
    BY <1>3, FS_CardinalityType
<1>5. Cardinality(Places(s, T)) = 0 <=> Places(s, T) = {}
    BY <1>3, FS_EmptySet
<1> QED BY <1>1, <1>3, <1>4, <1>5 DEF Places

\* Numbers that are moved are as many as before.
LEMMA Shifted ==
    ASSUME NEW B \in SUBSET Nat, IsFiniteSet(B), NEW n \in Nat
    PROVE  IsFiniteSet({i + n : i \in B}) /\ Cardinality({i + n : i \in B}) = Cardinality(B)
<1> DEFINE f == [i \in B |-> i + n]
           C == {i + n : i \in B}
<1>1. \A x, y \in B : f[x] = f[y] => x = y
    OBVIOUS
<1>2. f \in [B -> C] /\ \A c \in C : \E x \in B : f[x] = c
    OBVIOUS
<1>3. f \in Bijection(B, C)
  <2> HIDE DEF f, C
  <2> QED BY <1>1, <1>2 DEF Bijection, Injection, Surjection, IsInjective
<1>4. ExistsBijection(B, C)
    BY <1>3 DEF ExistsBijection
<1> HIDE DEF C
<1>5. IsFiniteSet(C) /\ Cardinality(C) = Cardinality(B)
    BY <1>4, FS_Bijection
<1> QED BY <1>5 DEF C

LEMMA PlacesConcat ==
    ASSUME NEW S, NEW a \in Seq(S), NEW b \in Seq(S), NEW T
    PROVE  /\ Cardinality(Places(a \o b, T)) = Cardinality(Places(a, T)) + Cardinality(Places(b, T))
           /\ Places(a \o b, T) = Places(a, T) \cup {i + Len(a) : i \in Places(b, T)}
<1> DEFINE n == Len(a)
           A == Places(a, T)
           B == Places(b, T)
           C == {i + n : i \in B}
<1>1. /\ n \in Nat /\ Len(b) \in Nat /\ a \o b \in Seq(S) /\ Len(a \o b) = n + Len(b)
      /\ \A i \in 1..(n + Len(b)) : (a \o b)[i] = IF i <= n THEN a[i] ELSE b[i - n]
    BY LenProperties, ConcatProperties
<1>2. /\ A = {i \in 1..n : a[i] \in T}
      /\ B = {i \in 1..Len(b) : b[i] \in T}
      /\ Places(a \o b, T) = {i \in 1..(n + Len(b)) : (a \o b)[i] \in T}
    BY <1>1, PlacesFinite
<1>3. Places(a \o b, T) = A \cup C
  <2>1. \A i \in 1..(n + Len(b)) : i > n => i - n \in 1..Len(b) /\ i = (i - n) + n
    BY <1>1
  <2>2. ASSUME NEW i \in Places(a \o b, T) PROVE i \in A \cup C
    <3>1. i \in 1..(n + Len(b)) /\ (a \o b)[i] \in T
        BY <1>2
    <3>2. CASE i <= n
        BY <3>1, <3>2, <1>1, <1>2
    <3>3. CASE ~ (i <= n)
      <4>1. i - n \in 1..Len(b) /\ i = (i - n) + n /\ b[i - n] \in T
        BY <3>1, <3>3, <2>1, <1>1
      <4>2. i - n \in B
        BY <4>1, <1>2
      <4> QED BY <4>1, <4>2
    <3> QED BY <3>2, <3>3
  <2>3. ASSUME NEW i \in A PROVE i \in Places(a \o b, T)
    <3>1. i \in 1..n /\ a[i] \in T /\ i \in 1..(n + Len(b)) /\ i <= n
        BY <1>1, <1>2
    <3> HIDE DEF A, n
    <3> QED BY <3>1, <1>1, <1>2
  <2>4. ASSUME NEW i \in B PROVE i + n \in Places(a \o b, T)
    <3>1. i \in 1..Len(b) /\ b[i] \in T /\ i + n \in 1..(n + Len(b)) /\ ~ (i + n <= n)
            /\ (i + n) - n = i
        BY <1>1, <1>2
    <3> HIDE DEF B, n
    <3> QED BY <3>1, <1>1, <1>2
  <2> HIDE DEF A, B, n
  <2> QED BY <2>2, <2>3, <2>4
<1>4. IsFiniteSet(A) /\ IsFiniteSet(B) /\ Cardinality(A) \in Nat /\ Cardinality(B) \in Nat
    BY PlacesFinite
<1>5. IsFiniteSet(C) /\ Cardinality(C) = Cardinality(B)
  <2>1. B \in SUBSET Nat
    BY <1>2
  <2> HIDE DEF B, n
  <2> QED BY <1>1, <1>4, <2>1, Shifted
<1>6. A \cap C = {}
    BY <1>1, <1>2
<1>7. Cardinality(A \cup C) = Cardinality(A) + Cardinality(C)
  <2> HIDE DEF A, C, B
  <2>1. Cardinality(A \cup C) = Cardinality(A) + Cardinality(C) - Cardinality(A \cap C)
    BY <1>4, <1>5, FS_Union
  <2>2. Cardinality(A \cap C) = 0
    BY <1>6, FS_EmptySet
  <2> QED BY <2>1, <2>2, <1>4, <1>5
<1> QED BY <1>3, <1>5, <1>7

LEMMA PlacesOne ==
    ASSUME NEW x, NEW T
    PROVE  Cardinality(Places(<<x>>, T)) = IF x \in T THEN 1 ELSE 0
<1>1. Places(<<x>>, T) = IF x \in T THEN {1} ELSE {}
    BY DEF Places
<1> QED BY <1>1, FS_EmptySet, FS_Singleton

LEMMA PlacesNone ==
    ASSUME NEW T
    PROVE  Places(<<>>, T) = {} /\ Cardinality(Places(<<>>, T)) = 0
<1>1. Places(<<>>, T) = {}
    BY DEF Places
<1> QED BY <1>1, FS_EmptySet

\* The head, read, is one place less.
LEMMA PlacesTail ==
    ASSUME NEW S, NEW s \in Seq(S), s # <<>>, NEW T
    PROVE  /\ Cardinality(Places(s, T))
                  = Cardinality(Places(Tail(s), T)) + (IF Head(s) \in T THEN 1 ELSE 0)
           /\ \A i \in 1..Len(Tail(s)) : i \in Places(Tail(s), T) <=> i + 1 \in Places(s, T)
<1>1. Head(s) \in S /\ Tail(s) \in Seq(S) /\ <<Head(s)>> \in Seq(S) /\ s = <<Head(s)>> \o Tail(s)
  <2>1. /\ Head(s) \in S /\ Tail(s) \in Seq(S) /\ Len(Tail(s)) = Len(s) - 1
        /\ \A i \in 1..Len(Tail(s)) : Tail(s)[i] = s[i + 1]
    BY HeadTailProperties
  <2>2. <<Head(s)>> \in Seq(S) /\ Len(<<Head(s)>>) = 1 /\ <<Head(s)>>[1] = s[1] /\ Len(s) \in Nat
    BY <2>1
  <2> DEFINE t == <<Head(s)>> \o Tail(s)
  <2>3. /\ t \in Seq(S) /\ Len(t) = Len(s)
        /\ \A i \in 1..Len(s) : t[i] = IF i <= 1 THEN <<Head(s)>>[i] ELSE Tail(s)[i - 1]
    BY <2>1, <2>2, ConcatProperties
  <2>4. \A i \in 1..Len(s) : t[i] = s[i]
    <3>1. SUFFICES ASSUME NEW i \in 1..Len(s) PROVE t[i] = s[i]
        OBVIOUS
    <3>2. CASE i = 1
        BY <3>2, <2>2, <2>3
    <3>3. CASE i # 1
      <4>1. i - 1 \in 1..Len(Tail(s)) /\ ~ (i <= 1) /\ (i - 1) + 1 = i
        BY <3>3, <2>1, <2>2
      <4> HIDE DEF t
      <4> QED BY <4>1, <2>1, <2>3
    <3> QED BY <3>2, <3>3
  <2> HIDE DEF t
  <2>5. t = s
    BY <2>3, <2>4, SeqEqual
  <2> QED BY <2>1, <2>2, <2>5 DEF t
<1>2. Cardinality(Places(s, T))
        = Cardinality(Places(<<Head(s)>>, T)) + Cardinality(Places(Tail(s), T))
  <2>1. PICK a, b : a = <<Head(s)>> /\ b = Tail(s)
    OBVIOUS
  <2>2. a \in Seq(S) /\ b \in Seq(S) /\ s = a \o b
    BY <1>1, <2>1
  <2>3. Cardinality(Places(a \o b, T)) = Cardinality(Places(a, T)) + Cardinality(Places(b, T))
    BY <2>2, PlacesConcat
  <2> QED BY <2>1, <2>2, <2>3, Zenon
<1>3. Cardinality(Places(Tail(s), T)) \in Nat
    BY <1>1, PlacesFinite
<1>4. ASSUME NEW i \in 1..Len(Tail(s))
      PROVE  i \in Places(Tail(s), T) <=> i + 1 \in Places(s, T)
  <2>1. Tail(s)[i] = s[i + 1] /\ i + 1 \in 1..Len(s) /\ Len(Tail(s)) = Len(s) - 1
    BY HeadTailProperties, LenProperties
  <2>2. Places(Tail(s), T) = {k \in 1..Len(Tail(s)) : Tail(s)[k] \in T}
    BY <1>1, PlacesFinite
  <2>3. Places(s, T) = {k \in 1..Len(s) : s[k] \in T}
    BY PlacesFinite
  <2> QED BY <2>1, <2>2, <2>3
<1> QED BY <1>2, <1>3, <1>4, PlacesOne

\* The function in FlattenSeq is what its recursion says.
LEMMA FlattenUnfolds ==
    ASSUME NEW S, NEW parts \in Seq(Seq(S))
    PROVE  \E flat \in [0..Len(parts) -> Seq(S)] :
               /\ flat[0] = <<>>
               /\ \A k \in 1..Len(parts) : flat[k] = flat[k - 1] \o parts[k]
               /\ FlattenSeq(parts) = flat[Len(parts)]
<1> DEFINE n == Len(parts)
           Body(g) == [i \in 1..n |-> IF i = 1 THEN parts[i] ELSE g[i - 1] \o parts[i]]
           step == [p \in (1..n) \X Seq(S) |-> p[2] \o parts[p[1]]]
           flatten == CHOOSE g : g = Body(g)
<1>1. n \in Nat /\ (\A k \in 1..n : parts[k] \in Seq(S)) /\ <<>> \in Seq(S)
    BY LenProperties, EmptySeq, ElementOfSeq
<1>2. step \in [(1..n) \X Seq(S) -> Seq(S)]
  <2>1. \A p \in (1..n) \X Seq(S) : p[2] \o parts[p[1]] \in Seq(S)
    BY <1>1, ConcatProperties
  <2> QED BY <2>1
<1>3. PICK f \in [0..n -> Seq(S)] : Recurs(f, n, <<>>, step)
  <2> HIDE DEF step, n
  <2> QED BY <1>1, <1>2, Recursion
<1>4. f[0] = <<>> /\ \A k \in 1..n : f[k] = f[k - 1] \o parts[k]
  <2>1. SUFFICES ASSUME NEW k \in 1..n
                 PROVE  f[k] = f[k - 1] \o parts[k]
    BY <1>3 DEF Recurs
  <2>2. k - 1 \in 0..n
    BY <1>1
  <2>3. <<k, f[k - 1]>> \in (1..n) \X Seq(S)
    BY <2>2, <1>3
  <2> QED BY <2>3, <1>3 DEF Recurs
<1> DEFINE g == [i \in 1..n |-> f[i]]
<1>5. g = Body(g)
  <2>1. ASSUME NEW i \in 1..n
        PROVE  g[i] = Body(g)[i]
    <3>1. CASE i = 1
      <4>0. 1 \in 1..n /\ 1 - 1 = 0
        BY <1>1, <3>1
      <4>1. f[1] = f[0] \o parts[1] /\ parts[1] \in Seq(S)
        BY <1>1, <1>4, <4>0
      <4>2. f[1] = parts[1]
        BY <4>1, <1>4, ConcatEmptySeq
      <4> QED BY <4>2, <3>1
    <3>2. CASE i # 1
      <4>1. i - 1 \in 1..n /\ g[i - 1] = f[i - 1] /\ g[i] = f[i]
        BY <3>2, <1>1
      <4> HIDE DEF g
      <4> QED BY <1>4, <3>2, <4>1
    <3> QED BY <3>1, <3>2
  <2> HIDE DEF n
  <2> QED BY <2>1
<1>6. flatten = Body(flatten)
  <2> HIDE DEF Body, g
  <2> QED BY <1>5
<1>7. FlattenSeq(parts) = IF n = 0 THEN parts ELSE flatten[n]
    BY DEF FlattenSeq
<1> HIDE DEF flatten
<1>10. \A k \in 1..n : flatten[k] = IF k = 1 THEN parts[k] ELSE flatten[k - 1] \o parts[k]
  <2> HIDE DEF n
  <2>1. PICK h : h = flatten
    OBVIOUS
  <2>2. h = Body(h)
    BY <1>6, <2>1
  <2>3. \A k \in 1..n : h[k] = IF k = 1 THEN parts[k] ELSE h[k - 1] \o parts[k]
    BY <2>2
  <2> QED BY <2>1, <2>3
<1>8. CASE n = 0
  <2>1. parts = <<>>
    BY <1>8, EmptySeq
  <2> QED BY <1>7, <1>8, <2>1, <1>3, <1>4
<1>9. CASE n # 0
  <2> DEFINE flat == [k \in 0..n |-> IF k = 0 THEN <<>> ELSE flatten[k]]
             Bad == {k \in 0..n : ~ (flat[k] = f[k])}
  <2>1. SUFFICES ASSUME Bad # {} PROVE FALSE
    <3>1. flat[n] = f[n] => flatten[n] = f[n]
        BY <1>1, <1>9
    <3>2. flat[n] = f[n]
        BY <1>1, <2>1
    <3> QED BY <3>1, <3>2, <1>3, <1>4, <1>7, <1>9
  <2>2. PICK k \in Bad : \A y \in Bad : k <= y
    <3>1. Bad \in SUBSET Nat
        OBVIOUS
    <3> HIDE DEF Bad
    <3> QED BY <2>1, <3>1, LeastExists
  <2>3. k \in 0..n /\ flat[k] # f[k] /\ k # 0
    BY <1>4, <2>2
  <2>4. k - 1 \in 0..n /\ flat[k - 1] = f[k - 1]
    <3>1. k - 1 \in 0..n /\ ~ (k <= k - 1)
        BY <1>1, <2>3
    <3>2. k - 1 \notin Bad
        BY <2>2, <3>1
    <3> QED BY <3>1, <3>2
  <2>5. flatten[k] = IF k = 1 THEN parts[k] ELSE flatten[k - 1] \o parts[k]
    BY <1>1, <1>10, <2>3
  <2>6. f[k] = f[k - 1] \o parts[k] /\ flat[k] = flatten[k] /\ parts[k] \in Seq(S)
    <3>1. k \in 1..n
        BY <1>1, <2>3
    <3> QED BY <1>1, <1>4, <2>3, <3>1
  <2>7. CASE k = 1
    <3>1. f[k - 1] = <<>>
        BY <1>4, <2>7
    <3>2. f[k] = parts[k]
        BY <2>6, <3>1, ConcatEmptySeq
    <3> QED BY <2>3, <2>5, <2>6, <2>7, <3>2
  <2>8. CASE k # 1
    <3>1. flat[k - 1] = flatten[k - 1]
        BY <2>3, <2>4, <2>8
    <3> HIDE DEF flat
    <3> QED BY <2>3, <2>4, <2>5, <2>6, <2>8, <3>1
  <2> QED BY <2>7, <2>8
<1> QED BY <1>1, <1>8, <1>9

\* A sequence of parts with one element at the most.
Singles(parts) == \A k \in 1..Len(parts) : Len(parts[k]) <= 1

\* The parts whose element is in T.
Parts(parts, T) == {k \in 1..Len(parts) : parts[k] # <<>> /\ parts[k][1] \in T}

\* What a batch holds, it holds once for each part that does.
LEMMA FlattenPlaces ==
    ASSUME NEW S, NEW parts \in Seq(Seq(S)), Singles(parts), NEW T
    PROVE  /\ FlattenSeq(parts) \in Seq(S)
           /\ IsFiniteSet(Parts(parts, T))
           /\ Cardinality(Places(FlattenSeq(parts), T)) = Cardinality(Parts(parts, T))
<1> DEFINE n == Len(parts)
           Upto(k) == {j \in 1..k : parts[j] # <<>> /\ parts[j][1] \in T}
<1>1. n \in Nat /\ \A k \in 1..n : parts[k] \in Seq(S) /\ Len(parts[k]) <= 1
    BY LenProperties, ElementOfSeq DEF Singles
<1>2. PICK flat \in [0..n -> Seq(S)] :
          /\ flat[0] = <<>>
          /\ \A k \in 1..n : flat[k] = flat[k - 1] \o parts[k]
          /\ FlattenSeq(parts) = flat[n]
    BY FlattenUnfolds
<1> DEFINE Bad == {k \in 0..n : ~ (Cardinality(Places(flat[k], T)) = Cardinality(Upto(k)))}
<1>3. Upto(n) = Parts(parts, T)
    BY DEF Parts
<1>4. \A k \in 0..n : IsFiniteSet(Upto(k)) /\ Cardinality(Upto(k)) \in Nat
  <2>1. SUFFICES ASSUME NEW k \in 0..n PROVE IsFiniteSet(Upto(k)) /\ Cardinality(Upto(k)) \in Nat
    OBVIOUS
  <2>2. IsFiniteSet(1..k) /\ Upto(k) \in SUBSET (1..k)
    BY <1>1, FS_Interval
  <2> HIDE DEF Upto
  <2> QED BY <2>2, FS_Subset, FS_CardinalityType
<1>5. Bad = {}
  <2>1. SUFFICES ASSUME Bad # {} PROVE FALSE
    OBVIOUS
  <2>2. PICK k \in Bad : \A y \in Bad : k <= y
    <3>1. Bad \in SUBSET Nat
        OBVIOUS
    <3> HIDE DEF Bad
    <3> QED BY <2>1, <3>1, LeastExists
  <2>3. k \in 0..n /\ Cardinality(Places(flat[k], T)) # Cardinality(Upto(k))
    BY <2>2
  <2>4. k # 0
    <3>1. SUFFICES ASSUME k = 0 PROVE FALSE
        OBVIOUS
    <3>2. Upto(k) = {}
        BY <3>1
    <3>3. Cardinality(Places(flat[k], T)) = 0
        BY <1>2, <3>1, PlacesNone
    <3> HIDE DEF Upto
    <3> QED BY <2>3, <3>2, <3>3, FS_EmptySet
  <2>5. k - 1 \in 0..n /\ Cardinality(Places(flat[k - 1], T)) = Cardinality(Upto(k - 1))
    <3>1. k - 1 \in 0..n /\ ~ (k <= k - 1)
        BY <1>1, <2>3, <2>4
    <3>2. k - 1 \notin Bad
      <4> HIDE DEF Bad
      <4> QED BY <2>2, <3>1
    <3> QED BY <3>1, <3>2
  <2>6. /\ k \in 1..n /\ flat[k] = flat[k - 1] \o parts[k] /\ flat[k - 1] \in Seq(S)
        /\ parts[k] \in Seq(S) /\ Len(parts[k]) <= 1
    <3>1. k \in 1..n
        BY <1>1, <2>3, <2>4
    <3>2. flat[k] = flat[k - 1] \o parts[k] /\ flat[k - 1] \in Seq(S)
        BY <1>2, <2>5, <3>1
    <3> QED BY <1>1, <3>1, <3>2
  <2>7. Cardinality(Places(flat[k], T))
            = Cardinality(Places(flat[k - 1], T)) + Cardinality(Places(parts[k], T))
    BY <2>6, PlacesConcat
  <2>8. CASE parts[k] # <<>> /\ parts[k][1] \in T
    <3>1. Upto(k) = Upto(k - 1) \cup {k} /\ k \notin Upto(k - 1)
        BY <2>6, <2>8
    <3>2. Cardinality(Upto(k)) = Cardinality(Upto(k - 1)) + 1
      <4> HIDE DEF Upto
      <4>1. PICK before : before = Upto(k - 1) /\ IsFiniteSet(before) /\ k \notin before
        BY <1>4, <2>5, <3>1
      <4>2. Cardinality(before \cup {k}) = Cardinality(before) + 1
        BY <4>1, FS_AddElement
      <4> QED BY <3>1, <4>1, <4>2
    <3>3. Cardinality(Places(parts[k], T)) = 1
      <4>1. PICK x : x = parts[k][1]
        OBVIOUS
      <4>2. parts[k] = <<x>>
        BY <2>6, <2>8, <4>1
      <4> QED BY <2>8, <4>1, <4>2, PlacesOne
    <3> HIDE DEF Upto
    <3> QED BY <2>3, <2>5, <2>7, <3>2, <3>3
  <2>9. CASE ~ (parts[k] # <<>> /\ parts[k][1] \in T)
    <3>1. Upto(k) = Upto(k - 1)
        BY <2>6, <2>9
    <3>2. Cardinality(Places(parts[k], T)) = 0
      <4>1. Places(parts[k], T) = {}
        <5>1. Places(parts[k], T) = {i \in 1..Len(parts[k]) : parts[k][i] \in T}
            BY <2>6, PlacesFinite
        <5>2. \A i \in 1..Len(parts[k]) : i = 1 /\ parts[k] # <<>>
            BY <2>6
        <5> QED BY <5>1, <5>2, <2>9
      <4> QED BY <4>1, FS_EmptySet
    <3>3. Cardinality(Places(flat[k - 1], T)) \in Nat
        BY <2>6, PlacesFinite
    <3> HIDE DEF Upto
    <3> QED BY <2>3, <2>5, <2>7, <3>1, <3>2, <3>3
  <2> QED BY <2>8, <2>9
<1>6. n \in 0..n
    BY <1>1
<1>7. Cardinality(Places(flat[n], T)) = Cardinality(Upto(n))
    BY <1>5, <1>6
<1> HIDE DEF Upto, Bad, n
<1>8. FlattenSeq(parts) \in Seq(S)
    BY <1>2, <1>6
<1> QED BY <1>2, <1>3, <1>4, <1>6, <1>7, <1>8

\* What a batch holds is the element of a part.
LEMMA FlattenMember ==
    ASSUME NEW S, NEW parts \in Seq(Seq(S)), Singles(parts),
           NEW i \in 1..Len(FlattenSeq(parts))
    PROVE  \E k \in 1..Len(parts) : parts[k] # <<>> /\ parts[k][1] = FlattenSeq(parts)[i]
<1>1. PICK x : x = FlattenSeq(parts)[i]
    OBVIOUS
<1>2. PICK s : s = FlattenSeq(parts)
    OBVIOUS
<1>3. s \in Seq(S) /\ IsFiniteSet(Parts(parts, {x}))
      /\ Cardinality(Places(s, {x})) = Cardinality(Parts(parts, {x}))
    BY <1>2, FlattenPlaces
<1>4. i \in Places(s, {x})
  <2>1. Places(s, {x}) = {j \in 1..Len(s) : s[j] \in {x}}
    BY <1>3, PlacesFinite
  <2> QED BY <1>1, <1>2, <2>1
<1>5. Cardinality(Places(s, {x})) # 0
    BY <1>3, <1>4, PlacesFinite
<1>6. Parts(parts, {x}) # {}
    BY <1>3, <1>5, FS_EmptySet
<1> QED BY <1>1, <1>6 DEF Parts

\* And the element of each part is in the batch.
LEMMA FlattenHolds ==
    ASSUME NEW S, NEW parts \in Seq(Seq(S)), Singles(parts),
           NEW k \in 1..Len(parts), parts[k] # <<>>
    PROVE  \E i \in 1..Len(FlattenSeq(parts)) : FlattenSeq(parts)[i] = parts[k][1]
<1>1. PICK x : x = parts[k][1]
    OBVIOUS
<1>2. PICK s : s = FlattenSeq(parts)
    OBVIOUS
<1>3. s \in Seq(S) /\ IsFiniteSet(Parts(parts, {x}))
      /\ Cardinality(Places(s, {x})) = Cardinality(Parts(parts, {x}))
    BY <1>2, FlattenPlaces
<1>4. k \in Parts(parts, {x})
    BY <1>1 DEF Parts
<1>5. Cardinality(Places(s, {x})) # 0
    BY <1>3, <1>4, FS_EmptySet
<1>6. Places(s, {x}) # {} /\ Places(s, {x}) = {j \in 1..Len(s) : s[j] \in {x}}
    BY <1>3, <1>5, PlacesFinite
<1> QED BY <1>1, <1>2, <1>6

SenderLinks ==
    [credit : Int, delivery_count : Int, draining : BOOLEAN, drained : BOOLEAN,
     issue_flow : BOOLEAN]

ReceiverLinks == [credit : Int, delivery_count : Int, drain : BOOLEAN, issue_flow : BOOLEAN]

Flows ==
    [type : {"flow"}, link : Links, drain : BOOLEAN, delivery_count : Int, link_credit : Int]

Transfers == [type : {"transfer"}, link : Links]

Acceptances == [type : {"disposition"}, count : Nat]

\* The sending peer, as its listeners and process pass it on.
Senders == [snd : [Links -> SenderLinks], ring : Seq(Deliveries), ready : [Links -> Nat]]

Typed ==
    /\ snd \in [Links -> SenderLinks]
    /\ ring \in Seq(Deliveries)
    /\ ready \in [Links -> Nat]
    /\ snd_registered \in BOOLEAN
    /\ rcv \in [Links -> ReceiverLinks]
    /\ unaccepted \in Nat
    /\ rcv_registered \in BOOLEAN
    /\ s2r \in Seq(Flows \cup Transfers)
    /\ r2s \in Seq(Flows \cup Acceptances)
    /\ drained \subseteq Links

-----------------------------------------------------------------------------
(* The links, and what is queued for each of them.                         *)

LEMMA NumberedLinks ==
    /\ Cardinality(Links) \in Nat
    /\ Links = 1..Cardinality(Links)
<1>1. Cardinality(Links) \in Nat
    BY LinkNumbers, FS_CardinalityType
<1> QED BY <1>1, LinkNumbers

\* What a set of naturals has as its least element.
LEMMA LeastIs ==
    ASSUME NEW S \in SUBSET Nat, S # {}
    PROVE  Least(S) \in S /\ \A y \in S : Least(S) <= y
<1>1. \E x \in S : \A y \in S : x <= y
    BY LeastExists
<1> QED BY <1>1 DEF Least

\* The same of two integers.
LEMMA LeastOfTwo ==
    ASSUME NEW a \in Int, NEW b \in Int
    PROVE  Least({a, b}) \in {a, b} /\ Least({a, b}) <= a /\ Least({a, b}) <= b
<1>1. \E x \in {a, b} : \A y \in {a, b} : x <= y
  <2>1. CASE a <= b
    BY <2>1
  <2>2. CASE b <= a
    BY <2>2
  <2> QED BY <2>1, <2>2
<1>2. Least({a, b}) \in {a, b} /\ \A y \in {a, b} : Least({a, b}) <= y
    BY <1>1 DEF Least
<1> QED BY <1>2

Waiting(l) == {[link |-> l, state |-> "queued"]}

LEMMA QueuedPlaces ==
    ASSUME NEW deliveries, NEW l
    PROVE  Queued(deliveries, l) = Places(deliveries, Waiting(l))
BY DEF Queued, Places, Waiting

LEMMA QueuedFinite ==
    ASSUME NEW deliveries \in Seq(Deliveries), NEW l
    PROVE  /\ IsFiniteSet(Queued(deliveries, l)) /\ Cardinality(Queued(deliveries, l)) \in Nat
           /\ Queued(deliveries, l) \subseteq 1..Len(deliveries)
           /\ Cardinality(Queued(deliveries, l)) = 0 <=> Queued(deliveries, l) = {}
<1>1. Places(deliveries, Waiting(l)) = {i \in 1..Len(deliveries) : deliveries[i] \in Waiting(l)}
    BY PlacesFinite
<1> QED BY <1>1, PlacesFinite, QueuedPlaces

LEMMA SentType ==
    ASSUME NEW l \in Links, NEW n \in Nat
    PROVE  Sent(l, n) \in Seq(Deliveries) /\ Len(Sent(l, n)) = n
<1>1. [link |-> l, state |-> "queued"] \in Deliveries
    BY DEF Deliveries
<1>2. Sent(l, n) = [k \in 1..n |-> [link |-> l, state |-> "queued"]]
    BY DEF Sent
<1> QED BY <1>1, <1>2

\* The ring with messages of a link that are sent, and without if there are none.
LEMMA SentBehind ==
    ASSUME NEW deliveries \in Seq(Deliveries), NEW l \in Links, NEW n \in Nat
    PROVE  /\ deliveries \o Sent(l, n) \in Seq(Deliveries)
           /\ Len(deliveries \o Sent(l, n)) = Len(deliveries) + n
           /\ n = 0 => deliveries \o Sent(l, n) = deliveries
<1>1. PICK more : more = Sent(l, n)
    OBVIOUS
<1>2. more \in Seq(Deliveries) /\ Len(more) = n
    BY <1>1, SentType
<1>3. /\ deliveries \o more \in Seq(Deliveries)
      /\ Len(deliveries \o more) = Len(deliveries) + n
    BY <1>2, ConcatProperties
<1>4. n = 0 => more = <<>>
    BY <1>2, EmptySeq
<1>5. deliveries \o <<>> = deliveries
    BY ConcatEmptySeq
<1> QED BY <1>1, <1>3, <1>4, <1>5

LEMMA ToSendIs ==
    ASSUME NEW link \in SenderLinks, NEW deliveries \in Seq(Deliveries), NEW messages \in Nat
    PROVE  /\ ToSend(link, deliveries, messages) \in Nat
           /\ ToSend(link, deliveries, messages) <= messages
<1>1. PICK room \in Int : room = Capacity - Len(deliveries)
    BY RingCapacity, LenProperties
<1>2. CASE ~ Sendable(link, deliveries)
    BY <1>2 DEF ToSend
<1>3. CASE Sendable(link, deliveries)
  <2>1. room > 0
    BY <1>1, <1>3, RingCapacity, LenProperties DEF Sendable
  <2>2. ToSend(link, deliveries, messages) = Least({room, messages})
    BY <1>1, <1>3 DEF ToSend
  <2>3. Least({room, messages}) \in {room, messages} /\ Least({room, messages}) <= messages
    <3>1. messages \in Int
        OBVIOUS
    <3> QED BY <3>1, LeastOfTwo
  <2> QED BY <2>1, <2>2, <2>3
<1> QED BY <1>2, <1>3

\* One ring is another, or longer.
Extends(a, b) == Len(b) \in Nat /\ Len(a) \in Nat /\ Len(b) <= Len(a) /\ (Len(a) = Len(b) => a = b)

\* A listener that is told puts messages into the ring, and touches no link.
LEMMA ToldIs ==
    ASSUME NEW peer \in Senders, NEW l \in Links
    PROVE  LET told == Told(peer, l)
           IN  /\ told \in Senders /\ told.snd = peer.snd
               /\ Extends(told.ring, peer.ring)
<1>1. /\ peer.snd \in [Links -> SenderLinks] /\ peer.ring \in Seq(Deliveries)
      /\ peer.ready \in [Links -> Nat] /\ peer.snd[l] \in SenderLinks /\ peer.ready[l] \in Nat
    BY DEF Senders
<1>2. PICK n \in Nat : n = ToSend(peer.snd[l], peer.ring, peer.ready[l]) /\ n <= peer.ready[l]
    BY <1>1, ToSendIs
<1>3. PICK deliveries : deliveries = peer.ring \o Sent(l, n)
    OBVIOUS
<1>4. /\ deliveries \in Seq(Deliveries) /\ Len(peer.ring) \in Nat
      /\ Len(deliveries) = Len(peer.ring) + n /\ (n = 0 => deliveries = peer.ring)
    BY <1>1, <1>3, SentBehind, LenProperties
<1>5. [peer.ready EXCEPT ![l] = peer.ready[l] - n] \in [Links -> Nat]
    BY <1>1, <1>2
<1>6. Told(peer, l) = [snd |-> peer.snd, ring |-> deliveries,
                       ready |-> [peer.ready EXCEPT ![l] = peer.ready[l] - n]]
  <2>1. Told(peer, l) = [peer EXCEPT !.ring = deliveries, !.ready[l] = peer.ready[l] - n]
    BY <1>2, <1>3 DEF Told
  <2> QED BY <2>1 DEF Senders
<1>7. Told(peer, l) \in Senders /\ Told(peer, l).snd = peer.snd /\ Told(peer, l).ring = deliveries
    BY <1>1, <1>4, <1>5, <1>6 DEF Senders
<1>8. Extends(deliveries, peer.ring)
    BY <1>2, <1>4 DEF Extends
<1> QED BY <1>7, <1>8

LEMMA SetDrainedIs ==
    ASSUME NEW link \in SenderLinks
    PROVE  LET set == SetDrained(link, TRUE)
           IN  /\ set \in SenderLinks /\ set.credit = link.credit
               /\ set.delivery_count = link.delivery_count /\ set.draining = link.draining
BY DEF SetDrained, SenderLinks

LEMMA DrainIs ==
    ASSUME NEW peer \in Senders, NEW l \in Links
    PROVE  LET after == Drain(peer, l)
           IN  /\ after \in Senders /\ after.ring = Told(peer, l).ring
               /\ after.ready = Told(peer, l).ready
               /\ after.snd = [peer.snd EXCEPT ![l] = SetDrained(peer.snd[l], TRUE)]
<1>1. PICK told : told = Told(peer, l)
    OBVIOUS
<1>2. told \in Senders /\ told.snd = peer.snd
    BY <1>1, ToldIs
<1>3. Drain(peer, l) = [told EXCEPT !.snd[l] = SetDrained(told.snd[l], TRUE)]
    BY <1>1 DEF Drain
<1>4. PICK set : set = SetDrained(peer.snd[l], TRUE)
    OBVIOUS
<1>5. set \in SenderLinks /\ peer.snd \in [Links -> SenderLinks]
    BY <1>4, SetDrainedIs DEF Senders
<1>6. Drain(peer, l) = [snd |-> [peer.snd EXCEPT ![l]
        = set], ring |-> told.ring, ready |-> told.ready]
    BY <1>2, <1>3, <1>4 DEF Senders
<1>7. [peer.snd EXCEPT ![l] = set] \in [Links -> SenderLinks]
    BY <1>5
<1>8. told.ring \in Seq(Deliveries) /\ told.ready \in [Links -> Nat]
    BY <1>2 DEF Senders
<1>9. /\ Drain(peer, l).ring = told.ring /\ Drain(peer, l).ready = told.ready
      /\ Drain(peer, l).snd = [peer.snd EXCEPT ![l] = set]
    BY <1>6
<1>10. Drain(peer, l) \in Senders
    BY <1>6, <1>7, <1>8 DEF Senders
<1> QED BY <1>1, <1>4, <1>9, <1>10

-----------------------------------------------------------------------------
(* What process does to the links and to the ring.                         *)

\* The messages of a link that the loop writes.
Going(l) == {i \in Queued(ring, l) : Goes(i)}

LEMMA GoingIs ==
    ASSUME NEW l \in Links, ring \in Seq(Deliveries), snd \in [Links -> SenderLinks]
    PROVE  /\ IsFiniteSet(Going(l)) /\ Cardinality(Going(l)) \in Nat
           /\ Cardinality(Going(l)) > 0 => Cardinality(Going(l)) <= snd[l].credit
<1>1. /\ IsFiniteSet(Queued(ring, l)) /\ Queued(ring, l) \subseteq 1..Len(ring)
      /\ Cardinality(Queued(ring, l)) \in Nat /\ Len(ring) \in Nat
    BY QueuedFinite, LenProperties
<1>2. IsFiniteSet(Going(l)) /\ Cardinality(Going(l)) \in Nat /\ Going(l) \in SUBSET (1..Len(ring))
  <2>1. Going(l) \in SUBSET Queued(ring, l)
    BY DEF Going
  <2>2. IsFiniteSet(Going(l))
    BY <1>1, <2>1, FS_Subset
  <2> QED BY <1>1, <2>1, <2>2, FS_CardinalityType
<1>3. ASSUME Cardinality(Going(l)) > 0
      PROVE  Cardinality(Going(l)) <= snd[l].credit
  <2>1. Going(l) # {}
    BY <1>2, <1>3, FS_EmptySet
  <2>2. PICK i \in Going(l) : \A y \in Going(l) : y <= i
    BY <1>1, <1>2, <2>1, GreatestExists
  <2>3. i \in Queued(ring, l) /\ Goes(i) /\ i \in 1..Len(ring) /\ ring[i].link = l
        /\ ring[i].state = "queued"
    BY <1>1, <2>2 DEF Going, Queued
  <2>4. Cardinality({k \in Queued(ring, l) : k <= i}) <= snd[l].credit
    <3>1. i \in 1..i
        BY <2>3
    <3> QED BY <2>3, <3>1 DEF Goes
  <2> DEFINE upTo == {k \in Queued(ring, l) : k <= i}
  <2>5. Going(l) \in SUBSET upTo
    BY <2>2 DEF Going
  <2>6. IsFiniteSet(upTo) /\ upTo \in SUBSET Queued(ring, l)
    BY <1>1, FS_Subset
  <2>7. Cardinality(upTo) \in Nat
    BY <2>6, FS_CardinalityType
  <2>8. Cardinality(Going(l)) <= Cardinality(upTo)
    <3> HIDE DEF upTo
    <3> QED BY <2>5, <2>6, FS_Subset
  <2>9. snd[l].credit \in Int
    BY DEF SenderLinks
  <2> QED BY <1>2, <2>4, <2>7, <2>8, <2>9
<1> QED BY <1>2, <1>3

\* Each message that goes takes one of the credit and is counted.
LEMMA ChargedIs ==
    ASSUME ring \in Seq(Deliveries), snd \in [Links -> SenderLinks]
    PROVE  /\ Charged \in [Links -> SenderLinks]
           /\ \A l \in Links :
                 /\ Charged[l].credit = snd[l].credit - Cardinality(Going(l))
                 /\ Charged[l].delivery_count = snd[l].delivery_count + Cardinality(Going(l))
                 /\ Charged[l].draining = snd[l].draining
                 /\ Charged[l].drained = snd[l].drained
                 /\ Charged[l].issue_flow = snd[l].issue_flow
<1>1. ASSUME NEW l \in Links
      PROVE  /\ Charged[l] \in SenderLinks
             /\ Charged[l].credit = snd[l].credit - Cardinality(Going(l))
             /\ Charged[l].delivery_count = snd[l].delivery_count + Cardinality(Going(l))
             /\ Charged[l].draining = snd[l].draining
             /\ Charged[l].drained = snd[l].drained
             /\ Charged[l].issue_flow = snd[l].issue_flow
  <2>1. PICK n \in Nat : n = Cardinality(Going(l))
    BY GoingIs
  <2>2. Charged[l] = [snd[l] EXCEPT !.credit = @ - n, !.delivery_count = @ + n]
    BY <2>1 DEF Charged, Going
  <2>3. PICK s \in SenderLinks : s = snd[l]
    OBVIOUS
  <2>4. PICK c \in Int, d \in Int : c = s.credit - n /\ d = s.delivery_count + n
    BY <2>1 DEF SenderLinks
  <2>5. Charged[l] = [s EXCEPT !.credit = c, !.delivery_count = d]
    BY <2>2, <2>3, <2>4
  <2> QED BY <2>1, <2>3, <2>4, <2>5 DEF SenderLinks
<1>2. DOMAIN Charged = Links /\ Charged = [l \in Links |-> Charged[l]]
    BY DEF Charged
<1> QED BY <1>1, <1>2

\* What is left once the settled head is popped, from some place of the ring on.
LEMMA PoppedIs ==
    ASSUME ring \in Seq(Deliveries)
    PROVE  /\ Popped \in Seq(Deliveries)
           /\ \E gone \in Nat :
                 /\ \A j \in 1..gone : ring[j].state = "settled"
                 /\ \A i \in 1..Len(Popped) :
                       /\ gone + i \in 1..Len(ring)
                       /\ Popped[i] = IF Goes(gone + i)
                                      THEN [ring[gone + i] EXCEPT !.state = "sent"]
                                      ELSE ring[gone + i]
<1> DEFINE marked == [i \in DOMAIN ring |-> IF Goes(i) THEN [ring[i] EXCEPT !.state = "sent"]
                                                       ELSE ring[i]]
           first == Least(Unsettled)
<1>1. Len(ring) \in Nat /\ DOMAIN ring = 1..Len(ring)
        /\ \A i \in 1..Len(ring) : ring[i] \in Deliveries
    BY LenProperties, ElementOfSeq
<1>2. \A i \in 1..Len(ring) : marked[i] \in Deliveries
    BY <1>1 DEF Deliveries
<1>3. Popped = IF Unsettled = {} THEN <<>> ELSE SubSeq(marked, first, Len(ring))
    BY DEF Popped
<1>4. CASE Unsettled = {}
  <2>1. Popped = <<>> /\ Len(Popped) = 0
    BY <1>3, <1>4
  <2>2. Popped \in Seq(Deliveries)
    BY <2>1, EmptySeq
  <2>3. 1..0 = {} /\ 1..Len(Popped) = {}
    BY <2>1
  <2>4. \E gone \in Nat : 1..gone = {}
    BY <2>3
  <2> QED BY <2>2, <2>3, <2>4
<1>5. CASE Unsettled # {}
  <2>1. first \in Unsettled /\ first \in 1..Len(ring) /\ \A j \in Unsettled : first <= j
    <3>1. Unsettled \in SUBSET Nat /\ Unsettled \subseteq 1..Len(ring)
        BY <1>1 DEF Unsettled
    <3> QED BY <1>5, <3>1, LeastIs
  <2> HIDE DEF first
  <2>2. \A j \in 1..first - 1 : ring[j].state = "settled"
    <3>1. SUFFICES ASSUME NEW j \in 1..first - 1 PROVE ring[j].state = "settled"
        OBVIOUS
    <3>2. j \in 1..Len(ring) /\ ~ (first <= j)
        BY <1>1, <2>1
    <3>3. j \notin Unsettled
        BY <2>1, <3>2
    <3> QED BY <1>1, <3>2, <3>3 DEF Unsettled
  <2>3. \A i \in 1..Len(ring) : marked[i] = IF Goes(i) THEN [ring[i] EXCEPT !.state = "sent"]
                                             ELSE ring[i]
    BY <1>1
  <2> HIDE DEF marked
  <2>4. PICK kept : kept = SubSeq(marked, first, Len(ring))
    OBVIOUS
  <2>5. \A i \in first..Len(ring) : marked[i] \in Deliveries
    BY <1>1, <1>2, <2>1
  <2>6. /\ kept \in Seq(Deliveries) /\ Len(kept) = Len(ring) - first + 1
        /\ \A i \in 1..(Len(ring) - first + 1) : kept[i] = marked[first + i - 1]
    BY <1>1, <2>1, <2>4, <2>5, SubSeqProperties
  <2>7. PICK gone \in Nat : gone = first - 1
    BY <1>1, <2>1
  <2>8. \A j \in 1..gone : ring[j].state = "settled"
    BY <2>2, <2>7
  <2>9. ASSUME NEW i \in 1..Len(kept)
        PROVE  /\ gone + i \in 1..Len(ring)
               /\ kept[i] = IF Goes(gone + i) THEN [ring[gone + i] EXCEPT !.state = "sent"]
                            ELSE ring[gone + i]
    <3>1. gone + i \in 1..Len(ring) /\ kept[i] = marked[gone + i]
      <4>1. i \in 1..(Len(ring) - first + 1) /\ first + i - 1 = gone + i
        BY <1>1, <2>1, <2>6, <2>7
      <4> QED BY <1>1, <2>1, <2>6, <2>7, <4>1
    <3> QED BY <2>3, <3>1
  <2>10. Popped = kept
    BY <1>3, <1>5, <2>4
  <2> QED BY <2>6, <2>8, <2>9, <2>10
<1> QED BY <1>4, <1>5

\* The loop has charged the first message that it leaves queued all the credit of its link.
LEMMA BlockedIs ==
    ASSUME ring \in Seq(Deliveries), snd \in [Links -> SenderLinks],
           NEW i \in 1..Len(Popped), Popped[i].state = "queued",
           \A j \in 1..i - 1 : Popped[j].state # "queued"
    PROVE  Popped[i].link \in Links /\ Charged[Popped[i].link].credit <= 0
<1>1. Len(ring) \in Nat /\ DOMAIN ring = 1..Len(ring)
        /\ \A k \in 1..Len(ring) : ring[k] \in Deliveries
    BY LenProperties, ElementOfSeq
<1>2. PICK gone \in Nat :
        /\ \A j \in 1..gone : ring[j].state = "settled"
        /\ \A k \in 1..Len(Popped) :
              /\ gone + k \in 1..Len(ring)
              /\ Popped[k] = IF Goes(gone + k) THEN [ring[gone + k] EXCEPT !.state = "sent"]
                             ELSE ring[gone + k]
    BY PoppedIs
<1>3. Popped \in Seq(Deliveries) /\ Len(Popped) \in Nat
    BY PoppedIs, LenProperties
<1>4. PICK p \in 1..Len(ring) : p = gone + i
    BY <1>2
<1>5. ~ Goes(p) /\ ring[p] = Popped[i] /\ ring[p].state = "queued"
  <2>1. Goes(p) => Popped[i].state = "sent"
    BY <1>1, <1>2, <1>4 DEF Deliveries
  <2> QED BY <1>2, <1>4, <2>1
<1>6. ASSUME NEW j \in 1..p - 1, ring[j].state = "queued" PROVE Goes(j)
  <2>1. j \notin 1..gone
    BY <1>2, <1>6
  <2>2. PICK k \in 1..i - 1 : j = gone + k
    <3>1. j - gone \in 1..i - 1 /\ j = gone + (j - gone)
        BY <1>3, <1>4, <2>1
    <3> QED BY <3>1
  <2>3. k \in 1..Len(Popped) /\ Popped[k].state # "queued"
    BY <1>3, <2>2
  <2> QED BY <1>2, <1>6, <2>2, <2>3
<1>7. PICK m \in Links : m = ring[p].link
    BY <1>1 DEF Deliveries
<1> DEFINE upTo == {k \in Queued(ring, m) : k <= p}
<1>8. ~ (Cardinality(upTo) <= snd[m].credit)
  <2>1. PICK j \in 1..p : /\ ring[j].state = "queued"
                          /\ ~ (Cardinality({k \in Queued(ring, ring[j].link) : k <= j})
                                    <= snd[ring[j].link].credit)
    BY <1>5 DEF Goes
  <2>2. j = p
    <3>1. SUFFICES ASSUME j # p PROVE FALSE
        OBVIOUS
    <3>2. j \in 1..p - 1 /\ j \in 1..j
        BY <1>1, <1>4, <3>1
    <3>3. Goes(j)
        BY <1>6, <2>1, <3>2
    <3> QED BY <2>1, <3>2, <3>3 DEF Goes
  <2> QED BY <1>7, <2>1, <2>2
<1>9. upTo \in SUBSET (Going(m) \cup {p})
  <2>1. SUFFICES ASSUME NEW k \in Queued(ring, m), k <= p, k # p PROVE k \in Going(m)
    OBVIOUS
  <2>2. k \in 1..p - 1 /\ ring[k].state = "queued"
    BY <1>1, <1>4, <2>1 DEF Queued
  <2> QED BY <1>6, <2>1, <2>2 DEF Going
<1>10. /\ IsFiniteSet(Going(m)) /\ Cardinality(Going(m)) \in Nat
       /\ Charged[m].credit = snd[m].credit - Cardinality(Going(m)) /\ snd[m].credit \in Int
    BY GoingIs, ChargedIs DEF SenderLinks
<1>11. /\ IsFiniteSet(Going(m) \cup {p}) /\ Cardinality(Going(m) \cup {p}) \in Nat
       /\ Cardinality(Going(m) \cup {p}) <= Cardinality(Going(m)) + 1
  <2>1. /\ IsFiniteSet(Going(m) \cup {p})
        /\ Cardinality(Going(m) \cup {p}) = Cardinality(Going(m))
             \/ Cardinality(Going(m) \cup {p}) = Cardinality(Going(m)) + 1
    BY <1>10, FS_AddElement
  <2> QED BY <1>10, <2>1
<1> HIDE DEF upTo
<1>12. Cardinality(upTo) \in Nat /\ Cardinality(upTo) <= Cardinality(Going(m) \cup {p})
    BY <1>9, <1>11, FS_Subset, FS_CardinalityType
<1>13. Charged[m].credit <= 0
    BY <1>8, <1>10, <1>11, <1>12
<1> QED BY <1>5, <1>7, <1>13

\* One link after the other is told.
LEMMA NotifiedIs ==
    ASSUME ring \in Seq(Deliveries), snd \in [Links -> SenderLinks], ready \in [Links -> Nat]
    PROVE  /\ Notified \in Senders /\ Notified.snd = Charged
           /\ Extends(Notified.ring, Popped)
<1> DEFINE peer == [snd |-> Charged, ring |-> Popped, ready |-> ready]
           n == Cardinality(Links)
           Body(g) == [l \in 0..n |-> IF l = 0 THEN peer ELSE Notify(g[l - 1], l)]
           step == [p \in (1..n) \X Senders |-> Notify(p[2], p[1])]
           upTo == CHOOSE g : g = Body(g)
           Good(p) == p.snd = Charged /\ Extends(p.ring, Popped)
<1>1. n \in Nat /\ Links = 1..n
    BY NumberedLinks
<1>2. peer \in Senders
    BY ChargedIs, PoppedIs DEF Senders
<1>3. ASSUME NEW p \in Senders, NEW l \in Links
      PROVE  Notify(p, l) \in Senders /\ (Good(p) => Good(Notify(p, l)))
  <2>1. /\ Told(p, l) \in Senders /\ Told(p, l).snd = p.snd
        /\ Extends(Told(p, l).ring, p.ring)
    BY <1>1, <1>3, ToldIs
  <2>2. Extends(p.ring, Popped) => Extends(Told(p, l).ring, Popped)
    BY <2>1 DEF Extends
  <2> QED BY <1>3, <2>1, <2>2 DEF Notify
<1>4. step \in [(1..n) \X Senders -> Senders]
  <2>1. \A p \in (1..n) \X Senders : Notify(p[2], p[1]) \in Senders
    BY <1>1, <1>3
  <2> HIDE DEF n
  <2> QED BY <2>1
<1>5. PICK f \in [0..n -> Senders] : Recurs(f, n, peer, step)
  <2> HIDE DEF step, n, peer
  <2> QED BY <1>1, <1>2, <1>4, Recursion
<1> HIDE DEF peer
<1>6. f[0] = peer /\ \A l \in 1..n : f[l] = Notify(f[l - 1], l)
  <2>1. SUFFICES ASSUME NEW l \in 1..n
                 PROVE  f[l] = Notify(f[l - 1], l)
    BY <1>5 DEF Recurs
  <2>2. <<l, f[l - 1]>> \in (1..n) \X Senders
    <3>1. l - 1 \in 0..n
        BY <1>1
    <3> QED BY <3>1, <1>5
  <2> QED BY <2>2, <1>5 DEF Recurs
<1>7. f = Body(f)
  <2> HIDE DEF n
  <2>1. \A l \in 0..n : f[l] = IF l = 0 THEN peer ELSE Notify(f[l - 1], l)
    BY <1>1, <1>6
  <2>2. f = [l \in 0..n |-> f[l]]
    BY <1>5
  <2> QED BY <2>1, <2>2
<1>8. upTo = Body(upTo)
  <2> HIDE DEF Body
  <2> QED BY <1>7
<1>9. Notified = IF WasBlocked /\ Len(peer.ring) < Capacity THEN upTo[n] ELSE peer
    BY DEF Notified, peer
<1> HIDE DEF upTo
<1>10. upTo[0] = peer /\ \A l \in 1..n : upTo[l] = Notify(upTo[l - 1], l)
  <2> HIDE DEF n
  <2>1. PICK h : h = upTo
    OBVIOUS
  <2>2. h = Body(h)
    BY <1>8, <2>1
  <2>3. \A l \in 0..n : h[l] = IF l = 0 THEN peer ELSE Notify(h[l - 1], l)
    BY <2>2
  <2>4. \A l \in 1..n : l \in 0..n /\ l # 0
    BY <1>1
  <2>5. 0 \in 0..n
    BY <1>1
  <2> QED BY <2>1, <2>3, <2>4, <2>5
<1>11. Good(peer)
  <2>1. Extends(Popped, Popped)
    BY PoppedIs, LenProperties DEF Extends
  <2> QED BY <2>1 DEF peer
<1> DEFINE Bad == {l \in 0..n : ~ (upTo[l] \in Senders /\ Good(upTo[l]))}
<1>12. Bad = {}
  <2> HIDE DEF Good
  <2>1. SUFFICES ASSUME Bad # {} PROVE FALSE
    OBVIOUS
  <2>2. PICK l \in Bad : \A y \in Bad : l <= y
    <3>1. Bad \in SUBSET Nat
        OBVIOUS
    <3> HIDE DEF Bad
    <3> QED BY <2>1, <3>1, LeastExists
  <2>3. l \in 0..n /\ ~ (upTo[l] \in Senders /\ Good(upTo[l]))
    BY <2>2
  <2>4. l # 0
    BY <1>2, <1>10, <1>11, <2>3
  <2>5. l \in 1..n /\ l - 1 \in 0..n /\ ~ (l <= l - 1)
    BY <1>1, <2>3, <2>4
  <2>6. upTo[l - 1] \in Senders /\ Good(upTo[l - 1])
    <3>1. l - 1 \notin Bad
      <4> HIDE DEF Bad
      <4> QED BY <2>2, <2>5
    <3> QED BY <2>5, <3>1
  <2> QED BY <1>1, <1>3, <1>10, <2>3, <2>5, <2>6
<1>13. upTo[n] \in Senders /\ Good(upTo[n])
  <2>1. n \in 0..n
    BY <1>1
  <2> HIDE DEF n
  <2> QED BY <1>12, <2>1
<1>14. Notified \in Senders /\ Good(Notified)
    BY <1>2, <1>9, <1>11, <1>13
<1> QED BY <1>14

-----------------------------------------------------------------------------
(* What the links write.                                                   *)

\* The answers to a drain of this link.
GivenUp(l) == {f \in Flows : f.link = l /\ f.drain}

LEMMA FlowType ==
    ASSUME NEW l \in Links, NEW link, link.delivery_count \in Int, link.credit \in Int,
           NEW drain \in BOOLEAN
    PROVE  /\ Flow(l, link, drain) \in Flows
           /\ Flow(l, link, drain).link = l /\ Flow(l, link, drain).drain = drain
           /\ Flow(l, link, drain).delivery_count = link.delivery_count
           /\ Flow(l, link, drain).link_credit = link.credit
BY DEF Flow, Flows

LEMMA TransferType ==
    ASSUME NEW l \in Links
    PROVE  /\ Transfer(l) \in Transfers /\ Transfer(l) \notin Flows
           /\ \A m \in Links : Transfer(l) = Transfer(m) => l = m
<1>1. Transfer(l) \in Transfers
    BY DEF Transfer, Transfers
<1>2. Transfer(l).type = "transfer" /\ \A f \in Flows : f.type = "flow"
    BY DEF Transfer, Flows
<1>3. \A m \in Links : Transfer(m).link = m
    BY DEF Transfer
<1> QED BY <1>1, <1>2, <1>3

LEMMA GiveUpIs ==
    ASSUME NEW link \in SenderLinks
    PROVE  /\ GiveUp(link) \in SenderLinks /\ GiveUp(link).credit = 0
           /\ GiveUp(link).delivery_count = link.delivery_count + link.credit
           /\ GiveUp(link).draining = link.draining
<1>1. PICK d \in Int : d = link.delivery_count + link.credit
    BY DEF SenderLinks
<1>2. PICK once : once = [link EXCEPT !.credit = 0]
    OBVIOUS
<1>3. /\ once \in SenderLinks /\ once.credit = 0 /\ once.draining = link.draining
      /\ once.delivery_count = link.delivery_count
    BY <1>2 DEF SenderLinks
<1>4. GiveUp(link) = [once EXCEPT !.delivery_count = once.delivery_count + link.credit]
    BY <1>2 DEF GiveUp
<1>5. GiveUp(link) = [once EXCEPT !.delivery_count = d]
    BY <1>1, <1>3, <1>4
<1> QED BY <1>1, <1>3, <1>5 DEF SenderLinks

\* Does the link give up its credit in the flow it is to write?
GivesUp(link) == link.issue_flow /\ link.draining /\ link.drained /\ link.credit # 0

LEMMA FlowOfIs ==
    ASSUME NEW l \in Links, NEW link \in SenderLinks
    PROVE  /\ FlowOf(l, link) \in Seq(Flows) /\ Len(FlowOf(l, link)) <= 1
           /\ FlowOf(l, link) # <<>> =>
                 /\ FlowOf(l, link)[1] \in Flows
                 /\ FlowOf(l, link)[1].link = l
                 /\ FlowOf(l, link)[1].drain <=> GivesUp(link)
                 /\ GivesUp(link) =>
                       /\ FlowOf(l, link)[1].link_credit = 0
                       /\ FlowOf(l, link)[1].delivery_count = link.delivery_count + link.credit
           /\ GivesUp(link) => FlowOf(l, link) # <<>>
<1>1. link.issue_flow \in BOOLEAN /\ link.delivery_count \in Int /\ link.credit \in Int
    BY DEF SenderLinks
<1>2. CASE ~ link.issue_flow
  <2>1. FlowOf(l, link) = <<>> /\ ~ GivesUp(link)
    BY <1>2 DEF FlowOf, GivesUp
  <2> QED BY <2>1, EmptySeq
<1>3. CASE link.issue_flow /\ MayDrain(link)
  <2>1. PICK f : f = Flow(l, GiveUp(link), TRUE)
    OBVIOUS
  <2>2. /\ f \in Flows /\ f.link = l /\ f.drain = TRUE /\ f.link_credit = 0
        /\ f.delivery_count = link.delivery_count + link.credit
    BY <2>1, FlowType, GiveUpIs DEF SenderLinks
  <2>3. FlowOf(l, link) = <<f>> /\ GivesUp(link)
    BY <1>3, <2>1 DEF FlowOf, GivesUp, MayDrain
  <2> QED BY <2>2, <2>3
<1>4. CASE link.issue_flow /\ ~ MayDrain(link)
  <2>1. PICK f : f = Flow(l, link, FALSE)
    OBVIOUS
  <2>2. f \in Flows /\ f.link = l /\ f.drain = FALSE
    BY <1>1, <2>1, FlowType
  <2>3. FlowOf(l, link) = <<f>> /\ ~ GivesUp(link)
    BY <1>4, <2>1 DEF FlowOf, GivesUp, MayDrain
  <2> QED BY <2>2, <2>3
<1> QED BY <1>1, <1>2, <1>3, <1>4

LEMMA AfterFlowIs ==
    ASSUME NEW link \in SenderLinks
    PROVE  /\ AfterFlow(link) \in SenderLinks
           /\ AfterFlow(link).draining = link.draining
           /\ GivesUp(link) =>
                 /\ AfterFlow(link).credit = 0
                 /\ AfterFlow(link).delivery_count = link.delivery_count + link.credit
           /\ ~ GivesUp(link) =>
                 /\ AfterFlow(link).credit = link.credit
                 /\ AfterFlow(link).delivery_count = link.delivery_count
<1>1. PICK given \in SenderLinks : given = IF GivesUp(link) THEN GiveUp(link) ELSE link
    BY GiveUpIs
<1>2. AfterFlow(link) = [given EXCEPT !.issue_flow = FALSE]
    BY <1>1 DEF AfterFlow, GivesUp, MayDrain
<1>3. /\ AfterFlow(link) \in SenderLinks /\ AfterFlow(link).credit = given.credit
      /\ AfterFlow(link).delivery_count = given.delivery_count
      /\ AfterFlow(link).draining = given.draining
    BY <1>2 DEF SenderLinks
<1> QED BY <1>1, <1>3, GiveUpIs

\* The transfers of a run of process.
TransferParts == [i \in DOMAIN ring |-> IF Goes(i) THEN <<Transfer(ring[i].link)>> ELSE <<>>]

LEMMA TransfersAre ==
    ASSUME ring \in Seq(Deliveries), snd \in [Links -> SenderLinks]
    PROVE  /\ FlattenSeq(TransferParts) \in Seq(Transfers)
           /\ \A l \in Links : Cardinality(Places(FlattenSeq(TransferParts), {Transfer(l)}))
                                   = Cardinality(Going(l))
<1> DEFINE parts == TransferParts
<1>1. Len(ring) \in Nat /\ DOMAIN ring = 1..Len(ring)
        /\ \A i \in 1..Len(ring) : ring[i] \in Deliveries
    BY LenProperties, ElementOfSeq
<1>2. \A i \in 1..Len(ring) : ring[i].link \in Links
        /\ ring[i] = [link |-> ring[i].link, state |-> ring[i].state]
    BY <1>1 DEF Deliveries
<1>3. ASSUME NEW i \in 1..Len(ring)
      PROVE  /\ parts[i] \in Seq(Transfers) /\ Len(parts[i]) <= 1
             /\ parts[i] # <<>> <=> Goes(i)
             /\ Goes(i) => parts[i][1] = Transfer(ring[i].link)
  <2>1. PICK x : x = Transfer(ring[i].link)
    OBVIOUS
  <2>2. x \in Transfers
    BY <1>2, <2>1, TransferType
  <2>3. parts[i] = IF Goes(i) THEN <<x>> ELSE <<>>
    BY <1>1, <2>1 DEF TransferParts
  <2>4. <<x>> \in Seq(Transfers) /\ Len(<<x>>) = 1 /\ <<x>>[1] = x /\ <<x>> # <<>>
    BY <2>2
  <2> QED BY <2>1, <2>3, <2>4, EmptySeq
<1>4. parts \in [1..Len(ring) -> Seq(Transfers)] /\ parts \in Seq(Seq(Transfers))
        /\ Len(parts) = Len(ring)
  <2>1. parts \in [1..Len(ring) -> Seq(Transfers)]
    BY <1>1, <1>3 DEF TransferParts
  <2> HIDE DEF parts
  <2> QED BY <1>1, <2>1
<1>5. Singles(parts)
    BY <1>3, <1>4 DEF Singles
<1>6. ASSUME NEW l \in Links
      PROVE  Parts(parts, {Transfer(l)}) = Going(l)
  <2>1. \A i \in 1..Len(ring) : Goes(i) => ring[i].state = "queued"
    BY DEF Goes
  <2>2. \A i \in 1..Len(ring) : Goes(i) => (parts[i][1] \in {Transfer(l)} <=> ring[i].link = l)
    BY <1>2, <1>3, TransferType
  <2>3. \A i \in 1..Len(ring) :
            i \in Queued(ring, l) <=> ring[i].link = l /\ ring[i].state = "queued"
    BY <1>1, <1>2 DEF Queued
  <2>4. Going(l) = {i \in 1..Len(ring) : i \in Queued(ring, l) /\ Goes(i)}
    BY <1>1 DEF Going, Queued
  <2> HIDE DEF parts
  <2> QED BY <1>3, <1>4, <2>1, <2>2, <2>3, <2>4 DEF Parts
<1> HIDE DEF parts
<1>7. /\ FlattenSeq(parts) \in Seq(Transfers)
      /\ \A l \in Links : Cardinality(Places(FlattenSeq(parts), {Transfer(l)}))
           = Cardinality(Going(l))
  <2>1. FlattenSeq(parts) \in Seq(Transfers)
    BY <1>4, <1>5, FlattenPlaces
  <2>2. ASSUME NEW l \in Links
        PROVE  Cardinality(Places(FlattenSeq(parts), {Transfer(l)})) = Cardinality(Going(l))
    BY <1>4, <1>5, <1>6, FlattenPlaces
  <2> QED BY <2>1, <2>2
<1> QED BY <1>7 DEF parts

\* The flows of the senders after it.
FlowParts(links) == [l \in Links |-> FlowOf(l, links[l])]

LEMMA FlowsAre ==
    ASSUME NEW links \in [Links -> SenderLinks]
    PROVE  /\ FlattenSeq(FlowParts(links)) \in Seq(Flows)
           /\ \A l \in Links :
                 /\ Cardinality(Places(FlattenSeq(FlowParts(links)), GivenUp(l)))
                        = IF GivesUp(links[l]) THEN 1 ELSE 0
                 /\ \A i \in 1..Len(FlattenSeq(FlowParts(links))) :
                       FlattenSeq(FlowParts(links))[i] \in GivenUp(l) =>
                          /\ FlattenSeq(FlowParts(links))[i].link_credit = 0
                          /\ FlattenSeq(FlowParts(links))[i].delivery_count
                                 = links[l].delivery_count + links[l].credit
<1> DEFINE parts == FlowParts(links)
           n == Cardinality(Links)
<1>1. n \in Nat /\ Links = 1..n
    BY NumberedLinks
<1>2. ASSUME NEW l \in Links
      PROVE  /\ parts[l] = FlowOf(l, links[l]) /\ links[l] \in SenderLinks
             /\ parts[l] \in Seq(Flows) /\ Len(parts[l]) <= 1
  <2>1. parts[l] = FlowOf(l, links[l]) /\ links[l] \in SenderLinks
    BY DEF FlowParts
  <2> QED BY <2>1, FlowOfIs
<1>3. parts \in [1..n -> Seq(Flows)]
    BY <1>1, <1>2 DEF FlowParts
<1> HIDE DEF parts, n
<1>4. parts \in Seq(Seq(Flows)) /\ Len(parts) = n
    BY <1>1, <1>3
<1>5. Singles(parts)
    BY <1>1, <1>2, <1>4 DEF Singles
<1>6. PICK batch : batch = FlattenSeq(parts)
    OBVIOUS
<1>7. batch \in Seq(Flows)
    BY <1>4, <1>5, <1>6, FlattenPlaces
<1>8. ASSUME NEW l \in Links
      PROVE  Parts(parts, GivenUp(l)) = IF GivesUp(links[l]) THEN {l} ELSE {}
  <2>1. ASSUME NEW k \in Links
        PROVE  k \in Parts(parts, GivenUp(l)) <=> k = l /\ GivesUp(links[l])
    <3>1. k \in Parts(parts, GivenUp(l)) <=> parts[k] # <<>> /\ parts[k][1] \in GivenUp(l)
        BY <1>1, <1>4 DEF Parts
    <3> QED BY <1>2, <3>1, FlowOfIs DEF GivenUp
  <2>2. Parts(parts, GivenUp(l)) \subseteq Links
    BY <1>1, <1>4 DEF Parts
  <2> QED BY <2>1, <2>2
<1>9. ASSUME NEW l \in Links
      PROVE  Cardinality(Places(batch, GivenUp(l))) = IF GivesUp(links[l]) THEN 1 ELSE 0
  <2>1. Cardinality(Places(batch, GivenUp(l))) = Cardinality(Parts(parts, GivenUp(l)))
    BY <1>4, <1>5, <1>6, FlattenPlaces
  <2> QED BY <1>8, <2>1, FS_EmptySet, FS_Singleton
<1>10. ASSUME NEW l \in Links, NEW i \in 1..Len(batch), batch[i] \in GivenUp(l)
       PROVE  /\ batch[i].link_credit = 0
              /\ batch[i].delivery_count = links[l].delivery_count + links[l].credit
  <2>1. PICK k \in 1..Len(parts) : parts[k] # <<>> /\ parts[k][1] = batch[i]
    BY <1>4, <1>5, <1>6, FlattenMember
  <2>2. k \in Links /\ parts[k] = FlowOf(k, links[k]) /\ links[k] \in SenderLinks
    BY <1>1, <1>2, <1>4, <2>1
  <2>3. batch[i].link = k /\ batch[i].link = l /\ batch[i].drain
    BY <1>10, <2>1, <2>2, FlowOfIs DEF GivenUp
  <2> QED BY <2>1, <2>2, <2>3, FlowOfIs
<1> QED BY <1>6, <1>7, <1>9, <1>10 DEF parts

\* What the receivers write: a flow for each that is to write one.
RequestParts == [l \in Links |-> IF rcv[l].issue_flow
                                 THEN <<Flow(l, rcv[l], rcv[l].drain)>> ELSE <<>>]

LEMMA RequestsAre ==
    ASSUME rcv \in [Links -> ReceiverLinks]
    PROVE  /\ FlattenSeq(RequestParts) \in Seq(Flows)
           /\ \A i \in 1..Len(FlattenSeq(RequestParts)) :
                 \E l \in Links : /\ rcv[l].issue_flow
                                  /\ FlattenSeq(RequestParts)[i] = Flow(l, rcv[l], rcv[l].drain)
           /\ \A l \in Links : rcv[l].issue_flow =>
                 \E i \in 1..Len(FlattenSeq(RequestParts)) :
                     FlattenSeq(RequestParts)[i] = Flow(l, rcv[l], rcv[l].drain)
<1> DEFINE parts == RequestParts
           n == Cardinality(Links)
<1>1. n \in Nat /\ Links = 1..n
    BY NumberedLinks
<1>2. ASSUME NEW l \in Links
      PROVE  /\ parts[l] \in Seq(Flows) /\ Len(parts[l]) <= 1
             /\ parts[l] # <<>> <=> rcv[l].issue_flow
             /\ rcv[l].issue_flow => parts[l][1] = Flow(l, rcv[l], rcv[l].drain)
  <2>1. PICK f : f = Flow(l, rcv[l], rcv[l].drain)
    OBVIOUS
  <2>2. f \in Flows
    BY <2>1, FlowType DEF ReceiverLinks
  <2>3. parts[l] = IF rcv[l].issue_flow THEN <<f>> ELSE <<>>
    BY <2>1 DEF RequestParts
  <2>4. <<f>> \in Seq(Flows) /\ Len(<<f>>) = 1 /\ <<f>>[1] = f /\ <<f>> # <<>>
    BY <2>2
  <2> QED BY <2>1, <2>3, <2>4, EmptySeq
<1>3. parts \in [1..n -> Seq(Flows)]
    BY <1>1, <1>2 DEF RequestParts
<1> HIDE DEF parts, n
<1>4. parts \in Seq(Seq(Flows)) /\ Len(parts) = n
    BY <1>1, <1>3
<1>5. Singles(parts)
    BY <1>1, <1>2, <1>4 DEF Singles
<1>6. PICK batch : batch = FlattenSeq(parts)
    OBVIOUS
<1>7. batch \in Seq(Flows)
    BY <1>4, <1>5, <1>6, FlattenPlaces
<1>8. ASSUME NEW i \in 1..Len(batch)
      PROVE  \E l \in Links : rcv[l].issue_flow /\ batch[i] = Flow(l, rcv[l], rcv[l].drain)
  <2>1. PICK k \in 1..Len(parts) : parts[k] # <<>> /\ parts[k][1] = batch[i]
    BY <1>4, <1>5, <1>6, FlattenMember
  <2> QED BY <1>1, <1>2, <1>4, <2>1
<1>9. ASSUME NEW l \in Links, rcv[l].issue_flow
      PROVE  \E i \in 1..Len(batch) : batch[i] = Flow(l, rcv[l], rcv[l].drain)
  <2>1. l \in 1..Len(parts) /\ parts[l] # <<>> /\ parts[l][1] = Flow(l, rcv[l], rcv[l].drain)
    BY <1>1, <1>2, <1>4, <1>9
  <2> QED BY <1>4, <1>5, <1>6, <2>1, FlattenHolds
<1> QED BY <1>6, <1>7, <1>8, <1>9 DEF parts

-----------------------------------------------------------------------------
(* What the steps do, and the types.                                       *)

LEMMA InitTyped == Init => Typed
<1> SUFFICES ASSUME Init PROVE Typed
    OBVIOUS
<1>1. snd \in [Links -> SenderLinks] /\ rcv \in [Links -> ReceiverLinks]
    BY CreditWindows DEF Init, SenderLinks, ReceiverLinks
<1>2. ring \in Seq(Deliveries) /\ s2r \in Seq(Flows \cup Transfers)
        /\ r2s \in Seq(Flows \cup Acceptances)
    BY EmptySeq DEF Init
<1> QED BY <1>1, <1>2 DEF Init, Typed

LEMMA HeadOfS2r ==
    ASSUME s2r \in Seq(Flows \cup Transfers), s2r # <<>>
    PROVE  /\ Head(s2r) \in Flows \cup Transfers /\ Tail(s2r) \in Seq(Flows \cup Transfers)
           /\ Head(s2r).link \in Links
           /\ Head(s2r).type = "flow" <=> Head(s2r) \in Flows
           /\ Head(s2r).type = "transfer" => Head(s2r) = Transfer(Head(s2r).link)
<1>1. Head(s2r) \in Flows \cup Transfers /\ Tail(s2r) \in Seq(Flows \cup Transfers)
    BY HeadTailProperties
<1> QED BY <1>1 DEF Flows, Transfers, Transfer

LEMMA HeadOfR2s ==
    ASSUME r2s \in Seq(Flows \cup Acceptances), r2s # <<>>
    PROVE  /\ Head(r2s) \in Flows \cup Acceptances /\ Tail(r2s) \in Seq(Flows \cup Acceptances)
           /\ Head(r2s).type = "flow" <=> Head(r2s) \in Flows
<1>1. Head(r2s) \in Flows \cup Acceptances /\ Tail(r2s) \in Seq(Flows \cup Acceptances)
    BY HeadTailProperties
<1> QED BY <1>1 DEF Flows, Acceptances

LEMMA OfferIs ==
    ASSUME Typed, NEW l \in Links, Offer(l)
    PROVE  /\ Typed'
           /\ UNCHANGED <<snd, receiverVars, s2r, r2s>>
           /\ ~ snd_registered' => ~ snd_registered /\ ring' = ring
<1> DEFINE peer == [snd |-> snd, ring |-> ring, ready |-> [ready EXCEPT ![l] = @ + 1]]
<1>1. peer \in Senders /\ peer.snd = snd /\ peer.ring = ring
    BY DEF Typed, Senders
<1>2. /\ ring' = Told(peer, l).ring /\ ready' = Told(peer, l).ready
      /\ snd_registered' = (snd_registered \/ Len(Told(peer, l).ring) > Len(ring))
      /\ UNCHANGED <<snd, receiverVars, s2r, r2s>>
    BY DEF Offer
<1> HIDE DEF peer
<1>3. PICK told \in Senders : told = Told(peer, l) /\ Extends(told.ring, ring)
    BY <1>1, ToldIs
<1>4. ring' \in Seq(Deliveries) /\ ready' \in [Links -> Nat]
    BY <1>2, <1>3 DEF Senders
<1>5. snd_registered' \in BOOLEAN
    BY <1>2 DEF Typed
<1>6. ~ snd_registered' => ~ snd_registered /\ ring' = ring
  <2>1. SUFFICES ASSUME ~ snd_registered' PROVE ~ snd_registered /\ ring' = ring
    OBVIOUS
  <2>2. ~ snd_registered /\ ~ (Len(told.ring) > Len(ring))
    BY <1>2, <1>3, <2>1, Zenon
  <2>3. Len(told.ring) = Len(ring)
    BY <1>3, <2>2 DEF Extends
  <2> QED BY <1>2, <1>3, <2>2, <2>3 DEF Extends
<1> QED BY <1>2, <1>4, <1>5, <1>6 DEF Typed, receiverVars

LEMMA SendAtOnceIs ==
    ASSUME Typed, NEW l \in Links, SendAtOnce(l)
    PROVE  /\ Typed'
           /\ snd_registered' = TRUE
           /\ UNCHANGED <<snd, receiverVars, s2r, r2s>>
<1>1. /\ ring' = ring \o Sent(l, 1) /\ snd_registered' = TRUE
      /\ UNCHANGED <<snd, ready, receiverVars, s2r, r2s>>
    BY DEF SendAtOnce
<1>2. ring' \in Seq(Deliveries)
  <2>1. ring \in Seq(Deliveries) /\ 1 \in Nat
    BY DEF Typed
  <2> QED BY <1>1, <2>1, SentBehind
<1> QED BY <1>1, <1>2 DEF Typed, receiverVars

LEMMA SenderOnFlowIs ==
    ASSUME Typed, SenderOnFlow
    PROVE  /\ Typed'
           /\ r2s # <<>> /\ Head(r2s) \in Flows /\ Head(r2s).link \in Links
           /\ r2s' = Tail(r2s)
           /\ \A l \in Links : l # Head(r2s).link => snd'[l] = snd[l]
           /\ LET l == Head(r2s).link
              IN  /\ snd'[l].delivery_count = snd[l].delivery_count
                  /\ snd'[l].credit = Head(r2s).delivery_count + Head(r2s).link_credit
                                          - snd[l].delivery_count
                  /\ snd'[l].draining = Head(r2s).drain
           /\ snd_registered' = TRUE
           /\ UNCHANGED <<receiverVars, s2r>>
<1>1. r2s # <<>> /\ Head(r2s) \in Flows /\ Head(r2s).link \in Links
        /\ Tail(r2s) \in Seq(Flows \cup Acceptances)
    BY HeadOfR2s DEF SenderOnFlow, Typed, Flows
<1>2. PICK f \in Flows, l \in Links : f = Head(r2s) /\ l = f.link
    BY <1>1
<1>3. PICK credit \in Int : credit = f.delivery_count + f.link_credit - snd[l].delivery_count
    BY DEF Typed, SenderLinks, Flows
<1>4. PICK link : link = [snd[l] EXCEPT !.credit = credit, !.draining = f.drain, !.drained
             = credit > 0]
    OBVIOUS
<1>5. link \in SenderLinks /\ link.credit = credit /\ link.draining = f.drain
      /\ link.delivery_count = snd[l].delivery_count
  <2>1. PICK s \in SenderLinks : s = snd[l]
    <3>1. snd[l] \in SenderLinks
        BY <1>2 DEF Typed
    <3> QED BY <3>1
  <2>2. PICK some \in BOOLEAN : some = (credit > 0)
    <3>1. (credit > 0) \in BOOLEAN
        OBVIOUS
    <3> QED BY <3>1, Zenon
  <2>3. PICK drain \in BOOLEAN : drain = f.drain
    <3>1. f.drain \in BOOLEAN
        BY <1>2 DEF Flows
    <3> QED BY <3>1
  <2>4. link = [s EXCEPT !.credit = credit, !.draining = drain, !.drained = some]
    BY <1>4, <2>1, <2>2, <2>3
  <2>5. link \in SenderLinks /\ link.credit = credit /\ link.draining = drain
        /\ link.delivery_count = s.delivery_count
    BY <1>3, <2>4 DEF SenderLinks
  <2> QED BY <2>1, <2>3, <2>5
<1>6. PICK peer : peer = [snd |-> [snd EXCEPT ![l] = link], ring |-> ring, ready |-> ready]
    OBVIOUS
<1>7. peer \in Senders /\ peer.snd = [snd EXCEPT ![l] = link] /\ peer.ring = ring
    BY <1>5, <1>6 DEF Typed, Senders
<1>8. PICK told : told = IF f.drain THEN Drain(peer, l)
                         ELSE IF Sendable(link, ring) THEN Told(peer, l) ELSE peer
    OBVIOUS
<1>9. /\ snd' = told.snd /\ ring' = told.ring /\ ready' = told.ready /\ snd_registered' = TRUE
      /\ r2s' = Tail(r2s) /\ UNCHANGED <<offered, receiverVars, s2r>>
    BY <1>2, <1>3, <1>4, <1>6, <1>8 DEF SenderOnFlow, CreditAfter
<1>10. /\ told \in Senders
       /\ \A m \in Links : m # l => told.snd[m] = snd[m]
       /\ told.snd[l].credit = credit /\ told.snd[l].draining = f.drain
       /\ told.snd[l].delivery_count = snd[l].delivery_count
  <2>1. /\ \A m \in Links : m # l => peer.snd[m] = snd[m]
        /\ peer.snd[l] = link
    BY <1>7 DEF Typed
  <2>2. CASE ~ f.drain
    BY <1>5, <1>7, <1>8, <2>1, <2>2, ToldIs
  <2>3. CASE f.drain
    <3>1. /\ told \in Senders /\ told.ring = Told(peer, l).ring
          /\ told.snd = [peer.snd EXCEPT ![l] = SetDrained(peer.snd[l], TRUE)]
        BY <1>7, <1>8, <2>3, DrainIs
    <3>2. /\ \A m \in Links : m # l => told.snd[m] = peer.snd[m]
          /\ told.snd[l] = SetDrained(link, TRUE)
        BY <1>7, <2>1, <3>1 DEF Senders
    <3>3. \A m \in Links : m # l => told.snd[m] = snd[m]
        BY <2>1, <3>2
    <3>4. /\ told.snd[l].credit = credit /\ told.snd[l].draining = f.drain
          /\ told.snd[l].delivery_count = snd[l].delivery_count
        BY <1>5, <3>2, SetDrainedIs
    <3> QED BY <3>1, <3>3, <3>4
  <2> QED BY <2>2, <2>3
<1>11. Typed'
    BY <1>1, <1>9, <1>10 DEF Typed, Senders, receiverVars
<1> QED BY <1>1, <1>2, <1>3, <1>9, <1>10, <1>11

LEMMA SenderOnDispositionIs ==
    ASSUME Typed, SenderOnDisposition
    PROVE  /\ Typed'
           /\ r2s # <<>> /\ Head(r2s) \notin Flows
           /\ r2s' = Tail(r2s)
           /\ snd_registered' = TRUE
           /\ UNCHANGED <<snd, receiverVars, s2r>>
<1> DEFINE sent == {i \in DOMAIN ring : ring[i].state = "sent"}
           hit == {i \in sent : Cardinality({j \in sent : j <= i}) <= Head(r2s).count}
<1>1. /\ ring' = [i \in DOMAIN ring |-> IF i \in hit THEN [ring[i] EXCEPT !.state = "settled"]
                                        ELSE ring[i]]
      /\ snd_registered' = TRUE /\ r2s' = Tail(r2s)
      /\ UNCHANGED <<snd, ready, offered, receiverVars, s2r>>
      /\ r2s # <<>> /\ Head(r2s).type = "disposition"
    BY DEF SenderOnDisposition
<1>2. Head(r2s) \notin Flows /\ Tail(r2s) \in Seq(Flows \cup Acceptances)
    BY <1>1, HeadOfR2s DEF Typed
<1>3. Len(ring) \in Nat /\ DOMAIN ring = 1..Len(ring)
        /\ \A i \in 1..Len(ring) : ring[i] \in Deliveries
    BY LenProperties, ElementOfSeq DEF Typed
<1> HIDE DEF hit
<1>4. ring' \in Seq(Deliveries)
  <2>1. \A i \in 1..Len(ring) : [ring[i] EXCEPT !.state = "settled"] \in Deliveries
    BY <1>3 DEF Deliveries
  <2>2. ring' \in [1..Len(ring) -> Deliveries]
    BY <1>1, <1>3, <2>1
  <2> QED BY <1>3, <2>2
<1> QED BY <1>1, <1>2, <1>4 DEF Typed, receiverVars

LEMMA SenderProcessIs ==
    ASSUME Typed, SenderProcess
    PROVE  /\ Typed'
           /\ s2r' = s2r \o FlattenSeq(TransferParts) \o FlattenSeq(FlowParts(Charged))
           /\ snd' = [l \in Links |-> AfterFlow(Charged[l])]
           /\ ~ snd_registered' => ring' = Popped
           /\ UNCHANGED <<receiverVars, r2s>>
<1>1. /\ ring \in Seq(Deliveries) /\ snd \in [Links -> SenderLinks] /\ ready \in [Links -> Nat]
      /\ s2r \in Seq(Flows \cup Transfers)
    BY DEF Typed
<1>2. PICK told : told = Notified
    OBVIOUS
<1>3. told \in Senders /\ told.snd = Charged /\ Extends(told.ring, Popped)
    BY <1>1, <1>2, NotifiedIs
<1>4. /\ s2r' = s2r \o FlattenSeq(TransferParts) \o FlattenSeq(FlowParts(told.snd))
      /\ snd' = [l \in Links |-> AfterFlow(told.snd[l])]
      /\ ring' = told.ring /\ ready' = told.ready
      /\ snd_registered' = (Len(told.ring) > Len(Popped))
      /\ UNCHANGED <<offered, receiverVars, r2s>>
    BY <1>2 DEF SenderProcess, TransferParts, FlowParts
<1>5. Charged \in [Links -> SenderLinks]
    BY <1>1, ChargedIs
<1>6. s2r' \in Seq(Flows \cup Transfers)
  <2>1. FlattenSeq(TransferParts) \in Seq(Transfers)
          /\ FlattenSeq(FlowParts(Charged)) \in Seq(Flows)
    BY <1>1, <1>5, TransfersAre, FlowsAre
  <2>2. PICK a, b : a = FlattenSeq(TransferParts) /\ b = FlattenSeq(FlowParts(Charged))
    OBVIOUS
  <2>3. a \in Seq(Flows \cup Transfers) /\ b \in Seq(Flows \cup Transfers)
    BY <2>1, <2>2, SeqMonotonic
  <2>4. s2r \o a \in Seq(Flows \cup Transfers)
    BY <1>1, <2>3, ConcatProperties
  <2>5. (s2r \o a) \o b \in Seq(Flows \cup Transfers)
    BY <2>3, <2>4, ConcatProperties
  <2> QED BY <1>3, <1>4, <2>2, <2>5
<1>7. snd' \in [Links -> SenderLinks]
    BY <1>3, <1>4, <1>5, AfterFlowIs
<1>8. Typed'
    BY <1>3, <1>4, <1>6, <1>7 DEF Typed, Senders, receiverVars
<1>9. ~ snd_registered' => ring' = Popped
  <2>1. SUFFICES ASSUME ~ snd_registered' PROVE ring' = Popped
    OBVIOUS
  <2>2. ~ (Len(told.ring) > Len(Popped))
    BY <1>4, <2>1, Zenon
  <2>3. Len(told.ring) = Len(Popped)
    BY <1>3, <2>2 DEF Extends
  <2> QED BY <1>3, <1>4, <2>3 DEF Extends
<1> QED BY <1>3, <1>4, <1>8, <1>9

-----------------------------------------------------------------------------
(* What the sender has counted, and what the receiver has asked for.       *)

\* The count a link will have come to when its credit is used up.
Limit(link) == link.delivery_count + link.credit

FlowLimit(f) == f.delivery_count + f.link_credit

\* The frames of a link on their way to the receiver: messages, and credit given up.
Messages(l) == {Transfer(l)}

\* The flows of a link on their way to the sender.
Asked(l) == {f \in Flows : f.link = l}

\* The receiver r waits for a drain, or has seen the sender past this count.
Past(r, limit) == r.drain /\ (limit = Limit(r) \/ limit <= r.delivery_count)

\* One answer to a drain, at place i, and what both ends agree on while it is under way.
Answered(l, s, r, forth, i) ==
    /\ r.delivery_count + Cardinality(Places(forth, Messages(l))) < s.delivery_count
    /\ forth[i].delivery_count = s.delivery_count
    /\ forth[i].link_credit = 0
    /\ s.credit = 0
    /\ r.drain
    /\ Limit(r) = s.delivery_count
    /\ \A j \in Places(forth, Messages(l)) : j < i
    /\ \A j \in Places(forth, GivenUp(l)) : j = i

\* The counts of the two ends differ by what is under way.
Counted(l, s, r, forth) ==
    /\ s.credit >= 0
    /\ Limit(s) <= Limit(r)
    /\ Places(forth, GivenUp(l)) = {}
           => r.delivery_count + Cardinality(Places(forth, Messages(l))) = s.delivery_count
    /\ \A i \in Places(forth, GivenUp(l)) : Answered(l, s, r, forth, i)

\* The limits that the receiver asks for grow, up to its own.
Announced(l, s, r, back) ==
    /\ \A i \in Places(back, Asked(l)) :
          /\ Limit(s) <= FlowLimit(back[i]) /\ FlowLimit(back[i]) <= Limit(r)
          /\ back[i].drain => Past(r, FlowLimit(back[i]))
    /\ \A i, j \in Places(back, Asked(l)) : i < j => FlowLimit(back[i]) <= FlowLimit(back[j])
    /\ ~ r.issue_flow =>
          \/ Limit(s) = Limit(r)
          \/ \E i \in Places(back, Asked(l)) : FlowLimit(back[i]) = Limit(r)
    /\ s.draining => Past(r, Limit(s))
    /\ r.drain => l \in Drains

\* What a link that has been drained looks like from both ends.
Emptied(l, s, r, forth) ==
    /\ s.credit = 0 /\ Limit(r) = r.delivery_count
    /\ s.delivery_count = r.delivery_count
    /\ Places(forth, GivenUp(l)) = {}

\* Both ends of one link.
Agreed(l, s, r, forth, back, isDrained) ==
    /\ Counted(l, s, r, forth)
    /\ Announced(l, s, r, back)
    /\ isDrained => Emptied(l, s, r, forth)

\* The receiver has credit for every message that is under way, and one to spare for each
\* that is not there yet.
LEMMA RoomForMessages ==
    ASSUME NEW l \in Links, NEW s \in SenderLinks, NEW r \in ReceiverLinks,
           NEW forth \in Seq(Flows \cup Transfers), Counted(l, s, r, forth)
    PROVE  /\ Cardinality(Places(forth, Messages(l))) \in Nat
           /\ r.delivery_count + Cardinality(Places(forth, Messages(l))) <= s.delivery_count
           /\ r.credit >= Cardinality(Places(forth, Messages(l)))
<1>1. PICK u \in Nat : u = Cardinality(Places(forth, Messages(l)))
    BY PlacesFinite
<1>2. r.delivery_count + u <= s.delivery_count
  <2>1. CASE Places(forth, GivenUp(l)) = {}
    BY <1>1, <2>1 DEF Counted, SenderLinks, ReceiverLinks
  <2>2. CASE Places(forth, GivenUp(l)) # {}
    <3>1. PICK i \in Places(forth, GivenUp(l)) : TRUE
        BY <2>2
    <3>2. Answered(l, s, r, forth, i)
        BY <3>1 DEF Counted
    <3> QED BY <1>1, <3>2 DEF Answered, SenderLinks, ReceiverLinks
  <2> QED BY <2>1, <2>2
<1>3. s.delivery_count + s.credit <= r.delivery_count + r.credit /\ s.credit >= 0
    BY DEF Counted, Limit
<1>4. /\ s.delivery_count \in Int /\ s.credit \in Int
      /\ r.delivery_count \in Int /\ r.credit \in Int
    BY DEF SenderLinks, ReceiverLinks
<1> QED BY <1>1, <1>2, <1>3, <1>4

\* A frame of another link, or one that says nothing of this link, is read or written.
LEMMA OthersRead ==
    ASSUME NEW l \in Links, NEW s \in SenderLinks, NEW r \in ReceiverLinks,
           NEW forth \in Seq(Flows \cup Transfers), forth # <<>>,
           Head(forth) \notin Messages(l), Head(forth) \notin GivenUp(l),
           NEW back \in Seq(Flows \cup Acceptances), NEW isDrained,
           Agreed(l, s, r, forth, back, isDrained)
    PROVE  Agreed(l, s, r, Tail(forth), back, isDrained)
<1>1. /\ Len(forth) \in Nat /\ Len(Tail(forth)) = Len(forth) - 1
           /\ Tail(forth) \in Seq(Flows \cup Transfers)
      /\ \A i \in 1..Len(Tail(forth)) : Tail(forth)[i] = forth[i + 1]
    BY HeadTailProperties, LenProperties
<1>2. PICK tail \in Seq(Flows \cup Transfers) : tail = Tail(forth)
    BY <1>1
<1>3. /\ Cardinality(Places(tail, Messages(l))) = Cardinality(Places(forth, Messages(l)))
      /\ \A i \in 1..Len(tail) : i \in Places(tail, Messages(l))
           <=> i + 1 \in Places(forth, Messages(l))
      /\ \A i \in 1..Len(tail) : i \in Places(tail, GivenUp(l))
           <=> i + 1 \in Places(forth, GivenUp(l))
      /\ Cardinality(Places(tail, GivenUp(l))) = Cardinality(Places(forth, GivenUp(l)))
  <2>1. /\ Cardinality(Places(forth, Messages(l))) = Cardinality(Places(tail, Messages(l))) + 0
        /\ \A i \in 1..Len(tail) : i \in Places(tail, Messages(l))
             <=> i + 1 \in Places(forth, Messages(l))
    BY <1>2, PlacesTail
  <2>2. /\ Cardinality(Places(forth, GivenUp(l))) = Cardinality(Places(tail, GivenUp(l))) + 0
        /\ \A i \in 1..Len(tail) : i \in Places(tail, GivenUp(l))
             <=> i + 1 \in Places(forth, GivenUp(l))
    BY <1>2, PlacesTail
  <2>3. Cardinality(Places(tail, GivenUp(l))) \in Nat
          /\ Cardinality(Places(tail, Messages(l))) \in Nat
    BY PlacesFinite
  <2> QED BY <2>1, <2>2, <2>3
<1>4. /\ Places(tail, Messages(l)) \subseteq 1..Len(tail)
      /\ Places(tail, GivenUp(l)) \subseteq 1..Len(tail)
      /\ Places(tail, GivenUp(l)) = {} <=> Places(forth, GivenUp(l)) = {}
  <2>1. /\ Places(tail, Messages(l)) = {i \in 1..Len(tail) : tail[i] \in Messages(l)}
        /\ Places(tail, GivenUp(l)) = {i \in 1..Len(tail) : tail[i] \in GivenUp(l)}
    BY PlacesFinite
  <2>2. /\ Cardinality(Places(tail, GivenUp(l))) = 0 <=> Places(tail, GivenUp(l)) = {}
        /\ Cardinality(Places(forth, GivenUp(l))) = 0 <=> Places(forth, GivenUp(l)) = {}
    BY PlacesFinite
  <2>3. /\ Places(tail, Messages(l)) \subseteq 1..Len(tail)
        /\ Places(tail, GivenUp(l)) \subseteq 1..Len(tail)
    BY <2>1
  <2> QED BY <1>3, <2>2, <2>3
<1>5. Counted(l, s, r, tail)
  <2>1. SUFFICES ASSUME NEW i \in Places(tail, GivenUp(l))
                 PROVE  Answered(l, s, r, tail, i)
    BY <1>3, <1>4 DEF Counted, Agreed
  <2>2. i \in 1..Len(tail) /\ i + 1 \in Places(forth, GivenUp(l)) /\ tail[i] = forth[i + 1]
    BY <1>1, <1>2, <1>3, <1>4, <2>1
  <2>3. Answered(l, s, r, forth, i + 1)
    BY <2>2 DEF Agreed, Counted
  <2>4. \A j \in Places(tail, Messages(l)) : j < i
    <3>1. SUFFICES ASSUME NEW j \in Places(tail, Messages(l)) PROVE j < i
        OBVIOUS
    <3>2. j \in 1..Len(tail) /\ j + 1 \in Places(forth, Messages(l))
        BY <1>3, <1>4, <3>1
    <3>3. j + 1 < i + 1
        BY <2>3, <3>2 DEF Answered
    <3> QED BY <2>2, <3>2, <3>3
  <2>5. \A j \in Places(tail, GivenUp(l)) : j = i
    <3>1. SUFFICES ASSUME NEW j \in Places(tail, GivenUp(l)) PROVE j = i
        OBVIOUS
    <3>2. j \in 1..Len(tail) /\ j + 1 \in Places(forth, GivenUp(l))
        BY <1>3, <1>4, <3>1
    <3>3. j + 1 = i + 1
        BY <2>3, <3>2 DEF Answered
    <3> QED BY <2>2, <3>2, <3>3
  <2> QED BY <1>3, <2>2, <2>3, <2>4, <2>5 DEF Answered
<1> QED BY <1>2, <1>4, <1>5 DEF Agreed, Emptied

\* A flow of the link is taken: the sender's limit is the one it asks for.
LEMMA FlowTaken ==
    ASSUME NEW l \in Links, NEW s \in SenderLinks, NEW t \in SenderLinks, NEW r \in ReceiverLinks,
           NEW forth \in Seq(Flows \cup Transfers), NEW back \in Seq(Flows \cup Acceptances),
           NEW isDrained, Agreed(l, s, r, forth, back, isDrained),
           back # <<>>, Head(back) \in Asked(l),
           t.delivery_count = s.delivery_count,
           t.credit = Head(back).delivery_count + Head(back).link_credit - s.delivery_count,
           t.draining = Head(back).drain
    PROVE  Agreed(l, t, r, forth, Tail(back), isDrained) /\ t.credit >= s.credit
<1>1. PICK f \in Flows : f = Head(back)
    BY DEF Asked
<1>2. PICK tail \in Seq(Flows \cup Acceptances) : tail = Tail(back)
    BY HeadTailProperties
<1>3. /\ Len(back) \in Nat /\ Len(back) >= 1 /\ Len(tail) \in Nat
           /\ Len(tail) = Len(back) - 1 /\ back[1] = f
      /\ \A i \in 1..Len(tail) : tail[i] = back[i + 1]
    BY <1>1, <1>2, HeadTailProperties, LenProperties, EmptySeq
<1>4. /\ 1 \in Places(back, Asked(l))
      /\ Places(back, Asked(l)) \subseteq 1..Len(back)
      /\ Places(tail, Asked(l)) \subseteq 1..Len(tail)
      /\ \A i \in 1..Len(tail) : i \in Places(tail, Asked(l)) <=> i + 1 \in Places(back, Asked(l))
  <2>1. Places(back, Asked(l)) = {i \in 1..Len(back) : back[i] \in Asked(l)}
    BY PlacesFinite
  <2>2. Places(tail, Asked(l)) = {i \in 1..Len(tail) : tail[i] \in Asked(l)}
    BY PlacesFinite
  <2> QED BY <1>1, <1>3, <2>1, <2>2
<1>5. Limit(t) = FlowLimit(f) /\ Limit(s) <= Limit(t) /\ Limit(t) <= Limit(r)
      /\ Limit(s) \in Int /\ Limit(t) \in Int /\ Limit(r) \in Int
      /\ t.credit >= s.credit /\ s.credit >= 0
  <2>1. Limit(s) <= FlowLimit(f) /\ FlowLimit(f) <= Limit(r) /\ s.credit >= 0
    BY <1>3, <1>4 DEF Agreed, Announced, Counted
  <2>2. /\ f.delivery_count \in Int /\ f.link_credit \in Int /\ s.delivery_count \in Int
        /\ s.credit \in Int /\ r.delivery_count \in Int /\ r.credit \in Int
    BY DEF Flows, SenderLinks, ReceiverLinks
  <2>3. t.credit = f.delivery_count + f.link_credit - s.delivery_count
    BY <1>1
  <2>4. Limit(s) = s.delivery_count + s.credit /\ Limit(r) = r.delivery_count + r.credit
        /\ Limit(t) = s.delivery_count + t.credit /\ FlowLimit(f) = f.delivery_count + f.link_credit
    BY DEF Limit, FlowLimit
  <2>5. PICK a \in Int, b \in Int, c \in Int, d \in Int :
            a = f.delivery_count /\ b = f.link_credit /\ c = s.delivery_count /\ d = s.credit
    BY <2>2
  <2>6. PICK x \in Int, y \in Int : x = r.delivery_count /\ y = r.credit
    BY <2>2
  <2>7. t.credit = a + b - c /\ c + d <= a + b /\ a + b <= x + y /\ d >= 0
    BY <2>1, <2>3, <2>4, <2>5, <2>6
  <2>8. t.credit \in Int /\ t.credit >= d /\ c + t.credit = a + b
    BY <2>7
  <2>9. Limit(s) = c + d /\ Limit(t) = a + b /\ Limit(r) = x + y /\ FlowLimit(f) = a + b
    BY <2>4, <2>5, <2>6, <2>8
  <2>10. c + d <= a + b /\ a + b <= x + y /\ c + d \in Int /\ a + b \in Int /\ x + y \in Int
    BY <2>7
  <2>11. t.credit >= s.credit /\ s.credit >= 0
    BY <2>5, <2>7, <2>8
  <2>12. /\ Limit(t) = FlowLimit(f) /\ Limit(s) <= Limit(t) /\ Limit(t) <= Limit(r)
         /\ Limit(s) \in Int /\ Limit(t) \in Int /\ Limit(r) \in Int
    BY <2>9, <2>10
  <2> QED BY <2>11, <2>12
<1>6. Counted(l, t, r, forth)
  <2>1. ASSUME NEW i \in Places(forth, GivenUp(l)) PROVE Answered(l, t, r, forth, i)
    <3>1. Answered(l, s, r, forth, i)
        BY <2>1 DEF Agreed, Counted
    <3>2. t.credit = 0
        BY <1>5, <3>1 DEF Answered, Limit, SenderLinks
    <3> QED BY <3>1, <3>2 DEF Answered
  <2>2. t.credit >= 0 /\ Limit(t) <= Limit(r)
    BY <1>5 DEF SenderLinks
  <2> QED BY <2>1, <2>2 DEF Agreed, Counted
<1>7. Announced(l, t, r, tail)
  <2>1. \A i \in Places(tail, Asked(l)) :
          /\ Limit(t) <= FlowLimit(tail[i]) /\ FlowLimit(tail[i]) <= Limit(r)
          /\ tail[i].drain => Past(r, FlowLimit(tail[i]))
    <3>1. SUFFICES ASSUME NEW i \in Places(tail, Asked(l))
                   PROVE  /\ Limit(t) <= FlowLimit(tail[i]) /\ FlowLimit(tail[i]) <= Limit(r)
                          /\ tail[i].drain => Past(r, FlowLimit(tail[i]))
        OBVIOUS
    <3>2. i \in 1..Len(tail) /\ i + 1 \in Places(back, Asked(l)) /\ tail[i] = back[i + 1]
            /\ 1 < i + 1
        BY <1>3, <1>4, <3>1
    <3>3. FlowLimit(back[1]) <= FlowLimit(back[i + 1])
        BY <1>4, <3>2 DEF Agreed, Announced
    <3> QED BY <1>3, <1>5, <3>2, <3>3 DEF Agreed, Announced
  <2>2. \A i, j \in Places(tail, Asked(l)) : i < j => FlowLimit(tail[i]) <= FlowLimit(tail[j])
    <3>1. SUFFICES ASSUME NEW i \in Places(tail, Asked(l)), NEW j \in Places(tail, Asked(l)), i < j
                   PROVE  FlowLimit(tail[i]) <= FlowLimit(tail[j])
        OBVIOUS
    <3>2. /\ i \in 1..Len(tail) /\ i + 1 \in Places(back, Asked(l)) /\ tail[i] = back[i + 1]
          /\ j \in 1..Len(tail) /\ j + 1 \in Places(back, Asked(l)) /\ tail[j] = back[j + 1]
          /\ i + 1 < j + 1
        BY <1>3, <1>4, <3>1
    <3> QED BY <3>2 DEF Agreed, Announced
  <2>3. ~ r.issue_flow =>
          \/ Limit(t) = Limit(r)
          \/ \E i \in Places(tail, Asked(l)) : FlowLimit(tail[i]) = Limit(r)
    <3>1. SUFFICES ASSUME ~ r.issue_flow, Limit(t) # Limit(r)
                   PROVE  \E i \in Places(tail, Asked(l)) : FlowLimit(tail[i]) = Limit(r)
        OBVIOUS
    <3>2. Limit(s) # Limit(r)
        BY <1>5, <3>1
    <3>3. PICK i \in Places(back, Asked(l)) : FlowLimit(back[i]) = Limit(r)
        BY <3>1, <3>2 DEF Agreed, Announced
    <3>4. i # 1 /\ i \in 1..Len(back)
        BY <1>3, <1>4, <1>5, <3>1, <3>3
    <3>5. PICK k \in 1..Len(tail) : k + 1 = i
      <4>1. i - 1 \in 1..Len(tail) /\ (i - 1) + 1 = i
        BY <1>3, <3>4
      <4> QED BY <4>1
    <3> QED BY <1>3, <1>4, <3>3, <3>5
  <2>4. t.draining => Past(r, Limit(t))
    BY <1>1, <1>3, <1>4, <1>5 DEF Agreed, Announced
  <2> QED BY <2>1, <2>2, <2>3, <2>4 DEF Announced, Agreed
<1>8. isDrained => Emptied(l, t, r, forth)
  <2>1. SUFFICES ASSUME isDrained PROVE Emptied(l, t, r, forth)
    OBVIOUS
  <2>2. Emptied(l, s, r, forth)
    BY <2>1 DEF Agreed
  <2>3. PICK sd \in Int, rc \in Int : sd = s.delivery_count /\ rc = t.credit
    <3>1. s.delivery_count \in Int /\ t.credit \in Int
        BY DEF SenderLinks
    <3> QED BY <3>1
  <2>4. Limit(t) = sd + rc /\ Limit(r) = sd
    BY <2>2, <2>3 DEF Emptied, Limit
  <2>5. rc >= 0 /\ sd + rc <= sd
    BY <1>5, <2>2, <2>3, <2>4 DEF Emptied
  <2>6. t.credit = 0
    BY <2>3, <2>5
  <2> QED BY <2>2, <2>6 DEF Emptied
<1> QED BY <1>2, <1>5, <1>6, <1>7, <1>8 DEF Agreed

-----------------------------------------------------------------------------
(* What a frame that is written or read does to one link.                  *)

\* Where the messages and the answers are once the sender has written its frames.
Written(l, forth, sent, flows, longer) ==
    /\ Cardinality(Places(longer, Messages(l)))
           = Cardinality(Places(forth, Messages(l))) + Cardinality(Places(sent, Messages(l)))
    /\ \A j \in Places(longer, Messages(l)) : j \in Nat /\ j <= Len(forth) + Len(sent)
    /\ Cardinality(Places(sent, Messages(l))) = 0
           => Places(longer, Messages(l)) = Places(forth, Messages(l))
    /\ Places(longer, GivenUp(l))
           = Places(forth, GivenUp(l))
               \cup {k + (Len(forth) + Len(sent)) : k \in Places(flows, GivenUp(l))}
    /\ \A i \in Places(forth, GivenUp(l)) : longer[i] = forth[i]
    /\ \A k \in Places(flows, GivenUp(l)) : longer[k + (Len(forth) + Len(sent))] = flows[k]

LEMMA WrittenPlaces ==
    ASSUME NEW l \in Links, NEW forth \in Seq(Flows \cup Transfers),
           NEW sent \in Seq(Transfers), NEW flows \in Seq(Flows),
           NEW longer, longer = forth \o sent \o flows
    PROVE  Written(l, forth, sent, flows, longer)
<1>2. PICK first : first = forth \o sent /\ longer = first \o flows
    OBVIOUS
<1>0. PICK S : S = Flows \cup Transfers
    OBVIOUS
<1>1. forth \in Seq(S) /\ sent \in Seq(S) /\ flows \in Seq(S)
  <2>1. Flows \subseteq S /\ Transfers \subseteq S
    BY <1>0
  <2> QED BY <1>0, <2>1, SeqMonotonic
<1>3. /\ first \in Seq(S) /\ Len(first) = Len(forth) + Len(sent)
      /\ \A i \in 1..Len(forth) : first[i] = forth[i]
    BY <1>1, <1>2, ConcatProperties
<1>4. /\ longer \in Seq(S) /\ Len(longer) = Len(first) + Len(flows)
      /\ \A i \in 1..Len(first) : longer[i] = first[i]
      /\ \A k \in 1..Len(flows) : longer[k + Len(first)] = flows[k]
  <2>2. /\ longer \in Seq(S) /\ Len(longer) = Len(first) + Len(flows)
        /\ \A i \in 1..(Len(first) + Len(flows)) :
              longer[i] = IF i <= Len(first) THEN first[i] ELSE flows[i - Len(first)]
    BY <1>1, <1>2, <1>3, ConcatProperties
  <2>3. Len(first) \in Nat /\ Len(flows) \in Nat
    BY <1>1, <1>3, LenProperties
  <2>4. ASSUME NEW k \in 1..Len(flows) PROVE longer[k + Len(first)] = flows[k]
    <3>1. k + Len(first) \in 1..(Len(first) + Len(flows)) /\ ~ (k + Len(first) <= Len(first))
          /\ k + Len(first) - Len(first) = k
        BY <2>3, <2>4
    <3> QED BY <2>2, <3>1
  <2>5. ASSUME NEW i \in 1..Len(first) PROVE longer[i] = first[i]
    <3>1. i \in 1..(Len(first) + Len(flows)) /\ i <= Len(first)
        BY <2>3, <2>5
    <3> QED BY <2>2, <3>1
  <2> QED BY <2>2, <2>4, <2>5
<1>5. /\ Places(flows, Messages(l)) = {} /\ Places(sent, GivenUp(l)) = {}
  <2>1. /\ \A i \in 1..Len(flows) : flows[i] \in Flows
        /\ \A i \in 1..Len(sent) : sent[i] \in Transfers
        /\ DOMAIN flows = 1..Len(flows) /\ DOMAIN sent = 1..Len(sent)
    BY LenProperties, ElementOfSeq
  <2>2. Transfers \cap Flows = {}
    BY DEF Transfers, Flows
  <2>3. Transfer(l) \notin Flows
    BY TransferType
  <2> QED BY <2>1, <2>2, <2>3 DEF Places, Messages, GivenUp
<1>6. /\ Cardinality(Places(first, Messages(l)))
             = Cardinality(Places(forth, Messages(l))) + Cardinality(Places(sent, Messages(l)))
      /\ Places(first, Messages(l))
             = Places(forth, Messages(l)) \cup {i + Len(forth) : i \in Places(sent, Messages(l))}
      /\ Places(first, GivenUp(l)) = Places(forth, GivenUp(l))
  <2>1. Places(first, GivenUp(l))
            = Places(forth, GivenUp(l)) \cup {i + Len(forth) : i \in Places(sent, GivenUp(l))}
    BY <1>1, <1>2, PlacesConcat
  <2>2. /\ Cardinality(Places(first, Messages(l)))
               = Cardinality(Places(forth, Messages(l))) + Cardinality(Places(sent, Messages(l)))
        /\ Places(first, Messages(l))
               = Places(forth, Messages(l)) \cup {i + Len(forth) : i \in Places(sent, Messages(l))}
    BY <1>1, <1>2, PlacesConcat
  <2> QED BY <1>5, <2>1, <2>2
<1>7. /\ Cardinality(Places(longer, Messages(l)))
             = Cardinality(Places(first, Messages(l))) + Cardinality(Places(flows, Messages(l)))
      /\ Places(longer, Messages(l))
             = Places(first, Messages(l)) \cup {i + Len(first) : i \in Places(flows, Messages(l))}
      /\ Places(longer, GivenUp(l))
             = Places(first, GivenUp(l)) \cup {i + Len(first) : i \in Places(flows, GivenUp(l))}
  <2>a. first \in Seq(S) /\ longer = first \o flows
    BY <1>2, <1>3
  <2>1. Places(longer, GivenUp(l))
             = Places(first, GivenUp(l)) \cup {i + Len(first) : i \in Places(flows, GivenUp(l))}
    BY <1>1, <2>a, PlacesConcat
  <2>2. /\ Cardinality(Places(longer, Messages(l)))
             = Cardinality(Places(first, Messages(l))) + Cardinality(Places(flows, Messages(l)))
        /\ Places(longer, Messages(l))
             = Places(first, Messages(l)) \cup {i + Len(first) : i \in Places(flows, Messages(l))}
    BY <1>1, <2>a, PlacesConcat
  <2> QED BY <2>1, <2>2
<1>8. /\ Cardinality(Places(first, Messages(l))) \in Nat
      /\ Cardinality(Places(flows, Messages(l))) = 0
      /\ Places(first, Messages(l)) \subseteq 1..Len(first)
      /\ Places(forth, GivenUp(l)) \subseteq 1..Len(forth)
      /\ Places(flows, GivenUp(l)) \subseteq 1..Len(flows)
      /\ Cardinality(Places(sent, Messages(l))) = 0 <=> Places(sent, Messages(l)) = {}
      /\ Len(first) \in Nat /\ Len(forth) \in Nat /\ Len(sent) \in Nat
  <2>1. /\ Places(first, Messages(l)) = {i \in 1..Len(first) : first[i] \in Messages(l)}
        /\ Cardinality(Places(first, Messages(l))) \in Nat
    BY <1>3, PlacesFinite
  <2>2. /\ Places(forth, GivenUp(l)) = {i \in 1..Len(forth) : forth[i] \in GivenUp(l)}
        /\ Places(flows, GivenUp(l)) = {i \in 1..Len(flows) : flows[i] \in GivenUp(l)}
    BY PlacesFinite
  <2>3. Cardinality(Places(sent, Messages(l))) = 0 <=> Places(sent, Messages(l)) = {}
    BY PlacesFinite
  <2>4. Cardinality(Places(flows, Messages(l))) = 0
    BY <1>5, FS_EmptySet
  <2> QED BY <1>3, <2>1, <2>2, <2>3, <2>4, LenProperties
<1>9. /\ Cardinality(Places(longer, Messages(l)))
             = Cardinality(Places(forth, Messages(l))) + Cardinality(Places(sent, Messages(l)))
      /\ \A j \in Places(longer, Messages(l)) : j \in Nat /\ j <= Len(forth) + Len(sent)
  <2>1. Places(longer, Messages(l)) = Places(first, Messages(l))
    BY <1>5, <1>7
  <2> QED BY <1>3, <1>6, <1>8, <2>1
<1>10. Cardinality(Places(sent, Messages(l))) = 0
           => Places(longer, Messages(l)) = Places(forth, Messages(l))
    BY <1>5, <1>6, <1>7, <1>8
<1>11. Places(longer, GivenUp(l))
           = Places(forth, GivenUp(l))
               \cup {k + (Len(forth) + Len(sent)) : k \in Places(flows, GivenUp(l))}
    BY <1>3, <1>6, <1>7
<1>12. \A i \in Places(forth, GivenUp(l)) : longer[i] = forth[i]
  <2>1. SUFFICES ASSUME NEW i \in Places(forth, GivenUp(l)) PROVE longer[i] = forth[i]
    OBVIOUS
  <2>2. i \in 1..Len(forth) /\ i \in 1..Len(first)
    BY <1>3, <1>8, <2>1
  <2> QED BY <1>3, <1>4, <2>2
<1>13. \A k \in Places(flows, GivenUp(l)) : longer[k + (Len(forth) + Len(sent))] = flows[k]
    BY <1>3, <1>4, <1>8
<1> QED BY <1>9, <1>10, <1>11, <1>12, <1>13 DEF Written

\* The sender writes n messages of the link, and gives up the credit that is left if it is
\* to: c is the link once the messages are charged, t once its flow is written.
LEMMA FramesWritten ==
    ASSUME NEW l \in Links, NEW s \in SenderLinks, NEW c \in SenderLinks, NEW t \in SenderLinks,
           NEW r \in ReceiverLinks, NEW n \in Nat,
           NEW forth \in Seq(Flows \cup Transfers), NEW back \in Seq(Flows \cup Acceptances),
           NEW isDrained, Agreed(l, s, r, forth, back, isDrained),
           NEW sent \in Seq(Transfers), NEW flows \in Seq(Flows),
           Cardinality(Places(sent, Messages(l))) = n,
           n > 0 => n <= s.credit,
           c.credit = s.credit - n, c.delivery_count = s.delivery_count + n,
           c.draining = s.draining, t.draining = s.draining,
           GivesUp(c) => t.credit = 0 /\ t.delivery_count = c.delivery_count + c.credit,
           ~ GivesUp(c) => t.credit = c.credit /\ t.delivery_count = c.delivery_count,
           Cardinality(Places(flows, GivenUp(l))) = IF GivesUp(c) THEN 1 ELSE 0,
           \A k \in Places(flows, GivenUp(l)) :
               flows[k].link_credit = 0 /\ flows[k].delivery_count = c.delivery_count + c.credit
    PROVE  Agreed(l, t, r, forth \o sent \o flows, back, isDrained)
<1> DEFINE a == Places(forth, GivenUp(l))
<1>1. PICK longer : longer = forth \o sent \o flows
    OBVIOUS
<1>2. PICK u \in Nat : u = Cardinality(Places(forth, Messages(l)))
    BY PlacesFinite
<1>3. /\ Cardinality(Places(longer, Messages(l))) = u + n
      /\ \A j \in Places(longer, Messages(l)) : j \in Nat /\ j <= Len(forth) + Len(sent)
      /\ n = 0 => Places(longer, Messages(l)) = Places(forth, Messages(l))
      /\ Places(longer, GivenUp(l))
             = a \cup {k + (Len(forth) + Len(sent)) : k \in Places(flows, GivenUp(l))}
      /\ \A i \in a : longer[i] = forth[i]
      /\ \A k \in Places(flows, GivenUp(l)) : longer[k + (Len(forth) + Len(sent))] = flows[k]
  <2>1. Written(l, forth, sent, flows, longer)
    BY <1>1, WrittenPlaces
  <2>4. PICK m : m = Cardinality(Places(sent, Messages(l)))
    OBVIOUS
  <2>5. m = n
    BY <2>4
  <2>6. Cardinality(Places(longer, Messages(l))) = u + n
    BY <1>2, <2>1, <2>4, <2>5 DEF Written
  <2> QED BY <2>1, <2>4, <2>5, <2>6 DEF Written
<1>4. /\ Len(forth) \in Nat /\ Len(sent) \in Nat
      /\ IsFiniteSet(Places(flows, GivenUp(l))) /\ Places(flows, GivenUp(l)) \subseteq 1..Len(flows)
      /\ Cardinality(Places(flows, GivenUp(l))) = 0 <=> Places(flows, GivenUp(l)) = {}
  <2>1. /\ Places(flows, GivenUp(l)) = {i \in 1..Len(flows) : flows[i] \in GivenUp(l)}
        /\ IsFiniteSet(Places(flows, GivenUp(l)))
        /\ Cardinality(Places(flows, GivenUp(l))) = 0 <=> Places(flows, GivenUp(l)) = {}
    BY PlacesFinite
  <2> QED BY <2>1, LenProperties
<1>5. PICK sd \in Int, sc \in Int, rd \in Int, rc \in Int :
          /\ sd = s.delivery_count /\ sc = s.credit
          /\ rd = r.delivery_count /\ rc = r.credit
    BY DEF SenderLinks, ReceiverLinks
<1>6. /\ Limit(s) = sd + sc /\ Limit(r) = rd + rc /\ sc >= 0 /\ sd + sc <= rd + rc
      /\ c.delivery_count = sd + n /\ c.credit = sc - n /\ sc - n >= 0
    BY <1>5 DEF Agreed, Counted, Limit
<1>7. Limit(t) = Limit(s) /\ t.credit >= 0
  <2>1. CASE GivesUp(c)
    <3>1. t.credit = 0 /\ t.delivery_count = (sd + n) + (sc - n)
        BY <1>6, <2>1
    <3> QED BY <1>6, <3>1 DEF Limit
  <2>2. CASE ~ GivesUp(c)
    <3>1. t.credit = sc - n /\ t.delivery_count = sd + n
        BY <1>6, <2>2
    <3> QED BY <1>6, <3>1 DEF Limit
  <2> QED BY <2>1, <2>2
<1>8. Announced(l, t, r, back)
    BY <1>7 DEF Agreed, Announced
<1>9. ASSUME NEW i \in a
      PROVE  Answered(l, s, r, forth, i) /\ sc = 0 /\ n = 0 /\ ~ GivesUp(c)
  <2>1. Answered(l, s, r, forth, i)
    BY <1>9 DEF Agreed, Counted
  <2>2. sc = 0
    BY <1>5, <2>1 DEF Answered
  <2>3. n = 0
    BY <1>6, <2>2
  <2>4. c.credit = 0
    <3>1. sc - n = 0
        BY <2>2, <2>3
    <3> QED BY <1>6, <3>1, Zenon
  <2>5. ~ GivesUp(c)
    BY <2>4 DEF GivesUp
  <2> QED BY <2>1, <2>2, <2>3, <2>5
<1>10. ASSUME a = {}
       PROVE  rd + u = sd
    BY <1>2, <1>5, <1>10 DEF Agreed, Counted
<1> HIDE DEF a
<1>11. Counted(l, t, r, longer)
  <2>1. t.credit >= 0 /\ Limit(t) <= Limit(r)
    BY <1>6, <1>7
  <2>2. CASE ~ GivesUp(c)
    <3>1. Places(longer, GivenUp(l)) = a
        BY <1>3, <1>4, <2>2
    <3>2. t.credit = sc - n /\ t.delivery_count = sd + n
        BY <1>6, <2>2
    <3>3. CASE a = {}
      <4>1. rd + (u + n) = sd + n
        BY <1>10, <3>3
      <4>2. r.delivery_count + Cardinality(Places(longer, Messages(l))) = t.delivery_count
        BY <1>3, <1>5, <3>2, <4>1
      <4>3. Places(longer, GivenUp(l)) = {}
        BY <3>1, <3>3
      <4> QED BY <2>1, <4>2, <4>3 DEF Counted
    <3>4. CASE a # {}
      <4>1. ASSUME NEW i \in a
            PROVE  Answered(l, t, r, longer, i)
        <5>1. Answered(l, s, r, forth, i) /\ sc = 0 /\ n = 0
            BY <1>9, <4>1
        <5>2. /\ t.credit = 0 /\ t.delivery_count = s.delivery_count /\ longer[i] = forth[i]
              /\ Cardinality(Places(longer, Messages(l))) = Cardinality(Places(forth, Messages(l)))
              /\ Places(longer, Messages(l)) = Places(forth, Messages(l))
              /\ Places(longer, GivenUp(l)) = Places(forth, GivenUp(l))
            BY <1>2, <1>3, <1>5, <3>1, <3>2, <4>1, <5>1 DEF a
        <5> QED BY <5>1, <5>2 DEF Answered
      <4> QED BY <2>1, <3>1, <3>4, <4>1 DEF Counted
    <3> QED BY <3>3, <3>4
  <2>3. CASE GivesUp(c)
    <3>1. a = {} /\ rd + u = sd
        BY <1>9, <1>10, <2>3
    <3>2. PICK k : Places(flows, GivenUp(l)) = {k}
        BY <1>4, <2>3, FS_Singleton
    <3>3. PICK i \in Nat : i = k + (Len(forth) + Len(sent)) /\ i > Len(forth) + Len(sent)
      <4>1. k \in 1..Len(flows)
        BY <1>4, <3>2
      <4>2. k \in Nat /\ k >= 1
        BY <4>1, LenProperties
      <4>3. PICK m \in Nat : m = Len(forth) + Len(sent)
        BY <1>4
      <4>4. k + m \in Nat /\ k + m > m
        BY <4>2, <4>3
      <4> QED BY <4>3, <4>4
    <3>4. Places(longer, GivenUp(l)) = {i} /\ longer[i] = flows[k]
        BY <1>3, <3>1, <3>2, <3>3
    <3>5. t.credit = 0 /\ t.delivery_count = sd + sc /\ sc - n > 0
      <4>1. c.credit # 0
        BY <2>3 DEF GivesUp
      <4> QED BY <1>6, <2>3, <4>1
    <3>6. longer[i].link_credit = 0 /\ longer[i].delivery_count = sd + sc
        BY <1>6, <3>2, <3>4
    <3>7. r.drain /\ rd + rc = sd + sc
      <4>1. s.draining
        BY <2>3 DEF GivesUp
      <4>2. Past(r, Limit(s))
        BY <4>1 DEF Agreed, Announced
      <4>3. ~ (sd + sc <= rd)
        BY <3>1, <3>5
      <4> QED BY <1>5, <1>6, <4>2, <4>3 DEF Past
    <3>8. rd + (u + n) < sd + sc
        BY <3>1, <3>5
    <3>9. \A j \in Places(longer, Messages(l)) : j < i
        BY <1>3, <1>4, <3>3
    <3>10. Answered(l, t, r, longer, i)
        BY <1>3, <1>5, <1>6, <3>4, <3>5, <3>6, <3>7, <3>8, <3>9 DEF Answered
    <3> QED BY <2>1, <3>4, <3>10 DEF Counted
  <2> QED BY <2>2, <2>3
<1>12. isDrained => Emptied(l, t, r, longer)
  <2>1. SUFFICES ASSUME isDrained PROVE Emptied(l, t, r, longer)
    OBVIOUS
  <2>2. Emptied(l, s, r, forth)
    BY <2>1 DEF Agreed
  <2>3. sc = 0
    BY <1>5, <2>2 DEF Emptied
  <2>4. n = 0
    BY <1>6, <2>3
  <2>5. ~ GivesUp(c)
    <3>1. sc - n = 0
        BY <2>3, <2>4
    <3>2. c.credit = 0
        BY <1>6, <3>1, Zenon
    <3> QED BY <3>2 DEF GivesUp
  <2>6. Places(longer, GivenUp(l)) = {}
    BY <1>3, <1>4, <2>2, <2>5 DEF Emptied, a
  <2>7. t.credit = 0 /\ t.delivery_count = s.delivery_count
    BY <1>5, <1>6, <2>3, <2>4, <2>5
  <2> QED BY <2>2, <2>6, <2>7 DEF Emptied
<1> QED BY <1>1, <1>8, <1>11, <1>12 DEF Agreed

\* The receiver counts a message or an answer, which leaves its limit, or asks for more,
\* which raises it, though not past what a drain waits for.
LEMMA LimitRaised ==
    ASSUME NEW l \in Links, NEW s \in SenderLinks, NEW r \in ReceiverLinks, NEW q \in ReceiverLinks,
           NEW back \in Seq(Flows \cup Acceptances), Announced(l, s, r, back),
           Limit(s) <= Limit(r), q.drain = r.drain, q.delivery_count >= r.delivery_count,
           \/ Limit(q) = Limit(r) /\ q.issue_flow = r.issue_flow
           \/ Limit(q) >= Limit(r) /\ q.issue_flow /\ (r.drain => Limit(r) <= q.delivery_count)
    PROVE  Announced(l, s, q, back)
<1>1. /\ Limit(s) \in Int /\ Limit(r) \in Int /\ Limit(q) \in Int
      /\ r.delivery_count \in Int /\ q.delivery_count \in Int
    BY DEF Limit, SenderLinks, ReceiverLinks
<1>2. \A i \in Places(back, Asked(l)) : FlowLimit(back[i]) \in Int
  <2>1. Places(back, Asked(l)) = {i \in 1..Len(back) : back[i] \in Asked(l)}
    BY PlacesFinite
  <2> QED BY <2>1 DEF Asked, Flows, FlowLimit
<1>3. ASSUME NEW limit \in Int, Past(r, limit) PROVE Past(q, limit)
    BY <1>1, <1>3 DEF Past
<1>4. \A i \in Places(back, Asked(l)) :
          /\ Limit(s) <= FlowLimit(back[i]) /\ FlowLimit(back[i]) <= Limit(q)
          /\ back[i].drain => Past(q, FlowLimit(back[i]))
  <2>1. SUFFICES ASSUME NEW i \in Places(back, Asked(l))
                 PROVE  /\ Limit(s) <= FlowLimit(back[i]) /\ FlowLimit(back[i]) <= Limit(q)
                        /\ back[i].drain => Past(q, FlowLimit(back[i]))
    OBVIOUS
  <2>2. PICK limit \in Int : limit = FlowLimit(back[i])
    BY <1>2, <2>1
  <2>3. /\ Limit(s) <= limit /\ limit <= Limit(r)
        /\ back[i].drain => Past(r, limit)
    BY <2>1, <2>2 DEF Announced
  <2>4. limit <= Limit(q)
    BY <1>1, <2>3
  <2> QED BY <1>3, <2>2, <2>3, <2>4
<1>5. s.draining => Past(q, Limit(s))
    BY <1>1, <1>3 DEF Announced
<1>6. ~ q.issue_flow =>
          \/ Limit(s) = Limit(q)
          \/ \E i \in Places(back, Asked(l)) : FlowLimit(back[i]) = Limit(q)
    BY DEF Announced
<1> QED BY <1>4, <1>5, <1>6 DEF Announced

\* A message of the link is taken; a drained link has none.
LEMMA MessageTaken ==
    ASSUME NEW l \in Links, NEW s \in SenderLinks, NEW r \in ReceiverLinks, NEW q \in ReceiverLinks,
           NEW forth \in Seq(Flows \cup Transfers), NEW back \in Seq(Flows \cup Acceptances),
           NEW isDrained, Agreed(l, s, r, forth, back, isDrained),
           forth # <<>>, Head(forth) = Transfer(l),
           q.drain = r.drain, q.delivery_count = r.delivery_count + 1,
           \/ q.credit = r.credit - 1 /\ q.issue_flow = r.issue_flow
           \/ q.credit >= r.credit - 1 /\ q.issue_flow /\ ~ r.drain
    PROVE  Agreed(l, s, q, Tail(forth), back, FALSE) /\ ~ isDrained
<1>1. PICK tail \in Seq(Flows \cup Transfers) : tail = Tail(forth)
    BY HeadTailProperties
<1>2. /\ Len(forth) \in Nat /\ Len(tail) = Len(forth) - 1
      /\ \A i \in 1..Len(tail) : tail[i] = forth[i + 1]
    BY <1>1, HeadTailProperties, LenProperties
<1>3. Head(forth) \in Messages(l) /\ Head(forth) \notin GivenUp(l)
    BY TransferType DEF Messages, GivenUp
<1>4. PICK u \in Nat : u = Cardinality(Places(tail, Messages(l)))
    BY PlacesFinite
<1>5. /\ Cardinality(Places(forth, Messages(l))) = u + 1
      /\ \A i \in 1..Len(tail) : i \in Places(tail, Messages(l))
           <=> i + 1 \in Places(forth, Messages(l))
      /\ \A i \in 1..Len(tail) : i \in Places(tail, GivenUp(l))
           <=> i + 1 \in Places(forth, GivenUp(l))
      /\ Cardinality(Places(tail, GivenUp(l))) = Cardinality(Places(forth, GivenUp(l)))
  <2>1. /\ Cardinality(Places(forth, Messages(l))) = Cardinality(Places(tail, Messages(l))) + 1
        /\ \A i \in 1..Len(tail) : i \in Places(tail, Messages(l))
             <=> i + 1 \in Places(forth, Messages(l))
    BY <1>1, <1>3, PlacesTail
  <2>2. /\ Cardinality(Places(forth, GivenUp(l))) = Cardinality(Places(tail, GivenUp(l))) + 0
        /\ \A i \in 1..Len(tail) : i \in Places(tail, GivenUp(l))
             <=> i + 1 \in Places(forth, GivenUp(l))
    BY <1>1, <1>3, PlacesTail
  <2>3. Cardinality(Places(tail, GivenUp(l))) \in Nat
    BY PlacesFinite
  <2> QED BY <1>4, <2>1, <2>2, <2>3
<1>6. /\ Places(tail, Messages(l)) \subseteq 1..Len(tail)
      /\ Places(tail, GivenUp(l)) \subseteq 1..Len(tail)
      /\ Places(tail, GivenUp(l)) = {} <=> Places(forth, GivenUp(l)) = {}
  <2>1. /\ Places(tail, Messages(l)) = {i \in 1..Len(tail) : tail[i] \in Messages(l)}
        /\ Places(tail, GivenUp(l)) = {i \in 1..Len(tail) : tail[i] \in GivenUp(l)}
    BY PlacesFinite
  <2>2. /\ Cardinality(Places(tail, GivenUp(l))) = 0 <=> Places(tail, GivenUp(l)) = {}
        /\ Cardinality(Places(forth, GivenUp(l))) = 0 <=> Places(forth, GivenUp(l)) = {}
    BY PlacesFinite
  <2>3. /\ Places(tail, Messages(l)) \subseteq 1..Len(tail)
        /\ Places(tail, GivenUp(l)) \subseteq 1..Len(tail)
    BY <2>1
  <2> QED BY <1>5, <2>2, <2>3
<1>7. PICK sd \in Int, sc \in Int, rd \in Int, rc \in Int, qc \in Int :
          /\ sd = s.delivery_count /\ sc = s.credit
          /\ rd = r.delivery_count /\ rc = r.credit /\ qc = q.credit
    BY DEF SenderLinks, ReceiverLinks
<1>8. /\ Limit(s) = sd + sc /\ Limit(r) = rd + rc /\ sc >= 0 /\ sd + sc <= rd + rc
      /\ q.delivery_count = rd + 1 /\ Limit(q) = (rd + 1) + qc /\ qc >= rc - 1
    BY <1>7 DEF Agreed, Counted, Limit
<1>9. Limit(q) >= Limit(r) /\ Limit(s) <= Limit(q)
    BY <1>8
<1>10. Announced(l, s, q, back)
  <2>1. Limit(s) <= Limit(r) /\ q.delivery_count >= r.delivery_count
    BY <1>7, <1>8
  <2>2. CASE q.credit = r.credit - 1 /\ q.issue_flow = r.issue_flow
    <3>1. Limit(q) = Limit(r)
      <4>1. qc = rc - 1
        BY <1>7, <2>2
      <4>2. (rd + 1) + qc = rd + rc
        BY <4>1
      <4> QED BY <1>8, <4>2
    <3> QED BY <2>1, <2>2, <3>1, LimitRaised DEF Agreed
  <2>3. CASE q.credit >= r.credit - 1 /\ q.issue_flow /\ ~ r.drain
    BY <1>9, <2>1, <2>3, LimitRaised DEF Agreed
  <2> QED BY <2>2, <2>3
<1>11. ~ isDrained
  <2>1. SUFFICES ASSUME isDrained PROVE FALSE
    OBVIOUS
  <2>2. Emptied(l, s, r, forth)
    BY <2>1 DEF Agreed
  <2>3. r.delivery_count + Cardinality(Places(forth, Messages(l))) = s.delivery_count
    BY <2>2 DEF Emptied, Agreed, Counted
  <2>4. s.delivery_count = r.delivery_count
    BY <2>2 DEF Emptied
  <2>5. rd + (u + 1) = rd
    BY <1>5, <1>7, <2>3, <2>4
  <2> QED BY <2>5
<1>12. Counted(l, s, q, tail)
  <2>1. Places(tail, GivenUp(l)) = {}
            => q.delivery_count + Cardinality(Places(tail, Messages(l))) = s.delivery_count
    <3>1. SUFFICES ASSUME Places(tail, GivenUp(l)) = {}
                   PROVE  (rd + 1) + u = sd
        BY <1>4, <1>7, <1>8
    <3>2. rd + (u + 1) = sd
        BY <1>5, <1>6, <1>7, <3>1 DEF Agreed, Counted
    <3> QED BY <3>2
  <2>2. ASSUME NEW i \in Places(tail, GivenUp(l)) PROVE Answered(l, s, q, tail, i)
    <3>1. i \in 1..Len(tail) /\ i + 1 \in Places(forth, GivenUp(l)) /\ tail[i] = forth[i + 1]
        BY <1>2, <1>5, <1>6, <2>2
    <3>2. Answered(l, s, r, forth, i + 1)
        BY <3>1 DEF Agreed, Counted
    <3>3. \A j \in Places(tail, Messages(l)) : j < i
      <4>1. SUFFICES ASSUME NEW j \in Places(tail, Messages(l)) PROVE j < i
        OBVIOUS
      <4>2. j \in 1..Len(tail) /\ j + 1 \in Places(forth, Messages(l))
        BY <1>5, <1>6, <4>1
      <4>3. j + 1 < i + 1
        BY <3>2, <4>2 DEF Answered
      <4> QED BY <3>1, <4>2, <4>3
    <3>4. \A j \in Places(tail, GivenUp(l)) : j = i
      <4>1. SUFFICES ASSUME NEW j \in Places(tail, GivenUp(l)) PROVE j = i
        OBVIOUS
      <4>2. j \in 1..Len(tail) /\ j + 1 \in Places(forth, GivenUp(l))
        BY <1>5, <1>6, <4>1
      <4>3. j + 1 = i + 1
        BY <3>2, <4>2 DEF Answered
      <4> QED BY <3>1, <4>2, <4>3
    <3>5. q.drain /\ Limit(q) = s.delivery_count
      <4>1. r.drain /\ Limit(r) = s.delivery_count
        BY <3>2 DEF Answered
      <4>2. qc = rc - 1
        BY <1>7, <4>1
      <4> QED BY <1>8, <4>1, <4>2
    <3>6. q.delivery_count + Cardinality(Places(tail, Messages(l))) < s.delivery_count
      <4>1. rd + (u + 1) < sd
        BY <1>5, <1>7, <3>2 DEF Answered
      <4>2. (rd + 1) + u < sd
        BY <4>1
      <4>3. q.delivery_count = rd + 1 /\ s.delivery_count = sd
        BY <1>7, <1>8
      <4> QED BY <1>4, <4>2, <4>3
    <3> QED BY <3>1, <3>2, <3>3, <3>4, <3>5, <3>6 DEF Answered
  <2> QED BY <1>7, <1>8, <1>9, <2>1, <2>2 DEF Counted
<1> QED BY <1>1, <1>10, <1>11, <1>12 DEF Agreed

\* The answer to a drain is taken: the receiver takes over that all its credit is used.
LEMMA AnswerTaken ==
    ASSUME NEW l \in Links, NEW s \in SenderLinks, NEW r \in ReceiverLinks, NEW q \in ReceiverLinks,
           NEW forth \in Seq(Flows \cup Transfers), NEW back \in Seq(Flows \cup Acceptances),
           NEW isDrained, Agreed(l, s, r, forth, back, isDrained),
           forth # <<>>, Head(forth) \in GivenUp(l),
           q.drain = r.drain, q.issue_flow = r.issue_flow,
           q.credit = Head(forth).link_credit, q.delivery_count = Head(forth).delivery_count
    PROVE  Agreed(l, s, q, Tail(forth), back, TRUE) /\ Head(forth).link_credit <= 0
<1>1. PICK tail \in Seq(Flows \cup Transfers) : tail = Tail(forth)
    BY HeadTailProperties
<1>2. /\ Len(forth) \in Nat /\ Len(forth) >= 1 /\ Len(tail) = Len(forth) - 1
           /\ forth[1] = Head(forth)
      /\ \A i \in 1..Len(tail) : tail[i] = forth[i + 1]
    BY <1>1, HeadTailProperties, LenProperties, EmptySeq
<1>3. 1 \in Places(forth, GivenUp(l))
  <2>1. Places(forth, GivenUp(l)) = {i \in 1..Len(forth) : forth[i] \in GivenUp(l)}
    BY PlacesFinite
  <2> QED BY <1>2, <2>1
<1>4. Answered(l, s, r, forth, 1)
    BY <1>3 DEF Agreed, Counted
<1>5. /\ \A i \in 1..Len(tail) : i \in Places(tail, Messages(l))
           <=> i + 1 \in Places(forth, Messages(l))
      /\ \A i \in 1..Len(tail) : i \in Places(tail, GivenUp(l))
           <=> i + 1 \in Places(forth, GivenUp(l))
  <2>1. \A i \in 1..Len(tail) : i \in Places(tail, Messages(l))
          <=> i + 1 \in Places(forth, Messages(l))
    BY <1>1, PlacesTail
  <2>2. \A i \in 1..Len(tail) : i \in Places(tail, GivenUp(l))
          <=> i + 1 \in Places(forth, GivenUp(l))
    BY <1>1, PlacesTail
  <2> QED BY <2>1, <2>2
<1>6. Places(tail, Messages(l)) = {} /\ Places(tail, GivenUp(l)) = {}
  <2>1. /\ Places(tail, Messages(l)) = {i \in 1..Len(tail) : tail[i] \in Messages(l)}
        /\ Places(tail, GivenUp(l)) = {i \in 1..Len(tail) : tail[i] \in GivenUp(l)}
    BY PlacesFinite
  <2>2. ASSUME NEW i \in Places(tail, Messages(l)) PROVE FALSE
    <3>1. i \in 1..Len(tail) /\ i + 1 \in Places(forth, Messages(l))
        BY <1>5, <2>1, <2>2
    <3>2. i + 1 < 1
        BY <1>4, <3>1 DEF Answered
    <3> QED BY <3>1, <3>2
  <2>3. ASSUME NEW i \in Places(tail, GivenUp(l)) PROVE FALSE
    <3>1. i \in 1..Len(tail) /\ i + 1 \in Places(forth, GivenUp(l))
        BY <1>5, <2>1, <2>3
    <3>2. i + 1 = 1
        BY <1>4, <3>1 DEF Answered
    <3> QED BY <3>1, <3>2
  <2> QED BY <2>2, <2>3
<1>7. PICK sd \in Int, rd \in Int, rc \in Int :
          sd = s.delivery_count /\ rd = r.delivery_count /\ rc = r.credit
    BY DEF SenderLinks, ReceiverLinks
<1>8. /\ q.credit = 0 /\ q.delivery_count = sd /\ s.credit = 0
      /\ Limit(s) = sd /\ Limit(r) = sd /\ Limit(q) = sd
    BY <1>2, <1>4, <1>7 DEF Answered, Limit
<1>9. rd < sd
  <2>1. PICK u \in Nat : u = Cardinality(Places(forth, Messages(l)))
    BY PlacesFinite
  <2>2. rd + u < sd
    BY <1>4, <1>7, <2>1 DEF Answered
  <2> QED BY <2>2
<1>10. Announced(l, s, q, back)
  <2>1. Limit(s) <= Limit(r) /\ q.delivery_count >= r.delivery_count /\ Limit(q) = Limit(r)
    BY <1>7, <1>8, <1>9
  <2> QED BY <2>1, LimitRaised DEF Agreed
<1>11. Counted(l, s, q, tail)
  <2>1. Cardinality(Places(tail, Messages(l))) = 0
    BY <1>6, FS_EmptySet
  <2>2. q.delivery_count + Cardinality(Places(tail, Messages(l))) = s.delivery_count
    BY <1>7, <1>8, <2>1
  <2>3. s.credit >= 0 /\ Limit(s) <= Limit(q)
    BY <1>8
  <2> QED BY <1>6, <2>2, <2>3 DEF Counted
<1>12. Emptied(l, s, q, tail)
    BY <1>6, <1>7, <1>8 DEF Emptied
<1>13. Head(forth).link_credit <= 0
    BY <1>8
<1> QED BY <1>1, <1>10, <1>11, <1>12, <1>13 DEF Agreed

\* What is found in two sequences of frames, one after the other.
Behind(a, b, longer, T) ==
    /\ \A i \in Places(a, T) :
          i \in Places(longer, T) /\ longer[i] = a[i] /\ i \in Nat /\ i <= Len(a)
    /\ \A k \in Places(b, T) :
          k + Len(a) \in Places(longer, T) /\ longer[k + Len(a)] = b[k]
    /\ \A i \in Places(longer, T) :
          \/ i \in Places(a, T)
          \/ i > Len(a) /\ \E k \in Places(b, T) : i = k + Len(a)

LEMMA PlacesBehind ==
    ASSUME NEW S, NEW a \in Seq(S), NEW b \in Seq(S), NEW longer, longer = a \o b, NEW T
    PROVE  longer \in Seq(S) /\ Behind(a, b, longer, T)
<1>1. /\ longer \in Seq(S) /\ Len(longer) = Len(a) + Len(b)
      /\ \A i \in 1..(Len(a) + Len(b)) : longer[i] = IF i <= Len(a) THEN a[i] ELSE b[i - Len(a)]
    BY ConcatProperties
<1>2. Len(a) \in Nat /\ Len(b) \in Nat
    BY LenProperties
<1>3. Places(a, T) = {i \in 1..Len(a) : a[i] \in T} /\ Places(b, T) = {i \in 1..Len(b) : b[i] \in T}
    BY PlacesFinite
<1>4. Places(longer, T) = {i \in 1..Len(longer) : longer[i] \in T}
    BY <1>1, PlacesFinite
<1>5. ASSUME NEW i \in Places(a, T)
      PROVE  i \in Places(longer, T) /\ longer[i] = a[i] /\ i \in Nat /\ i <= Len(a)
  <2>1. i \in 1..Len(a) /\ a[i] \in T
    BY <1>3, <1>5
  <2>2. i \in 1..(Len(a) + Len(b)) /\ i <= Len(a)
    BY <1>2, <2>1
  <2>3. longer[i] = a[i]
    BY <1>1, <2>2
  <2> QED BY <1>1, <1>4, <2>1, <2>2, <2>3
<1>6. ASSUME NEW k \in Places(b, T)
      PROVE  k + Len(a) \in Places(longer, T) /\ longer[k + Len(a)] = b[k]
  <2>1. k \in 1..Len(b) /\ b[k] \in T
    BY <1>3, <1>6
  <2>2. PICK i \in 1..(Len(a) + Len(b)) : i = k + Len(a) /\ ~ (i <= Len(a)) /\ i - Len(a) = k
    <3>1. PICK m \in Nat, n \in Nat : m = Len(a) /\ n = Len(b)
        BY <1>2
    <3>2. k + m \in 1..(m + n) /\ ~ (k + m <= m) /\ (k + m) - m = k
        BY <2>1, <3>1
    <3> QED BY <3>1, <3>2
  <2>3. longer[i] = b[k]
    BY <1>1, <2>2
  <2> QED BY <1>1, <1>4, <2>1, <2>2, <2>3
<1>7. ASSUME NEW i \in Places(longer, T), i \notin Places(a, T)
      PROVE  i > Len(a) /\ \E k \in Places(b, T) : i = k + Len(a)
  <2>1. i \in 1..(Len(a) + Len(b)) /\ longer[i] \in T
    BY <1>1, <1>4, <1>7
  <2>2. ~ (i <= Len(a))
    <3>1. SUFFICES ASSUME i <= Len(a) PROVE FALSE
        OBVIOUS
    <3>2. longer[i] = a[i] /\ i \in 1..Len(a)
        BY <1>1, <1>2, <2>1, <3>1
    <3> QED BY <1>3, <1>7, <2>1, <3>2
  <2>3. PICK k \in 1..Len(b) : k = i - Len(a) /\ i = k + Len(a)
    BY <1>2, <2>1, <2>2
  <2>4. b[k] \in T
    BY <1>1, <2>1, <2>2, <2>3
  <2> QED BY <1>2, <1>3, <2>1, <2>2, <2>3, <2>4
<1> QED BY <1>1, <1>5, <1>6, <1>7 DEF Behind

\* Acceptances are written: they say nothing of credit.
LEMMA AcceptancesWritten ==
    ASSUME NEW l \in Links, NEW s \in SenderLinks, NEW r \in ReceiverLinks,
           NEW forth, NEW back \in Seq(Flows \cup Acceptances),
           NEW acceptances \in Seq(Acceptances),
           NEW isDrained, Agreed(l, s, r, forth, back, isDrained)
    PROVE  Agreed(l, s, r, forth, back \o acceptances, isDrained)
<1>1. PICK S : S = Flows \cup Acceptances
    OBVIOUS
<1>2. back \in Seq(S) /\ acceptances \in Seq(S)
    BY <1>1, SeqMonotonic
<1>3. PICK longer : longer = back \o acceptances
    OBVIOUS
<1>4. Places(acceptances, Asked(l)) = {}
  <2>1. \A i \in 1..Len(acceptances) : acceptances[i] \in Acceptances
    BY ElementOfSeq
  <2>2. Places(acceptances, Asked(l)) = {i \in 1..Len(acceptances) : acceptances[i] \in Asked(l)}
    BY PlacesFinite
  <2> QED BY <2>1, <2>2 DEF Asked, Flows, Acceptances
<1>5. /\ \A i \in Places(back, Asked(l)) : i \in Places(longer, Asked(l)) /\ longer[i] = back[i]
      /\ \A i \in Places(longer, Asked(l)) :
            \/ i \in Places(back, Asked(l))
            \/ i > Len(back) /\ \E k \in Places(acceptances, Asked(l)) : i = k + Len(back)
  <2>1. Behind(back, acceptances, longer, Asked(l))
    BY <1>2, <1>3, PlacesBehind
  <2> QED BY <2>1 DEF Behind
<1>6. Places(longer, Asked(l)) = Places(back, Asked(l))
    BY <1>4, <1>5
<1>7. Announced(l, s, r, longer)
    BY <1>5, <1>6 DEF Agreed, Announced
<1> QED BY <1>3, <1>7 DEF Agreed

\* The flow that the receiver is to issue is written, with its limit.
LEMMA RequestWritten ==
    ASSUME NEW l \in Links, NEW s \in SenderLinks, NEW r \in ReceiverLinks, NEW q \in ReceiverLinks,
           NEW forth, NEW back \in Seq(Flows \cup Acceptances), NEW flows \in Seq(Flows),
           NEW isDrained, Agreed(l, s, r, forth, back, isDrained),
           q.credit = r.credit, q.delivery_count = r.delivery_count, q.drain = r.drain,
           \A k \in Places(flows, Asked(l)) :
               FlowLimit(flows[k]) = Limit(r) /\ flows[k].drain = r.drain,
           r.issue_flow => Places(flows, Asked(l)) # {}
    PROVE  Agreed(l, s, q, forth, back \o flows, isDrained)
<1>1. PICK S : S = Flows \cup Acceptances
    OBVIOUS
<1>2. back \in Seq(S) /\ flows \in Seq(S)
    BY <1>1, SeqMonotonic
<1>3. PICK longer : longer = back \o flows
    OBVIOUS
<1>4. /\ longer \in Seq(S)
      /\ \A i \in Places(back, Asked(l)) :
            i \in Places(longer, Asked(l)) /\ longer[i] = back[i] /\ i \in Nat /\ i <= Len(back)
      /\ \A k \in Places(flows, Asked(l)) :
            k + Len(back) \in Places(longer, Asked(l)) /\ longer[k + Len(back)] = flows[k]
      /\ \A i \in Places(longer, Asked(l)) :
            \/ i \in Places(back, Asked(l))
            \/ i > Len(back) /\ \E k \in Places(flows, Asked(l)) : i = k + Len(back)
  <2>1. longer \in Seq(S) /\ Behind(back, flows, longer, Asked(l))
    BY <1>2, <1>3, PlacesBehind
  <2> QED BY <2>1 DEF Behind
<1>5. Limit(q) = Limit(r) /\ Limit(r) \in Int /\ Limit(s) \in Int /\ Limit(s) <= Limit(r)
    BY DEF Limit, SenderLinks, ReceiverLinks, Agreed, Counted
<1>6. \A limit : Past(q, limit) <=> Past(r, limit)
    BY <1>5 DEF Past
<1>7. ASSUME NEW i \in Places(longer, Asked(l)), i \notin Places(back, Asked(l))
      PROVE  i > Len(back) /\ FlowLimit(longer[i]) = Limit(r) /\ longer[i].drain = r.drain
  <2>1. PICK k \in Places(flows, Asked(l)) : i = k + Len(back) /\ i > Len(back)
    BY <1>4, <1>7
  <2>2. longer[i] = flows[k]
    BY <1>4, <2>1
  <2> QED BY <2>1, <2>2
<1>8. ASSUME NEW i \in Places(longer, Asked(l))
      PROVE  /\ Limit(s) <= FlowLimit(longer[i]) /\ FlowLimit(longer[i]) <= Limit(q)
             /\ longer[i].drain => Past(q, FlowLimit(longer[i]))
  <2>1. CASE i \in Places(back, Asked(l))
    BY <1>4, <1>5, <1>6, <2>1 DEF Agreed, Announced
  <2>2. CASE i \notin Places(back, Asked(l))
    <3>1. FlowLimit(longer[i]) = Limit(r) /\ longer[i].drain = r.drain
        BY <1>7, <1>8, <2>2
    <3> QED BY <1>5, <1>6, <3>1 DEF Past
  <2> QED BY <2>1, <2>2
<1>9. ASSUME NEW i \in Places(longer, Asked(l)), NEW j \in Places(longer, Asked(l)), i < j
      PROVE  FlowLimit(longer[i]) <= FlowLimit(longer[j])
  <2>1. CASE j \notin Places(back, Asked(l))
    <3>1. FlowLimit(longer[j]) = Limit(q)
        BY <1>5, <1>7, <1>9, <2>1
    <3> QED BY <1>8, <1>9, <3>1
  <2>2. CASE j \in Places(back, Asked(l))
    <3>1. i \in Places(back, Asked(l))
      <4>1. SUFFICES ASSUME i \notin Places(back, Asked(l)) PROVE FALSE
        OBVIOUS
      <4>2. i > Len(back) /\ j <= Len(back) /\ j \in Nat /\ Len(back) \in Nat
        BY <1>4, <1>7, <1>9, <2>2, <4>1, LenProperties
      <4>3. i \in Nat
        <5>1. Places(longer, Asked(l)) = {k \in 1..Len(longer) : longer[k] \in Asked(l)}
            BY <1>4, PlacesFinite
        <5>2. i \in 1..Len(longer)
            BY <1>9, <5>1
        <5> QED BY <5>2
      <4> QED BY <1>9, <4>2, <4>3
    <3> QED BY <1>4, <1>9, <2>2, <3>1 DEF Agreed, Announced
  <2> QED BY <2>1, <2>2
<1>10. \/ Limit(s) = Limit(q)
       \/ \E i \in Places(longer, Asked(l)) : FlowLimit(longer[i]) = Limit(q)
  <2>1. CASE r.issue_flow
    <3>1. PICK k \in Places(flows, Asked(l)) : FlowLimit(flows[k]) = Limit(r)
        BY <2>1
    <3> QED BY <1>4, <1>5, <3>1
  <2>2. CASE ~ r.issue_flow
    BY <1>4, <1>5, <2>2 DEF Agreed, Announced
  <2> QED BY <2>1, <2>2
<1>11. Announced(l, s, q, longer)
  <2>1. s.draining => Past(q, Limit(s))
    BY <1>6 DEF Agreed, Announced
  <2> QED BY <1>8, <1>9, <1>10, <2>1 DEF Agreed, Announced
<1>12. Counted(l, s, q, forth)
    BY <1>5 DEF Agreed, Counted, Answered
<1>13. isDrained => Emptied(l, s, q, forth)
    BY <1>5 DEF Agreed, Emptied
<1> QED BY <1>3, <1>11, <1>12, <1>13 DEF Agreed

\* The receiver's application adds credit, unless it waits for a drain.
LEMMA CreditAdded ==
    ASSUME NEW l \in Links, NEW s \in SenderLinks, NEW r \in ReceiverLinks, NEW q \in ReceiverLinks,
           NEW n \in Nat, NEW forth \in Seq(Flows \cup Transfers),
           NEW back \in Seq(Flows \cup Acceptances),
           NEW isDrained, Agreed(l, s, r, forth, back, isDrained),
           r.drain => r.credit <= 0, q.credit = r.credit + n,
           q.delivery_count = r.delivery_count, q.drain = r.drain, q.issue_flow
    PROVE  Agreed(l, s, q, forth, back, FALSE)
<1>1. PICK rd \in Int, rc \in Int : rd = r.delivery_count /\ rc = r.credit
    BY DEF ReceiverLinks
<1>2. Limit(r) = rd + rc /\ Limit(q) = rd + (rc + n) /\ Limit(s) \in Int /\ Limit(s) <= Limit(r)
    BY <1>1 DEF Limit, SenderLinks, Agreed, Counted
<1>3. Limit(q) >= Limit(r) /\ Limit(s) <= Limit(q)
    BY <1>2
<1>4. Announced(l, s, q, back)
  <2>1. r.drain => Limit(r) <= q.delivery_count
    BY <1>1, <1>2
  <2>2. q.delivery_count >= r.delivery_count
    BY <1>1
  <2> QED BY <1>2, <1>3, <2>1, <2>2, LimitRaised DEF Agreed
<1>5. Places(forth, GivenUp(l)) = {}
  <2>1. SUFFICES ASSUME NEW i \in Places(forth, GivenUp(l)) PROVE FALSE
    OBVIOUS
  <2>2. Answered(l, s, r, forth, i)
    BY <2>1 DEF Agreed, Counted
  <2>3. PICK u \in Nat : u = Cardinality(Places(forth, Messages(l)))
    BY PlacesFinite
  <2>4. rd + u < s.delivery_count /\ rd + rc = s.delivery_count /\ rc <= 0
    BY <1>1, <1>2, <2>2, <2>3 DEF Answered
  <2>5. rd + u < rd + rc /\ rc <= 0
    BY <2>4
  <2> QED BY <2>5
<1>6. Counted(l, s, q, forth)
    BY <1>3, <1>5 DEF Agreed, Counted
<1> QED BY <1>4, <1>6 DEF Agreed

\* The receiver's application asks for a drain, the first.
LEMMA DrainAsked ==
    ASSUME NEW l \in Links, NEW s \in SenderLinks, NEW r \in ReceiverLinks, NEW q \in ReceiverLinks,
           NEW forth, NEW back, NEW isDrained, Agreed(l, s, r, forth, back, isDrained),
           l \in Drains, ~ r.drain, q.credit = r.credit, q.delivery_count = r.delivery_count,
           q.drain, q.issue_flow
    PROVE  Agreed(l, s, q, forth, back, isDrained)
<1>1. Limit(q) = Limit(r)
    BY DEF Limit
<1>2. Places(forth, GivenUp(l)) = {}
    BY DEF Agreed, Counted, Answered
<1>3. ~ s.draining /\ \A i \in Places(back, Asked(l)) : ~ back[i].drain
    BY DEF Agreed, Announced, Past
<1>4. Announced(l, s, q, back)
    BY <1>1, <1>3 DEF Agreed, Announced
<1>5. Counted(l, s, q, forth)
    BY <1>1, <1>2 DEF Agreed, Counted
<1>6. isDrained => Emptied(l, s, q, forth)
    BY <1>1 DEF Agreed, Emptied
<1> QED BY <1>4, <1>5, <1>6 DEF Agreed

\* The sender reads an acceptance, or a flow of another link.
LEMMA OtherAnswerRead ==
    ASSUME NEW l \in Links, NEW s \in SenderLinks, NEW r \in ReceiverLinks, NEW forth,
           NEW back \in Seq(Flows \cup Acceptances), back # <<>>, Head(back) \notin Asked(l),
           NEW isDrained, Agreed(l, s, r, forth, back, isDrained)
    PROVE  Agreed(l, s, r, forth, Tail(back), isDrained)
<1>1. PICK tail \in Seq(Flows \cup Acceptances) : tail = Tail(back)
    BY HeadTailProperties
<1>2. /\ Len(back) \in Nat /\ Len(back) >= 1 /\ Len(tail) \in Nat /\ Len(tail) = Len(back) - 1
      /\ back[1] = Head(back)
      /\ \A i \in 1..Len(tail) : tail[i] = back[i + 1]
    BY <1>1, HeadTailProperties, LenProperties, EmptySeq
<1>3. /\ Places(back, Asked(l)) = {i \in 1..Len(back) : back[i] \in Asked(l)}
      /\ Places(tail, Asked(l)) = {i \in 1..Len(tail) : tail[i] \in Asked(l)}
  <2>1. Places(back, Asked(l)) = {i \in 1..Len(back) : back[i] \in Asked(l)}
    BY PlacesFinite
  <2>2. Places(tail, Asked(l)) = {i \in 1..Len(tail) : tail[i] \in Asked(l)}
    BY PlacesFinite
  <2> QED BY <2>1, <2>2
<1>4. ASSUME NEW i \in Places(tail, Asked(l))
      PROVE  i \in Nat /\ i + 1 \in Places(back, Asked(l)) /\ tail[i] = back[i + 1]
  <2>1. i \in 1..Len(tail) /\ i + 1 \in 1..Len(back) /\ tail[i] = back[i + 1]
    BY <1>2, <1>3, <1>4
  <2> QED BY <1>3, <1>4, <2>1
<1>5. ASSUME NEW i \in Places(back, Asked(l))
      PROVE  \E k \in Places(tail, Asked(l)) : tail[k] = back[i]
  <2>1. i \in 1..Len(back) /\ i # 1
    BY <1>2, <1>3, <1>5
  <2>2. PICK k \in 1..Len(tail) : k + 1 = i
    <3>1. i - 1 \in 1..Len(tail) /\ (i - 1) + 1 = i
        BY <1>2, <2>1
    <3> QED BY <3>1
  <2> QED BY <1>2, <1>3, <1>5, <2>2
<1>6. \A i, j \in Places(tail, Asked(l)) : i < j => FlowLimit(tail[i]) <= FlowLimit(tail[j])
  <2>1. SUFFICES ASSUME NEW i \in Places(tail, Asked(l)), NEW j \in Places(tail, Asked(l)), i < j
                 PROVE  FlowLimit(tail[i]) <= FlowLimit(tail[j])
    OBVIOUS
  <2>2. /\ i + 1 \in Places(back, Asked(l)) /\ tail[i] = back[i + 1]
        /\ j + 1 \in Places(back, Asked(l)) /\ tail[j] = back[j + 1]
        /\ i \in Nat /\ j \in Nat
    BY <1>4, <2>1
  <2>3. i + 1 < j + 1
    BY <2>1, <2>2
  <2> QED BY <2>2, <2>3 DEF Agreed, Announced
<1>7. \A i \in Places(tail, Asked(l)) :
          /\ Limit(s) <= FlowLimit(tail[i]) /\ FlowLimit(tail[i]) <= Limit(r)
          /\ tail[i].drain => Past(r, FlowLimit(tail[i]))
    BY <1>4 DEF Agreed, Announced
<1>8. ~ r.issue_flow =>
          \/ Limit(s) = Limit(r)
          \/ \E i \in Places(tail, Asked(l)) : FlowLimit(tail[i]) = Limit(r)
    BY <1>5 DEF Agreed, Announced
<1> QED BY <1>1, <1>6, <1>7, <1>8 DEF Agreed, Announced

-----------------------------------------------------------------------------
(* What the steps of the receiving peer do.                                *)

LEMMA GrantedIs ==
    ASSUME NEW link \in ReceiverLinks, NEW n \in Nat
    PROVE  LET more == Granted(link, n)
           IN  /\ more \in ReceiverLinks /\ more.credit = link.credit + n
               /\ more.delivery_count = link.delivery_count /\ more.drain = link.drain
               /\ more.issue_flow
<1>1. PICK credit \in Int : credit = link.credit + n
    BY DEF ReceiverLinks
<1>2. PICK more : more = Granted(link, n)
    OBVIOUS
<1>3. more = [link EXCEPT !.credit = credit, !.issue_flow = TRUE]
    BY <1>1, <1>2 DEF Granted, ReceiverLinks
<1>4. /\ more \in ReceiverLinks /\ more.credit = credit
      /\ more.delivery_count = link.delivery_count /\ more.drain = link.drain /\ more.issue_flow
    BY <1>3 DEF ReceiverLinks
<1> QED BY <1>1, <1>2, <1>4

LEMMA ToppedUpIs ==
    ASSUME NEW l \in Links, NEW link \in ReceiverLinks
    PROVE  LET topped == ToppedUp(l, link)
           IN  /\ topped \in ReceiverLinks
               /\ topped.delivery_count = link.delivery_count /\ topped.drain = link.drain
               /\ topped = link \/ (topped.credit >= link.credit /\ topped.issue_flow
                                       /\ CreditWindow[l] > 0)
<1>1. PICK delta \in Int : delta = CreditWindow[l] - link.credit
    BY CreditWindows DEF ReceiverLinks
<1>2. PICK topped : topped = ToppedUp(l, link)
    OBVIOUS
<1>3. \/ topped = link
      \/ topped = Granted(link, delta) /\ CreditWindow[l] > 0 /\ delta > 0
    BY <1>1, <1>2 DEF ToppedUp
<1>4. CASE topped = link
    BY <1>2, <1>4
<1>5. CASE topped = Granted(link, delta) /\ CreditWindow[l] > 0 /\ delta > 0
  <2>1. delta \in Nat
    BY <1>5
  <2>2. /\ topped \in ReceiverLinks /\ topped.credit = link.credit + delta
        /\ topped.delivery_count = link.delivery_count /\ topped.drain = link.drain
        /\ topped.issue_flow
    BY <1>5, <2>1, GrantedIs
  <2>3. topped.credit >= link.credit
    BY <2>1, <2>2 DEF ReceiverLinks
  <2> QED BY <1>2, <1>5, <2>2, <2>3
<1> QED BY <1>3, <1>4, <1>5

\* The receiver, once it has counted a message.
LEMMA ReceiverOnTransferIs ==
    ASSUME Typed, ReceiverOnTransfer
    PROVE  /\ Typed'
           /\ s2r # <<>> /\ Head(s2r).link \in Links /\ Head(s2r) = Transfer(Head(s2r).link)
           /\ s2r' = Tail(s2r)
           /\ \A m \in Links : m # Head(s2r).link =>
                 rcv'[m] = rcv[m] /\ (m \in drained' <=> m \in drained)
           /\ LET l == Head(s2r).link
              IN  /\ rcv'[l].delivery_count = rcv[l].delivery_count + 1
                  /\ rcv'[l].drain = rcv[l].drain
                  /\ l \in drained' => l \in drained
                  /\ rcv[l].credit > 0 =>
                        \/ rcv'[l].credit = rcv[l].credit - 1
                              /\ rcv'[l].issue_flow = rcv[l].issue_flow
                        \/ rcv'[l].credit >= rcv[l].credit - 1 /\ rcv'[l].issue_flow
                              /\ CreditWindow[l] > 0
           /\ rcv_registered'
           /\ UNCHANGED <<senderVars, r2s>>
<1>1. /\ s2r # <<>> /\ Head(s2r).link \in Links /\ Head(s2r) = Transfer(Head(s2r).link)
      /\ Tail(s2r) \in Seq(Flows \cup Transfers)
    BY HeadOfS2r DEF Typed, ReceiverOnTransfer
<1>2. PICK l \in Links : l = Head(s2r).link
    BY <1>1
<1>3. PICK r \in ReceiverLinks : r = rcv[l]
  <2>1. rcv[l] \in ReceiverLinks
    BY <1>2 DEF Typed
  <2> QED BY <2>1
<1>4. PICK credit \in Int : credit = (IF r.credit > 0 THEN r.credit - 1 ELSE r.credit)
    BY DEF ReceiverLinks
<1>5. PICK count \in Int : count = r.delivery_count + 1
    BY DEF ReceiverLinks
<1>6. PICK counted : counted = [r EXCEPT !.delivery_count = count, !.credit = credit]
    OBVIOUS
<1>7. /\ counted \in ReceiverLinks /\ counted.credit = credit /\ counted.delivery_count = count
      /\ counted.drain = r.drain /\ counted.issue_flow = r.issue_flow
    BY <1>6 DEF ReceiverLinks
<1>8. counted = [rcv[l] EXCEPT !.delivery_count = @ + 1, !.credit = IF @ > 0 THEN @ - 1 ELSE @]
    BY <1>3, <1>4, <1>5, <1>6 DEF ReceiverLinks
<1>9. PICK topped : topped = ToppedUp(l, counted)
    OBVIOUS
<1>10. /\ topped \in ReceiverLinks
       /\ topped.delivery_count = count /\ topped.drain = r.drain
       /\ topped = counted \/ (topped.credit >= credit /\ topped.issue_flow /\ CreditWindow[l] > 0)
    BY <1>7, <1>9, ToppedUpIs
<1>11. /\ rcv' = [rcv EXCEPT ![l] = topped]
       /\ drained' = IF topped # counted THEN drained \ {l} ELSE drained
       /\ unaccepted' = unaccepted + 1 /\ rcv_registered' = TRUE /\ s2r' = Tail(s2r)
       /\ UNCHANGED <<granted, senderVars, r2s>>
    BY <1>2, <1>8, <1>9 DEF ReceiverOnTransfer
<1>12. /\ rcv' \in [Links -> ReceiverLinks] /\ rcv'[l] = topped
       /\ \A m \in Links : m # l => rcv'[m] = rcv[m]
    BY <1>10, <1>11 DEF Typed
<1>13. Typed'
    BY <1>1, <1>11, <1>12 DEF Typed, senderVars
<1>14. \A m \in Links : m # l => (m \in drained' <=> m \in drained)
    BY <1>11
<1>15. l \in drained' => l \in drained
    BY <1>11
<1>16. r.credit > 0 =>
           \/ topped.credit = r.credit - 1 /\ topped.issue_flow = r.issue_flow
           \/ topped.credit >= r.credit - 1 /\ topped.issue_flow /\ CreditWindow[l] > 0
    BY <1>4, <1>7, <1>10
<1> QED BY <1>1, <1>2, <1>3, <1>5, <1>10, <1>11, <1>12, <1>13, <1>14, <1>15, <1>16

\* The receiver, once it has read a flow.
LEMMA ReceiverOnFlowIs ==
    ASSUME Typed, ReceiverOnFlow
    PROVE  /\ Typed'
           /\ s2r # <<>> /\ Head(s2r).link \in Links /\ Head(s2r) \in Flows
           /\ s2r' = Tail(s2r)
           /\ \A m \in Links : m # Head(s2r).link =>
                 rcv'[m] = rcv[m] /\ (m \in drained' <=> m \in drained)
           /\ LET l == Head(s2r).link
              IN  /\ Head(s2r).drain =>
                        /\ rcv'[l].delivery_count = Head(s2r).delivery_count
                        /\ rcv'[l].credit = Head(s2r).link_credit
                        /\ rcv'[l].drain = rcv[l].drain
                        /\ rcv'[l].issue_flow = rcv[l].issue_flow
                        /\ Head(s2r).link_credit <= 0 => l \in drained'
                  /\ ~ Head(s2r).drain =>
                        rcv'[l] = rcv[l] /\ (l \in drained' <=> l \in drained)
           /\ rcv_registered'
           /\ UNCHANGED <<senderVars, r2s>>
<1>1. /\ s2r # <<>> /\ Head(s2r).link \in Links /\ Head(s2r) \in Flows
      /\ Tail(s2r) \in Seq(Flows \cup Transfers)
    BY HeadOfS2r DEF Typed, ReceiverOnFlow
<1>2. PICK f \in Flows, l \in Links : f = Head(s2r) /\ l = f.link
    BY <1>1
<1>3. PICK r \in ReceiverLinks : r = rcv[l]
  <2>1. rcv[l] \in ReceiverLinks
    BY <1>2 DEF Typed
  <2> QED BY <2>1
<1>4. PICK taken : taken = TakenOver(r, f)
    OBVIOUS
<1>5. /\ taken \in ReceiverLinks /\ taken.credit = f.link_credit
      /\ taken.delivery_count = f.delivery_count
      /\ taken.drain = r.drain /\ taken.issue_flow = r.issue_flow
  <2>1. f.link_credit \in Int /\ f.delivery_count \in Int
    BY <1>2 DEF Flows
  <2> QED BY <1>4, <2>1 DEF TakenOver, ReceiverLinks
<1>6. /\ rcv' = IF f.drain THEN [rcv EXCEPT ![l] = taken] ELSE rcv
      /\ drained' = IF f.drain /\ f.link_credit <= 0 THEN drained \cup {l} ELSE drained
      /\ rcv_registered' = TRUE /\ s2r' = Tail(s2r)
      /\ UNCHANGED <<unaccepted, granted, senderVars, r2s>>
    BY <1>2, <1>3, <1>4 DEF ReceiverOnFlow
<1>7. /\ rcv' \in [Links -> ReceiverLinks]
      /\ f.drain => rcv'[l] = taken
      /\ ~ f.drain => rcv' = rcv
      /\ \A m \in Links : m # l => rcv'[m] = rcv[m]
    BY <1>5, <1>6 DEF Typed
<1>8. Typed'
    BY <1>1, <1>6, <1>7 DEF Typed, senderVars
<1>9. /\ \A m \in Links : m # l => (m \in drained' <=> m \in drained)
      /\ f.drain /\ f.link_credit <= 0 => l \in drained'
      /\ ~ f.drain => drained' = drained
    BY <1>6
<1> QED BY <1>1, <1>2, <1>3, <1>5, <1>6, <1>7, <1>8, <1>9

LEMMA AddCreditIs ==
    ASSUME Typed, NEW l \in Links, NEW n \in 1..MaxGrant, AddCredit(l, n)
    PROVE  /\ Typed'
           /\ rcv[l].drain /\ rcv[l].credit > 0 => "topup" \in Liberties
           /\ \A m \in Links : m # l => rcv'[m] = rcv[m] /\ (m \in drained' <=> m \in drained)
           /\ rcv'[l].credit = rcv[l].credit + n
           /\ rcv'[l].delivery_count = rcv[l].delivery_count
           /\ rcv'[l].drain = rcv[l].drain /\ rcv'[l].issue_flow
           /\ l \notin drained' /\ rcv_registered'
           /\ UNCHANGED <<senderVars, s2r, r2s>>
<1>1. n \in Nat
    BY Bounds
<1>2. PICK r \in ReceiverLinks : r = rcv[l]
  <2>1. rcv[l] \in ReceiverLinks
    BY DEF Typed
  <2> QED BY <2>1
<1>3. PICK more : more = Granted(r, n)
    OBVIOUS
<1>4. /\ more \in ReceiverLinks /\ more.credit = r.credit + n
      /\ more.delivery_count = r.delivery_count /\ more.drain = r.drain /\ more.issue_flow
    BY <1>1, <1>3, GrantedIs
<1>5. /\ rcv' = [rcv EXCEPT ![l] = more] /\ drained' = drained \ {l} /\ rcv_registered' = TRUE
      /\ rcv[l].drain /\ rcv[l].credit > 0 => "topup" \in Liberties
      /\ UNCHANGED <<unaccepted, senderVars, s2r, r2s>>
    BY <1>2, <1>3 DEF AddCredit, Typed
<1>6. /\ rcv' \in [Links -> ReceiverLinks] /\ rcv'[l] = more
      /\ \A m \in Links : m # l => rcv'[m] = rcv[m]
    BY <1>4, <1>5 DEF Typed
<1>7. Typed'
    BY <1>5, <1>6 DEF Typed, senderVars
<1> QED BY <1>2, <1>4, <1>5, <1>6, <1>7

LEMMA DrainCreditIs ==
    ASSUME Typed, NEW l \in Links, DrainCredit(l)
    PROVE  /\ Typed'
           /\ l \in Drains /\ ~ rcv[l].drain
           /\ \A m \in Links : m # l => rcv'[m] = rcv[m]
           /\ rcv'[l].credit = rcv[l].credit
           /\ rcv'[l].delivery_count = rcv[l].delivery_count
           /\ rcv'[l].drain /\ rcv'[l].issue_flow
           /\ rcv_registered'
           /\ UNCHANGED <<senderVars, s2r, r2s, drained>>
<1>1. PICK r \in ReceiverLinks : r = rcv[l]
  <2>1. rcv[l] \in ReceiverLinks
    BY DEF Typed
  <2> QED BY <2>1
<1>2. PICK asked : asked = [r EXCEPT !.drain = TRUE, !.issue_flow = TRUE]
    OBVIOUS
<1>3. /\ asked \in ReceiverLinks /\ asked.credit = r.credit
      /\ asked.delivery_count = r.delivery_count /\ asked.drain /\ asked.issue_flow
    BY <1>2 DEF ReceiverLinks
<1>4. /\ rcv' = [rcv EXCEPT ![l].drain = TRUE, ![l].issue_flow = TRUE]
      /\ l \in Drains /\ ~ rcv[l].drain /\ rcv_registered' = TRUE
      /\ UNCHANGED <<unaccepted, drained, senderVars, s2r, r2s>>
    BY DEF DrainCredit
<1>5. rcv' = [rcv EXCEPT ![l] = asked]
    BY <1>1, <1>2, <1>4 DEF Typed
<1>6. /\ rcv' \in [Links -> ReceiverLinks] /\ rcv'[l] = asked
      /\ \A m \in Links : m # l => rcv'[m] = rcv[m]
    BY <1>3, <1>5 DEF Typed
<1>7. Typed'
    BY <1>4, <1>6 DEF Typed, senderVars
<1> QED BY <1>1, <1>3, <1>4, <1>6, <1>7

\* What the receiver's session writes: acceptances, then the flows of its links.
LEMMA ReceiverProcessIs ==
    ASSUME Typed, ReceiverProcess
    PROVE  /\ Typed'
           /\ \E acceptances \in Seq(Acceptances) :
                 r2s' = r2s \o acceptances \o FlattenSeq(RequestParts)
           /\ \A l \in Links :
                 /\ rcv'[l].credit = rcv[l].credit
                 /\ rcv'[l].delivery_count = rcv[l].delivery_count
                 /\ rcv'[l].drain = rcv[l].drain
                 /\ ~ rcv'[l].issue_flow
           /\ UNCHANGED <<senderVars, s2r, drained>>
<1>1. PICK acceptances : acceptances = IF unaccepted > 0
                             THEN <<[type |-> "disposition", count |-> unaccepted]>> ELSE <<>>
    OBVIOUS
<1>2. acceptances \in Seq(Acceptances)
  <2>1. [type |-> "disposition", count |-> unaccepted] \in Acceptances
    BY DEF Typed, Acceptances
  <2>2. PICK one \in Acceptances : one = [type |-> "disposition", count |-> unaccepted]
    BY <2>1
  <2>3. <<one>> \in Seq(Acceptances) /\ <<>> \in Seq(Acceptances)
    BY EmptySeq
  <2> QED BY <1>1, <2>2, <2>3
<1>3. /\ r2s' = r2s \o acceptances \o FlattenSeq(RequestParts)
      /\ rcv' = [l \in Links |-> [rcv[l] EXCEPT !.issue_flow = FALSE]]
      /\ unaccepted' = 0 /\ rcv_registered' = FALSE
      /\ UNCHANGED <<drained, senderVars, s2r>>
    BY <1>1 DEF ReceiverProcess, RequestParts
<1>4. \A l \in Links : rcv[l] \in ReceiverLinks
    BY DEF Typed
<1>5. ASSUME NEW r \in ReceiverLinks
      PROVE  LET q == [r EXCEPT !.issue_flow = FALSE]
             IN  /\ q \in ReceiverLinks /\ q.credit = r.credit
                 /\ q.delivery_count = r.delivery_count /\ q.drain = r.drain /\ ~ q.issue_flow
    BY DEF ReceiverLinks
<1>6. /\ rcv' \in [Links -> ReceiverLinks]
      /\ \A l \in Links :
            /\ rcv'[l].credit = rcv[l].credit
            /\ rcv'[l].delivery_count = rcv[l].delivery_count
            /\ rcv'[l].drain = rcv[l].drain
            /\ ~ rcv'[l].issue_flow
    BY <1>3, <1>4, <1>5
<1>7. r2s' \in Seq(Flows \cup Acceptances)
  <2>1. PICK S, flows : S = Flows \cup Acceptances /\ flows = FlattenSeq(RequestParts)
    OBVIOUS
  <2>2. flows \in Seq(Flows)
    BY <2>1, RequestsAre DEF Typed
  <2>3. r2s \in Seq(S) /\ acceptances \in Seq(S) /\ flows \in Seq(S)
    BY <1>2, <2>1, <2>2, SeqMonotonic DEF Typed
  <2>4. PICK first : first = r2s \o acceptances
    OBVIOUS
  <2>5. first \in Seq(S)
    BY <2>3, <2>4, ConcatProperties
  <2>6. r2s' = first \o flows
    BY <1>3, <2>1, <2>4
  <2>7. r2s' \in Seq(S)
    BY <2>3, <2>5, <2>6, ConcatProperties
  <2> QED BY <2>1, <2>7
<1>8. Typed'
    BY <1>3, <1>6, <1>7 DEF Typed, senderVars
<1> QED BY <1>2, <1>3, <1>6, <1>8

-----------------------------------------------------------------------------
(* Every step keeps both ends of every link agreed.                        *)

\* The receivers' applications leave the credit alone while they wait for a drain, be it by
\* hand or by a window.
NoTopUp ==
    /\ "topup" \notin Liberties
    /\ \A l \in Drains : CreditWindow[l] = 0

LinkAgreed(l) == Agreed(l, snd[l], rcv[l], s2r, r2s, l \in drained)

Agreement ==
    /\ Typed
    /\ \A l \in Links : LinkAgreed(l) /\ (rcv[l].issue_flow => rcv_registered)

LEMMA LinkTyped ==
    ASSUME Typed, NEW l \in Links
    PROVE  snd[l] \in SenderLinks /\ rcv[l] \in ReceiverLinks
BY DEF Typed

LEMMA InitAgreed == Init => Agreement
<1> SUFFICES ASSUME Init PROVE Agreement
    OBVIOUS
<1>1. Typed
    BY InitTyped
<1>2. ASSUME NEW l \in Links PROVE LinkAgreed(l)
  <2>1. PICK window \in Nat : window = CreditWindow[l]
    BY CreditWindows
  <2>2. PICK s \in SenderLinks, r \in ReceiverLinks : s = snd[l] /\ r = rcv[l]
    BY <1>1, LinkTyped
  <2>3. /\ s.credit = 0 /\ s.delivery_count = 0 /\ s.draining = FALSE
        /\ r.credit = window /\ r.delivery_count = 0 /\ r.drain = FALSE
        /\ r.issue_flow = (window > 0)
        /\ s2r = <<>> /\ r2s = <<>> /\ l \notin drained
    BY <2>1, <2>2 DEF Init
  <2>4. Limit(s) = 0 /\ Limit(r) = window
    BY <2>1, <2>3 DEF Limit
  <2>5. \A T : Places(<<>>, T) = {} /\ Cardinality(Places(<<>>, T)) = 0
    BY PlacesNone
  <2>6. Counted(l, s, r, <<>>)
    BY <2>1, <2>3, <2>4, <2>5 DEF Counted
  <2>7. Announced(l, s, r, <<>>)
    <3>1. ~ r.issue_flow => Limit(s) = Limit(r)
      <4>1. SUFFICES ASSUME ~ r.issue_flow PROVE Limit(s) = Limit(r)
        OBVIOUS
      <4>2. ~ (window > 0)
        BY <2>3, <4>1, Zenon
      <4>3. window = 0
        BY <2>1, <4>2
      <4> QED BY <2>4, <4>3
    <3>2. ~ s.draining /\ ~ r.drain
        BY <2>3
    <3> QED BY <2>5, <3>1, <3>2 DEF Announced
  <2> QED BY <2>2, <2>3, <2>6, <2>7 DEF LinkAgreed, Agreed
<1> QED BY <1>1, <1>2 DEF Agreement, Init

LEMMA OfferAgreed ==
    ASSUME Agreement, NEW l \in Links, Offer(l)
    PROVE  Agreement'
<1>1. Typed' /\ UNCHANGED <<snd, rcv, s2r, r2s, drained, rcv_registered>>
    BY OfferIs DEF Agreement, Offer, receiverVars
<1> QED BY <1>1 DEF Agreement, LinkAgreed

LEMMA SendAtOnceAgreed ==
    ASSUME Agreement, NEW l \in Links, SendAtOnce(l)
    PROVE  Agreement'
<1>1. Typed' /\ UNCHANGED <<snd, rcv, s2r, r2s, drained, rcv_registered>>
    BY SendAtOnceIs DEF Agreement, receiverVars
<1> QED BY <1>1 DEF Agreement, LinkAgreed

LEMMA DispositionAgreed ==
    ASSUME Agreement, SenderOnDisposition
    PROVE  Agreement'
<1>1. /\ Typed /\ Typed' /\ r2s # <<>> /\ Head(r2s) \notin Flows /\ r2s' = Tail(r2s)
      /\ UNCHANGED <<snd, rcv, s2r, drained, rcv_registered>>
    BY SenderOnDispositionIs DEF Agreement, receiverVars
<1>2. ASSUME NEW l \in Links PROVE LinkAgreed(l)'
  <2>1. Head(r2s) \notin Asked(l)
    BY <1>1 DEF Asked
  <2>2. Agreed(l, snd[l], rcv[l], s2r, Tail(r2s), l \in drained)
    BY <1>1, <2>1, LinkTyped, OtherAnswerRead DEF Agreement, LinkAgreed, Typed
  <2> QED BY <1>1, <2>2 DEF LinkAgreed
<1> QED BY <1>1, <1>2 DEF Agreement

LEMMA FlowAgreed ==
    ASSUME Agreement, SenderOnFlow
    PROVE  Agreement'
<1>1. /\ Typed /\ Typed'
      /\ r2s # <<>> /\ Head(r2s) \in Flows /\ Head(r2s).link \in Links /\ r2s' = Tail(r2s)
      /\ \A l \in Links : l # Head(r2s).link => snd'[l] = snd[l]
      /\ UNCHANGED <<rcv, s2r, drained, rcv_registered>>
    BY SenderOnFlowIs DEF Agreement, receiverVars
<1>2. ASSUME NEW l \in Links PROVE LinkAgreed(l)'
  <2>1. /\ snd[l] \in SenderLinks /\ rcv[l] \in ReceiverLinks /\ snd'[l] \in SenderLinks
        /\ s2r \in Seq(Flows \cup Transfers) /\ r2s \in Seq(Flows \cup Acceptances)
        /\ Agreed(l, snd[l], rcv[l], s2r, r2s, l \in drained)
    BY <1>1, LinkTyped DEF Agreement, LinkAgreed, Typed
  <2>2. CASE l = Head(r2s).link
    <3>1. /\ snd'[l].delivery_count = snd[l].delivery_count
          /\ snd'[l].credit = Head(r2s).delivery_count + Head(r2s).link_credit
                                  - snd[l].delivery_count
          /\ snd'[l].draining = Head(r2s).drain
        BY <1>1, <2>2, SenderOnFlowIs
    <3>2. Head(r2s) \in Asked(l)
        BY <1>1, <2>2 DEF Asked
    <3>3. PICK t \in SenderLinks : t = snd'[l]
        BY <2>1
    <3>4. Agreed(l, t, rcv[l], s2r, Tail(r2s), l \in drained)
        BY <1>1, <2>1, <3>1, <3>2, <3>3, FlowTaken
    <3> QED BY <1>1, <3>3, <3>4 DEF LinkAgreed
  <2>3. CASE l # Head(r2s).link
    <3>1. Head(r2s) \notin Asked(l)
        BY <2>3 DEF Asked
    <3>2. Agreed(l, snd[l], rcv[l], s2r, Tail(r2s), l \in drained)
        BY <1>1, <2>1, <3>1, OtherAnswerRead
    <3> QED BY <1>1, <2>3, <3>2 DEF LinkAgreed
  <2> QED BY <2>2, <2>3
<1> QED BY <1>1, <1>2 DEF Agreement

LEMMA ProcessAgreed ==
    ASSUME Agreement, SenderProcess
    PROVE  Agreement'
<1>1. /\ Typed /\ Typed'
      /\ s2r' = s2r \o FlattenSeq(TransferParts) \o FlattenSeq(FlowParts(Charged))
      /\ snd' = [l \in Links |-> AfterFlow(Charged[l])]
      /\ UNCHANGED <<rcv, r2s, drained, rcv_registered>>
    BY SenderProcessIs DEF Agreement, receiverVars
<1>2. ring \in Seq(Deliveries) /\ snd \in [Links -> SenderLinks]
    BY <1>1 DEF Typed
<1>3. Charged \in [Links -> SenderLinks]
    BY <1>2, ChargedIs
<1>4. PICK sent, flows : sent = FlattenSeq(TransferParts) /\ flows = FlattenSeq(FlowParts(Charged))
    OBVIOUS
<1>5. sent \in Seq(Transfers) /\ flows \in Seq(Flows)
    BY <1>2, <1>3, <1>4, TransfersAre, FlowsAre
<1>6. ASSUME NEW l \in Links PROVE LinkAgreed(l)'
  <2>1. /\ snd[l] \in SenderLinks /\ rcv[l] \in ReceiverLinks /\ Charged[l] \in SenderLinks
        /\ s2r \in Seq(Flows \cup Transfers) /\ r2s \in Seq(Flows \cup Acceptances)
        /\ Agreed(l, snd[l], rcv[l], s2r, r2s, l \in drained)
    BY <1>1, <1>3, LinkTyped DEF Agreement, LinkAgreed, Typed
  <2>2. PICK n \in Nat : n = Cardinality(Going(l)) /\ (n > 0 => n <= snd[l].credit)
    BY <1>2, GoingIs
  <2>3. PICK c \in SenderLinks, t \in SenderLinks : c = Charged[l] /\ t = AfterFlow(c)
    BY <2>1, AfterFlowIs
  <2>4. /\ c.credit = snd[l].credit - n /\ c.delivery_count = snd[l].delivery_count + n
        /\ c.draining = snd[l].draining
    BY <1>2, <2>2, <2>3, ChargedIs
  <2>5. /\ t \in SenderLinks /\ t.draining = snd[l].draining
        /\ GivesUp(c) => t.credit = 0 /\ t.delivery_count = c.delivery_count + c.credit
        /\ ~ GivesUp(c) => t.credit = c.credit /\ t.delivery_count = c.delivery_count
    BY <2>3, <2>4, AfterFlowIs
  <2>6. Cardinality(Places(sent, Messages(l))) = n
    BY <1>2, <1>4, <2>2, TransfersAre DEF Messages
  <2>7. /\ Cardinality(Places(flows, GivenUp(l))) = IF GivesUp(c) THEN 1 ELSE 0
        /\ \A k \in Places(flows, GivenUp(l)) :
              flows[k].link_credit = 0 /\ flows[k].delivery_count = c.delivery_count + c.credit
    <3>1. /\ Cardinality(Places(flows, GivenUp(l))) = IF GivesUp(c) THEN 1 ELSE 0
          /\ \A k \in 1..Len(flows) : flows[k] \in GivenUp(l) =>
                flows[k].link_credit = 0 /\ flows[k].delivery_count = c.delivery_count + c.credit
        BY <1>3, <1>4, <2>3, FlowsAre
    <3>2. Places(flows, GivenUp(l)) = {k \in 1..Len(flows) : flows[k] \in GivenUp(l)}
        BY <1>5, PlacesFinite
    <3> QED BY <3>1, <3>2
  <2>8. Agreed(l, t, rcv[l], s2r \o sent \o flows, r2s, l \in drained)
    BY <1>5, <2>1, <2>2, <2>4, <2>5, <2>6, <2>7, FramesWritten
  <2>9. snd'[l] = t /\ s2r' = s2r \o sent \o flows
    BY <1>1, <1>4, <2>3
  <2> QED BY <1>1, <2>8, <2>9 DEF LinkAgreed
<1> QED BY <1>1, <1>6 DEF Agreement

LEMMA TransferAgreed ==
    ASSUME NoTopUp, Agreement, ReceiverOnTransfer
    PROVE  Agreement'
<1>1. /\ Typed /\ Typed'
      /\ s2r # <<>> /\ Head(s2r).link \in Links /\ Head(s2r) = Transfer(Head(s2r).link)
      /\ s2r' = Tail(s2r)
      /\ \A m \in Links : m # Head(s2r).link =>
            rcv'[m] = rcv[m] /\ (m \in drained' <=> m \in drained)
      /\ rcv_registered'
      /\ UNCHANGED <<snd, r2s>>
    BY ReceiverOnTransferIs DEF Agreement, senderVars
<1>2. ASSUME NEW l \in Links PROVE LinkAgreed(l)'
  <2>1. /\ snd[l] \in SenderLinks /\ rcv[l] \in ReceiverLinks /\ rcv'[l] \in ReceiverLinks
        /\ s2r \in Seq(Flows \cup Transfers) /\ r2s \in Seq(Flows \cup Acceptances)
        /\ Agreed(l, snd[l], rcv[l], s2r, r2s, l \in drained)
    BY <1>1, LinkTyped DEF Agreement, LinkAgreed, Typed
  <2>2. CASE l = Head(s2r).link
    <3>1. PICK r \in ReceiverLinks, q \in ReceiverLinks : r = rcv[l] /\ q = rcv'[l]
        BY <2>1
    <3>2. r.credit > 0
      <4>1. Head(s2r) \in Messages(l)
        BY <1>1, <2>2 DEF Messages
      <4>2. PICK u \in Nat : u = Cardinality(Places(s2r, Messages(l))) /\ r.credit >= u
        BY <2>1, <3>1, RoomForMessages DEF Agreed
      <4>3. PICK v \in Nat : v = Cardinality(Places(Tail(s2r), Messages(l)))
        BY <1>1, <2>1, PlacesFinite, HeadTailProperties
      <4>4. u = v + 1
        BY <1>1, <2>1, <4>1, <4>2, <4>3, PlacesTail
      <4>5. r.credit \in Int
        BY DEF ReceiverLinks
      <4> QED BY <4>2, <4>4, <4>5
    <3>3. /\ q.delivery_count = r.delivery_count + 1 /\ q.drain = r.drain
          /\ l \in drained' => l \in drained
          /\ \/ q.credit = r.credit - 1 /\ q.issue_flow = r.issue_flow
             \/ q.credit >= r.credit - 1 /\ q.issue_flow /\ CreditWindow[l] > 0
        BY <1>1, <2>2, <3>1, <3>2, ReceiverOnTransferIs
    <3>4. CreditWindow[l] > 0 => ~ r.drain
      <4>1. r.drain => l \in Drains
        BY <2>1, <3>1 DEF Agreed, Announced
      <4> QED BY <4>1 DEF NoTopUp
    <3>5. \/ q.credit = r.credit - 1 /\ q.issue_flow = r.issue_flow
          \/ q.credit >= r.credit - 1 /\ q.issue_flow /\ ~ r.drain
        BY <3>3, <3>4
    <3>6. Agreed(l, snd[l], r, s2r, r2s, l \in drained) /\ Head(s2r) = Transfer(l)
        BY <1>1, <2>1, <2>2, <3>1
    <3>7. Agreed(l, snd[l], q, Tail(s2r), r2s, FALSE) /\ ~ (l \in drained)
      <4>1. PICK s \in SenderLinks, isDrained \in BOOLEAN :
                s = snd[l] /\ isDrained = (l \in drained)
        <5>1. (l \in drained) \in BOOLEAN
            OBVIOUS
        <5> QED BY <2>1, <5>1, Zenon
      <4>2. PICK forth \in Seq(Flows \cup Transfers), back \in Seq(Flows \cup Acceptances) :
                forth = s2r /\ back = r2s
        BY <2>1
      <4>3. Agreed(l, s, r, forth, back, isDrained) /\ forth # <<>> /\ Head(forth) = Transfer(l)
        BY <1>1, <3>6, <4>1, <4>2
      <4>4. q.delivery_count = r.delivery_count + 1 /\ q.drain = r.drain
        BY <3>3
      <4>5. Agreed(l, s, q, Tail(forth), back, FALSE) /\ ~ isDrained
        BY <3>5, <4>3, <4>4, MessageTaken
      <4> QED BY <4>1, <4>2, <4>5
    <3>8. l \notin drained'
        BY <3>3, <3>7
    <3> QED BY <1>1, <3>1, <3>7, <3>8 DEF LinkAgreed, Agreed
  <2>3. CASE l # Head(s2r).link
    <3>1. Head(s2r) \notin Messages(l) /\ Head(s2r) \notin GivenUp(l)
        BY <1>1, <2>3, TransferType DEF Messages, GivenUp
    <3>2. Agreed(l, snd[l], rcv[l], Tail(s2r), r2s, l \in drained)
        BY <1>1, <2>1, <3>1, OthersRead
    <3>3. rcv'[l] = rcv[l] /\ (l \in drained' <=> l \in drained)
        BY <1>1, <2>3
    <3> QED BY <1>1, <3>2, <3>3 DEF LinkAgreed, Agreed
  <2> QED BY <2>2, <2>3
<1> QED BY <1>1, <1>2 DEF Agreement

LEMMA AnswerAgreed ==
    ASSUME Agreement, ReceiverOnFlow
    PROVE  Agreement'
<1>1. /\ Typed /\ Typed'
      /\ s2r # <<>> /\ Head(s2r).link \in Links /\ Head(s2r) \in Flows
      /\ s2r' = Tail(s2r)
      /\ \A m \in Links : m # Head(s2r).link =>
            rcv'[m] = rcv[m] /\ (m \in drained' <=> m \in drained)
      /\ rcv_registered'
      /\ UNCHANGED <<snd, r2s>>
    BY ReceiverOnFlowIs DEF Agreement, senderVars
<1>2. ASSUME NEW l \in Links PROVE LinkAgreed(l)'
  <2>1. /\ snd[l] \in SenderLinks /\ rcv[l] \in ReceiverLinks /\ rcv'[l] \in ReceiverLinks
        /\ s2r \in Seq(Flows \cup Transfers) /\ r2s \in Seq(Flows \cup Acceptances)
        /\ Agreed(l, snd[l], rcv[l], s2r, r2s, l \in drained)
    BY <1>1, LinkTyped DEF Agreement, LinkAgreed, Typed
  <2>2. Head(s2r) \notin Messages(l)
    BY <1>1, TransferType DEF Messages
  <2>3. CASE l = Head(s2r).link /\ Head(s2r).drain
    <3>1. PICK r \in ReceiverLinks, q \in ReceiverLinks : r = rcv[l] /\ q = rcv'[l]
        BY <2>1
    <3>2. /\ q.delivery_count = Head(s2r).delivery_count
          /\ q.credit = Head(s2r).link_credit
          /\ q.drain = r.drain /\ q.issue_flow = r.issue_flow
          /\ Head(s2r).link_credit <= 0 => l \in drained'
        BY <1>1, <2>3, <3>1, ReceiverOnFlowIs
    <3>3. Head(s2r) \in GivenUp(l)
        BY <1>1, <2>3 DEF GivenUp
    <3>4. Agreed(l, snd[l], r, s2r, r2s, l \in drained)
        BY <2>1, <3>1
    <3>5. Agreed(l, snd[l], q, Tail(s2r), r2s, TRUE) /\ Head(s2r).link_credit <= 0
        BY <1>1, <2>1, <3>2, <3>3, <3>4, AnswerTaken
    <3> QED BY <1>1, <3>1, <3>5 DEF LinkAgreed, Agreed
  <2>4. CASE l # Head(s2r).link \/ ~ Head(s2r).drain
    <3>1. Head(s2r) \notin GivenUp(l)
        BY <2>4 DEF GivenUp
    <3>2. Agreed(l, snd[l], rcv[l], Tail(s2r), r2s, l \in drained)
        BY <1>1, <2>1, <2>2, <3>1, OthersRead
    <3>3. rcv'[l] = rcv[l] /\ (l \in drained' <=> l \in drained)
      <4>1. CASE l # Head(s2r).link
        BY <1>1, <4>1
      <4>2. CASE l = Head(s2r).link /\ ~ Head(s2r).drain
        BY <1>1, <4>2, ReceiverOnFlowIs
      <4> QED BY <2>4, <4>1, <4>2
    <3> QED BY <1>1, <3>2, <3>3 DEF LinkAgreed, Agreed
  <2> QED BY <2>3, <2>4
<1> QED BY <1>1, <1>2 DEF Agreement

LEMMA CreditAgreed ==
    ASSUME NoTopUp, Agreement, NEW l \in Links, NEW n \in 1..MaxGrant, AddCredit(l, n)
    PROVE  Agreement'
<1>1. /\ Typed /\ Typed'
      /\ \A m \in Links : m # l => rcv'[m] = rcv[m] /\ (m \in drained' <=> m \in drained)
      /\ rcv_registered'
      /\ UNCHANGED <<snd, s2r, r2s>>
    BY AddCreditIs DEF Agreement, senderVars
<1>2. LinkAgreed(l)'
  <2>1. /\ snd[l] \in SenderLinks /\ rcv[l] \in ReceiverLinks /\ rcv'[l] \in ReceiverLinks
        /\ s2r \in Seq(Flows \cup Transfers) /\ r2s \in Seq(Flows \cup Acceptances)
        /\ Agreed(l, snd[l], rcv[l], s2r, r2s, l \in drained)
    BY <1>1, LinkTyped DEF Agreement, LinkAgreed, Typed
  <2>2. PICK r \in ReceiverLinks, q \in ReceiverLinks : r = rcv[l] /\ q = rcv'[l]
    BY <2>1
  <2>3. /\ q.credit = r.credit + n /\ q.delivery_count = r.delivery_count
        /\ q.drain = r.drain /\ q.issue_flow /\ l \notin drained'
        /\ ~ (r.drain /\ r.credit > 0)
    BY <1>1, <2>2, AddCreditIs DEF NoTopUp
  <2>4. r.drain => r.credit <= 0
    BY <2>3 DEF ReceiverLinks
  <2>5. n \in Nat /\ Agreed(l, snd[l], r, s2r, r2s, l \in drained)
    BY <2>1, <2>2, Bounds
  <2>6. Agreed(l, snd[l], q, s2r, r2s, FALSE)
    BY <2>1, <2>3, <2>4, <2>5, CreditAdded
  <2> QED BY <1>1, <2>2, <2>3, <2>6 DEF LinkAgreed, Agreed
<1>3. ASSUME NEW m \in Links, m # l PROVE LinkAgreed(m)'
    BY <1>1, <1>3 DEF Agreement, LinkAgreed, Agreed
<1> QED BY <1>1, <1>2, <1>3 DEF Agreement

LEMMA DrainAgreed ==
    ASSUME Agreement, NEW l \in Links, DrainCredit(l)
    PROVE  Agreement'
<1>1. /\ Typed /\ Typed'
      /\ \A m \in Links : m # l => rcv'[m] = rcv[m]
      /\ rcv_registered'
      /\ UNCHANGED <<snd, s2r, r2s, drained>>
    BY DrainCreditIs DEF Agreement, senderVars
<1>2. LinkAgreed(l)'
  <2>1. /\ snd[l] \in SenderLinks /\ rcv[l] \in ReceiverLinks /\ rcv'[l] \in ReceiverLinks
        /\ Agreed(l, snd[l], rcv[l], s2r, r2s, l \in drained)
    BY <1>1, LinkTyped DEF Agreement, LinkAgreed, Typed
  <2>2. PICK r \in ReceiverLinks, q \in ReceiverLinks : r = rcv[l] /\ q = rcv'[l]
    BY <2>1
  <2>3. /\ l \in Drains /\ ~ r.drain /\ q.credit = r.credit
        /\ q.delivery_count = r.delivery_count /\ q.drain /\ q.issue_flow
    BY <1>1, <2>2, DrainCreditIs
  <2>4. Agreed(l, snd[l], q, s2r, r2s, l \in drained)
    BY <2>1, <2>2, <2>3, DrainAsked
  <2> QED BY <1>1, <2>2, <2>4 DEF LinkAgreed
<1>3. ASSUME NEW m \in Links, m # l PROVE LinkAgreed(m)'
    BY <1>1, <1>3 DEF Agreement, LinkAgreed
<1> QED BY <1>1, <1>2, <1>3 DEF Agreement

LEMMA RequestAgreed ==
    ASSUME Agreement, ReceiverProcess
    PROVE  Agreement'
<1>1. /\ Typed /\ Typed'
      /\ \E acceptances \in Seq(Acceptances) :
            r2s' = r2s \o acceptances \o FlattenSeq(RequestParts)
      /\ \A l \in Links :
            /\ rcv'[l].credit = rcv[l].credit
            /\ rcv'[l].delivery_count = rcv[l].delivery_count
            /\ rcv'[l].drain = rcv[l].drain
            /\ ~ rcv'[l].issue_flow
      /\ UNCHANGED <<snd, s2r, drained>>
    BY ReceiverProcessIs DEF Agreement, senderVars
<1>2. PICK acceptances \in Seq(Acceptances) : r2s' = r2s \o acceptances \o FlattenSeq(RequestParts)
    BY <1>1
<1>3. PICK flows : flows = FlattenSeq(RequestParts)
    OBVIOUS
<1>4. /\ flows \in Seq(Flows)
      /\ \A k \in 1..Len(flows) :
            \E l \in Links : rcv[l].issue_flow /\ flows[k] = Flow(l, rcv[l], rcv[l].drain)
      /\ \A l \in Links : rcv[l].issue_flow =>
            \E k \in 1..Len(flows) : flows[k] = Flow(l, rcv[l], rcv[l].drain)
    BY <1>1, <1>3, RequestsAre DEF Typed
<1>5. PICK first : first = r2s \o acceptances
    OBVIOUS
<1>6. r2s' = first \o flows
    BY <1>2, <1>3, <1>5
<1>7. first \in Seq(Flows \cup Acceptances)
  <2>1. PICK S : S = Flows \cup Acceptances
    OBVIOUS
  <2>2. r2s \in Seq(S) /\ acceptances \in Seq(S)
    BY <1>1, <2>1, SeqMonotonic DEF Typed
  <2>3. first \in Seq(S)
    BY <1>5, <2>2, ConcatProperties
  <2> QED BY <2>1, <2>3
<1>8. ASSUME NEW l \in Links PROVE LinkAgreed(l)'
  <2>1. /\ snd[l] \in SenderLinks /\ rcv[l] \in ReceiverLinks /\ rcv'[l] \in ReceiverLinks
        /\ s2r \in Seq(Flows \cup Transfers) /\ r2s \in Seq(Flows \cup Acceptances)
        /\ Agreed(l, snd[l], rcv[l], s2r, r2s, l \in drained)
    BY <1>1, LinkTyped DEF Agreement, LinkAgreed, Typed
  <2>2. PICK r \in ReceiverLinks, q \in ReceiverLinks : r = rcv[l] /\ q = rcv'[l]
    BY <2>1
  <2>3. /\ q.credit = r.credit /\ q.delivery_count = r.delivery_count /\ q.drain = r.drain
    BY <1>1, <2>2
  <2>4. Places(flows, Asked(l)) = {k \in 1..Len(flows) : flows[k] \in Asked(l)}
    BY <1>4, PlacesFinite
  <2>5. ASSUME NEW m \in Links
        PROVE  /\ Flow(m, rcv[m], rcv[m].drain) \in Flows
               /\ Flow(m, rcv[m], rcv[m].drain).link = m
               /\ Flow(m, rcv[m], rcv[m].drain).drain = rcv[m].drain
               /\ FlowLimit(Flow(m, rcv[m], rcv[m].drain)) = Limit(rcv[m])
    <3>1. /\ rcv[m].delivery_count \in Int /\ rcv[m].credit \in Int /\ rcv[m].drain \in BOOLEAN
      <4>1. rcv[m] \in ReceiverLinks
        BY <1>1, <2>5, LinkTyped
      <4> QED BY <4>1 DEF ReceiverLinks
    <3> QED BY <2>5, <3>1, FlowType DEF FlowLimit, Limit
  <2>6. ASSUME NEW k \in Places(flows, Asked(l))
        PROVE  FlowLimit(flows[k]) = Limit(r) /\ flows[k].drain = r.drain
    <3>1. k \in 1..Len(flows) /\ flows[k].link = l
        BY <2>4, <2>6 DEF Asked
    <3>2. PICK m \in Links : flows[k] = Flow(m, rcv[m], rcv[m].drain)
        BY <1>4, <3>1
    <3>3. m = l
        BY <2>5, <3>1, <3>2
    <3> QED BY <2>2, <2>5, <3>2, <3>3
  <2>7. r.issue_flow => Places(flows, Asked(l)) # {}
    <3>1. SUFFICES ASSUME r.issue_flow PROVE Places(flows, Asked(l)) # {}
        OBVIOUS
    <3>2. PICK k \in 1..Len(flows) : flows[k] = Flow(l, rcv[l], rcv[l].drain)
        BY <1>4, <2>2, <3>1
    <3>3. flows[k] \in Asked(l)
        BY <2>5, <3>2 DEF Asked
    <3> QED BY <2>4, <3>2, <3>3
  <2>8. Agreed(l, snd[l], r, s2r, first, l \in drained)
    BY <1>5, <2>1, <2>2, AcceptancesWritten
  <2>9. Agreed(l, snd[l], q, s2r, first \o flows, l \in drained)
    BY <1>4, <1>7, <2>1, <2>3, <2>6, <2>7, <2>8, RequestWritten
  <2> QED BY <1>1, <1>6, <2>2, <2>9 DEF LinkAgreed
<1> QED BY <1>1, <1>8 DEF Agreement

LEMMA NextAgreed ==
    ASSUME NoTopUp, Agreement, [Next]_vars
    PROVE  Agreement'
<1>1. CASE UNCHANGED vars
  <2>1. Typed' /\ UNCHANGED <<snd, rcv, s2r, r2s, drained, rcv_registered>>
    BY <1>1 DEF vars, senderVars, receiverVars, Agreement, Typed
  <2> QED BY <2>1 DEF Agreement, LinkAgreed
<1>2. CASE Library
  <2>1. CASE SenderOnFlow
    BY <2>1, FlowAgreed
  <2>2. CASE SenderOnDisposition
    BY <2>2, DispositionAgreed
  <2>3. CASE SenderProcess
    BY <2>3, ProcessAgreed
  <2>4. CASE ReceiverOnTransfer
    BY <2>4, TransferAgreed
  <2>5. CASE ReceiverOnFlow
    BY <2>5, AnswerAgreed
  <2>6. CASE ReceiverProcess
    BY <2>6, RequestAgreed
  <2> QED BY <1>2, <2>1, <2>2, <2>3, <2>4, <2>5, <2>6 DEF Library
<1>3. ASSUME NEW l \in Links, Offer(l) PROVE Agreement'
    BY <1>3, OfferAgreed
<1>4. ASSUME NEW l \in Links, DrainCredit(l) PROVE Agreement'
    BY <1>4, DrainAgreed
<1>5. ASSUME NEW l \in Links, NEW n \in 1..MaxGrant, AddCredit(l, n) PROVE Agreement'
    BY <1>5, CreditAgreed
<1>6. ASSUME NEW l \in Links, SendAtOnce(l) PROVE Agreement'
    BY <1>6, SendAtOnceAgreed
<1> QED BY <1>1, <1>2, <1>3, <1>4, <1>5, <1>6 DEF Next

-----------------------------------------------------------------------------
(* The ring: what is left in it waits for credit.                          *)

LEMMA ProcessHolds ==
    ASSUME Typed, SenderProcess
    PROVE  HeldOnlyByCredit'
<1>1. /\ Typed /\ Typed' /\ ring \in Seq(Deliveries) /\ snd \in [Links -> SenderLinks]
    BY SenderProcessIs DEF Typed
<1>2. Charged \in [Links -> SenderLinks] /\ snd' = [l \in Links |-> AfterFlow(Charged[l])]
    BY <1>1, ChargedIs, SenderProcessIs
<1>3. SUFFICES ASSUME ~ snd_registered', NEW i \in DOMAIN ring', IsNext(i)'
               PROVE  snd'[ring'[i].link].credit <= 0
    BY DEF HeldOnlyByCredit
<1>4. ring' = Popped /\ i \in 1..Len(Popped)
  <2>1. ring' = Popped
    BY <1>3, SenderProcessIs
  <2>2. DOMAIN Popped = 1..Len(Popped)
    BY <1>1, PoppedIs
  <2> QED BY <1>3, <2>1, <2>2
<1>5. Popped[i].state = "queued" /\ \A j \in 1..i - 1 : Popped[j].state # "queued"
    BY <1>3, <1>4 DEF IsNext
<1>6. PICK m \in Links : m = Popped[i].link /\ Charged[m].credit <= 0
    BY <1>1, <1>4, <1>5, BlockedIs
<1>7. PICK c \in SenderLinks : c = Charged[m] /\ snd'[m] = AfterFlow(c) /\ c.credit <= 0
  <2>1. Charged[m] \in SenderLinks
    BY <1>2
  <2> QED BY <1>2, <1>6, <2>1
<1>8. AfterFlow(c).credit <= 0
    BY <1>7, AfterFlowIs
<1> QED BY <1>4, <1>6, <1>7, <1>8

LEMMA NextHolds ==
    ASSUME Typed, HeldOnlyByCredit, [Next]_vars
    PROVE  HeldOnlyByCredit'
<1>1. CASE UNCHANGED <<snd, ring, snd_registered>>
    BY <1>1 DEF HeldOnlyByCredit, IsNext
<1>2. CASE snd_registered'
    BY <1>2 DEF HeldOnlyByCredit
<1>3. CASE SenderOnFlow
    BY <1>2, <1>3, SenderOnFlowIs
<1>4. CASE SenderOnDisposition
    BY <1>2, <1>4, SenderOnDispositionIs
<1>5. CASE SenderProcess
    BY <1>5, ProcessHolds
<1>6. ASSUME NEW l \in Links, Offer(l) PROVE HeldOnlyByCredit'
  <2>1. /\ UNCHANGED snd /\ snd_registered' \in BOOLEAN /\ snd_registered \in BOOLEAN
        /\ ~ snd_registered' => ~ snd_registered /\ ring' = ring
    BY <1>6, OfferIs DEF Typed
  <2>2. ~ snd_registered' => UNCHANGED <<snd, ring, snd_registered>>
    BY <2>1
  <2> QED BY <1>1, <1>2, <2>2
<1>7. ASSUME NEW l \in Links, SendAtOnce(l) PROVE HeldOnlyByCredit'
    BY <1>2, <1>7, SendAtOnceIs
<1>8. CASE ReceiverOnTransfer \/ ReceiverOnFlow \/ ReceiverProcess
    BY <1>1, <1>8 DEF ReceiverOnTransfer, ReceiverOnFlow, ReceiverProcess, senderVars
<1>9. ASSUME NEW l \in Links, DrainCredit(l) PROVE HeldOnlyByCredit'
    BY <1>1, <1>9 DEF DrainCredit, senderVars
<1>10. ASSUME NEW l \in Links, NEW n \in 1..MaxGrant, AddCredit(l, n) PROVE HeldOnlyByCredit'
    BY <1>1, <1>10 DEF AddCredit, senderVars
<1>11. CASE UNCHANGED vars
    BY <1>1, <1>11 DEF vars, senderVars
<1> QED BY <1>3, <1>4, <1>5, <1>6, <1>7, <1>8, <1>9, <1>10, <1>11 DEF Next, Library

-----------------------------------------------------------------------------
(* What follows of it.                                                     *)

LEMMA NextTyped ==
    ASSUME Typed, [Next]_vars
    PROVE  Typed'
<1>1. CASE UNCHANGED vars
    BY <1>1 DEF vars, senderVars, receiverVars, Typed
<1>2. CASE Library
    BY <1>2, SenderOnFlowIs, SenderOnDispositionIs, SenderProcessIs, ReceiverOnTransferIs,
       ReceiverOnFlowIs, ReceiverProcessIs DEF Library
<1>3. ASSUME NEW l \in Links, Offer(l) \/ SendAtOnce(l) \/ DrainCredit(l) PROVE Typed'
    BY <1>3, OfferIs, SendAtOnceIs, DrainCreditIs
<1>4. ASSUME NEW l \in Links, NEW n \in 1..MaxGrant, AddCredit(l, n) PROVE Typed'
    BY <1>4, AddCreditIs
<1> QED BY <1>1, <1>2, <1>3, <1>4 DEF Next

\* The types hold whatever the applications do: frames on the way are well formed, and name
\* links that there are, which is what the handlers that follow them rely on.
THEOREM LinksAreTyped == Spec => []Typed
<1>1. Init => Typed
    BY InitTyped
<1>2. Typed /\ [Next]_vars => Typed'
    BY NextTyped
<1> QED BY <1>1, <1>2, PTL DEF Spec

LEMMA AgreementHolds ==
    ASSUME NoTopUp
    PROVE  Spec => []Agreement
<1>1. Init => Agreement
    BY InitAgreed
<1>2. Agreement /\ [Next]_vars => Agreement'
    BY NextAgreed
<1> QED BY <1>1, <1>2, PTL DEF Spec

\* Credit never falls below zero, at either end, and a message finds the receiver with
\* credit left, whatever drains, flows and messages cross on their way.
THEOREM NeverOverdrawnHolds ==
    ASSUME NoTopUp
    PROVE  Spec => []NeverOverdrawn
<1>1. Agreement => NeverOverdrawn
  <2>1. SUFFICES ASSUME Agreement PROVE NeverOverdrawn
    OBVIOUS
  <2>2. ASSUME NEW l \in Links
        PROVE  /\ snd[l].credit >= 0 /\ rcv[l].credit \in Int
               /\ Cardinality(Places(s2r, Messages(l))) \in Nat
               /\ rcv[l].credit >= Cardinality(Places(s2r, Messages(l)))
    <3>1. /\ snd[l] \in SenderLinks /\ rcv[l] \in ReceiverLinks
          /\ s2r \in Seq(Flows \cup Transfers)
          /\ Counted(l, snd[l], rcv[l], s2r)
        BY <2>1, <2>2, LinkTyped DEF Agreement, LinkAgreed, Agreed, Typed
    <3>2. rcv[l].credit \in Int
        BY <3>1 DEF ReceiverLinks
    <3> QED BY <2>2, <3>1, <3>2, RoomForMessages DEF Counted
  <2>3. ASSUME s2r # <<>>, Head(s2r).type = "transfer"
        PROVE  rcv[Head(s2r).link].credit > 0
    <3>1. /\ s2r \in Seq(Flows \cup Transfers) /\ Head(s2r).link \in Links
          /\ Head(s2r) = Transfer(Head(s2r).link)
        BY <2>1, <2>3, HeadOfS2r DEF Agreement, Typed
    <3>2. PICK l \in Links : l = Head(s2r).link
        BY <3>1
    <3>3. Head(s2r) \in Messages(l)
        BY <3>1, <3>2 DEF Messages
    <3>4. PICK v \in Nat : v = Cardinality(Places(Tail(s2r), Messages(l)))
        BY <2>3, <3>1, PlacesFinite, HeadTailProperties
    <3>5. Cardinality(Places(s2r, Messages(l))) = v + 1
        BY <2>3, <3>1, <3>3, <3>4, PlacesTail
    <3>6. rcv[l].credit \in Int /\ rcv[l].credit >= v + 1
        BY <2>2, <3>5
    <3>7. rcv[l].credit > 0
        BY <3>4, <3>6
    <3> QED BY <3>2, <3>7
  <2>4. ASSUME NEW l \in Links PROVE snd[l].credit >= 0 /\ rcv[l].credit >= 0
    BY <2>2, <2>4
  <2> QED BY <2>3, <2>4 DEF NeverOverdrawn
<1> QED BY <1>1, AgreementHolds, PTL

\* Once nothing is under way the two ends have the same credit and the same count.
THEOREM CreditAgreesHolds ==
    ASSUME NoTopUp
    PROVE  Spec => []CreditAgrees
<1>1. Agreement => CreditAgrees
  <2>1. SUFFICES ASSUME Agreement, s2r = <<>>, r2s = <<>>, ~ rcv_registered, NEW l \in Links
                 PROVE  /\ snd[l].credit = rcv[l].credit
                        /\ snd[l].delivery_count = rcv[l].delivery_count
    BY DEF CreditAgrees
  <2>2. PICK s \in SenderLinks, r \in ReceiverLinks : s = snd[l] /\ r = rcv[l]
    BY <2>1, LinkTyped DEF Agreement
  <2>3. Counted(l, s, r, <<>>) /\ Announced(l, s, r, <<>>) /\ ~ r.issue_flow
    BY <2>1, <2>2 DEF Agreement, LinkAgreed, Agreed
  <2>4. \A T : Places(<<>>, T) = {} /\ Cardinality(Places(<<>>, T)) = 0
    BY PlacesNone
  <2>5. r.delivery_count + 0 = s.delivery_count
    BY <2>3, <2>4 DEF Counted
  <2>6. Limit(s) = Limit(r)
    BY <2>3, <2>4 DEF Announced
  <2>7. s.credit = r.credit /\ s.delivery_count = r.delivery_count
    BY <2>5, <2>6 DEF Limit, SenderLinks, ReceiverLinks
  <2> QED BY <2>2, <2>7
<1> QED BY <1>1, AgreementHolds, PTL

\* Only a lack of credit holds a message back: while no _process is to come, the message
\* that the loop looks at first is of a link without credit, whatever the applications queue,
\* drain and top up.
THEOREM HeldOnlyByCreditHolds == Spec => []HeldOnlyByCredit
<1> DEFINE IInv == Typed /\ HeldOnlyByCredit
<1>1. Init => IInv
  <2>1. Init => ring = <<>> /\ DOMAIN <<>> = {}
    BY EmptySeq DEF Init
  <2> QED BY <2>1, InitTyped DEF HeldOnlyByCredit
<1>2. IInv /\ [Next]_vars => IInv'
    BY NextTyped, NextHolds
<1> QED BY <1>1, <1>2, PTL DEF Spec

\* A link that was drained has nothing under way and no credit, though messages that were
\* sent beyond it may be left in the ring.
THEOREM DrainedMeansNoneHolds ==
    ASSUME NoTopUp
    PROVE  Spec => []DrainedMeansNone
<1>1. Agreement => DrainedMeansNone
  <2>1. SUFFICES ASSUME Agreement, NEW l \in drained
                 PROVE  UnderWay(l) = 0 /\ snd[l].credit <= 0
    BY DEF DrainedMeansNone
  <2>2. l \in Links /\ s2r \in Seq(Flows \cup Transfers) /\ LinkAgreed(l)
    BY <2>1 DEF Agreement, Typed
  <2>3. PICK s \in SenderLinks, r \in ReceiverLinks : s = snd[l] /\ r = rcv[l]
    BY <2>1, <2>2, LinkTyped DEF Agreement
  <2>4. Emptied(l, s, r, s2r) /\ Counted(l, s, r, s2r)
    BY <2>1, <2>2, <2>3 DEF LinkAgreed, Agreed
  <2>5. snd[l].credit = 0
    BY <2>3, <2>4 DEF Emptied
  <2>6. PICK u \in Nat : u = Cardinality(Places(s2r, Messages(l)))
    BY <2>2, PlacesFinite
  <2>7. r.delivery_count + u = r.delivery_count
    BY <2>4, <2>6 DEF Emptied, Counted
  <2>8. u = 0
    BY <2>7 DEF ReceiverLinks
  <2>9. UnderWay(l) = 0
    BY <2>6, <2>8 DEF UnderWay, Places, Messages
  <2> QED BY <2>5, <2>9
<1> QED BY <1>1, AgreementHolds, PTL
=============================================================================
