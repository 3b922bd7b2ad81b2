-------------------------- MODULE LiveEventsProofs --------------------------
(***************************************************************************)
(* Proofs about LiveEvents for every set of rows and every bound on the    *)
(* ids: types, the order of what a stream sends, and that no row falls     *)
(* into the gap between the replay and the notifications.                  *)
(***************************************************************************)
EXTENDS LiveEvents, SumTheorems, SequenceTheorems

(* Facts about extreme elements and sorted sequences *)

LEMMA Extremes ==
    ASSUME NEW S, IsFiniteSet(S), S \subseteq Int, S # {}
    PROVE  /\ \E m \in S : \A x \in S : x <= m
           /\ \E m \in S : \A x \in S : m <= x
<1> DEFINE Top(s) == \E m \in s : \A x \in s : x <= m
           Bottom(s) == \E m \in s : \A x \in s : m <= x
           Bad == {s \in SUBSET S : s # {} /\ ~(Top(s) /\ Bottom(s))}
<1>1. ASSUME NEW s \in Bad
      PROVE  \E t \in Bad : t \subseteq s /\ t # s
  <2> SUFFICES ASSUME \A t \in SUBSET s : t # s /\ t # {} => Top(t) /\ Bottom(t)
               PROVE  FALSE
    OBVIOUS
  <2>1. PICK y \in s : y \in Int
    OBVIOUS
  <2> DEFINE t == s \ {y}
  <2>2. t # {}
    <3> SUFFICES ASSUME t = {} PROVE FALSE
      OBVIOUS
    <3>1. s = {y}
      OBVIOUS
    <3> QED
      BY <2>1, <3>1
  <2>3. Top(t) /\ Bottom(t)
    BY <2>1, <2>2
  <2>4. s = t \cup {y} /\ t \subseteq Int
    OBVIOUS
  <2> HIDE DEF t
  <2>5. Top(s)
    <3>1. PICK m \in t : \A x \in t : x <= m
      BY <2>3
    <3>2. \A x \in s : x <= IF m <= y THEN y ELSE m
      BY <2>1, <2>4, <3>1
    <3> QED
      BY <2>4, <3>2
  <2>6. Bottom(s)
    <3>1. PICK m \in t : \A x \in t : m <= x
      BY <2>3
    <3>2. \A x \in s : (IF m <= y THEN m ELSE y) <= x
      BY <2>1, <2>4, <3>1
    <3> QED
      BY <2>4, <3>2
  <2> QED
    BY <2>5, <2>6
<1>2. Bad = {}
  <2>1. Bad \in SUBSET (SUBSET S)
    OBVIOUS
  <2> HIDE DEF Bad
  <2> QED
    BY <1>1, <2>1, NoMinimalCounterexample
<1>3. S \in SUBSET S /\ S \notin Bad
  BY <1>2
<1> QED
  BY <1>3

LEMMA MaxIs ==
    ASSUME NEW S, IsFiniteSet(S), S \subseteq Int, S # {}
    PROVE  Max(S) \in S /\ \A x \in S : x <= Max(S)
<1>1. PICK m \in S : \A x \in S : x <= m
  BY Extremes
<1>2. \A x \in S : m >= x
  BY <1>1
<1>3. Max(S) \in S /\ \A x \in S : Max(S) >= x
  BY <1>2 DEF Max
<1> QED
  BY <1>3

LEMMA MaxUnique ==
    ASSUME NEW S, IsFiniteSet(S), S \subseteq Int, NEW m \in S, \A x \in S : x <= m
    PROVE  Max(S) = m
<1>1. Max(S) \in S /\ \A x \in S : x <= Max(S)
  <2>1. S # {}
    OBVIOUS
  <2> QED
    BY <2>1, MaxIs
<1>2. Max(S) <= m /\ m <= Max(S)
  BY <1>1
<1>3. Max(S) \in Int /\ m \in Int
  BY <1>1
<1> QED
  BY <1>2, <1>3

(* The ids of the model and a cursor among them.                            *)
LEMMA IdsFinite ==
    ASSUME NEW S \in SUBSET (0..MaxId)
    PROVE  IsFiniteSet(S) /\ S \subseteq Int
<1>1. 0 \in Int /\ MaxId \in Int
  BY LiveAssumption
<1>2. IsFiniteSet(0..MaxId)
  BY <1>1, FS_Interval
<1>3. IsFiniteSet(S)
  BY <1>2, FS_Subset
<1>4. S \subseteq Int
  OBVIOUS
<1> QED
  BY <1>3, <1>4

LEMMA MaxWith ==
    ASSUME NEW ids \in SUBSET (0..MaxId), NEW c \in 0..MaxId
    PROVE  /\ Max(ids \cup {c}) \in ids \cup {c}
           /\ Max(ids \cup {c}) \in 0..MaxId
           /\ \A x \in ids \cup {c} : x <= Max(ids \cup {c})
<1>1. ids \cup {c} \in SUBSET (0..MaxId)
  OBVIOUS
<1>2. IsFiniteSet(ids \cup {c}) /\ ids \cup {c} \subseteq Int
  BY <1>1, IdsFinite
<1> QED
  BY <1>2, MaxIs

(* What does not pass the cursor does not move it.                          *)
LEMMA MaxPassing ==
    ASSUME NEW ids \in SUBSET (0..MaxId), NEW c \in 0..MaxId
    PROVE  Max(Passing(ids, c) \cup {c}) = Max(ids \cup {c})
<1> DEFINE m == Max(Passing(ids, c) \cup {c})
<1>1. Passing(ids, c) \in SUBSET (0..MaxId) /\ Passing(ids, c) \subseteq ids
  BY DEF Passing
<1>2. m \in Passing(ids, c) \cup {c} /\ \A x \in Passing(ids, c) \cup {c} : x <= m
  BY <1>1, MaxWith
<1>3. c \in Int /\ m \in Int /\ ids \subseteq Int
  BY <1>1, <1>2, LiveAssumption
<1> HIDE DEF m
<1>4. \A x \in ids \cup {c} : x <= m
  BY <1>2, <1>3 DEF Passing
<1>5. m \in ids \cup {c} /\ IsFiniteSet(ids \cup {c}) /\ ids \cup {c} \subseteq Int
  <2>1. ids \cup {c} \in SUBSET (0..MaxId)
    OBVIOUS
  <2> QED
    BY <1>1, <1>2, <2>1, IdsFinite
<1>6. Max(ids \cup {c}) = m
  BY <1>4, <1>5, MaxUnique
<1> QED
  BY <1>6 DEF m

Increasing(s) == \A j, k \in DOMAIN s : j < k => s[j] < s[k]

(* A finite set of numbers can be written down in order.                    *)
LEMMA Sortable ==
    ASSUME NEW S, IsFiniteSet(S), S \subseteq Int
    PROVE  \E s \in [1..Cardinality(S) -> S] : Increasing(s)
<1> DEFINE Sorted(u) == \E s \in [1..Cardinality(u) -> u] : Increasing(s)
           Bad == {u \in SUBSET S : ~Sorted(u)}
<1>1. ASSUME NEW u \in Bad
      PROVE  \E t \in Bad : t \subseteq u /\ t # u
  <2> SUFFICES ASSUME \A t \in SUBSET u : t # u => Sorted(t)
               PROVE  FALSE
    OBVIOUS
  <2>1. IsFiniteSet(u) /\ u \subseteq Int
    BY FS_Subset
  <2>2. Cardinality(u) \in Nat
    BY <2>1, FS_CardinalityType
  <2>3. u # {}
    <3> SUFFICES ASSUME u = {} PROVE FALSE
      OBVIOUS
    <3>1. Cardinality(u) = 0
      BY FS_EmptySet
    <3> DEFINE s == [k \in 1..0 |-> 0]
    <3>2. s \in [1..Cardinality(u) -> u] /\ Increasing(s)
      BY <3>1 DEF Increasing
    <3> QED
      BY <3>2
  <2>4. PICK m \in u : \A x \in u : x <= m
    BY <2>1, <2>3, Extremes
  <2> DEFINE t == u \ {m}
             n == Cardinality(u)
  <2>5. Cardinality(t) = n - 1
    BY <2>1, FS_RemoveElement
  <2>6. PICK s \in [1..Cardinality(t) -> t] : Increasing(s)
    BY <2>4
  <2> DEFINE w == [k \in 1..n |-> IF k = n THEN m ELSE s[k]]
  <2>7. \A k \in 1..n : k # n => k \in 1..Cardinality(t) /\ s[k] \in u /\ s[k] < m
    <3> TAKE k \in 1..n
    <3> HAVE k # n
    <3>1. k \in 1..Cardinality(t)
      BY <2>2, <2>5
    <3>2. s[k] \in t
      BY <2>6, <3>1
    <3>3. s[k] <= m /\ s[k] # m /\ s[k] \in Int /\ m \in Int
      BY <2>1, <2>4, <3>2
    <3> QED
      BY <3>1, <3>2, <3>3
  <2>8. w \in [1..n -> u]
    BY <2>4, <2>7
  <2>9. Increasing(w)
    <3> SUFFICES ASSUME NEW j \in 1..n, NEW k \in 1..n, j < k
                 PROVE  w[j] < w[k]
      BY DEF Increasing
    <3>1. j # n /\ n \in Nat
      BY <2>2
    <3>2. w[j] = s[j]
      BY <3>1
    <3>3. CASE k = n
      BY <2>7, <3>1, <3>2, <3>3
    <3>4. CASE k # n
      <4>1. j \in 1..Cardinality(t) /\ k \in 1..Cardinality(t)
        BY <2>7, <3>1, <3>4
      <4>2. s[j] < s[k]
        BY <2>6, <4>1 DEF Increasing
      <4> QED
        BY <3>2, <3>4, <4>2
    <3> QED
      BY <3>3, <3>4
  <2> QED
    BY <2>8, <2>9
<1>2. Bad = {}
  <2>1. Bad \in SUBSET (SUBSET S)
    OBVIOUS
  <2> HIDE DEF Bad
  <2> QED
    BY <1>1, <2>1, NoMinimalCounterexample
<1>3. S \in SUBSET S /\ S \notin Bad
  BY <1>2
<1> QED
  BY <1>3

(* InOrder has every id once, in ascending order.                           *)
LEMMA InOrderIs ==
    ASSUME NEW ids \in SUBSET Ids
    PROVE  /\ InOrder(ids) \in Seq(ids) /\ InOrder(ids) \in Seq(Ids)
           /\ Increasing(InOrder(ids))
           /\ Len(InOrder(ids)) = Cardinality(ids) /\ Cardinality(ids) \in Nat
           /\ \A id \in ids : \E k \in 1..Cardinality(ids) : InOrder(ids)[k] = id
<1> DEFINE n == Cardinality(ids)
           s == InOrder(ids)
<1>1. IsFiniteSet(ids) /\ ids \subseteq Int
  <2>1. ids \in SUBSET (0..MaxId)
    BY LiveAssumption DEF Ids
  <2> QED
    BY <2>1, IdsFinite
<1>2. n \in Nat
  BY <1>1, FS_CardinalityType
<1>3. s \in [1..n -> ids] /\ Increasing(s)
  BY <1>1, Sortable DEF InOrder, Increasing
<1> HIDE DEF s
<1>4. s \in Injection(1..n, ids)
  <2>1. \A j, k \in 1..n : s[j] = s[k] => j = k
    <3> SUFFICES ASSUME NEW j \in 1..n, NEW k \in 1..n, s[j] = s[k], j # k PROVE FALSE
      OBVIOUS
    <3>1. s[j] < s[k] \/ s[k] < s[j]
      BY <1>2, <1>3 DEF Increasing
    <3>2. s[j] \in Int
      BY <1>1, <1>3
    <3> QED
      BY <3>1, <3>2
  <2> QED
    BY <1>3, <2>1 DEF Injection, IsInjective
<1>5. Cardinality(1..n) = n
  BY <1>2, FS_Interval
<1>6. s \in Surjection(1..n, ids)
  BY <1>1, <1>4, <1>5, FS_Injection
<1>7. \A id \in ids : \E k \in 1..n : s[k] = id
  BY <1>6 DEF Surjection
<1>8. s \in Seq(ids) /\ Len(s) = n /\ s \in Seq(Ids)
  BY <1>2, <1>3
<1> QED
  BY <1>2, <1>3, <1>7, <1>8 DEF s
-----------------------------------------------------------------------------
(* What a stream has sent *)

(* Rows sent in the order of their ids, the last of them at the cursor.      *)
Line(s, c) ==
    /\ s \in Seq(Ids)
    /\ Increasing(s)
    /\ s # << >> => Last(s) = c

LEMMA LineBelow ==
    ASSUME NEW c \in 0..MaxId, NEW s, Line(s, c), NEW k \in 1..Len(s)
    PROVE  s[k] \in Ids /\ s[k] <= c
<1>1. Len(s) \in Nat /\ s # << >> /\ s[k] \in Ids /\ DOMAIN s = 1..Len(s)
  BY DEF Line
<1>2. s[Len(s)] = c
  BY <1>1 DEF Line, Last
<1>3. s[k] \in Int /\ c \in Int
  BY <1>1 DEF Ids
<1>4. CASE k = Len(s)
  BY <1>1, <1>2, <1>3, <1>4
<1>5. CASE k # Len(s)
  <2>1. k < Len(s) /\ k \in DOMAIN s /\ Len(s) \in DOMAIN s
    <3> DEFINE n == Len(s)
    <3>1. n \in Nat /\ k \in 1..n /\ k # n /\ DOMAIN s = 1..n
      BY <1>1, <1>5
    <3> HIDE DEF n
    <3>2. k < n /\ k \in 1..n /\ n \in 1..n
      BY <3>1
    <3> QED
      BY <3>1, <3>2 DEF n
  <2>2. s[k] < s[Len(s)]
    BY <2>1 DEF Line, Increasing
  <2> QED
    BY <1>1, <1>2, <1>3, <2>2
<1> QED
  BY <1>4, <1>5

(* Rows above the cursor go to the end of the line.                         *)
LEMMA LineGrows ==
    ASSUME NEW c \in 0..MaxId, NEW s, Line(s, c), NEW ids \in SUBSET Ids,
           \A id \in ids : id > c
    PROVE  Line(s \o InOrder(ids), Max(ids \cup {c}))
<1> DEFINE t == InOrder(ids)
           m == Max(ids \cup {c})
           a == Len(s)
           n == Len(t)
<1>1. /\ t \in Seq(ids) /\ t \in Seq(Ids) /\ Increasing(t)
      /\ n = Cardinality(ids) /\ n \in Nat
      /\ \A id \in ids : \E k \in 1..n : t[k] = id
  BY InOrderIs
<1> HIDE DEF t
<1>2. s \in Seq(Ids) /\ a \in Nat
  BY DEF Line
<1>3. /\ s \o t \in Seq(Ids) /\ Len(s \o t) = a + n
      /\ \A i \in 1..(a + n) : (s \o t)[i] = IF i <= a THEN s[i] ELSE t[i - a]
  BY <1>1, <1>2, ConcatProperties
<1>4. ids \subseteq Int /\ ids \in SUBSET (0..MaxId) /\ c \in Int
  BY LiveAssumption DEF Ids
<1>5. m \in ids \cup {c} /\ m \in Int /\ \A x \in ids \cup {c} : x <= m
  BY <1>4, MaxWith
<1> HIDE DEF m
<1>6. \A i \in 1..n : t[i] \in ids
  BY <1>1
<1>7. DOMAIN s = 1..a /\ DOMAIN t = 1..n /\ DOMAIN (s \o t) = 1..(a + n)
  BY <1>1, <1>2, <1>3
<1> HIDE DEF a, n
<1>8. Increasing(s \o t)
  <2> DEFINE u == s \o t
  <2> SUFFICES ASSUME NEW i \in 1..(a + n), NEW k \in 1..(a + n), i < k
               PROVE  u[i] < u[k]
    BY <1>7 DEF Increasing
  <2>4. \A l \in 1..(a + n) : u[l] = IF l <= a THEN s[l] ELSE t[l - a]
    BY <1>3
  <2> HIDE DEF u
  <2>1. CASE k <= a
    <3>1. i \in 1..a /\ k \in 1..a
      BY <1>1, <1>2, <2>1
    <3>2. s[i] < s[k]
      BY <1>7, <3>1 DEF Line, Increasing
    <3> QED
      BY <1>1, <1>2, <2>1, <2>4, <3>1, <3>2
  <2>2. CASE i <= a /\ k > a
    <3>1. i \in 1..a /\ k - a \in 1..n
      BY <1>1, <1>2, <2>2
    <3>2. s[i] <= c /\ s[i] \in Ids
      BY <3>1, LineBelow DEF a
    <3>3. t[k - a] > c /\ t[k - a] \in Int
      BY <1>4, <1>6, <3>1
    <3>4. s[i] < t[k - a]
      BY <1>4, <3>2, <3>3 DEF Ids
    <3>5. u[i] = s[i] /\ u[k] = t[k - a]
      BY <1>1, <1>2, <2>2, <2>4
    <3> QED
      BY <3>4, <3>5
  <2>3. CASE i > a
    <3>1. i - a \in 1..n /\ k - a \in 1..n /\ i - a < k - a
      BY <1>1, <1>2, <2>3
    <3>2. t[i - a] < t[k - a]
      BY <1>1, <1>7, <3>1 DEF Increasing
    <3>3. u[i] = t[i - a] /\ u[k] = t[k - a]
      BY <1>1, <1>2, <2>3, <2>4
    <3> QED
      BY <3>2, <3>3
  <2> QED
    BY <1>1, <1>2, <2>1, <2>2, <2>3
<1>9. ASSUME s \o t # << >>
      PROVE  Last(s \o t) = m
  <2>1. CASE ids = {}
    <3>1. n = 0
      BY <1>1, <2>1, FS_EmptySet
    <3>2. a # 0
      <4> SUFFICES ASSUME a = 0 PROVE FALSE
        OBVIOUS
      <4>1. Len(s \o t) = 0
        BY <1>3, <3>1
      <4>2. \A u \in Seq(Ids) : u # << >> => Len(u) \in Nat \ {0}
        BY EmptySeq
      <4> QED
        BY <1>3, <1>9, <4>1, <4>2
    <3>3. a \in 1..(a + n) /\ a + n = a
      BY <1>2, <3>1, <3>2
    <3>4. (s \o t)[a] = s[a]
      BY <1>2, <1>3, <3>3
    <3>5. s # << >>
      BY <1>2, <3>2 DEF a
    <3>6. s[a] = c
      BY <3>5 DEF Line, Last, a
    <3>7. m = c
      BY <1>5, <2>1
    <3> QED
      BY <1>3, <3>3, <3>4, <3>6, <3>7 DEF Last
  <2>2. CASE ids # {}
    <3>1. PICK x \in ids : x <= m /\ x > c
      BY <1>5, <2>2
    <3>2. m \in ids
      BY <1>4, <1>5, <3>1
    <3>3. PICK k \in 1..n : t[k] = m
      BY <1>1, <3>2
    <3>4. n \in 1..n
      BY <1>1, <3>3
    <3>5. t[n] <= m /\ t[n] \in Int
      BY <1>4, <1>5, <1>6, <3>4
    <3>6. k = n
      <4> SUFFICES ASSUME k # n PROVE FALSE
        OBVIOUS
      <4>1. k < n
        BY <1>1, <3>3
      <4>2. t[k] < t[n]
        BY <1>1, <1>7, <3>3, <3>4, <4>1 DEF Increasing
      <4> QED
        BY <1>5, <3>3, <3>5, <4>2
    <3>7. (s \o t)[a + n] = t[n]
      <4>1. a + n \in 1..(a + n) /\ ~(a + n <= a) /\ (a + n) - a = n
        BY <1>1, <1>2, <3>4
      <4> QED
        BY <1>3, <4>1
    <3> QED
      BY <1>3, <3>3, <3>6, <3>7 DEF Last
  <2> QED
    BY <2>1, <2>2
<1> QED
  BY <1>3, <1>8, <1>9 DEF Line, t, m

(* The browser takes rows off the front.                                    *)
LEMMA LineShrinks ==
    ASSUME NEW c, NEW s, Line(s, c), s # << >>
    PROVE  Line(Tail(s), c) /\ Head(s) \in Ids
<1>1. /\ s \in Seq(Ids) /\ Head(s) \in Ids /\ Tail(s) \in Seq(Ids)
      /\ Len(Tail(s)) = Len(s) - 1 /\ Len(s) \in Nat
      /\ \A i \in 1..Len(Tail(s)) : Tail(s)[i] = s[i + 1]
  BY HeadTailProperties DEF Line
<1> DEFINE t == Tail(s)
<1> HIDE DEF t
<1>2. DOMAIN s = 1..Len(s) /\ DOMAIN t = 1..Len(t) /\ Len(t) = Len(s) - 1
  BY <1>1 DEF t
<1>3. Increasing(t)
  <2> SUFFICES ASSUME NEW i \in 1..Len(t), NEW k \in 1..Len(t), i < k
               PROVE  t[i] < t[k]
    BY <1>2 DEF Increasing
  <2>1. i + 1 \in DOMAIN s /\ k + 1 \in DOMAIN s /\ i + 1 < k + 1
    BY <1>1, <1>2
  <2>2. s[i + 1] < s[k + 1]
    BY <2>1 DEF Line, Increasing
  <2> QED
    BY <1>1, <2>2 DEF t
<1>4. ASSUME t # << >>
      PROVE  Last(t) = c
  <2>1. Len(t) # 0
    BY <1>1, <1>4 DEF t
  <2>2. Len(t) \in 1..Len(t) /\ Len(t) + 1 = Len(s)
    BY <1>1, <1>2, <2>1
  <2>3. t[Len(t)] = s[Len(s)]
    BY <1>1, <2>2 DEF t
  <2> QED
    BY <2>3 DEF Line, Last
<1> QED
  BY <1>1, <1>3, <1>4 DEF Line, t
-----------------------------------------------------------------------------
(* Types *)

OutboxOK ==
    /\ kinds \in Seq(Kinds) /\ Len(kinds) \in 0..MaxId
    /\ open \in [Items -> SUBSET Ids]
    /\ Committed \subseteq Ids /\ \A id \in Committed : events[id] \in Items
FanoutOK ==
    /\ fanout \in BOOLEAN /\ listening \in BOOLEAN /\ degraded \in BOOLEAN
    /\ notified \subseteq Ids
    /\ polled \subseteq Ids \/ polled = NoPoll
    /\ covered \in BOOLEAN
StreamOK ==
    /\ stream \in {"none", "subscribed", "replaying", "live"}
    /\ cursor \in 0..MaxId /\ start \in 0..MaxId
    /\ pending \subseteq Ids /\ replay \subseteq Ids
    /\ wire \in Seq(Ids)
Fetches == [stage : {"idle", "headers", "asked"}, full : BOOLEAN,
            known : 0..MaxId, latest : SUBSET (0..MaxId),
            rows : SUBSET [Items -> 0..MaxId]]
PageOK ==
    /\ page \in {"boot", "closed", "open", "fallback"}
    /\ last \in 0..MaxId /\ view \in [Items -> 0..MaxId]
    /\ fetch \in Fetches

LEMMA TypeParts == TypeOK <=> OutboxOK /\ FanoutOK /\ StreamOK /\ PageOK
BY DEF TypeOK, OutboxOK, FanoutOK, StreamOK, PageOK, Fetches

LEMMA TypePartsNext == TypeOK' <=> OutboxOK' /\ FanoutOK' /\ StreamOK' /\ PageOK'
BY DEF TypeOK, OutboxOK, FanoutOK, StreamOK, PageOK, Fetches, Committed

LEMMA IdsAreNumbers ==
    /\ Ids \subseteq 0..MaxId /\ 0 \in 0..MaxId
    /\ \A id \in Ids : id \in Nat \ {0}
BY LiveAssumption DEF Ids

(* Values the actions read.                                                 *)
LEMMA NewestOK ==
    ASSUME OutboxOK
    PROVE  /\ Newest \in 0..MaxId
           /\ Rows \in [Items -> 0..MaxId]
           /\ \A n : After(n) \subseteq Ids
<1>1. Newest \in 0..MaxId
  <2>1. Committed \in SUBSET (0..MaxId)
    BY IdsAreNumbers DEF OutboxOK
  <2> QED
    BY <2>1, IdsAreNumbers, MaxWith DEF Newest
<1>2. ASSUME NEW i \in Items
      PROVE  Rows[i] \in 0..MaxId
  <2> DEFINE of == {id \in Committed : events[id] = i /\ kinds[id] = "request"}
  <2>1. of \in SUBSET (0..MaxId)
    BY IdsAreNumbers DEF OutboxOK
  <2>2. Rows[i] = Max(of \cup {0})
    BY DEF Rows
  <2> HIDE DEF of
  <2> QED
    BY <2>1, <2>2, IdsAreNumbers, MaxWith
<1>3. Rows \in [Items -> 0..MaxId]
  BY <1>2 DEF Rows
<1> QED
  BY <1>1, <1>3 DEF After, OutboxOK

(* A fetch that has begun, and none.                                        *)
LEMMA FetchBegins ==
    Idle \in Fetches /\ \A full \in BOOLEAN : Asking(full) \in Fetches
<1>1. 0 \in 0..MaxId
  BY IdsAreNumbers
<1> QED
  BY <1>1 DEF Idle, Asking, Fetches

(* The first rows after the cursor are some if there are any.                *)
LEMMA FirstRowsOK ==
    ASSUME OutboxOK, NEW c \in 0..MaxId
    PROVE  /\ FirstRows(c, ReplayLimit) \in SUBSET Ids
           /\ \A id \in FirstRows(c, ReplayLimit) : id > c
           /\ After(c) # {} => FirstRows(c, ReplayLimit) # {}
<1>1. After(c) \subseteq Ids /\ \A id \in After(c) : id > c
  BY NewestOK DEF After
<1>2. ASSUME After(c) # {}
      PROVE  FirstRows(c, ReplayLimit) # {}
  <2>1. After(c) \in SUBSET (0..MaxId)
    BY <1>1, IdsAreNumbers
  <2>2. IsFiniteSet(After(c)) /\ After(c) \subseteq Int
    BY <2>1, IdsFinite
  <2>3. PICK m \in After(c) : \A x \in After(c) : m <= x
    BY <1>2, <2>2, Extremes
  <2>4. {j \in After(c) : j <= m} = {m}
    BY <2>2, <2>3
  <2>5. Cardinality({j \in After(c) : j <= m}) <= ReplayLimit
    BY <2>4, FS_Singleton, LiveAssumption
  <2> QED
    BY <2>5 DEF FirstRows
<1> QED
  BY <1>1, <1>2 DEF FirstRows

LEMMA RoutedOK ==
    ASSUME StreamOK, NEW ids \in SUBSET Ids, Routed(ids)
    PROVE  StreamOK'
<1>1. ids \in SUBSET (0..MaxId)
  BY IdsAreNumbers
<1>2. Passing(ids, cursor) \in SUBSET Ids
  BY DEF Passing
<1>3. CASE stream = "live"
  <2>1. InOrder(Passing(ids, cursor)) \in Seq(Ids)
    BY <1>2, InOrderIs
  <2>2. wire \o InOrder(Passing(ids, cursor)) \in Seq(Ids)
    BY <2>1, ConcatProperties DEF StreamOK
  <2>3. Max(ids \cup {cursor}) \in 0..MaxId
    BY <1>1, MaxWith DEF StreamOK
  <2> QED
    BY <1>3, <2>2, <2>3 DEF Routed, StreamOK
<1>4. CASE stream # "live"
  BY <1>2, <1>4 DEF Routed, StreamOK
<1> QED
  BY <1>3, <1>4

(* One action at a time.                                                    *)
LEMMA OutboxTypes ==
    ASSUME TypeOK, OutboxStep
    PROVE  TypeOK'
<1>1. OutboxOK /\ FanoutOK /\ StreamOK /\ PageOK
  BY TypeParts
<1>2. StreamOK' /\ PageOK'
  BY <1>1 DEF OutboxStep, Insert, Commit, Rollback, streamVars, pageVars, StreamOK, PageOK
<1>3. ASSUME NEW i \in Items, NEW kind \in Kinds, Insert(i, kind)
      PROVE  OutboxOK' /\ FanoutOK'
  <2>1. /\ kinds' \in Seq(Kinds) /\ Len(kinds') = Len(kinds) + 1
    BY <1>1, <1>3, AppendProperties DEF Insert, OutboxOK
  <2>2. Len(kinds') \in Ids /\ Len(kinds') \in 0..MaxId
    BY <1>1, <1>3, <2>1, LiveAssumption DEF Insert, OutboxOK, Ids
  <2>3. open' \in [Items -> SUBSET Ids]
    BY <1>1, <1>3, <2>2 DEF Insert, OutboxOK
  <2> QED
    BY <1>1, <1>3, <2>1, <2>2, <2>3 DEF Insert, OutboxOK, FanoutOK, Committed, listenerVars
<1>4. ASSUME NEW i \in Items, Commit(i)
      PROVE  OutboxOK' /\ FanoutOK'
  <2>1. open[i] \subseteq Ids /\ open' \in [Items -> SUBSET Ids]
    BY <1>1, <1>4 DEF Commit, OutboxOK
  <2>2. /\ Committed' = Committed \cup open[i]
        /\ \A id \in Committed' : events'[id] = IF id \in open[i] THEN i ELSE events[id]
    BY <1>4 DEF Commit, Committed
  <2>3. OutboxOK'
    BY <1>1, <1>4, <2>1, <2>2 DEF Commit, OutboxOK
  <2> QED
    BY <1>1, <1>4, <2>1, <2>3 DEF Commit, FanoutOK, listenerVars
<1>5. ASSUME NEW i \in Items, Rollback(i)
      PROVE  OutboxOK' /\ FanoutOK'
  BY <1>1, <1>5 DEF Rollback, OutboxOK, FanoutOK, Committed, listenerVars
<1> QED
  BY <1>2, <1>3, <1>4, <1>5, TypePartsNext DEF OutboxStep

LEMMA FanoutTypes ==
    ASSUME TypeOK, FanoutStep
    PROVE  TypeOK'
<1>1. OutboxOK /\ FanoutOK /\ StreamOK /\ PageOK
  BY TypeParts
<1>2. OutboxOK' /\ PageOK'
  BY <1>1 DEF FanoutStep, RouteNotified, FetchRowFails, Listen, ConnectFails, ListenerClosed,
              FallbackPoll, FallbackRoute, outboxVars, pageVars, OutboxOK, Committed, PageOK
<1>3. ASSUME NEW id \in Ids, RouteNotified(id)
      PROVE  FanoutOK' /\ StreamOK'
  <2>1. StreamOK'
    BY <1>1, <1>3, RoutedOK DEF RouteNotified
  <2> QED
    BY <1>1, <1>3, <2>1 DEF RouteNotified, FanoutOK, listenerVars
<1>4. ASSUME NEW id \in Ids, FetchRowFails(id)
      PROVE  FanoutOK' /\ StreamOK'
  BY <1>1, <1>4 DEF FetchRowFails, FanoutOK, StreamOK, listenerVars, streamVars
<1>5. CASE Listen \/ ConnectFails \/ ListenerClosed
  BY <1>1, <1>2, <1>5, TypePartsNext
  DEF Listen, ConnectFails, ListenerClosed, FanoutOK, StreamOK, streamVars
<1>6. CASE FallbackPoll
  <2>1. polled' \subseteq Ids
    BY <1>1, <1>6, NewestOK DEF FallbackPoll
  <2> QED
    BY <1>1, <1>2, <1>6, <2>1, TypePartsNext
    DEF FallbackPoll, FanoutOK, StreamOK, listenerVars, streamVars
<1>7. CASE FallbackRoute
  <2>1. polled \in SUBSET Ids
    BY <1>1, <1>7 DEF FallbackRoute, FanoutOK
  <2>2. StreamOK'
    BY <1>1, <1>7, <2>1, RoutedOK DEF FallbackRoute
  <2> QED
    BY <1>1, <1>2, <1>7, <2>2, TypePartsNext DEF FallbackRoute, FanoutOK, listenerVars
<1> QED
  BY <1>2, <1>3, <1>4, <1>5, <1>6, <1>7, TypePartsNext DEF FanoutStep

LEMMA StreamTypes ==
    ASSUME TypeOK, StreamStep
    PROVE  TypeOK'
<1>1. OutboxOK /\ FanoutOK /\ StreamOK /\ PageOK
  BY TypeParts
<1>2. OutboxOK' /\ PageOK' /\ FanoutOK'
  BY <1>1 DEF StreamStep, ReplayQuery, ReplayDone, StreamPoll, outboxVars, pageVars,
              listenerVars, OutboxOK, Committed, PageOK, FanoutOK
<1>3. cursor \in 0..MaxId
  BY <1>1 DEF StreamOK
<1>4. CASE ReplayQuery
  <2>1. replay' \subseteq Ids
    BY <1>1, <1>3, <1>4, FirstRowsOK DEF ReplayQuery
  <2> QED
    BY <1>1, <1>2, <1>4, <2>1, TypePartsNext DEF ReplayQuery, StreamOK
<1>5. CASE ReplayDone
  <2> DEFINE top == Max(replay \cup {cursor})
             flushed == Passing(pending, top)
             end == Max(replay \cup flushed \cup {cursor})
  <2>1. flushed \in SUBSET Ids /\ replay \in SUBSET Ids
    BY <1>1 DEF StreamOK, Passing
  <2>2. stream' = "live" /\ wire' = wire \o InOrder(replay) \o InOrder(flushed)
        /\ cursor' = end
        /\ replay' = {} /\ pending' = {} /\ start' = start
    BY <1>5 DEF ReplayDone
  <2> HIDE DEF flushed
  <2>3. wire \o InOrder(replay) \in Seq(Ids)
    BY <1>1, <2>1, InOrderIs, ConcatProperties DEF StreamOK
  <2>4. wire' \in Seq(Ids)
    BY <2>1, <2>2, <2>3, InOrderIs, ConcatProperties
  <2>5. (replay \cup flushed) \in SUBSET (0..MaxId)
    BY <2>1, IdsAreNumbers
  <2>6. end \in 0..MaxId
    BY <1>3, <2>5, MaxWith
  <2> HIDE DEF end
  <2> QED
    BY <1>1, <1>2, <2>2, <2>4, <2>6, TypePartsNext DEF StreamOK
<1>6. CASE StreamPoll
  <2> DEFINE rows == FirstRows(cursor, ReplayLimit)
  <2>1. rows \in SUBSET Ids /\ rows # {}
    BY <1>1, <1>3, <1>6, FirstRowsOK DEF StreamPoll
  <2>2. wire' = wire \o InOrder(rows) /\ cursor' = Max(rows)
        /\ UNCHANGED <<stream, pending, replay, start>>
    BY <1>6 DEF StreamPoll
  <2> HIDE DEF rows
  <2>3. wire' \in Seq(Ids)
    BY <1>1, <2>1, <2>2, InOrderIs, ConcatProperties DEF StreamOK
  <2>4. rows \in SUBSET (0..MaxId)
    BY <2>1, IdsAreNumbers
  <2>5. Max(rows) \in 0..MaxId
    BY <2>1, <2>4, IdsFinite, MaxIs
  <2> QED
    BY <1>1, <1>2, <2>2, <2>3, <2>5, TypePartsNext DEF StreamOK
<1> QED
  BY <1>4, <1>5, <1>6 DEF StreamStep

LEMMA FetchTypes ==
    ASSUME TypeOK, FetchStep
    PROVE  TypeOK'
<1>1. OutboxOK /\ FanoutOK /\ StreamOK /\ PageOK
  BY TypeParts
<1>2. OutboxOK' /\ FanoutOK' /\ StreamOK'
  BY <1>1 DEF FetchStep, SendFetch, ReadLatest, ReadRows, ApplyFetch, outboxVars, listenerVars,
              streamVars, OutboxOK, Committed, FanoutOK, StreamOK
<1>3. fetch \in Fetches /\ last \in 0..MaxId
  BY <1>1 DEF PageOK
<1>4. CASE SendFetch
  BY <1>1, <1>2, <1>3, <1>4, TypePartsNext DEF SendFetch, PageOK, Fetches
<1>5. CASE ReadLatest
  <2>1. {Newest} \in SUBSET (0..MaxId)
    BY <1>1, NewestOK
  <2>2. fetch' \in Fetches
    BY <1>3, <1>5, <2>1 DEF ReadLatest, Fetches
  <2> QED
    BY <1>1, <1>2, <1>5, <2>2, TypePartsNext DEF ReadLatest, PageOK
<1>6. CASE ReadRows
  <2>1. {Rows} \in SUBSET [Items -> 0..MaxId]
    BY <1>1, NewestOK
  <2>2. fetch' \in Fetches
    BY <1>3, <1>6, <2>1 DEF ReadRows, Fetches
  <2> QED
    BY <1>1, <1>2, <1>6, <2>2, TypePartsNext DEF ReadRows, PageOK
<1>7. CASE ApplyFetch
  <2>1. fetch.latest \in SUBSET (0..MaxId) /\ fetch.rows \subseteq [Items -> 0..MaxId]
    BY <1>3 DEF Fetches
  <2>2. last' \in 0..MaxId
    BY <1>3, <1>7, <2>1, MaxWith DEF ApplyFetch
  <2>3. view' \in [Items -> 0..MaxId]
    <3>1. CASE Unchanged
      BY <1>1, <1>7, <3>1 DEF ApplyFetch, PageOK
    <3>2. CASE ~Unchanged
      <4>1. fetch.rows # {} /\ view' = CHOOSE r \in fetch.rows : TRUE
        BY <1>7, <3>2 DEF ApplyFetch, Answered
      <4>2. view' \in fetch.rows
        BY <4>1
      <4> QED
        BY <2>1, <4>2
    <3> QED
      BY <3>1, <3>2
  <2>4. fetch' \in Fetches
    BY <1>1, <1>7, FetchBegins DEF ApplyFetch
  <2> QED
    BY <1>1, <1>2, <1>7, <2>2, <2>3, <2>4, TypePartsNext DEF ApplyFetch, PageOK
<1> QED
  BY <1>4, <1>5, <1>6, <1>7 DEF FetchStep

LEMMA PageTypes ==
    ASSUME TypeOK, PageStep
    PROVE  TypeOK'
<1>1. OutboxOK /\ FanoutOK /\ StreamOK /\ PageOK
  BY TypeParts
<1>2. OutboxOK'
  BY <1>1 DEF PageStep, Bootstrap, ReconnectFetch, SafetyFetch, StartFetch, FetchFails, Connect,
              BrowserReconnects, Close, Handle, outboxVars, OutboxOK, Committed
<1>3. ASSUME NEW full \in BOOLEAN, StartFetch(full)
      PROVE  TypeOK'
  <2>1. fetch' \in Fetches
    BY <1>1, <1>3, FetchBegins DEF StartFetch
  <2> QED
    BY <1>1, <1>2, <1>3, <2>1, TypePartsNext
    DEF StartFetch, listenerVars, streamVars, FanoutOK, StreamOK, PageOK
<1>4. CASE FetchFails
  <2>1. fetch' \in Fetches
    BY <1>1, <1>4, FetchBegins DEF FetchFails
  <2> QED
    BY <1>1, <1>2, <1>4, <2>1, TypePartsNext
    DEF FetchFails, listenerVars, streamVars, FanoutOK, StreamOK, PageOK
<1>5. ASSUME NEW from \in 0..MaxId, Opened(from)
      PROVE  StreamOK' /\ covered' \in BOOLEAN
  <2>1. << >> \in Seq(Ids)
    BY EmptySeq
  <2> QED
    BY <1>1, <1>5, <2>1 DEF Opened, StreamOK, FanoutOK
<1>6. CASE Connect
  <2>1. StreamOK' /\ covered' \in BOOLEAN
    BY <1>1, <1>5, <1>6 DEF Connect, PageOK
  <2> QED
    BY <1>1, <1>2, <1>6, <2>1, TypePartsNext DEF Connect, listenerVars, FanoutOK, PageOK
<1>7. CASE BrowserReconnects
  <2>1. StreamOK' /\ covered' \in BOOLEAN
    BY <1>1, <1>5, <1>7 DEF BrowserReconnects, StreamOK
  <2> QED
    BY <1>1, <1>2, <1>7, <2>1, TypePartsNext
    DEF BrowserReconnects, listenerVars, pageVars, FanoutOK, PageOK
<1>8. CASE Close
  <2>1. << >> \in Seq(Ids)
    BY EmptySeq
  <2> QED
    BY <1>1, <1>2, <1>8, <2>1, TypePartsNext
    DEF Close, listenerVars, FanoutOK, StreamOK, PageOK
<1>9. CASE Handle
  <2> DEFINE id == Head(wire)
  <2>1. id \in Ids /\ Tail(wire) \in Seq(Ids)
    BY <1>1, <1>9, HeadTailProperties DEF Handle, StreamOK
  <2>2. /\ last' = IF kinds[id] = "cashout" THEN last ELSE Max({last, id})
        /\ fetch' = IF kinds[id] = "request" /\ fetch.stage = "idle"
                       THEN Asking(FALSE) ELSE fetch
        /\ wire' = Tail(wire)
    BY <1>9 DEF Handle
  <2> HIDE DEF id
  <2>3. last' \in 0..MaxId
    <3>1. {id} \in SUBSET (0..MaxId) /\ last \in 0..MaxId
      BY <1>1, <2>1, IdsAreNumbers DEF PageOK
    <3>2. {last, id} = {id} \cup {last}
      OBVIOUS
    <3>3. Max({last, id}) \in 0..MaxId
      BY <3>1, <3>2, MaxWith
    <3> QED
      BY <2>2, <3>1, <3>3
  <2>4. fetch' \in Fetches
    BY <1>1, <2>2, FetchBegins DEF PageOK
  <2> QED
    BY <1>1, <1>2, <1>9, <2>1, <2>2, <2>3, <2>4, TypePartsNext
    DEF Handle, listenerVars, streamVars, FanoutOK, StreamOK, PageOK
<1> QED
  BY <1>3, <1>4, <1>6, <1>7, <1>8, <1>9
  DEF PageStep, Bootstrap, ReconnectFetch, SafetyFetch

(* Every variable keeps its type, the ids their bound and the cursors too.  *)
THEOREM TypeCorrect == Spec => []TypeOK
<1>1. Init => TypeOK
  <2> SUFFICES ASSUME Init PROVE TypeOK
    OBVIOUS
  <2>1. << >> \in Seq(Kinds) /\ << >> \in Seq(Ids) /\ Len(<< >>) = 0
    BY EmptySeq
  <2>2. OutboxOK
    <3>1. Committed = {}
      BY DEF Init, Committed
    <3> QED
      BY <2>1, <3>1, IdsAreNumbers DEF Init, OutboxOK
  <2>3. FanoutOK /\ StreamOK
    BY <2>1, IdsAreNumbers DEF Init, FanoutOK, StreamOK
  <2>4. PageOK
    BY IdsAreNumbers DEF Init, PageOK, Idle, Fetches
  <2> QED
    BY <2>2, <2>3, <2>4, TypeParts
<1>2. TypeOK /\ [Next]_vars => TypeOK'
  <2> SUFFICES ASSUME TypeOK, [Next]_vars PROVE TypeOK'
    OBVIOUS
  <2>1. CASE UNCHANGED vars
    BY <2>1 DEF vars, outboxVars, listenerVars, streamVars, pageVars, TypeOK, Committed
  <2> QED
    BY <2>1, OutboxTypes, FanoutTypes, StreamTypes, FetchTypes, PageTypes DEF Next
<1> QED
  BY <1>1, <1>2, PTL DEF Spec
-----------------------------------------------------------------------------
(* The order of what is sent *)

(* Replayed rows wait behind what is on the wire, until the stream is live. *)
OrderInv ==
    /\ Line(wire, cursor)
    /\ \A id \in replay : id > cursor
    /\ stream = "live" => replay = {}

LEMMA EmptyLine ==
    ASSUME NEW c
    PROVE  Line(<< >>, c)
BY EmptySeq DEF Line, Increasing

LEMMA RoutedKeepsOrder ==
    ASSUME TypeOK, OrderInv, NEW ids \in SUBSET Ids, Routed(ids)
    PROVE  OrderInv'
<1>1. cursor \in 0..MaxId /\ ids \in SUBSET (0..MaxId)
  BY IdsAreNumbers DEF TypeOK
<1>2. CASE stream = "live"
  <2> DEFINE new == Passing(ids, cursor)
  <2>1. new \in SUBSET Ids /\ \A id \in new : id > cursor
    BY DEF Passing
  <2>2. wire' = wire \o InOrder(new) /\ cursor' = Max(ids \cup {cursor})
        /\ UNCHANGED <<stream, pending, replay, start>>
    BY <1>2 DEF Routed
  <2>3. Max(ids \cup {cursor}) = Max(new \cup {cursor})
    BY <1>1, MaxPassing
  <2> HIDE DEF new
  <2>4. Line(wire \o InOrder(new), Max(new \cup {cursor}))
    BY <1>1, <2>1, LineGrows DEF OrderInv
  <2>5. replay' = {}
    BY <1>2, <2>2 DEF OrderInv
  <2> QED
    BY <2>2, <2>3, <2>4, <2>5 DEF OrderInv
<1>3. CASE stream # "live"
  BY <1>3 DEF Routed, OrderInv
<1> QED
  BY <1>2, <1>3

LEMMA StepKeepsOrder ==
    ASSUME TypeOK, OrderInv, [Next]_vars
    PROVE  OrderInv'
<1>1. cursor \in 0..MaxId /\ replay \in SUBSET Ids /\ OutboxOK
  BY TypeParts DEF TypeOK
<1>2. CASE UNCHANGED <<stream, cursor, replay, wire>>
  BY <1>2 DEF OrderInv
<1>3. ASSUME NEW id \in Ids, RouteNotified(id)
      PROVE  OrderInv'
  BY <1>3, RoutedKeepsOrder DEF RouteNotified
<1>4. CASE FallbackRoute
  <2>1. polled \in SUBSET Ids
    BY <1>4 DEF FallbackRoute, TypeOK
  <2> QED
    BY <1>4, <2>1, RoutedKeepsOrder DEF FallbackRoute
<1>5. CASE ReplayQuery
  <2>1. \A id \in replay' : id > cursor
    BY <1>1, <1>5, FirstRowsOK DEF ReplayQuery
  <2> QED
    BY <1>5, <2>1 DEF ReplayQuery, OrderInv
<1>6. CASE ReplayDone
  <2> DEFINE top == Max(replay \cup {cursor})
             flushed == Passing(pending, top)
  <2>1. flushed \in SUBSET Ids /\ \A id \in flushed : id > top
    BY DEF TypeOK, Passing
  <2>2. /\ wire' = wire \o InOrder(replay) \o InOrder(flushed)
        /\ cursor' = Max(replay \cup flushed \cup {cursor})
        /\ replay' = {}
    BY <1>6 DEF ReplayDone
  <2> HIDE DEF flushed
  <2>3. Line(wire \o InOrder(replay), top)
    BY <1>1, LineGrows DEF OrderInv
  <2>4. replay \in SUBSET (0..MaxId) /\ flushed \in SUBSET (0..MaxId)
    BY <1>1, <2>1, IdsAreNumbers
  <2>5. top \in 0..MaxId
    BY <1>1, <2>4, MaxWith
  <2> DEFINE end == Max(flushed \cup {top})
  <2>6. end = cursor'
    <3>1. cursor \in 0..MaxId
      BY <1>1
    <3>2. top \in replay \cup {cursor} /\ \A x \in replay \cup {cursor} : x <= top
      BY <2>4, <3>1, MaxWith
    <3> HIDE DEF top
    <3>3. end \in flushed \cup {top} /\ \A x \in flushed \cup {top} : x <= end
      BY <2>4, <2>5, MaxWith
    <3> HIDE DEF end
    <3> DEFINE all == replay \cup flushed \cup {cursor}
    <3>4. all \in SUBSET (0..MaxId)
      BY <2>4, <3>1
    <3>5. IsFiniteSet(all) /\ all \subseteq Int
      BY <3>4, IdsFinite
    <3>6. end \in all /\ \A x \in all : x <= end
      BY <2>5, <3>2, <3>3, <3>5
    <3>7. cursor' = Max(all)
      BY <2>2
    <3> HIDE DEF all
    <3> QED
      BY <3>5, <3>6, <3>7, MaxUnique
  <2> HIDE DEF top
  <2>7. Line(wire', cursor')
    BY <2>1, <2>2, <2>3, <2>5, <2>6, LineGrows
  <2> QED
    BY <2>2, <2>7 DEF OrderInv
<1>7. CASE StreamPoll
  <2> DEFINE rows == FirstRows(cursor, ReplayLimit)
  <2>1. rows \in SUBSET Ids /\ rows # {} /\ \A id \in rows : id > cursor
    BY <1>1, <1>7, FirstRowsOK DEF StreamPoll
  <2>2. /\ wire' = wire \o InOrder(rows) /\ cursor' = Max(rows)
        /\ UNCHANGED <<stream, replay>> /\ stream = "live"
    BY <1>7 DEF StreamPoll
  <2> HIDE DEF rows
  <2>3. Line(wire', Max(rows \cup {cursor}))
    BY <1>1, <2>1, <2>2, LineGrows DEF OrderInv
  <2>4. Max(rows) = Max(rows \cup {cursor})
    <3> DEFINE m == Max(rows \cup {cursor})
    <3>1. rows \in SUBSET (0..MaxId)
      BY <2>1, IdsAreNumbers
    <3>2. IsFiniteSet(rows) /\ rows \subseteq Int
      BY <3>1, IdsFinite
    <3>3. m \in rows \cup {cursor} /\ \A x \in rows \cup {cursor} : x <= m
      BY <1>1, <3>1, MaxWith
    <3> HIDE DEF m
    <3>4. m \in rows
      <4>1. PICK x \in rows : x > cursor /\ x <= m
        BY <2>1, <3>3
      <4>2. m # cursor
        BY <1>1, <3>2, <4>1
      <4> QED
        BY <3>3, <4>2
    <3>5. Max(rows) = m
      BY <3>2, <3>3, <3>4, MaxUnique
    <3> QED
      BY <3>5 DEF m
  <2> QED
    BY <2>2, <2>3, <2>4 DEF OrderInv
<1>8. CASE /\ wire' = << >> /\ replay' = {}
  BY <1>8, EmptyLine DEF OrderInv
<1>9. CASE Handle
  <2>1. wire # << >> /\ wire' = Tail(wire) /\ UNCHANGED <<stream, cursor, replay>>
    BY <1>9 DEF Handle, streamVars
  <2>2. Line(wire', cursor)
    BY <2>1, LineShrinks DEF OrderInv
  <2> QED
    BY <2>1, <2>2 DEF OrderInv
<1>10. \/ UNCHANGED <<stream, cursor, replay, wire>>
       \/ (\E id \in Ids : RouteNotified(id)) \/ FallbackRoute
       \/ ReplayQuery \/ ReplayDone \/ StreamPoll
       \/ wire' = << >> /\ replay' = {}
       \/ Handle
  BY DEF Next, OutboxStep, Insert, Commit, Rollback,
         FanoutStep, FetchRowFails, Listen, ConnectFails, ListenerClosed, FallbackPoll, StreamStep,
         FetchStep, SendFetch, ReadLatest, ReadRows, ApplyFetch,
         PageStep, Bootstrap, ReconnectFetch, SafetyFetch, StartFetch, FetchFails, Connect,
         BrowserReconnects, Opened, Close, vars, streamVars
<1> QED
  BY <1>2, <1>3, <1>4, <1>5, <1>6, <1>7, <1>8, <1>9, <1>10

(* Whatever order replay, notifications and polls bring the rows in, and    *)
(* however often, the stream sends them in the order of their ids and once. *)
THEOREM AlwaysSentInOrder == Spec => []SentInOrder
<1>1. Init => OrderInv
  BY EmptyLine DEF Init, OrderInv
<1>2. TypeOK /\ OrderInv /\ [Next]_vars => OrderInv'
  BY StepKeepsOrder
<1>3. OrderInv => SentInOrder
  BY DEF OrderInv, SentInOrder, Line, Increasing
<1> QED
  BY <1>1, <1>2, <1>3, TypeCorrect, PTL DEF Spec
-----------------------------------------------------------------------------
(* No gap between replay and notifications *)

(* While nothing was lost, what the cursor has not reached is on its way:   *)
(* in the replay, among the rows kept meanwhile, or in a notification.      *)
CoverInv ==
    fanout /\ covered =>
        /\ listening /\ stream # "none"
        /\ stream = "replaying" => After(cursor) \subseteq replay \cup pending \cup notified
        /\ stream = "live" => After(cursor) \subseteq notified

LEMMA RoutedKeepsCover ==
    ASSUME TypeOK, CoverInv, NEW ids \in SUBSET Ids, Routed(ids),
           UNCHANGED <<fanout, events, listening, covered>>,
           notified \subseteq notified' \cup ids
    PROVE  CoverInv'
<1> SUFFICES ASSUME fanout, covered PROVE CoverInv'
  BY DEF CoverInv
<1>1. cursor \in 0..MaxId /\ ids \in SUBSET (0..MaxId) /\ Committed' = Committed
  BY IdsAreNumbers DEF TypeOK, Committed
<1>2. \A id \in Committed \cup ids : id \in Int
  BY IdsAreNumbers DEF TypeOK
<1>3. listening' /\ stream' = stream /\ stream # "none"
  BY DEF CoverInv, Routed
<1>4. CASE stream = "live"
  <2>1. cursor' = Max(ids \cup {cursor})
    BY <1>4 DEF Routed
  <2>2. cursor' \in 0..MaxId /\ \A id \in ids \cup {cursor} : id <= cursor'
    BY <1>1, <2>1, MaxWith
  <2>3. After(cursor)' \subseteq notified'
    <3> SUFFICES ASSUME NEW id \in Committed, id > cursor' PROVE id \in notified'
      BY <1>1 DEF After
    <3>1. id > cursor /\ id \notin ids
      BY <1>1, <1>2, <2>2
    <3>2. id \in notified
      BY <1>4, <3>1 DEF CoverInv, After
    <3> QED
      BY <3>1, <3>2
  <2> QED
    BY <1>3, <1>4, <2>3 DEF CoverInv
<1>5. CASE stream # "live"
  <2>1. cursor' = cursor /\ replay' = replay /\ pending' = pending \cup Passing(ids, cursor)
    BY <1>3, <1>5 DEF Routed
  <2>2. ASSUME stream = "replaying", NEW id \in Committed, id > cursor
        PROVE  id \in replay' \cup pending' \cup notified'
    <3>1. id \in replay \cup pending \cup notified
      BY <2>2 DEF CoverInv, After
    <3> QED
      BY <2>1, <2>2, <3>1 DEF Passing
  <2> QED
    BY <1>1, <1>3, <1>5, <2>1, <2>2 DEF CoverInv, After
<1> QED
  BY <1>4, <1>5

LEMMA ReplayKeepsCover ==
    ASSUME TypeOK, CoverInv, ReplayDone
    PROVE  CoverInv'
<1> SUFFICES ASSUME fanout, covered PROVE CoverInv'
  BY DEF CoverInv, ReplayDone
<1> DEFINE top == Max(replay \cup {cursor})
           flushed == Passing(pending, top)
<1>1. /\ cursor' = Max(replay \cup flushed \cup {cursor}) /\ stream' = "live"
      /\ UNCHANGED <<fanout, events, listening, notified, covered>> /\ Committed' = Committed
  BY DEF ReplayDone, outboxVars, listenerVars, Committed
<1>2. /\ cursor \in 0..MaxId /\ replay \in SUBSET (0..MaxId)
      /\ pending \in SUBSET (0..MaxId) /\ Committed \subseteq 0..MaxId
  BY IdsAreNumbers DEF TypeOK
<1>3. top \in 0..MaxId
  BY <1>2, MaxWith
<1>4. flushed \in SUBSET (0..MaxId) /\ \A id \in pending : id > top => id \in flushed
  BY <1>2 DEF Passing
<1>5. top \in replay \cup {cursor}
  BY <1>2, MaxWith
<1> HIDE DEF top, flushed
<1>6. cursor' \in 0..MaxId /\ \A id \in replay \cup flushed \cup {cursor} : id <= cursor'
  <2>1. (replay \cup flushed) \in SUBSET (0..MaxId)
    BY <1>2, <1>4
  <2> QED
    BY <1>1, <1>2, <2>1, MaxWith
<1>7. ASSUME NEW id \in Committed, id > cursor'
      PROVE  id \in notified
  <2>1. id \in Int /\ id > cursor /\ id \notin replay /\ id \notin flushed
    BY <1>2, <1>6, <1>7
  <2>2. id > top
    BY <1>3, <1>5, <1>6, <1>7, <2>1
  <2>3. id \in replay \cup pending \cup notified
    BY <2>1 DEF CoverInv, After, ReplayDone
  <2> QED
    BY <1>4, <2>1, <2>2, <2>3
<1> QED
  BY <1>1, <1>7 DEF CoverInv, After

LEMMA CommitKeepsCover ==
    ASSUME TypeOK, CoverInv, NEW i \in Items, Commit(i)
    PROVE  CoverInv'
<1> SUFFICES ASSUME fanout, covered PROVE CoverInv'
  BY DEF CoverInv, Commit
<1>1. /\ listening /\ notified' = notified \cup open[i]
      /\ UNCHANGED <<fanout, covered, listening, stream, cursor, replay, pending>>
  BY DEF CoverInv, Commit, listenerVars, streamVars
<1>2. Committed' = Committed \cup open[i]
  BY DEF Commit, Committed
<1> QED
  BY <1>1, <1>2 DEF CoverInv, After

LEMMA StepKeepsCover ==
    ASSUME TypeOK, CoverInv, [Next]_vars
    PROVE  CoverInv'
<1>1. CASE UNCHANGED <<fanout, events, notified, listening, stream, cursor, pending, replay, covered>>
  BY <1>1 DEF CoverInv, After, Committed
<1>2. ASSUME NEW i \in Items, Commit(i)
      PROVE  CoverInv'
  BY <1>2, CommitKeepsCover
<1>3. ASSUME NEW id \in Ids, RouteNotified(id)
      PROVE  CoverInv'
  BY <1>3, RoutedKeepsCover DEF RouteNotified, outboxVars, listenerVars
<1>4. CASE FallbackRoute
  <2>1. polled \in SUBSET Ids
    BY <1>4 DEF FallbackRoute, TypeOK
  <2> QED
    BY <1>4, <2>1, RoutedKeepsCover DEF FallbackRoute, outboxVars, listenerVars
<1>5. CASE ~covered' \/ ~fanout'
  BY <1>5 DEF CoverInv
<1>6. CASE Listen
  BY <1>6 DEF Listen, CoverInv, After, Committed, outboxVars, streamVars
<1>7. CASE ReplayQuery
  <2> SUFFICES ASSUME fanout', covered' PROVE CoverInv'
    BY DEF CoverInv
  <2>1. /\ covered /\ replay' = After(cursor) /\ stream' = "replaying"
        /\ UNCHANGED <<fanout, events, listening, cursor>>
    <3>1. PICK rows : replay' = rows /\ covered' = (covered /\ rows = After(cursor))
      BY <1>7 DEF ReplayQuery
    <3>2. covered /\ replay' = After(cursor)
      BY <3>1
    <3> QED
      BY <1>7, <3>2 DEF ReplayQuery, outboxVars, listenerVars
  <2> QED
    BY <2>1 DEF CoverInv, After, Committed
<1>8. CASE ReplayDone
  BY <1>8, ReplayKeepsCover
<1>9. ASSUME NEW from, Opened(from), UNCHANGED <<fanout, listening>>
      PROVE  CoverInv'
  BY <1>9 DEF Opened, CoverInv
<1>10. CASE StreamPoll
  BY <1>10 DEF StreamPoll, CoverInv
<1>11. CASE Connect \/ BrowserReconnects
  BY <1>9, <1>11 DEF Connect, BrowserReconnects, listenerVars
<1>12. \/ UNCHANGED <<fanout, events, notified, listening, stream, cursor, pending, replay, covered>>
       \/ (\E i \in Items : Commit(i))
       \/ (\E id \in Ids : RouteNotified(id)) \/ FallbackRoute \/ Listen
       \/ ~covered' \/ ~fanout'
       \/ ReplayQuery \/ ReplayDone \/ StreamPoll \/ Connect \/ BrowserReconnects
  BY DEF Next, OutboxStep, Insert, Rollback,
         FanoutStep, FetchRowFails, ConnectFails, ListenerClosed, FallbackPoll, StreamStep,
         FetchStep, SendFetch, ReadLatest, ReadRows, ApplyFetch,
         PageStep, Bootstrap, ReconnectFetch, SafetyFetch, StartFetch, FetchFails,
         Close, Handle, vars, streamVars, outboxVars, listenerVars
<1> QED
  BY <1>1, <1>2, <1>3, <1>4, <1>5, <1>6, <1>7, <1>8, <1>10, <1>11, <1>12

(* If the fan-out has listened since the stream subscribed and no query     *)
(* failed or was cut off, the newest event is sent once nothing is on its   *)
(* way, wherever the replay and the notifications met.                      *)
THEOREM NewestAlwaysSent == Spec => []NewestIsSent
<1>1. Init => CoverInv
  BY DEF Init, CoverInv
<1>2. TypeOK /\ CoverInv /\ [Next]_vars => CoverInv'
  BY StepKeepsCover
<1>3. TypeOK /\ CoverInv => NewestIsSent
  <2> SUFFICES ASSUME TypeOK, CoverInv, fanout, covered, stream = "live", notified = {}
               PROVE  cursor >= Newest
    BY DEF NewestIsSent
  <2>1. Newest \in Committed \cup {0} /\ Committed \subseteq 0..MaxId /\ cursor \in 0..MaxId
    <3>1. Committed \in SUBSET (0..MaxId) /\ cursor \in 0..MaxId
      BY IdsAreNumbers DEF TypeOK
    <3> QED
      BY <3>1, IdsAreNumbers, MaxWith DEF Newest
  <2>2. After(cursor) = {}
    BY DEF CoverInv
  <2>3. \A id \in Committed : ~(id > cursor)
    BY <2>2 DEF After
  <2> QED
    BY <2>1, <2>3, LiveAssumption
<1> QED
  BY <1>1, <1>2, <1>3, TypeCorrect, PTL DEF Spec
=============================================================================
