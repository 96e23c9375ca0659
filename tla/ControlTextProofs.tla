--------------------------- MODULE ControlTextProofs ---------------------------
(***************************************************************************)
(* Proofs about the two entry points that read a control payload, for every *)
(* limit and every bound: the JSON parser's verdict on a text is what the   *)
(* grammar says of the text as a whole; the schemas behind it are closed,   *)
(* however often an accepted message is edited; what an accepted message    *)
(* says is in range and tells it apart from every other; and the two        *)
(* programs understand what the other writes.                               *)
(***************************************************************************)
EXTENDS ControlText, FiniteSetTheorems, SequenceTheorems, TLAPS

\* The texts, and the tokens that are no brackets.
Texts == Seq(Tokens)
Plain == Tokens \ (Opens \cup Closes)

-------------------------------------------------------------------------------
(* The grammar: what a token more does to depths, places and siblings. *)

\* A token is of one kind.
LEMMA TokenKinds ==
    /\ Opens \cap Closes = {} /\ Scalars \cap (Opens \cup Closes) = {}
    /\ Opens \subseteq Tokens /\ Closes \subseteq Tokens /\ Scalars \subseteq Tokens
    /\ GoodStrings \subseteq Scalars
    /\ GoodStrings \cap {"end", LongString, "end_object", "end_array", "scalar"} = {}
    /\ (Scalars \cup Opens) \cap {"end", LongString, "end_object", "end_array"} = {}
BY DEF Opens, Closes, Scalars, Tokens, GoodStrings, Spells, LongString, BadString

\* How many of the first n tokens of a text are in S.
Count(t, S, n) == Cardinality({k \in 1..n : t[k] \in S})

\* How many of its first tokens are of a kind, counted one by one.
LEMMA CountStep ==
    ASSUME NEW t, NEW S, NEW n \in Nat
    PROVE  /\ Count(t, S, n) \in Nat
           /\ Count(t, S, n + 1) = Count(t, S, n) + (IF t[n + 1] \in S THEN 1 ELSE 0)
<1> DEFINE C == {k \in 1..n : t[k] \in S}
<1>1. IsFiniteSet(C)
  <2>1. IsFiniteSet(1..n)
    BY FS_Interval
  <2>2. C \in SUBSET (1..n)
    OBVIOUS
  <2> HIDE DEF C
  <2> QED BY <2>1, <2>2, FS_Subset
<1>2. Cardinality(C) \in Nat
  BY <1>1, FS_CardinalityType
<1>3. CASE t[n + 1] \in S
  <2>1. {k \in 1..(n + 1) : t[k] \in S} = C \cup {n + 1}
    BY <1>3
  <2>2. n + 1 \notin C
    OBVIOUS
  <2> QED BY <1>1, <1>2, <1>3, <2>1, <2>2, FS_AddElement DEF Count
<1>4. CASE t[n + 1] \notin S
  <2>1. {k \in 1..(n + 1) : t[k] \in S} = C
    BY <1>4
  <2> QED BY <1>2, <1>4, <2>1 DEF Count
<1> QED BY <1>2, <1>3, <1>4

\* The depth starts at nothing and changes by one at brackets only.
LEMMA DepthStep ==
    ASSUME NEW t, NEW i \in Nat \ {0}
    PROVE  /\ Depth(t, 1) = 0 /\ Depth(t, i) \in Int
           /\ t[i] \in Opens => Depth(t, i + 1) = Depth(t, i) + 1
           /\ t[i] \in Closes => Depth(t, i + 1) = Depth(t, i) - 1
           /\ t[i] \notin Opens \cup Closes => Depth(t, i + 1) = Depth(t, i)
<1>1. {k \in 1..(1 - 1) : t[k] \in Opens} = {} /\ {k \in 1..(1 - 1) : t[k] \in Closes} = {}
  OBVIOUS
<1>2. Depth(t, 1) = 0
  BY <1>1, FS_EmptySet DEF Depth
<1> DEFINE j == i - 1
<1>3. j \in Nat /\ j + 1 = i /\ i + 1 - 1 = i
  OBVIOUS
<1>4. Depth(t, i) = Count(t, Opens, j) - Count(t, Closes, j)
  BY DEF Depth, Count
<1>5. Depth(t, i + 1) = Count(t, Opens, i) - Count(t, Closes, i)
  BY <1>3 DEF Depth, Count
<1> HIDE DEF j
<1>6. /\ Count(t, Opens, j) \in Nat
      /\ Count(t, Opens, i) = Count(t, Opens, j) + (IF t[i] \in Opens THEN 1 ELSE 0)
  BY <1>3, CountStep
<1>7. /\ Count(t, Closes, j) \in Nat
      /\ Count(t, Closes, i) = Count(t, Closes, j) + (IF t[i] \in Closes THEN 1 ELSE 0)
  BY <1>3, CountStep
<1>8. t[i] \in Opens => t[i] \notin Closes
  BY TokenKinds
<1> QED BY <1>2, <1>4, <1>5, <1>6, <1>7, <1>8

\* Whatever the place of a token, it is inside the container that the place says.
Nested(t, i) ==
    /\ Depth(t, i) \in Nat /\ Parent(t, i) \in 0..(i - 1)
    /\ Depth(t, i) > 0 => Parent(t, i) # 0 /\ t[Parent(t, i)] \in Opens
WellNested(t) == \A k \in 1..(Len(t) + 1) : Nested(t, k)

\* A text keeps its tokens when another is added.
LEMMA AppendKeeps ==
    ASSUME NEW t \in Texts, NEW x \in Tokens
    PROVE  /\ Append(t, x) \in Texts /\ Len(Append(t, x)) = Len(t) + 1 /\ Len(t) \in Nat
           /\ \A k \in 1..Len(t) : Append(t, x)[k] = t[k] /\ t[k] \in Tokens
           /\ Append(t, x)[Len(t) + 1] = x
BY DEF Texts

\* The place of a token depends on those before it only.
LEMMA PlacePrefix ==
    ASSUME NEW t \in Texts, NEW x \in Tokens, NEW i \in 1..(Len(t) + 1)
    PROVE  /\ Depth(Append(t, x), i) = Depth(t, i)
           /\ Parent(Append(t, x), i) = Parent(t, i)
           /\ Parent(t, i) \in Nat => /\ Siblings(Append(t, x), i) = Siblings(t, i)
                                      /\ Place(Append(t, x), i) = Place(t, i)
<1> DEFINE u == Append(t, x)
<1>1. \A k \in 1..Len(t) : u[k] = t[k]
  BY AppendKeeps
<1>2. Len(t) \in Nat
  BY AppendKeeps
<1>3. \A k \in 1..(Len(t) + 1) : Depth(u, k) = Depth(t, k)
  <2> SUFFICES ASSUME NEW k \in 1..(Len(t) + 1) PROVE Depth(u, k) = Depth(t, k)
    OBVIOUS
  <2>1. \A m \in 1..(k - 1) : u[m] = t[m]
    BY <1>1, <1>2
  <2>2. /\ {m \in 1..(k - 1) : u[m] \in Opens} = {m \in 1..(k - 1) : t[m] \in Opens}
        /\ {m \in 1..(k - 1) : u[m] \in Closes} = {m \in 1..(k - 1) : t[m] \in Closes}
    BY <2>1
  <2> QED BY <2>2 DEF Depth
<1>4. Parent(u, i) = Parent(t, i)
  <2>1. \A m \in 1..(i - 1) : u[m] = t[m] /\ Depth(u, m) = Depth(t, m)
    BY <1>1, <1>2, <1>3
  <2>2. {k \in 1..(i - 1) : u[k] \in Opens /\ Depth(u, k) = Depth(u, i) - 1}
          = {k \in 1..(i - 1) : t[k] \in Opens /\ Depth(t, k) = Depth(t, i) - 1}
    BY <1>3, <2>1
  <2> QED BY <2>2 DEF Parent
<1>5. ASSUME Parent(t, i) \in Nat PROVE Siblings(u, i) = Siblings(t, i)
  <2>1. \A k \in (Parent(t, i) + 1)..i : Depth(u, k) = Depth(t, k)
    BY <1>2, <1>3, <1>5
  <2> QED BY <1>3, <1>4, <2>1 DEF Siblings
<1> QED BY <1>3, <1>4, <1>5 DEF Place

\* So does what may stand there.
LEMMA RolePrefix ==
    ASSUME NEW t \in Texts, NEW x \in Tokens, NEW i \in 1..(Len(t) + 1), Nested(t, i)
    PROVE  /\ Nested(Append(t, x), i)
           /\ InObject(Append(t, x), i) <=> InObject(t, i)
           /\ InArray(Append(t, x), i) <=> InArray(t, i)
           /\ AtName(Append(t, x), i) <=> AtName(t, i)
           /\ AtValue(Append(t, x), i) <=> AtValue(t, i)
<1> DEFINE u == Append(t, x)
<1>1. /\ Depth(u, i) = Depth(t, i) /\ Parent(u, i) = Parent(t, i) /\ Place(u, i) = Place(t, i)
  BY PlacePrefix DEF Nested
<1>2. Depth(t, i) > 0 => u[Parent(t, i)] = t[Parent(t, i)]
  BY AppendKeeps DEF Nested
<1>3. Nested(u, i)
  BY <1>1, <1>2 DEF Nested
<1>4. (InObject(u, i) <=> InObject(t, i)) /\ (InArray(u, i) <=> InArray(t, i))
  BY <1>1, <1>2 DEF InObject, InArray
<1>5. (AtName(u, i) <=> AtName(t, i)) /\ (AtValue(u, i) <=> AtValue(t, i))
  BY <1>1, <1>4 DEF AtName, AtValue
<1> QED BY <1>3, <1>4, <1>5

\* The names that stand before token i in its object.
\* What the names before a token in its object spell.
NamesBefore(t, i) == {Spells[t[k]] : k \in {m \in Siblings(t, i) \ {i} : AtName(t, m)}}

\* A token appended changes no name before it.
LEMMA NamesPrefix ==
    ASSUME NEW t \in Texts, NEW x \in Tokens, NEW i \in 1..(Len(t) + 1), WellNested(t)
    PROVE  NamesBefore(Append(t, x), i) = NamesBefore(t, i)
<1> DEFINE u == Append(t, x)
<1>1. Parent(t, i) \in Nat /\ Siblings(u, i) = Siblings(t, i)
  BY PlacePrefix DEF WellNested, Nested
<1>2. Len(t) \in Nat
  BY AppendKeeps
<1>3. \A m \in Siblings(t, i) \ {i} : m \in 1..Len(t)
  BY <1>1, <1>2 DEF Siblings
<1>4. \A m \in Siblings(t, i) \ {i} : u[m] = t[m] /\ (AtName(u, m) <=> AtName(t, m))
  <2> SUFFICES ASSUME NEW m \in 1..Len(t) PROVE u[m] = t[m] /\ (AtName(u, m) <=> AtName(t, m))
    BY <1>3
  <2>1. m \in 1..(Len(t) + 1) /\ u[m] = t[m]
    BY AppendKeeps
  <2>2. Nested(t, m)
    BY <2>1 DEF WellNested
  <2> QED BY <2>1, <2>2, RolePrefix
<1>5. {m \in Siblings(u, i) \ {i} : AtName(u, m)} = {m \in Siblings(t, i) \ {i} : AtName(t, m)}
  BY <1>1, <1>4
<1> QED BY <1>4, <1>5 DEF NamesBefore

\* A name is new when it is not among those before.
LEMMA NewName ==
    ASSUME NEW t, NEW i
    PROVE  NameIsNew(t, i) <=> Spells[t[i]] \notin NamesBefore(t, i)
BY DEF NameIsNew, NamesBefore

NameTokens(t, n) == {k \in 1..n : AtName(t, k) /\ t[k] \in GoodStrings}

\* A token that is right, or wrong, remains so.
LEMMA VerdictPrefix ==
    ASSUME NEW t \in Texts, NEW x \in Tokens, NEW i \in 1..Len(t), WellNested(t)
    PROVE  /\ Legal(Append(t, x), i) <=> Legal(t, i)
           /\ Exceeds(Append(t, x), i) <=> Exceeds(t, i)
           /\ NameTokens(Append(t, x), i) = NameTokens(t, i)
<1> DEFINE u == Append(t, x)
<1>1. Len(t) \in Nat /\ i \in 1..(Len(t) + 1) /\ u[i] = t[i] /\ u[1] = t[1]
  BY AppendKeeps
<1>2. Nested(t, i)
  BY <1>1 DEF WellNested
<1>3. Depth(u, i) = Depth(t, i) /\ Place(u, i) = Place(t, i)
  BY <1>1, <1>2, PlacePrefix DEF Nested
<1>4. /\ InObject(u, i) <=> InObject(t, i)
      /\ InArray(u, i) <=> InArray(t, i)
      /\ AtName(u, i) <=> AtName(t, i)
      /\ AtValue(u, i) <=> AtValue(t, i)
  BY <1>1, <1>2, RolePrefix
<1>5. NameIsNew(u, i) <=> NameIsNew(t, i)
  BY <1>1, NamesPrefix, NewName
<1>6. \A k \in 1..i : u[k] = t[k] /\ (AtName(u, k) <=> AtName(t, k))
  <2> SUFFICES ASSUME NEW k \in 1..i PROVE u[k] = t[k] /\ (AtName(u, k) <=> AtName(t, k))
    OBVIOUS
  <2>1. k \in 1..Len(t) /\ k \in 1..(Len(t) + 1) /\ u[k] = t[k]
    BY <1>1, AppendKeeps
  <2>2. Nested(t, k)
    BY <2>1 DEF WellNested
  <2> QED BY <2>1, <2>2, RolePrefix
<1>7. {k \in 1..(i - 1) : AtName(u, k) /\ u[k] \in GoodStrings}
        = {k \in 1..(i - 1) : AtName(t, k) /\ t[k] \in GoodStrings}
  BY <1>6
<1>8. Legal(u, i) <=> Legal(t, i)
  BY <1>1, <1>3, <1>4, <1>5 DEF Legal
<1>9. Exceeds(u, i) <=> Exceeds(t, i)
  BY <1>1, <1>3, <1>4, <1>7 DEF Exceeds
<1>10. NameTokens(u, i) = NameTokens(t, i)
  BY <1>6 DEF NameTokens
<1> QED BY <1>8, <1>9, <1>10

\* The greatest of a set of integers, where there is one.
LEMMA MaxIs ==
    ASSUME NEW S \in SUBSET Int, NEW p \in S, \A y \in S : p >= y
    PROVE  Max(S) = p
<1>1. p \in S /\ \A y \in S : p >= y
  OBVIOUS
<1>2. Max(S) \in S /\ \A y \in S : Max(S) >= y
  BY <1>1 DEF Max
<1>3. Max(S) \in Int /\ p \in Int /\ p >= Max(S) /\ Max(S) >= p
  BY <1>1, <1>2
<1> QED BY <1>3

\* Where each of the open containers stands that the next token is inside of: q[j] is the token
\* at depth j, q[L] the next one.
Chain(t, q, L) ==
    /\ q \in [0..L -> 1..(Len(t) + 1)] /\ q[L] = Len(t) + 1
    /\ \A j \in 0..L : Depth(t, q[j]) = j
    /\ \A j \in 1..L : q[j - 1] < q[j] /\ t[q[j - 1]] \in Opens
    /\ \A j \in 1..L, m \in 1..(Len(t) + 1) : m > q[j - 1] => Depth(t, m) >= j
    /\ \A m \in 1..(Len(t) + 1) : Depth(t, m) \in Nat

\* The container of each of them is the one before.
LEMMA ChainParent ==
    ASSUME NEW t \in Texts, NEW L \in Nat, NEW q, Chain(t, q, L), NEW j \in 0..L
    PROVE  Parent(t, q[j]) = IF j = 0 THEN 0 ELSE q[j - 1]
<1> DEFINE S == {k \in 1..(q[j] - 1) : t[k] \in Opens /\ Depth(t, k) = Depth(t, q[j]) - 1}
<1>1. /\ Len(t) \in Nat /\ q[j] \in 1..(Len(t) + 1) /\ Depth(t, q[j]) = j
  BY AppendKeeps DEF Chain, Texts
<1>2. CASE j = 0
  <2>1. \A k \in 1..(q[j] - 1) : Depth(t, k) \in Nat
    BY <1>1 DEF Chain
  <2>2. S = {}
    BY <1>1, <1>2, <2>1
  <2>3. Max({0} \cup S) = 0
    BY <2>2, MaxIs
  <2> QED BY <1>2, <2>3 DEF Parent
<1>3. CASE j # 0
  <2>1. j \in 1..L /\ j - 1 \in 0..L
    BY <1>3
  <2>2. /\ q[j - 1] \in 1..(Len(t) + 1) /\ q[j - 1] < q[j] /\ t[q[j - 1]] \in Opens
        /\ Depth(t, q[j - 1]) = j - 1
        /\ \A m \in 1..(Len(t) + 1) : m > q[j - 1] => Depth(t, m) >= j
    BY <2>1 DEF Chain
  <2>3. q[j - 1] \in S
    BY <1>1, <2>2
  <2>4. \A k \in S : k <= q[j - 1]
    BY <1>1, <2>1, <2>2
  <2>5. S \in SUBSET Int
    OBVIOUS
  <2> HIDE DEF S
  <2>6. /\ {0} \cup S \in SUBSET Int /\ q[j - 1] \in {0} \cup S
        /\ \A y \in {0} \cup S : q[j - 1] >= y
    BY <2>2, <2>3, <2>4, <2>5
  <2>7. Max({0} \cup S) = q[j - 1]
    BY <2>6, MaxIs
  <2> QED BY <1>3, <2>7 DEF Parent, S
<1> QED BY <1>2, <1>3

\* Token x leads from depth L to depth M.
Leads(x, L, M) ==
    \/ x \in Opens /\ M = L + 1
    \/ x \in Closes /\ M = L - 1
    \/ x \in Plain /\ M = L

\* The chain after one token more.
Onward(t, q, M) == [j \in 0..M |-> IF j = M THEN Len(t) + 2 ELSE q[j]]

\* The chain of the enclosing brackets follows the depth, one token at a time.
LEMMA ChainStep ==
    ASSUME NEW t \in Texts, NEW x \in Tokens, NEW L \in Nat, NEW M \in Nat, NEW q,
           Chain(t, q, L), WellNested(t), Leads(x, L, M)
    PROVE  Chain(Append(t, x), Onward(t, q, M), M) /\ WellNested(Append(t, x))
<1> DEFINE u == Append(t, x)
           r == Onward(t, q, M)
<1>1. /\ u \in Texts /\ Len(u) = Len(t) + 1 /\ Len(t) \in Nat /\ u[Len(t) + 1] = x
      /\ \A k \in 1..Len(t) : u[k] = t[k]
  BY AppendKeeps
<1>2. \A k \in 1..(Len(t) + 1) : Depth(u, k) = Depth(t, k) /\ Depth(t, k) \in Nat
  BY PlacePrefix DEF WellNested, Nested
<1>3. Depth(u, Len(t) + 2) = M
  <2>1. Len(t) + 1 \in Nat \ {0} /\ Len(t) + 1 + 1 = Len(t) + 2 /\ Len(t) + 1 \in 1..(Len(t) + 1)
    BY <1>1
  <2>2. Depth(u, Len(t) + 1) = L
    BY <1>1, <1>2, <2>1 DEF Chain
  <2>3. /\ x \in Opens => Depth(u, Len(t) + 2) = L + 1
        /\ x \in Closes => Depth(u, Len(t) + 2) = L - 1
        /\ x \notin Opens \cup Closes => Depth(u, Len(t) + 2) = L
    <3> DEFINE i == Len(t) + 1
    <3>1. i \in Nat \ {0} /\ i + 1 = Len(t) + 2 /\ u[i] = x /\ Depth(u, i) = L
      BY <1>1, <2>1, <2>2
    <3> HIDE DEF i, u
    <3> QED BY <3>1, DepthStep
  <2> QED BY <2>3 DEF Leads, Plain
<1>4. \A j \in 0..M : j < M => j \in 0..L
  BY DEF Leads
<1>5. /\ r \in [0..M -> 1..(Len(t) + 2)] /\ r[M] = Len(t) + 2
      /\ \A j \in 0..M : j < M => r[j] = q[j] /\ q[j] \in 1..(Len(t) + 1)
  <2>1. q \in [0..L -> 1..(Len(t) + 1)]
    BY DEF Chain
  <2>2. \A j \in 0..M : j < M => q[j] \in 1..(Len(t) + 1)
    BY <1>4, <2>1
  <2>3. \A j \in 0..M : (IF j = M THEN Len(t) + 2 ELSE q[j]) \in 1..(Len(t) + 2)
    BY <1>1, <2>2
  <2> QED BY <2>2, <2>3 DEF Onward
<1> HIDE DEF r
<1>6. \A j \in 0..M : Depth(u, r[j]) = j
  <2> SUFFICES ASSUME NEW j \in 0..M PROVE Depth(u, r[j]) = j
    OBVIOUS
  <2>1. CASE j = M
    BY <1>3, <1>5, <2>1
  <2>2. CASE j # M
    <3>1. j \in 0..L /\ r[j] = q[j] /\ q[j] \in 1..(Len(t) + 1)
      BY <1>4, <1>5, <2>2
    <3> QED BY <1>2, <3>1 DEF Chain
  <2> QED BY <2>1, <2>2
<1>7. \A j \in 1..M : r[j - 1] < r[j] /\ u[r[j - 1]] \in Opens
  <2> SUFFICES ASSUME NEW j \in 1..M PROVE r[j - 1] < r[j] /\ u[r[j - 1]] \in Opens
    OBVIOUS
  <2>1. j - 1 \in 0..M /\ j - 1 < M /\ j - 1 \in 0..L /\ j \in 0..M
    BY <1>4
  <2>2. r[j - 1] = q[j - 1] /\ q[j - 1] \in 1..(Len(t) + 1)
    BY <1>5, <2>1
  <2>3. CASE j - 1 = L
    <3>1. x \in Opens /\ j = M /\ q[j - 1] = Len(t) + 1
      BY <2>3 DEF Leads, Chain
    <3> QED BY <1>1, <1>5, <2>2, <3>1
  <2>4. CASE j - 1 # L
    <3>1. j \in 1..L /\ j \in 0..L
      BY <2>1, <2>4
    <3>2. q[j - 1] < q[j] /\ t[q[j - 1]] \in Opens /\ q[j] \in 1..(Len(t) + 1)
      BY <3>1 DEF Chain
    <3>3. q[j - 1] \in 1..Len(t)
      BY <1>1, <2>2, <3>2
    <3>4. r[j] \in {q[j], Len(t) + 2}
      BY <1>5, <2>1
    <3> QED BY <1>1, <2>2, <3>2, <3>3, <3>4
  <2> QED BY <2>3, <2>4
<1>8. \A j \in 1..M, m \in 1..(Len(t) + 2) : m > r[j - 1] => Depth(u, m) >= j
  <2> SUFFICES ASSUME NEW j \in 1..M, NEW m \in 1..(Len(t) + 2), m > r[j - 1]
               PROVE Depth(u, m) >= j
    OBVIOUS
  <2>1. j - 1 \in 0..M /\ j - 1 < M /\ j - 1 \in 0..L
    BY <1>4
  <2>2. r[j - 1] = q[j - 1]
    BY <1>5, <2>1
  <2>3. CASE m = Len(t) + 2
    BY <1>3, <2>3
  <2>4. CASE m # Len(t) + 2
    <3>1. m \in 1..(Len(t) + 1)
      BY <1>1, <2>4
    <3>2. j \in 1..L
      BY <1>1, <2>1, <2>2, <3>1 DEF Chain
    <3>3. Depth(t, m) >= j
      BY <2>2, <3>1, <3>2 DEF Chain
    <3> QED BY <1>2, <3>1, <3>3
  <2> QED BY <2>3, <2>4
<1>9. \A m \in 1..(Len(t) + 2) : Depth(u, m) \in Nat
  BY <1>1, <1>2, <1>3
<1>10. Len(u) + 1 = Len(t) + 2
  BY <1>1
<1>11. Chain(u, r, M)
  BY <1>5, <1>6, <1>7, <1>8, <1>9, <1>10 DEF Chain
<1>12. Nested(u, Len(t) + 2)
  <2>1. Parent(u, r[M]) = IF M = 0 THEN 0 ELSE r[M - 1]
    BY <1>1, <1>11, ChainParent
  <2>2. CASE M = 0
    BY <1>1, <1>3, <1>5, <2>1, <2>2 DEF Nested
  <2>3. CASE M # 0
    <3>1. M \in 1..M /\ M - 1 \in 0..M
      BY <2>3
    <3>2. r[M - 1] < r[M] /\ u[r[M - 1]] \in Opens /\ r[M - 1] \in 1..(Len(t) + 2)
      BY <1>5, <1>7, <3>1
    <3> QED BY <1>1, <1>3, <1>5, <2>1, <2>3, <3>2 DEF Nested
  <2> QED BY <2>2, <2>3
<1>13. \A k \in 1..(Len(t) + 1) : Nested(u, k)
  BY RolePrefix DEF WellNested
<1>14. WellNested(u)
  BY <1>1, <1>10, <1>12, <1>13 DEF WellNested
<1> QED BY <1>11, <1>14 DEF r

\* A token is among its siblings, so that it has a place.
LEMMA PlaceTyped ==
    ASSUME NEW t, NEW i \in Nat, Nested(t, i)
    PROVE  IsFiniteSet(Siblings(t, i)) /\ i \in Siblings(t, i) /\ Place(t, i) \in Nat \ {0}
<1>1. Parent(t, i) \in 0..(i - 1)
  BY DEF Nested
<1>2. i \in Siblings(t, i)
  BY <1>1 DEF Siblings
<1>3. IsFiniteSet((Parent(t, i) + 1)..i)
  BY <1>1, FS_Interval
<1>4. Siblings(t, i) \in SUBSET ((Parent(t, i) + 1)..i)
  BY DEF Siblings
<1>5. IsFiniteSet(Siblings(t, i))
  BY <1>3, <1>4, FS_Subset
<1>6. Cardinality(Siblings(t, i)) \in Nat /\ Cardinality(Siblings(t, i)) # 0
  BY <1>2, <1>5, FS_CardinalityType, FS_EmptySet
<1> QED BY <1>2, <1>5, <1>6 DEF Place

\* The names before the next token of a container.
NamesUpTo(t, i) == NamesBefore(t, i) \cup (IF AtName(t, i) THEN {Spells[t[i]]} ELSE {})

\* After a token that opens nothing comes the next place of the container that is then the
\* innermost; the container that was closed took one.
LEMMA NextSibling ==
    ASSUME NEW t \in Texts, NEW x \in Tokens, NEW L \in Nat, NEW M \in Nat, NEW q,
           Chain(t, q, L), WellNested(t), Leads(x, L, M), x \notin Opens
    PROVE  /\ Depth(Append(t, x), Len(t) + 2) = M /\ M \in 0..L /\ q[M] \in 1..(Len(t) + 1)
           /\ Parent(Append(t, x), Len(t) + 2) = Parent(t, q[M])
           /\ Place(Append(t, x), Len(t) + 2) = Place(t, q[M]) + 1
           /\ NamesBefore(Append(t, x), Len(t) + 2) = NamesUpTo(Append(t, x), q[M])
<1> DEFINE u == Append(t, x)
           i == Len(t) + 2
           p == q[M]
           r == Onward(t, q, M)
<1>1. Chain(u, r, M) /\ WellNested(u)
  BY ChainStep
<1>2. u \in Texts /\ Len(u) = Len(t) + 1 /\ Len(t) \in Nat /\ i = Len(u) + 1
  BY AppendKeeps
<1>3. M \in 0..L /\ (M = L \/ M = L - 1)
  BY DEF Leads
<1>4. p \in 1..(Len(t) + 1) /\ Depth(t, p) = M
  BY <1>3 DEF Chain
<1>5. r[M] = i /\ \A j \in 0..M : j < M => r[j] = q[j]
  BY <1>2 DEF Onward
<1>6. Depth(u, i) = M
  BY <1>1, <1>5 DEF Chain
<1>7. Parent(u, i) = Parent(t, p)
  <2>1. Parent(u, r[M]) = IF M = 0 THEN 0 ELSE r[M - 1]
    BY <1>1, <1>2, ChainParent
  <2>2. Parent(t, q[M]) = IF M = 0 THEN 0 ELSE q[M - 1]
    BY <1>3, ChainParent
  <2> QED BY <1>5, <2>1, <2>2
<1>8. Nested(u, p) /\ Nested(t, p) /\ Nested(u, i) /\ Depth(u, p) = M /\ Parent(u, p) = Parent(t, p)
  BY <1>1, <1>2, <1>4, PlacePrefix DEF WellNested
<1>9. \A m \in (p + 1)..(Len(t) + 1) : Depth(u, m) > M
  <2> SUFFICES ASSUME NEW m \in (p + 1)..(Len(t) + 1) PROVE Depth(u, m) > M
    OBVIOUS
  <2>1. m \in 1..(Len(t) + 1) /\ m > p
    BY <1>2, <1>4
  <2>2. M # L
    BY <2>1, <1>2, <1>4 DEF Chain
  <2>3. M + 1 \in 1..L /\ M + 1 - 1 = M
    BY <1>3, <2>2
  <2>4. Depth(t, m) >= M + 1
    BY <2>1, <2>3 DEF Chain
  <2>5. Depth(u, m) = Depth(t, m) /\ Depth(t, m) \in Nat
    BY <2>1, PlacePrefix DEF Chain
  <2> QED BY <2>4, <2>5
<1> HIDE DEF u, i, p, r
<1>10. Siblings(u, i) = Siblings(u, p) \cup {i}
  <2>1. Parent(u, p) \in 0..(p - 1) /\ i \in Nat /\ p \in Nat /\ p < i
    BY <1>2, <1>4, <1>8 DEF Nested, i
  <2>2. \A m \in (Parent(u, p) + 1)..i : Depth(u, m) = M => m \in (Parent(u, p) + 1)..p \/ m = i
    <3> SUFFICES ASSUME NEW m \in (Parent(u, p) + 1)..i, Depth(u, m) = M, ~(m <= p), m # i
                 PROVE  FALSE
      BY <2>1
    <3>1. m \in (p + 1)..(Len(t) + 1)
      BY <1>2, <2>1 DEF i
    <3> QED BY <1>3, <1>9, <3>1
  <2> QED BY <1>6, <1>7, <1>8, <2>1, <2>2 DEF Siblings
<1>11. i \notin Siblings(u, p)
  BY <1>2, <1>4 DEF Siblings, i
<1>12. /\ p \in Nat /\ p \in Siblings(u, p) /\ IsFiniteSet(Siblings(u, p))
       /\ Cardinality(Siblings(u, p)) \in Nat
  BY <1>4, <1>8, PlaceTyped DEF Place
<1>13. Place(u, i) = Place(u, p) + 1
  <2> DEFINE S == Siblings(u, p)
  <2>1. IsFiniteSet(S) /\ i \notin S
    BY <1>11, <1>12
  <2> HIDE DEF S
  <2>2. Cardinality(S \cup {i}) = Cardinality(S) + 1
    BY <2>1, FS_AddElement
  <2> QED BY <1>10, <2>2 DEF Place, S
<1>14. Place(u, p) = Place(t, p)
  BY <1>4, <1>8, PlacePrefix DEF u, Nested
<1>15. {m \in Siblings(u, i) \ {i} : AtName(u, m)}
         = {m \in Siblings(u, p) \ {p} : AtName(u, m)} \cup (IF AtName(u, p) THEN {p} ELSE {})
  <2>1. Siblings(u, i) \ {i} = (Siblings(u, p) \ {p}) \cup {p}
    BY <1>10, <1>11, <1>12
  <2> QED BY <2>1
<1>16. NamesBefore(u, i) = NamesUpTo(u, p)
  BY <1>15 DEF NamesBefore, NamesUpTo
<1> QED BY <1>3, <1>4, <1>6, <1>7, <1>13, <1>14, <1>16 DEF u, i, p

\* After a token that opens a container comes the first place inside it.
LEMMA FirstPlace ==
    ASSUME NEW t \in Texts, NEW x \in Opens, NEW L \in Nat, NEW q, Chain(t, q, L), WellNested(t)
    PROVE  /\ Depth(Append(t, x), Len(t) + 2) = L + 1
           /\ Parent(Append(t, x), Len(t) + 2) = Len(t) + 1
           /\ Place(Append(t, x), Len(t) + 2) = 1
           /\ NamesBefore(Append(t, x), Len(t) + 2) = {}
<1> DEFINE u == Append(t, x)
           i == Len(t) + 2
           r == Onward(t, q, L + 1)
<1>1. x \in Tokens /\ Leads(x, L, L + 1) /\ L + 1 \in Nat
  <2>1. x \in Tokens
    BY TokenKinds
  <2>2. L + 1 \in Nat
    OBVIOUS
  <2> QED BY <2>1, <2>2 DEF Leads
<1>2. Chain(u, r, L + 1) /\ WellNested(u)
  BY <1>1, ChainStep
<1>3. u \in Texts /\ Len(u) = Len(t) + 1 /\ Len(t) \in Nat /\ i = Len(u) + 1
  BY <1>1, AppendKeeps
<1>4. r[L + 1] = i /\ r[L] = Len(t) + 1
  BY <1>3 DEF Onward, Chain
<1> HIDE DEF u, r
<1>5. Depth(u, i) = L + 1
  BY <1>1, <1>2, <1>4 DEF Chain
<1>6. Parent(u, i) = Len(t) + 1
  <2>1. Parent(u, r[L + 1]) = IF L + 1 = 0 THEN 0 ELSE r[L + 1 - 1]
    <3> DEFINE K == L + 1
    <3>1. K \in Nat /\ K \in 0..K /\ Chain(u, r, K)
      BY <1>1, <1>2
    <3> HIDE DEF K
    <3>2. Parent(u, r[K]) = IF K = 0 THEN 0 ELSE r[K - 1]
      BY <1>3, <3>1, ChainParent
    <3> QED BY <3>2 DEF K
  <2>2. L + 1 # 0 /\ L + 1 - 1 = L
    BY <1>1
  <2> QED BY <1>4, <2>1, <2>2
<1>7. Siblings(u, i) = {i}
  BY <1>3, <1>6 DEF Siblings
<1>8. Place(u, i) = 1
  BY <1>7, FS_Singleton DEF Place
<1>9. NamesBefore(u, i) = {}
  BY <1>7 DEF NamesBefore
<1> QED BY <1>5, <1>6, <1>8, <1>9 DEF u

-------------------------------------------------------------------------------
(* The parser stands where the grammar says: its stack is the chain of containers. *)

Containers ==
    [kind : {"object", "array"}, names : SUBSET {"type", "session.hello"},
     name : {"unnamed", "type", "session.hello"}, count : Nat]

\* What the text holds of container c before place i inside of it.
Holds(t, i, c) ==
    /\ t[Parent(t, i)] = (IF c.kind = "object" THEN "begin_object" ELSE "begin_array")
    /\ c.count = Place(t, i) \div (IF c.kind = "object" THEN 4 ELSE 2)
    /\ c.kind = "object" =>
           /\ NamesBefore(t, i) = c.names \cup (IF Place(t, i) % 4 \in {2, 3} THEN {c.name} ELSE {})
           /\ Place(t, i) % 4 \in {2, 3} => c.name # "unnamed"

\* What a parser expects at place i.
Expected(t, i) ==
    LET p == Place(t, i) IN
    IF Depth(t, i) = 0 THEN (IF p = 1 THEN "value" ELSE "end")
    ELSE IF t[Parent(t, i)] = "begin_object"
         THEN IF p % 4 = 0 THEN "after_member" ELSE IF p % 4 = 2 THEN "colon"
              ELSE IF p % 4 = 3 THEN "value" ELSE IF p = 1 THEN "first_member" ELSE "member"
         ELSE IF p % 2 = 0 THEN "after_element" ELSE IF p = 1 THEN "first_element" ELSE "element"

Stands(t, s, e, q) ==
    /\ Chain(t, q, Len(s))
    /\ \A j \in 1..Len(s) : Holds(t, q[j], s[j])
    /\ \A j \in 0..Len(s) : j < Len(s) => AtValue(t, q[j])
    /\ e = Expected(t, Len(t) + 1)
    /\ s = <<>> => Place(t, Len(t) + 1) \in {1, 2}

Standing(t, s, e) == WellNested(t) /\ \E q : Stands(t, s, e, q)

\* What a container holds before a place depends on the tokens before it only.
LEMMA HoldsPrefix ==
    ASSUME NEW t \in Texts, NEW x \in Tokens, NEW i \in 1..(Len(t) + 1), NEW c,
           WellNested(t), Depth(t, i) > 0, Holds(t, i, c)
    PROVE  Holds(Append(t, x), i, c)
<1> DEFINE u == Append(t, x)
<1>1. Nested(t, i) /\ Len(t) \in Nat
  BY AppendKeeps DEF WellNested
<1>2. Parent(t, i) \in 1..Len(t)
  BY <1>1 DEF Nested
<1>3. Parent(u, i) = Parent(t, i) /\ Place(u, i) = Place(t, i)
  BY <1>1, PlacePrefix DEF Nested
<1>4. u[Parent(u, i)] = t[Parent(t, i)]
  BY <1>2, <1>3, AppendKeeps
<1>5. NamesBefore(u, i) = NamesBefore(t, i)
  BY NamesPrefix
<1> QED BY <1>3, <1>4, <1>5 DEF Holds

\* The parser stands where it should after a token, when the innermost container does.
LEMMA StandStep ==
    ASSUME NEW t \in Texts, NEW x \in Tokens, NEW s \in Seq(Containers), NEW e, NEW q,
           Stands(t, s, e, q), WellNested(t),
           NEW r \in Seq(Containers), Leads(x, Len(s), Len(r)),
           \A j \in 1..Len(r) : j < Len(r) => r[j] = s[j],
           r # <<>> => Holds(Append(t, x), Len(t) + 2, r[Len(r)]),
           r = <<>> => Place(Append(t, x), Len(t) + 2) \in {1, 2},
           Len(r) = Len(s) + 1 => AtValue(t, Len(t) + 1)
    PROVE  Standing(Append(t, x), r, Expected(Append(t, x), Len(t) + 2))
<1> DEFINE u == Append(t, x)
           L == Len(s)
           M == Len(r)
           p == Onward(t, q, M)
<1>1. L \in Nat /\ M \in Nat /\ Chain(t, q, L)
  BY DEF Stands
<1>2. Chain(u, p, M) /\ WellNested(u)
  BY <1>1, ChainStep
<1>3. /\ u \in Texts /\ Len(u) + 1 = Len(t) + 2 /\ Len(t) \in Nat
  BY AppendKeeps
<1>4. \A j \in 0..M : j < M => j \in 0..L /\ p[j] = q[j] /\ q[j] \in 1..(Len(t) + 1)
  <2>1. \A j \in 0..M : j < M => j \in 0..L
    BY <1>1 DEF Leads
  <2>2. \A j \in 0..M : j < M => p[j] = q[j]
    BY <1>1 DEF Onward
  <2> QED BY <1>1, <2>1, <2>2 DEF Chain
<1>5. p[M] = Len(t) + 2
  BY <1>1 DEF Onward
<1> HIDE DEF p
<1>6. \A j \in 1..M : Holds(u, p[j], r[j])
  <2> SUFFICES ASSUME NEW j \in 1..M PROVE Holds(u, p[j], r[j])
    OBVIOUS
  <2>1. CASE j = M
    <3>1. r # <<>>
      BY <1>1, <2>1
    <3> QED BY <1>5, <2>1, <3>1
  <2>2. CASE j # M
    <3>1. j \in 0..M /\ j < M /\ j > 0
      BY <1>1, <2>2
    <3>2. j \in 1..L /\ p[j] = q[j] /\ q[j] \in 1..(Len(t) + 1) /\ r[j] = s[j]
      BY <1>4, <3>1
    <3>3. Holds(t, q[j], s[j]) /\ Depth(t, q[j]) > 0
      BY <1>1, <3>1, <3>2 DEF Stands, Chain
    <3> QED BY <3>2, <3>3, HoldsPrefix
  <2> QED BY <2>1, <2>2
<1>7. \A j \in 0..M : j < M => AtValue(u, p[j])
  <2> SUFFICES ASSUME NEW j \in 0..M, j < M PROVE AtValue(u, p[j])
    OBVIOUS
  <2>1. j \in 0..L /\ p[j] = q[j] /\ q[j] \in 1..(Len(t) + 1)
    BY <1>4
  <2>2. AtValue(t, q[j])
    <3>1. CASE j < L
      BY <2>1, <3>1 DEF Stands
    <3>2. CASE j = L
      <4>1. M = L + 1 /\ q[j] = Len(t) + 1
        BY <1>1, <3>2 DEF Leads, Chain
      <4> QED BY <4>1
    <3> QED BY <1>1, <2>1, <3>1, <3>2
  <2>3. Nested(t, q[j])
    BY <2>1 DEF WellNested
  <2> QED BY <2>1, <2>2, <2>3, RolePrefix
<1>8. Stands(u, r, Expected(u, Len(t) + 2), p)
  BY <1>2, <1>3, <1>6, <1>7 DEF Stands
<1> QED BY <1>2, <1>8 DEF Standing

\* The innermost container, and those around it.
LEMMA LastOfStack ==
    ASSUME NEW s \in Seq(Containers), s # <<>>
    PROVE  /\ Len(s) \in Nat \ {0} /\ Last(s) = s[Len(s)] /\ Last(s) \in Containers
           /\ Front(s) \in Seq(Containers) /\ Len(Front(s)) = Len(s) - 1
           /\ \A j \in 1..(Len(s) - 1) : Front(s)[j] = s[j]
<1>1. Len(s) \in Nat \ {0}
  BY EmptySeq
<1>2. Last(s) = s[Len(s)] /\ Last(s) \in Containers
  BY <1>1 DEF Last
<1>3. /\ Front(s) \in Seq(Containers) /\ Len(Front(s)) = Len(s) - 1
      /\ \A j \in 1..(Len(s) - 1) : Front(s)[j] = s[j]
  <2>1. Front(s) = [j \in 1..(Len(s) - 1) |-> s[j]]
    BY <1>1 DEF Front
  <2>2. \A j \in 1..(Len(s) - 1) : s[j] \in Containers
    BY <1>1
  <2>3. Len(s) - 1 \in Nat
    BY <1>1
  <2> QED BY <2>1, <2>2, <2>3
<1> QED BY <1>1, <1>2, <1>3

\* Another container in the place of the innermost: the rest of the stack stays.
LEMMA ReplaceLast ==
    ASSUME NEW s \in Seq(Containers), s # <<>>, NEW c \in Containers
    PROVE  /\ Front(s) \o <<c>> \in Seq(Containers) /\ Len(Front(s) \o <<c>>) = Len(s)
           /\ Front(s) \o <<c>> # <<>> /\ (Front(s) \o <<c>>)[Len(s)] = c
           /\ \A j \in 1..Len(s) : j < Len(s) => (Front(s) \o <<c>>)[j] = s[j]
<1> DEFINE f == Front(s)
<1>1. /\ Len(s) \in Nat \ {0} /\ f \in Seq(Containers) /\ Len(f) = Len(s) - 1
      /\ \A j \in 1..(Len(s) - 1) : f[j] = s[j]
  BY LastOfStack
<1> HIDE DEF f
<1>2. f \o <<c>> \in Seq(Containers) /\ Len(f \o <<c>>) = Len(s)
  BY <1>1
<1>3. (f \o <<c>>)[Len(s)] = c
  BY <1>1
<1>4. \A j \in 1..Len(s) : j < Len(s) => (f \o <<c>>)[j] = s[j]
  BY <1>1
<1>5. f \o <<c>> # <<>>
  BY <1>1, <1>2, EmptySeq
<1> QED BY <1>2, <1>3, <1>4, <1>5 DEF f

\* Where the parser stands: the innermost container is on top of its stack.
LEMMA TopStands ==
    ASSUME NEW t \in Texts, NEW s \in Seq(Containers), NEW e, NEW q,
           Stands(t, s, e, q), WellNested(t)
    PROVE  /\ Len(s) \in Nat /\ Len(t) \in Nat /\ q[Len(s)] = Len(t) + 1
           /\ Nested(t, Len(t) + 1) /\ Depth(t, Len(t) + 1) = Len(s)
           /\ Place(t, Len(t) + 1) \in Nat \ {0}
           /\ s # <<>> => /\ Holds(t, Len(t) + 1, Last(s))
                          /\ InObject(t, Len(t) + 1) <=> Last(s).kind = "object"
                          /\ InArray(t, Len(t) + 1) <=> Last(s).kind = "array"
           /\ s = <<>> => /\ Place(t, Len(t) + 1) \in {1, 2}
                          /\ ~InObject(t, Len(t) + 1) /\ ~InArray(t, Len(t) + 1)
<1> DEFINE i == Len(t) + 1
<1>1. Len(s) \in Nat /\ Len(t) \in Nat /\ i \in Nat /\ i \in 1..(Len(t) + 1)
  BY AppendKeeps DEF Texts
<1>2. q[Len(s)] = i /\ Depth(t, i) = Len(s)
  BY <1>1 DEF Stands, Chain
<1>3. Nested(t, i) /\ Place(t, i) \in Nat \ {0}
  BY <1>1, PlaceTyped DEF WellNested
<1>4. ASSUME s # <<>>
      PROVE  /\ Holds(t, i, Last(s))
             /\ InObject(t, i) <=> Last(s).kind = "object"
             /\ InArray(t, i) <=> Last(s).kind = "array"
  <2>1. Len(s) \in 1..Len(s) /\ Last(s) = s[Len(s)] /\ Last(s) \in Containers /\ Len(s) > 0
    BY <1>4, LastOfStack
  <2>2. Holds(t, i, Last(s))
    BY <1>2, <2>1 DEF Stands
  <2>3. Last(s).kind \in {"object", "array"}
    BY <2>1 DEF Containers
  <2> QED BY <1>2, <2>1, <2>2, <2>3 DEF Holds, InObject, InArray
<1>5. ASSUME s = <<>> PROVE Place(t, i) \in {1, 2} /\ ~InObject(t, i) /\ ~InArray(t, i)
  <2>1. Depth(t, i) = 0
    BY <1>2, <1>5
  <2>2. ~(Depth(t, i) > 0)
    BY <2>1
  <2>3. Place(t, i) \in {1, 2}
    BY <1>5 DEF Stands
  <2> QED BY <2>2, <2>3 DEF InObject, InArray
<1> QED BY <1>1, <1>2, <1>3, <1>4, <1>5

\* What a parser expects in an object, in an array and outside of both tells its place.
LEMMA ExpectedInObject ==
    ASSUME NEW t, NEW i, Place(t, i) \in Nat \ {0}, Depth(t, i) \in Nat, InObject(t, i)
    PROVE  /\ ~InArray(t, i)
           /\ Expected(t, i) = "value" <=> AtValue(t, i)
           /\ Expected(t, i) \in {"first_member", "member"} <=> AtName(t, i)
           /\ Expected(t, i) = "first_member" <=> Place(t, i) = 1
           /\ Expected(t, i) = "colon" <=> Place(t, i) % 4 = 2
           /\ Expected(t, i) = "after_member" <=> Place(t, i) % 4 = 0
           /\ Expected(t, i) \in {"value", "first_member", "member", "colon", "after_member"}
<1>1. Depth(t, i) # 0 /\ t[Parent(t, i)] = "begin_object"
  BY DEF InObject
<1>2. Place(t, i) % 4 \in {0, 1, 2, 3} /\ (Place(t, i) = 1 => Place(t, i) % 4 = 1)
  OBVIOUS
<1>3. ~InArray(t, i)
  BY <1>1 DEF InArray
<1>4. (AtValue(t, i) <=> Place(t, i) % 4 = 3) /\ (AtName(t, i) <=> Place(t, i) % 4 = 1)
  BY <1>1, <1>3, Zenon DEF AtValue, AtName
<1>5. Expected(t, i) =
        IF Place(t, i) % 4 = 0 THEN "after_member" ELSE IF Place(t, i) % 4 = 2 THEN "colon"
        ELSE IF Place(t, i) % 4 = 3 THEN "value"
        ELSE IF Place(t, i) = 1 THEN "first_member" ELSE "member"
  BY <1>1, Zenon DEF Expected
<1> QED BY <1>2, <1>3, <1>4, <1>5

\* In an array, where the parser stands is where the grammar is: at a value or after one.
LEMMA ExpectedInArray ==
    ASSUME NEW t, NEW i, Place(t, i) \in Nat \ {0}, Depth(t, i) \in Nat, InArray(t, i)
    PROVE  /\ ~InObject(t, i) /\ ~AtName(t, i)
           /\ Expected(t, i) \in {"first_element", "element"} <=> AtValue(t, i)
           /\ AtValue(t, i) <=> Place(t, i) % 2 = 1
           /\ Expected(t, i) = "first_element" <=> Place(t, i) = 1
           /\ Expected(t, i) = "after_element" <=> Place(t, i) % 2 = 0
           /\ Expected(t, i) \in {"first_element", "element", "after_element"}
<1>1. Depth(t, i) # 0 /\ t[Parent(t, i)] = "begin_array"
  BY DEF InArray
<1>2. Place(t, i) % 2 \in {0, 1} /\ (Place(t, i) = 1 => Place(t, i) % 2 = 1)
  OBVIOUS
<1>3. ~InObject(t, i)
  BY <1>1 DEF InObject
<1>4. (AtValue(t, i) <=> Place(t, i) % 2 = 1) /\ ~AtName(t, i)
  BY <1>1, <1>3, Zenon DEF AtValue, AtName
<1>5. Expected(t, i) =
        IF Place(t, i) % 2 = 0 THEN "after_element"
        ELSE IF Place(t, i) = 1 THEN "first_element" ELSE "element"
  BY <1>1 DEF Expected
<1> QED BY <1>2, <1>3, <1>4, <1>5

\* Outside of every container a text has one value and then its end.
LEMMA ExpectedOutside ==
    ASSUME NEW t, NEW i, Place(t, i) \in {1, 2}, Depth(t, i) = 0
    PROVE  /\ ~InObject(t, i) /\ ~InArray(t, i) /\ ~AtName(t, i)
           /\ AtValue(t, i) <=> Place(t, i) = 1
           /\ Expected(t, i) = IF AtValue(t, i) THEN "value" ELSE "end"
<1>1. ~InObject(t, i) /\ ~InArray(t, i)
  BY DEF InObject, InArray
<1> QED BY <1>1 DEF AtName, AtValue, Expected

-------------------------------------------------------------------------------
(* What a token does to the parser where the grammar allows it. *)

\* A container with its last value stored.
Stored(c) ==
    [c EXCEPT !.count = @ + 1, !.names = IF c.kind = "object" THEN @ \cup {c.name} ELSE @]

\* A value stored keeps the stack and its depth typed.
LEMMA StoredTyped ==
    ASSUME NEW c \in Containers, c.kind = "object" => c.name # "unnamed"
    PROVE  /\ Stored(c) \in Containers /\ Stored(c).kind = c.kind /\ Stored(c).name = c.name
           /\ Stored(c).count = c.count + 1
           /\ Stored(c).names = IF c.kind = "object" THEN c.names \cup {c.name} ELSE c.names
<1>1. /\ c.kind \in {"object", "array"} /\ c.names \in SUBSET {"type", "session.hello"}
      /\ c.name \in {"unnamed", "type", "session.hello"} /\ c.count \in Nat
      /\ c = [kind |-> c.kind, names |-> c.names, name |-> c.name, count |-> c.count]
  BY DEF Containers
<1> DEFINE names == IF c.kind = "object" THEN c.names \cup {c.name} ELSE c.names
<1>2. names \in SUBSET {"type", "session.hello"}
  BY <1>1
<1>3. Stored(c) = [c EXCEPT !.count = c.count + 1, !.names = names]
  BY DEF Stored
<1> HIDE DEF names
<1>4. Stored(c) = [kind |-> c.kind, names |-> names, name |-> c.name, count |-> c.count + 1]
  BY <1>1, <1>3
<1>5. c.count + 1 \in Nat
  <2>1. c.count \in Nat
    BY <1>1
  <2> QED BY <2>1
<1>6. Stored(c) \in Containers
  <2>1. c.kind \in {"object", "array"} /\ c.name \in {"unnamed", "type", "session.hello"}
    BY <1>1
  <2> QED BY <1>2, <1>4, <1>5, <2>1 DEF Containers
<1>7. /\ Stored(c).kind = c.kind /\ Stored(c).name = c.name
      /\ Stored(c).count = c.count + 1 /\ Stored(c).names = names
  BY <1>4
<1> QED BY <1>6, <1>7 DEF names

\* Storing a value changes the innermost container only.
LEMMA StoreKeeps ==
    ASSUME NEW s \in Seq(Containers), s # <<>> => Stored(Last(s)) \in Containers
    PROVE  /\ Store(s) \in Seq(Containers) /\ Len(Store(s)) = Len(s)
           /\ s = <<>> <=> Store(s) = <<>>
           /\ s # <<>> => Store(s)[Len(s)] = Stored(Last(s))
           /\ \A j \in 1..Len(s) : j < Len(s) => Store(s)[j] = s[j]
<1>1. CASE s = <<>>
  BY <1>1 DEF Store
<1>2. CASE s # <<>>
  <2>1. Store(s) = Front(s) \o <<Stored(Last(s))>>
    BY <1>2 DEF Store, Stored
  <2> QED BY <1>2, <2>1, ReplaceLast
<1> QED BY <1>1, <1>2

\* A value takes one place of its container, and one of its counts.
LEMMA StoredHolds ==
    ASSUME NEW t, NEW u, NEW i, NEW j, NEW c \in Containers,
           Depth(t, i) \in Nat \ {0}, Place(t, i) \in Nat \ {0}, AtValue(t, i), Holds(t, i, c),
           Depth(u, j) = Depth(t, i), Parent(u, j) = Parent(t, i),
           Place(u, j) = Place(t, i) + 1,
           NamesBefore(u, j) = NamesBefore(t, i), u[Parent(t, i)] = t[Parent(t, i)]
    PROVE  /\ Stored(c) \in Containers /\ Holds(u, j, Stored(c))
           /\ Expected(u, j) = IF c.kind = "object" THEN "after_member" ELSE "after_element"
<1> DEFINE p == Place(t, i)
<1>1. p \in Nat \ {0} /\ Depth(t, i) > 0 /\ Depth(t, i) # 0 /\ Depth(u, j) # 0
  OBVIOUS
<1>2. c.kind \in {"object", "array"} /\ c.count \in Nat
  BY DEF Containers
<1>3. CASE c.kind = "object"
  <2>1. InObject(t, i) /\ ~InArray(t, i)
    BY <1>1, <1>3 DEF Holds, InObject, InArray
  <2>2. p % 4 = 3
    BY <1>1, <2>1 DEF AtValue
  <2>3. (p + 1) % 4 = 0 /\ (p + 1) \div 4 = (p \div 4) + 1
    BY <1>1, <2>2
  <2>4. c.count = p \div 4 /\ NamesBefore(t, i) = c.names \cup {c.name} /\ c.name # "unnamed"
    BY <1>3, <2>2 DEF Holds
  <2>5. /\ Stored(c) \in Containers /\ Stored(c).kind = "object" /\ Stored(c).name = c.name
        /\ Stored(c).count = c.count + 1 /\ Stored(c).names = c.names \cup {c.name}
    BY <1>3, <2>4, StoredTyped
  <2>6. t[Parent(t, i)] = "begin_object"
    BY <1>3 DEF Holds
  <2> HIDE DEF p
  <2>7. Place(u, j) = p + 1
    BY DEF p
  <2>8. Holds(u, j, Stored(c))
    BY <2>3, <2>4, <2>5, <2>6, <2>7 DEF Holds
  <2>9. Expected(u, j) = "after_member"
    BY <1>1, <2>3, <2>6, <2>7 DEF Expected
  <2> QED BY <1>3, <2>5, <2>8, <2>9
<1>4. CASE c.kind = "array"
  <2>1. ~InObject(t, i)
    BY <1>4 DEF Holds, InObject
  <2>2. p % 2 = 1
    BY <1>1, <2>1 DEF AtValue
  <2>3. (p + 1) % 2 = 0 /\ (p + 1) \div 2 = (p \div 2) + 1
    BY <1>1, <2>2
  <2>4. c.count = p \div 2
    BY <1>4 DEF Holds
  <2>5. /\ Stored(c) \in Containers /\ Stored(c).kind = "array" /\ Stored(c).count = c.count + 1
    BY <1>4, StoredTyped
  <2>6. t[Parent(t, i)] = "begin_array"
    BY <1>4 DEF Holds
  <2> HIDE DEF p
  <2>7. Place(u, j) = p + 1
    BY DEF p
  <2>8. Holds(u, j, Stored(c))
    BY <2>3, <2>4, <2>5, <2>6, <2>7 DEF Holds
  <2>9. Expected(u, j) = "after_element"
    BY <1>1, <2>3, <2>6, <2>7 DEF Expected
  <2> QED BY <1>4, <2>5, <2>8, <2>9
<1> QED BY <1>2, <1>3, <1>4

\* Where a value stands no name does.
LEMMA ValueIsNoName ==
    ASSUME NEW t, NEW i, AtValue(t, i), Depth(t, i) \in Nat
    PROVE  ~AtName(t, i)
<1> SUFFICES ASSUME AtName(t, i) PROVE FALSE
  OBVIOUS
<1>1. InObject(t, i) /\ Place(t, i) % 4 = 1
  BY DEF AtName
<1>2. Depth(t, i) > 0 /\ Depth(t, i) # 0 /\ t[Parent(t, i)] = "begin_object"
  BY <1>1 DEF InObject
<1>3. ~InArray(t, i)
  BY <1>2 DEF InArray
<1>4. Place(t, i) % 4 = 3
  BY <1>2, <1>3 DEF AtValue
<1> QED BY <1>1, <1>4

\* A scalar, or the end of a container, is a value that the containers left open store.
LEMMA TakenStands ==
    ASSUME NEW t \in Texts, NEW x \in Tokens, NEW s \in Seq(Containers), NEW e, NEW q,
           Stands(t, s, e, q), WellNested(t), x \notin Opens,
           NEW o \in Seq(Containers), Leads(x, Len(s), Len(o)),
           \A j \in 1..Len(o) : o[j] = s[j], AtValue(t, q[Len(o)])
    PROVE  /\ Store(o) \in Seq(Containers) /\ Len(Store(o)) = Len(o)
           /\ Standing(Append(t, x), Store(o), AfterValue(o))
<1> DEFINE u == Append(t, x)
           M == Len(o)
           p == q[M]
           i == Len(t) + 2
<1>1. Len(s) \in Nat /\ M \in Nat /\ Chain(t, q, Len(s)) /\ Len(t) \in Nat
  BY AppendKeeps DEF Stands
<1>2. /\ Depth(u, i) = M /\ M \in 0..Len(s) /\ p \in 1..(Len(t) + 1)
      /\ Parent(u, i) = Parent(t, p) /\ Place(u, i) = Place(t, p) + 1
      /\ NamesBefore(u, i) = NamesUpTo(u, p)
  BY <1>1, NextSibling
<1>3. Nested(t, p) /\ Depth(t, p) = M /\ Place(t, p) \in Nat \ {0}
  <2>1. Nested(t, p) /\ p \in Nat
    BY <1>1, <1>2 DEF WellNested
  <2>2. Depth(t, p) = M
    BY <1>1, <1>2 DEF Chain
  <2>3. Place(t, p) \in Nat \ {0}
    BY <2>1, PlaceTyped
  <2> QED BY <2>1, <2>2, <2>3
<1>4. NamesBefore(u, i) = NamesBefore(t, p)
  <2>1. ~AtName(t, p)
    BY <1>1, <1>3, ValueIsNoName
  <2>2. ~AtName(u, p)
    BY <1>2, <1>3, <2>1, RolePrefix
  <2>3. NamesBefore(u, p) = NamesBefore(t, p)
    BY <1>2, NamesPrefix
  <2> QED BY <1>2, <2>2, <2>3 DEF NamesUpTo
<1>5. CASE M = 0
  <2>1. o = <<>> /\ Store(o) = <<>> /\ AfterValue(o) = "end" /\ <<>> \in Seq(Containers)
    BY <1>5, EmptySeq DEF Store, AfterValue
  <2>2. Place(t, p) = 1
    <3>1. ~(Depth(t, p) > 0)
      BY <1>3, <1>5
    <3> QED BY <3>1 DEF AtValue, InObject, InArray
  <2>3. Place(u, i) = 2 /\ Depth(u, i) = 0
    BY <1>2, <1>5, <2>2
  <2>4. Expected(u, i) = "end"
    BY <2>3 DEF Expected
  <2>5. Standing(u, <<>>, Expected(u, i))
    <3> DEFINE r == <<>>
    <3>1. r \in Seq(Containers) /\ Len(r) = 0 /\ r = <<>> /\ Leads(x, Len(s), Len(r))
      BY <1>5, <2>1
    <3>2. Place(u, i) \in {1, 2} /\ \A j \in 1..Len(r) : j < Len(r) => r[j] = s[j]
      BY <2>3, <3>1
    <3>3. Len(r) # Len(s) + 1
      BY <1>1, <3>1
    <3> HIDE DEF r
    <3>4. Standing(u, r, Expected(u, i))
      BY <3>1, <3>2, <3>3, StandStep
    <3> QED BY <3>4 DEF r
  <2> QED BY <2>1, <2>4, <2>5
<1>6. CASE M # 0
  <2> DEFINE c == o[M]
  <2>1. o # <<>> /\ M \in 1..M /\ Last(o) = c /\ c \in Containers /\ c = s[M] /\ M \in 1..Len(s)
    BY <1>1, <1>2, <1>6, EmptySeq DEF Last
  <2>2. Holds(t, p, c)
    BY <2>1 DEF Stands
  <2>3. u[Parent(t, p)] = t[Parent(t, p)]
    <3>1. Parent(t, p) \in 1..Len(t)
      BY <1>1, <1>2, <1>3, <1>6 DEF Nested
    <3> QED BY <3>1, AppendKeeps
  <2> HIDE DEF c, p, u, i, M
  <2>4. /\ Stored(c) \in Containers /\ Holds(u, i, Stored(c))
        /\ Expected(u, i) = IF c.kind = "object" THEN "after_member" ELSE "after_element"
    <3>1. Depth(t, p) \in Nat \ {0} /\ Place(t, p) \in Nat \ {0} /\ AtValue(t, p)
      BY <1>1, <1>3, <1>6 DEF M, p
    <3>2. /\ Depth(u, i) = Depth(t, p) /\ Parent(u, i) = Parent(t, p)
          /\ Place(u, i) = Place(t, p) + 1
      BY <1>2, <1>3
    <3> QED BY <1>4, <2>1, <2>2, <2>3, <3>1, <3>2, StoredHolds
  <2>5. Expected(u, i) = AfterValue(o)
    BY <2>1, <2>4 DEF AfterValue
  <2>6. /\ Store(o) \in Seq(Containers) /\ Len(Store(o)) = M /\ Store(o)[M] = Stored(c)
        /\ \A j \in 1..M : j < M => Store(o)[j] = o[j]
    BY <2>1, <2>4, StoreKeeps DEF M
  <2>7. Standing(u, Store(o), Expected(u, i))
    BY <1>1, <1>2, <1>6, <2>1, <2>4, <2>6, StandStep, EmptySeq DEF u, i, M
  <2> QED BY <2>5, <2>6, <2>7 DEF u, M
<1> QED BY <1>5, <1>6

\* A token that opens a container where a value may stand: the parser is inside it, at its start.
LEMMA OpenStands ==
    ASSUME NEW t \in Texts, NEW x \in Opens, NEW s \in Seq(Containers), NEW e, NEW q,
           Stands(t, s, e, q), WellNested(t), AtValue(t, Len(t) + 1),
           NEW c, c = (IF x = "begin_object" THEN NewObject ELSE NewArray)
    PROVE  /\ Append(s, c) \in Seq(Containers) /\ Len(Append(s, c)) = Len(s) + 1
           /\ Standing(Append(t, x), Append(s, c),
                       IF x = "begin_object" THEN "first_member" ELSE "first_element")
<1> DEFINE u == Append(t, x)
           i == Len(t) + 2
           r == Append(s, c)
<1>1. Len(s) \in Nat /\ Chain(t, q, Len(s)) /\ Len(t) \in Nat /\ x \in Tokens
  BY AppendKeeps, TokenKinds DEF Stands
<1>2. /\ Depth(u, i) = Len(s) + 1 /\ Parent(u, i) = Len(t) + 1 /\ Place(u, i) = 1
      /\ NamesBefore(u, i) = {}
  BY <1>1, FirstPlace
<1>3. u[Len(t) + 1] = x /\ x \in {"begin_object", "begin_array"}
  BY <1>1, AppendKeeps DEF Opens
<1>4. /\ c \in Containers /\ c.names = {} /\ c.count = 0
      /\ c.kind = (IF x = "begin_object" THEN "object" ELSE "array")
  BY DEF NewObject, NewArray, Containers
<1>5. /\ r \in Seq(Containers) /\ Len(r) = Len(s) + 1 /\ r[Len(r)] = c /\ r # <<>>
      /\ \A j \in 1..Len(r) : j < Len(r) => r[j] = s[j]
  BY <1>1, <1>4
<1>6. Holds(u, i, c)
  <2>1. 1 % 4 = 1 /\ 1 \div 4 = 0 /\ 1 \div 2 = 0
    OBVIOUS
  <2>2. u[Parent(u, i)] = IF c.kind = "object" THEN "begin_object" ELSE "begin_array"
    BY <1>2, <1>3, <1>4
  <2> QED BY <1>2, <1>4, <2>1, <2>2 DEF Holds
<1>7. Expected(u, i) = IF x = "begin_object" THEN "first_member" ELSE "first_element"
  <2>1. 1 % 4 = 1 /\ 1 % 2 = 1 /\ Depth(u, i) # 0 /\ u[Parent(u, i)] = x
    BY <1>1, <1>2, <1>3
  <2> HIDE DEF u, i
  <2> QED BY <1>2, <1>3, <2>1 DEF Expected
<1>8. Leads(x, Len(s), Len(r))
  BY <1>5 DEF Leads
<1> HIDE DEF r
<1>9. Standing(u, r, Expected(u, i))
  BY <1>1, <1>5, <1>6, <1>8, StandStep
<1> QED BY <1>5, <1>7, <1>9 DEF r

\* A token inside a container that is no value of it: the parser is at its next place.
LEMMA PlainStands ==
    ASSUME NEW t \in Texts, NEW x \in Plain, NEW s \in Seq(Containers), NEW e, NEW q,
           Stands(t, s, e, q), WellNested(t), s # <<>>
    PROVE  /\ Depth(Append(t, x), Len(t) + 2) = Len(s) /\ Len(s) \in Nat \ {0}
           /\ Place(Append(t, x), Len(t) + 2) = Place(t, Len(t) + 1) + 1
           /\ NamesBefore(Append(t, x), Len(t) + 2)
                = NamesBefore(t, Len(t) + 1)
                    \cup (IF AtName(t, Len(t) + 1) THEN {Spells[x]} ELSE {})
           /\ Append(t, x)[Parent(Append(t, x), Len(t) + 2)] = t[Parent(t, Len(t) + 1)]
           /\ \A r \in Seq(Containers) :
                /\ Len(r) = Len(s) /\ \A j \in 1..Len(s) : j < Len(s) => r[j] = s[j]
                /\ Holds(Append(t, x), Len(t) + 2, r[Len(s)])
                => Standing(Append(t, x), r, Expected(Append(t, x), Len(t) + 2))
<1> DEFINE u == Append(t, x)
           i == Len(t) + 2
           p == Len(t) + 1
<1>1. Len(s) \in Nat \ {0} /\ Chain(t, q, Len(s)) /\ Len(t) \in Nat /\ q[Len(s)] = p
  BY AppendKeeps, EmptySeq DEF Stands, Chain
<1>2. x \in Tokens /\ x \notin Opens /\ Leads(x, Len(s), Len(s))
  BY DEF Plain, Leads
<1>3. /\ Depth(u, i) = Len(s) /\ Parent(u, i) = Parent(t, p) /\ Place(u, i) = Place(t, p) + 1
      /\ NamesBefore(u, i) = NamesUpTo(u, p)
  BY <1>1, <1>2, NextSibling
<1>4. p \in 1..(Len(t) + 1) /\ Nested(t, p) /\ Depth(t, p) = Len(s) /\ u[p] = x
  BY <1>1, <1>2, AppendKeeps DEF WellNested, Chain
<1>5. NamesBefore(u, p) = NamesBefore(t, p) /\ (AtName(u, p) <=> AtName(t, p))
  BY <1>2, <1>4, NamesPrefix, RolePrefix
<1>6. NamesBefore(u, i) = NamesBefore(t, p) \cup (IF AtName(t, p) THEN {Spells[x]} ELSE {})
  BY <1>3, <1>4, <1>5 DEF NamesUpTo
<1>7. u[Parent(u, i)] = t[Parent(t, p)]
  <2>1. Parent(t, p) \in 1..Len(t)
    BY <1>1, <1>4 DEF Nested
  <2> QED BY <1>2, <1>3, <2>1, AppendKeeps
<1>8. ASSUME NEW r \in Seq(Containers), Len(r) = Len(s),
             \A j \in 1..Len(s) : j < Len(s) => r[j] = s[j], Holds(u, i, r[Len(s)])
      PROVE  Standing(u, r, Expected(u, i))
  <2>1. Leads(x, Len(s), Len(r)) /\ r # <<>> /\ Len(r) # Len(s) + 1
    BY <1>1, <1>2, <1>8, EmptySeq
  <2>2. \A j \in 1..Len(r) : j < Len(r) => r[j] = s[j]
    BY <1>8
  <2>3. Holds(u, i, r[Len(r)])
    BY <1>8
  <2> QED BY <1>2, <2>1, <2>2, <2>3, StandStep
<1> QED BY <1>1, <1>3, <1>6, <1>7, <1>8

\* Where a name or what follows a value stands, the text names what the object holds.
LEMMA HeldNames ==
    ASSUME NEW t, NEW i, NEW c, c.kind = "object", Holds(t, i, c), Place(t, i) % 4 \in {0, 1}
    PROVE  /\ t[Parent(t, i)] = "begin_object" /\ c.count = Place(t, i) \div 4
           /\ NamesBefore(t, i) = c.names
<1>1. Place(t, i) % 4 \notin {2, 3}
  OBVIOUS
<1>2. NamesBefore(t, i) = c.names \cup {}
  BY <1>1, Zenon DEF Holds
<1> QED BY <1>2 DEF Holds

\* A member's name: the parser keeps it with the object and is at the colon.
LEMMA NameStands ==
    ASSUME NEW t \in Texts, NEW x \in GoodStrings, NEW s \in Seq(Containers), NEW e, NEW q,
           Stands(t, s, e, q), WellNested(t), s # <<>>, Last(s).kind = "object",
           Place(t, Len(t) + 1) % 4 = 1,
           NEW c, c = [Last(s) EXCEPT !.name = Spells[x]]
    PROVE  /\ Front(s) \o <<c>> \in Seq(Containers) /\ Len(Front(s) \o <<c>>) = Len(s)
           /\ (Front(s) \o <<c>>)[Len(s)] = c /\ c.name = Spells[x]
           /\ Standing(Append(t, x), Front(s) \o <<c>>, "colon")
<1> DEFINE u == Append(t, x)
           i == Len(t) + 2
           p == Place(t, Len(t) + 1)
           r == Front(s) \o <<c>>
           top == Last(s)
<1>1. x \in Plain
  BY TokenKinds DEF Plain
<1>2. /\ Depth(u, i) = Len(s) /\ Len(s) \in Nat \ {0} /\ Place(u, i) = p + 1
      /\ NamesBefore(u, i)
           = NamesBefore(t, Len(t) + 1) \cup (IF AtName(t, Len(t) + 1) THEN {Spells[x]} ELSE {})
      /\ u[Parent(u, i)] = t[Parent(t, Len(t) + 1)]
      /\ \A v \in Seq(Containers) :
           /\ Len(v) = Len(s) /\ \A j \in 1..Len(s) : j < Len(s) => v[j] = s[j]
           /\ Holds(u, i, v[Len(s)])
           => Standing(u, v, Expected(u, i))
  BY <1>1, PlainStands
<1>3. /\ p \in Nat \ {0} /\ Holds(t, Len(t) + 1, top) /\ InObject(t, Len(t) + 1)
      /\ top \in Containers
  BY TopStands, LastOfStack
<1>4. AtName(t, Len(t) + 1)
  BY <1>3 DEF AtName
<1>5. p % 4 = 1 /\ (p + 1) % 4 = 2 /\ (p + 1) \div 4 = p \div 4
  BY <1>3
<1>6. /\ t[Parent(t, Len(t) + 1)] = "begin_object" /\ top.count = p \div 4
      /\ NamesBefore(t, Len(t) + 1) = top.names
  BY <1>3, <1>5, HeldNames
<1> HIDE DEF u, i, p, r, top
<1>7. Spells[x] \in {"type", "session.hello"}
  BY DEF GoodStrings, Spells
<1>8. /\ c \in Containers /\ c.kind = top.kind /\ c.names = top.names /\ c.count = top.count
      /\ c.name = Spells[x]
  <2>1. top = [kind |-> top.kind, names |-> top.names, name |-> top.name, count |-> top.count]
    BY <1>3 DEF Containers
  <2>2. c = [kind |-> top.kind, names |-> top.names, name |-> Spells[x], count |-> top.count]
    BY <2>1 DEF top
  <2>3. /\ top.kind \in {"object", "array"} /\ top.names \in SUBSET {"type", "session.hello"}
        /\ top.count \in Nat
    BY <1>3 DEF Containers
  <2>4. c \in Containers
    <3> DEFINE name == Spells[x]
    <3>1. name \in {"unnamed", "type", "session.hello"}
      BY <1>7
    <3> HIDE DEF name
    <3>2. [kind |-> top.kind, names |-> top.names, name |-> name, count |-> top.count]
             \in Containers
      BY <2>3, <3>1 DEF Containers
    <3> QED BY <2>2, <3>2 DEF name
  <2>5. c.kind = top.kind /\ c.names = top.names /\ c.count = top.count /\ c.name = Spells[x]
    BY <2>2
  <2> QED BY <2>4, <2>5
<1>9. /\ r \in Seq(Containers) /\ Len(r) = Len(s) /\ r[Len(s)] = c
      /\ \A j \in 1..Len(s) : j < Len(s) => r[j] = s[j]
  BY <1>8, ReplaceLast DEF r
<1>10. Holds(u, i, c)
  <2>1. c.kind = "object" /\ u[Parent(u, i)] = "begin_object" /\ c.count = Place(u, i) \div 4
    BY <1>2, <1>5, <1>6, <1>8 DEF top, p
  <2>2. NamesBefore(u, i) = c.names \cup {c.name} /\ c.name # "unnamed" /\ Place(u, i) % 4 = 2
    BY <1>2, <1>4, <1>5, <1>6, <1>7, <1>8
  <2> QED BY <2>1, <2>2 DEF Holds
<1>11. Expected(u, i) = "colon"
  BY <1>2, <1>5, <1>6 DEF Expected
<1>12. Standing(u, r, "colon")
  BY <1>2, <1>9, <1>10, <1>11
<1> QED BY <1>8, <1>9, <1>12 DEF u, r

\* What separates: the parser is at the value of a member, at the next member, at the next element.
LEMMA SeparatorStands ==
    ASSUME NEW t \in Texts, NEW x \in {"name_separator", "value_separator"},
           NEW s \in Seq(Containers), NEW e, NEW q,
           Stands(t, s, e, q), WellNested(t), s # <<>>,
           NEW p, p = Place(t, Len(t) + 1)
    PROVE  /\ Last(s).kind = "object" /\ p % 4 = 2 => Standing(Append(t, x), s, "value")
           /\ Last(s).kind = "object" /\ p % 4 = 0 => Standing(Append(t, x), s, "member")
           /\ Last(s).kind = "array" /\ p % 2 = 0 => Standing(Append(t, x), s, "element")
<1> DEFINE u == Append(t, x)
           i == Len(t) + 2
           top == Last(s)
<1>1. x \in Plain
  BY DEF Plain, Tokens, Opens, Closes
<1>2. /\ Depth(u, i) = Len(s) /\ Len(s) \in Nat \ {0} /\ Place(u, i) = p + 1
      /\ NamesBefore(u, i)
           = NamesBefore(t, Len(t) + 1) \cup (IF AtName(t, Len(t) + 1) THEN {Spells[x]} ELSE {})
      /\ u[Parent(u, i)] = t[Parent(t, Len(t) + 1)]
      /\ \A v \in Seq(Containers) :
           /\ Len(v) = Len(s) /\ \A j \in 1..Len(s) : j < Len(s) => v[j] = s[j]
           /\ Holds(u, i, v[Len(s)])
           => Standing(u, v, Expected(u, i))
  BY <1>1, PlainStands
<1>3. /\ p \in Nat \ {0} /\ Holds(t, Len(t) + 1, top) /\ top \in Containers /\ s[Len(s)] = top
      /\ InArray(t, Len(t) + 1) <=> top.kind = "array"
  BY TopStands, LastOfStack
<1>4. Holds(u, i, top) => Standing(u, s, Expected(u, i))
  BY <1>2, <1>3
<1> HIDE DEF u, i, top
<1>5. ASSUME top.kind = "object", p % 4 = 2
      PROVE  Standing(u, s, "value")
  <2>1. (p + 1) % 4 = 3 /\ (p + 1) \div 4 = p \div 4
    BY <1>3, <1>5
  <2>2. ~AtName(t, Len(t) + 1)
    BY <1>5 DEF AtName
  <2>3. /\ t[Parent(t, Len(t) + 1)] = "begin_object" /\ top.count = p \div 4
        /\ NamesBefore(t, Len(t) + 1) = top.names \cup {top.name} /\ top.name # "unnamed"
    BY <1>3, <1>5 DEF Holds
  <2>4. Holds(u, i, top)
    BY <1>2, <1>5, <2>1, <2>2, <2>3 DEF Holds
  <2>5. Expected(u, i) = "value"
    BY <1>2, <2>1, <2>3 DEF Expected
  <2> QED BY <1>4, <2>4, <2>5
<1>6. ASSUME top.kind = "object", p % 4 = 0
      PROVE  Standing(u, s, "member")
  <2>1. (p + 1) % 4 = 1 /\ (p + 1) \div 4 = p \div 4 /\ p + 1 # 1
    BY <1>3, <1>6
  <2>2. ~AtName(t, Len(t) + 1)
    BY <1>6 DEF AtName
  <2>3. /\ t[Parent(t, Len(t) + 1)] = "begin_object" /\ top.count = p \div 4
        /\ NamesBefore(t, Len(t) + 1) = top.names
    BY <1>3, <1>6, HeldNames
  <2>4. Holds(u, i, top)
    BY <1>2, <1>6, <2>1, <2>2, <2>3 DEF Holds
  <2>5. Expected(u, i) = "member"
    BY <1>2, <2>1, <2>3 DEF Expected
  <2> QED BY <1>4, <2>4, <2>5
<1>7. ASSUME top.kind = "array", p % 2 = 0
      PROVE  Standing(u, s, "element")
  <2>1. (p + 1) % 2 = 1 /\ (p + 1) \div 2 = p \div 2 /\ p + 1 # 1
    BY <1>3, <1>7
  <2>2. t[Parent(t, Len(t) + 1)] = "begin_array" /\ top.count = p \div 2
    BY <1>3, <1>7 DEF Holds
  <2>3. Holds(u, i, top)
    BY <1>2, <1>7, <2>1, <2>2 DEF Holds
  <2>4. Expected(u, i) = "element"
    BY <1>2, <2>1, <2>2 DEF Expected
  <2> QED BY <1>4, <2>3, <2>4
<1> QED BY <1>5, <1>6, <1>7 DEF u, top

-------------------------------------------------------------------------------
(* What the grammar says of the next token, told from where the parser stands. *)

\* The next token's own verdict depends on the tokens before it and on itself only.
LEMMA NextToken ==
    ASSUME NEW t \in Texts, NEW x \in Tokens, WellNested(t), NEW i, i = Len(t) + 1
    PROVE  /\ Depth(Append(t, x), i) = Depth(t, i) /\ Place(Append(t, x), i) = Place(t, i)
           /\ InObject(Append(t, x), i) <=> InObject(t, i)
           /\ InArray(Append(t, x), i) <=> InArray(t, i)
           /\ AtName(Append(t, x), i) <=> AtName(t, i)
           /\ AtValue(Append(t, x), i) <=> AtValue(t, i)
           /\ NameIsNew(Append(t, x), i) <=> Spells[x] \notin NamesBefore(t, i)
           /\ Append(t, x)[i] = x
           /\ {k \in 1..(i - 1) : AtName(Append(t, x), k) /\ Append(t, x)[k] \in GoodStrings}
                = NameTokens(t, Len(t))
<1> DEFINE u == Append(t, x)
<1>1. Len(t) \in Nat /\ i \in 1..(Len(t) + 1) /\ u[i] = x /\ \A k \in 1..Len(t) : u[k] = t[k]
  BY AppendKeeps
<1>2. Nested(t, i)
  BY <1>1 DEF WellNested
<1>3. Depth(u, i) = Depth(t, i) /\ Place(u, i) = Place(t, i)
  BY <1>1, <1>2, PlacePrefix DEF Nested
<1>4. /\ InObject(u, i) <=> InObject(t, i)
      /\ InArray(u, i) <=> InArray(t, i)
      /\ AtName(u, i) <=> AtName(t, i)
      /\ AtValue(u, i) <=> AtValue(t, i)
  BY <1>1, <1>2, RolePrefix
<1>5. NameIsNew(u, i) <=> Spells[x] \notin NamesBefore(t, i)
  BY <1>1, NamesPrefix, NewName
<1>6. \A k \in 1..Len(t) : AtName(u, k) <=> AtName(t, k)
  <2> SUFFICES ASSUME NEW k \in 1..Len(t) PROVE AtName(u, k) <=> AtName(t, k)
    OBVIOUS
  <2>1. k \in 1..(Len(t) + 1) /\ Nested(t, k)
    BY <1>1 DEF WellNested
  <2> QED BY <2>1, RolePrefix
<1>7. i - 1 = Len(t)
  BY <1>1
<1>8. {k \in 1..(i - 1) : AtName(u, k) /\ u[k] \in GoodStrings} = NameTokens(t, Len(t))
  BY <1>1, <1>6, <1>7 DEF NameTokens
<1> QED BY <1>1, <1>3, <1>4, <1>5, <1>8

\* Outside of all containers stands one object, and then the end.
LEMMA OutsideVerdict ==
    ASSUME NEW t \in Texts, NEW x \in Tokens, WellNested(t), NEW i, i = Len(t) + 1,
           Depth(t, i) = 0, Place(t, i) \in {1, 2}
    PROVE  /\ AtValue(t, i) => /\ Legal(Append(t, x), i) <=> x \in Scalars \cup Opens
                               /\ Exceeds(Append(t, x), i) <=> x = LongString
           /\ ~AtValue(t, i) =>
                /\ Legal(Append(t, x), i) <=> x = "end" /\ Append(t, x)[1] = "begin_object"
                /\ ~Exceeds(Append(t, x), i)
<1> DEFINE u == Append(t, x)
<1>1. ~InObject(t, i) /\ ~InArray(t, i) /\ ~AtName(t, i) /\ (AtValue(t, i) <=> Place(t, i) = 1)
  BY ExpectedOutside
<1>2. /\ Depth(u, i) = 0 /\ Place(u, i) = Place(t, i) /\ u[i] = x
      /\ ~InObject(u, i) /\ ~InArray(u, i) /\ ~AtName(u, i)
      /\ AtValue(u, i) <=> AtValue(t, i)
  BY <1>1, NextToken
<1>3. MaxDepth \in Nat \ {0}
  BY LimitAssumption
<1> HIDE DEF u
<1>4. Legal(u, i) <=> \/ AtValue(t, i) /\ x \in Scalars \cup Opens
                      \/ Place(t, i) = 2 /\ x = "end" /\ u[1] = "begin_object"
  BY <1>2, Zenon DEF Legal
<1>5. ~(Depth(u, i) + 1 > MaxDepth)
  BY <1>2, <1>3
<1>6. Exceeds(u, i) <=> AtValue(t, i) /\ x = LongString
  BY <1>2, <1>5, Zenon DEF Exceeds
<1> QED BY <1>1, <1>4, <1>6 DEF u

\* In an object.
LEMMA ObjectVerdict ==
    ASSUME NEW t \in Texts, NEW x \in Tokens, WellNested(t), NEW i, i = Len(t) + 1,
           InObject(t, i), NEW p \in Nat \ {0}, p = Place(t, i)
    PROVE  /\ p % 4 = 3 => /\ Legal(Append(t, x), i) <=> x \in Scalars \cup Opens
                           /\ Exceeds(Append(t, x), i) <=> \/ Depth(t, i) + 1 > MaxDepth
                                                           \/ x = LongString
           /\ p % 4 = 1 => /\ Legal(Append(t, x), i) <=>
                                \/ x \in GoodStrings /\ Spells[x] \notin NamesBefore(t, i)
                                \/ p = 1 /\ x = "end_object"
                           /\ Exceeds(Append(t, x), i) <=>
                                /\ ~(p = 1 /\ x = "end_object")
                                /\ \/ p \div 4 >= MaxObjectMembers
                                   \/ Cardinality(NameTokens(t, Len(t))) >= MaxMessageMembers
                                   \/ x = LongString
           /\ p % 4 = 2 => /\ Legal(Append(t, x), i) <=> x = "name_separator"
                           /\ ~Exceeds(Append(t, x), i)
           /\ p % 4 = 0 => /\ Legal(Append(t, x), i) <=> x \in {"value_separator", "end_object"}
                           /\ ~Exceeds(Append(t, x), i)
<1> DEFINE u == Append(t, x)
           n == Cardinality(NameTokens(t, Len(t)))
<1>1. Depth(t, i) > 0 /\ Depth(t, i) # 0 /\ ~InArray(t, i)
  <2>1. Depth(t, i) > 0 /\ t[Parent(t, i)] = "begin_object"
    BY DEF InObject
  <2> QED BY <2>1 DEF InArray
<1>2. /\ Depth(u, i) = Depth(t, i) /\ Place(u, i) = p /\ u[i] = x
      /\ InObject(u, i) /\ ~InArray(u, i)
      /\ AtName(u, i) <=> p % 4 = 1
      /\ AtValue(u, i) <=> p % 4 = 3
      /\ NameIsNew(u, i) <=> Spells[x] \notin NamesBefore(t, i)
      /\ Cardinality({k \in 1..(i - 1) : AtName(u, k) /\ u[k] \in GoodStrings}) = n
  <2>1. InObject(u, i) /\ ~InArray(u, i) /\ Depth(u, i) = Depth(t, i) /\ Place(u, i) = p
    BY <1>1, NextToken
  <2>2. (AtName(u, i) <=> p % 4 = 1) /\ (AtValue(u, i) <=> p % 4 = 3)
    BY <1>1, <2>1, Zenon DEF AtName, AtValue
  <2> QED BY <2>1, <2>2, NextToken
<1> HIDE DEF u, n
<1>3. x = LongString => x # "end_object"
  BY DEF LongString
<1>4. p % 4 \in {0, 1, 2, 3} /\ (p = 1 => p % 4 = 1)
  OBVIOUS
<1>5. Legal(u, i) <=>
        \/ p % 4 = 3 /\ x \in Scalars \cup Opens
        \/ p % 4 = 1 /\ x \in GoodStrings /\ Spells[x] \notin NamesBefore(t, i)
        \/ p % 4 = 2 /\ x = "name_separator"
        \/ p % 4 = 0 /\ x \in {"value_separator", "end_object"}
        \/ p = 1 /\ x = "end_object"
  BY <1>1, <1>2, Zenon DEF Legal
<1>6. Exceeds(u, i) <=>
        \/ p % 4 = 3 /\ ~(p = 1 /\ x = "end_object") /\ Depth(t, i) + 1 > MaxDepth
        \/ p % 4 = 1 /\ ~(p = 1 /\ x = "end_object") /\ p \div 4 >= MaxObjectMembers
        \/ p % 4 = 1 /\ ~(p = 1 /\ x = "end_object") /\ n >= MaxMessageMembers
        \/ (p % 4 = 1 \/ p % 4 = 3) /\ x = LongString
  BY <1>2, Zenon DEF Exceeds
<1>7. CASE p % 4 = 3
  BY <1>4, <1>5, <1>6, <1>7 DEF u, n
<1>8. CASE p % 4 = 1
  BY <1>3, <1>4, <1>5, <1>6, <1>8 DEF u, n
<1>9. CASE p % 4 = 2
  BY <1>4, <1>5, <1>6, <1>9 DEF u, n
<1>10. CASE p % 4 = 0
  BY <1>4, <1>5, <1>6, <1>10 DEF u, n
<1> QED BY <1>4, <1>7, <1>8, <1>9, <1>10

\* In an array.
LEMMA ArrayVerdict ==
    ASSUME NEW t \in Texts, NEW x \in Tokens, WellNested(t), NEW i, i = Len(t) + 1,
           InArray(t, i), NEW p \in Nat \ {0}, p = Place(t, i)
    PROVE  /\ p % 2 = 1 => /\ Legal(Append(t, x), i) <=>
                                \/ x \in Scalars \cup Opens
                                \/ p = 1 /\ x = "end_array"
                           /\ Exceeds(Append(t, x), i) <=>
                                \/ /\ ~(p = 1 /\ x = "end_array")
                                   /\ \/ Depth(t, i) + 1 > MaxDepth
                                      \/ p \div 2 >= MaxArrayElements
                                \/ x = LongString
           /\ p % 2 = 0 => /\ Legal(Append(t, x), i) <=> x \in {"value_separator", "end_array"}
                           /\ ~Exceeds(Append(t, x), i)
<1> DEFINE u == Append(t, x)
<1>1. Depth(t, i) > 0 /\ Depth(t, i) # 0 /\ ~InObject(t, i)
  <2>1. Depth(t, i) > 0 /\ t[Parent(t, i)] = "begin_array"
    BY DEF InArray
  <2> QED BY <2>1 DEF InObject
<1>2. /\ Depth(u, i) = Depth(t, i) /\ Place(u, i) = p /\ u[i] = x
      /\ InArray(u, i) /\ ~InObject(u, i) /\ ~AtName(u, i)
      /\ AtValue(u, i) <=> p % 2 = 1
  <2>1. InArray(u, i) /\ ~InObject(u, i) /\ Depth(u, i) = Depth(t, i) /\ Place(u, i) = p
    BY <1>1, NextToken
  <2>2. ~AtName(u, i) /\ (AtValue(u, i) <=> p % 2 = 1)
    BY <1>1, <2>1, Zenon DEF AtName, AtValue
  <2> QED BY <2>1, <2>2, NextToken
<1> HIDE DEF u
<1>3. p % 2 \in {0, 1} /\ (p = 1 => p % 2 = 1)
  OBVIOUS
<1>4. Legal(u, i) <=>
        \/ p % 2 = 1 /\ x \in Scalars \cup Opens
        \/ p % 2 = 0 /\ x \in {"value_separator", "end_array"}
        \/ p = 1 /\ x = "end_array"
  BY <1>1, <1>2, Zenon DEF Legal
<1>5. Exceeds(u, i) <=>
        \/ p % 2 = 1 /\ ~(p = 1 /\ x = "end_array") /\ Depth(t, i) + 1 > MaxDepth
        \/ p % 2 = 1 /\ ~(p = 1 /\ x = "end_array") /\ p \div 2 >= MaxArrayElements
        \/ p % 2 = 1 /\ x = LongString
  BY <1>2, Zenon DEF Exceeds
<1>6. CASE p % 2 = 1
  BY <1>3, <1>4, <1>5, <1>6 DEF u
<1>7. CASE p % 2 = 0
  BY <1>3, <1>4, <1>5, <1>7 DEF u
<1> QED BY <1>3, <1>6, <1>7

\* A member's name stands at k.
Named(t, k) == k >= 1 /\ AtName(t, k) /\ t[k] \in GoodStrings

\* Names are counted one by one.
LEMMA NamesCount ==
    ASSUME NEW t \in Texts, NEW x \in Tokens, WellNested(t)
    PROVE  /\ Cardinality(NameTokens(t, Len(t))) \in Nat
           /\ Cardinality(NameTokens(Append(t, x), Len(t) + 1)) =
                Cardinality(NameTokens(t, Len(t)))
                    + (IF AtName(t, Len(t) + 1) /\ x \in GoodStrings THEN 1 ELSE 0)
<1> DEFINE u == Append(t, x)
           i == Len(t) + 1
           N == NameTokens(t, Len(t))
<1>1. Len(t) \in Nat /\ i - 1 = Len(t) /\ i \in Nat \ {0}
  BY AppendKeeps
<1>2. /\ u[i] = x /\ (AtName(u, i) <=> AtName(t, i))
      /\ {k \in 1..Len(t) : AtName(u, k) /\ u[k] \in GoodStrings} = N
  BY <1>1, NextToken
<1>3. IsFiniteSet(1..Len(t)) /\ N \in SUBSET (1..Len(t))
  BY <1>1, FS_Interval DEF NameTokens
<1> HIDE DEF u, N
<1>4. IsFiniteSet(N)
  BY <1>3, FS_Subset
<1>5. Cardinality(N) \in Nat
  BY <1>4, FS_CardinalityType
<1>6. 1..i = 1..Len(t) \cup {i} /\ i \notin N
  BY <1>1, <1>3
<1>7. NameTokens(u, i) = N \cup (IF AtName(t, i) /\ x \in GoodStrings THEN {i} ELSE {})
  BY <1>2, <1>6 DEF NameTokens
<1>8. Cardinality(N \cup {i}) = Cardinality(N) + 1
  BY <1>4, <1>6, FS_AddElement
<1>9. CASE AtName(t, i) /\ x \in GoodStrings
  BY <1>5, <1>7, <1>8, <1>9 DEF u, N
<1>10. CASE ~(AtName(t, i) /\ x \in GoodStrings)
  <2>1. NameTokens(u, i) = N
    BY <1>7, <1>10
  <2> QED BY <1>5, <1>10, <2>1 DEF u, N
<1> QED BY <1>9, <1>10

\* A text becomes a hello with the value of the root's member type.
LEMMA HelloStep ==
    ASSUME NEW t \in Texts, NEW x \in Tokens, WellNested(t), NEW n, n = Len(t)
    PROVE  IsHello(Append(t, x)) <=>
             \/ IsHello(t)
             \/ /\ Named(t, n - 1) /\ Depth(t, n - 1) = 1 /\ Spells[t[n - 1]] = "type"
                /\ x = "'session.hello'"
<1> DEFINE u == Append(t, x)
           Says(v, i) == /\ Depth(v, i) = 1 /\ AtName(v, i) /\ v[i] \in GoodStrings
                         /\ Spells[v[i]] = "type"
<1>1. n \in Nat /\ Len(u) = n + 1 /\ u[n + 1] = x /\ \A k \in 1..n : u[k] = t[k]
  BY AppendKeeps
<1>2. \A i \in 1..n : Says(u, i) <=> Says(t, i)
  <2> SUFFICES ASSUME NEW i \in 1..n PROVE Says(u, i) <=> Says(t, i)
    OBVIOUS
  <2>1. i \in 1..(Len(t) + 1) /\ Nested(t, i) /\ u[i] = t[i]
    BY <1>1 DEF WellNested
  <2>2. AtName(u, i) <=> AtName(t, i)
    BY <2>1, RolePrefix
  <2>3. Depth(u, i) = Depth(t, i)
    BY <2>1, PlacePrefix
  <2> QED BY <2>1, <2>2, <2>3
<1>3. IsHello(u) <=>
        \E i \in 1..(n + 1) : Says(u, i) /\ i + 2 <= n + 1 /\ u[i + 2] = "'session.hello'"
  BY <1>1 DEF IsHello
<1>4. IsHello(t) <=> \E i \in 1..n : Says(t, i) /\ i + 2 <= n /\ t[i + 2] = "'session.hello'"
  BY DEF IsHello
<1>5. Named(t, n - 1) /\ Depth(t, n - 1) = 1 /\ Spells[t[n - 1]] = "type"
        <=> n - 1 >= 1 /\ Says(t, n - 1)
  BY DEF Named
<1> HIDE DEF Says, u
<1>6. ASSUME IsHello(u)
      PROVE  \/ IsHello(t)
             \/ n - 1 >= 1 /\ Says(t, n - 1) /\ x = "'session.hello'"
  <2>1. PICK i \in 1..(n + 1) : Says(u, i) /\ i + 2 <= n + 1 /\ u[i + 2] = "'session.hello'"
    BY <1>3, <1>6
  <2>2. i \in 1..n /\ Says(t, i)
    BY <1>1, <1>2, <2>1
  <2>3. CASE i = n - 1
    BY <1>1, <2>1, <2>2, <2>3
  <2>4. CASE i # n - 1
    <3>1. i + 2 <= n /\ i + 2 \in 1..n
      BY <1>1, <2>1, <2>2, <2>4
    <3> QED BY <1>1, <1>4, <2>1, <2>2, <3>1
  <2> QED BY <2>3, <2>4
<1>7. ASSUME IsHello(t) PROVE IsHello(u)
  <2>1. PICK i \in 1..n : Says(t, i) /\ i + 2 <= n /\ t[i + 2] = "'session.hello'"
    BY <1>4, <1>7
  <2>2. i \in 1..(n + 1) /\ i + 2 \in 1..n /\ i + 2 <= n + 1
    BY <1>1, <2>1
  <2> QED BY <1>1, <1>2, <1>3, <2>1, <2>2
<1>8. ASSUME n - 1 >= 1, Says(t, n - 1), x = "'session.hello'" PROVE IsHello(u)
  <2>1. n - 1 \in 1..n /\ n - 1 \in 1..(n + 1) /\ n - 1 + 2 = n + 1
    BY <1>1, <1>8
  <2>2. Says(u, n - 1)
    BY <1>2, <1>8, <2>1
  <2> QED BY <1>1, <1>3, <1>8, <2>1, <2>2
<1> QED BY <1>5, <1>6, <1>7, <1>8 DEF u

-------------------------------------------------------------------------------
(* The parser before a token, and the verdict it gives. *)

\* The name that a parser past it keeps for the value to come.
Naming(t, s, e) ==
    /\ e = "colon" <=> Named(t, Len(t))
    /\ e = "value" /\ s # <<>> <=> Named(t, Len(t) - 1)
    /\ e = "colon" => Depth(t, Len(t)) = Len(s) /\ Last(s).name = Spells[t[Len(t)]]
    /\ e = "value" /\ s # <<>> =>
           Depth(t, Len(t) - 1) = Len(s) /\ Last(s).name = Spells[t[Len(t) - 1]]

\* Nothing wrong so far, and the parser has kept of the text all it has to.
Ready(t, s, e, count) ==
    /\ t \in Texts /\ s \in Seq(Containers) /\ Len(s) <= MaxDepth /\ count <= MaxMessageMembers
    /\ Standing(t, s, e)
    /\ \A k \in 1..Len(t) : Legal(t, k) /\ ~Exceeds(t, k) /\ t[k] # "end"
    /\ count = Cardinality(NameTokens(t, Len(t)))
    /\ Naming(t, s, e)

\* Whether the text is a hello so far.
HelloKept(t, hello) == hello \in BOOLEAN /\ (hello <=> IsHello(t))

\* Of where the parser stands, its expectation and its innermost container tell all.
LEMMA Where ==
    ASSUME NEW t, NEW s, NEW e, NEW count, Ready(t, s, e, count),
           NEW i, i = Len(t) + 1, NEW p, p = Place(t, i)
    PROVE  /\ i \in Nat \ {0} /\ p \in Nat \ {0} /\ Depth(t, i) = Len(s) /\ Len(s) \in Nat
           /\ WellNested(t)
           /\ s = <<>> => /\ p \in {1, 2} /\ Depth(t, i) = 0 /\ e \in {"value", "end"}
                          /\ e = "value" <=> AtValue(t, i)
                          /\ ~AtName(t, i)
           /\ s # <<>> => Last(s) \in Containers /\ Last(s).kind \in {"object", "array"}
           /\ s # <<>> /\ Last(s).kind = "object" =>
                /\ InObject(t, i) /\ Holds(t, i, Last(s)) /\ Last(s).count = p \div 4
                /\ p % 4 \in {0, 1} => NamesBefore(t, i) = Last(s).names
                /\ e = "value" <=> AtValue(t, i)
                /\ e = "value" <=> p % 4 = 3
                /\ e \in {"first_member", "member"} <=> AtName(t, i)
                /\ e \in {"first_member", "member"} <=> p % 4 = 1
                /\ e = "first_member" <=> p = 1
                /\ e = "colon" <=> p % 4 = 2
                /\ e = "after_member" <=> p % 4 = 0
                /\ e \in {"value", "first_member", "member", "colon", "after_member"}
           /\ s # <<>> /\ Last(s).kind = "array" =>
                /\ InArray(t, i) /\ Holds(t, i, Last(s)) /\ Last(s).count = p \div 2
                /\ e \in {"first_element", "element"} <=> AtValue(t, i)
                /\ e \in {"first_element", "element"} <=> p % 2 = 1
                /\ e = "first_element" <=> p = 1
                /\ e = "after_element" <=> p % 2 = 0
                /\ e \in {"first_element", "element", "after_element"}
                /\ ~AtName(t, i)
<1>1. PICK q : Stands(t, s, e, q)
  BY DEF Ready, Standing
<1>2. /\ t \in Texts /\ s \in Seq(Containers) /\ WellNested(t) /\ e = Expected(t, i)
  BY <1>1 DEF Ready, Standing, Stands
<1>3. /\ Len(s) \in Nat /\ i \in Nat \ {0} /\ Depth(t, i) = Len(s) /\ p \in Nat \ {0}
      /\ s # <<>> => /\ Holds(t, i, Last(s))
                     /\ InObject(t, i) <=> Last(s).kind = "object"
                     /\ InArray(t, i) <=> Last(s).kind = "array"
      /\ s = <<>> => p \in {1, 2} /\ ~InObject(t, i) /\ ~InArray(t, i)
  BY <1>1, <1>2, TopStands
<1>4. ASSUME s = <<>>
      PROVE  /\ p \in {1, 2} /\ Depth(t, i) = 0 /\ e \in {"value", "end"}
             /\ e = "value" <=> AtValue(t, i)
             /\ ~AtName(t, i)
  <2>1. p \in {1, 2} /\ Depth(t, i) = 0
    BY <1>3, <1>4
  <2>2. e = IF AtValue(t, i) THEN "value" ELSE "end"
    BY <1>2, <2>1, ExpectedOutside
  <2>3. ~AtName(t, i)
    BY <2>1, ExpectedOutside
  <2> QED BY <2>1, <2>2, <2>3
<1>5. ASSUME s # <<>> PROVE Last(s) \in Containers /\ Last(s).kind \in {"object", "array"}
  BY <1>2, <1>5, LastOfStack DEF Containers
<1>6. ASSUME s # <<>>, Last(s).kind = "object"
      PROVE  /\ InObject(t, i) /\ Holds(t, i, Last(s)) /\ Last(s).count = p \div 4
             /\ p % 4 \in {0, 1} => NamesBefore(t, i) = Last(s).names
             /\ e = "value" <=> AtValue(t, i)
             /\ e = "value" <=> p % 4 = 3
             /\ e \in {"first_member", "member"} <=> AtName(t, i)
             /\ e \in {"first_member", "member"} <=> p % 4 = 1
             /\ e = "first_member" <=> p = 1
             /\ e = "colon" <=> p % 4 = 2
             /\ e = "after_member" <=> p % 4 = 0
             /\ e \in {"value", "first_member", "member", "colon", "after_member"}
  <2>1. InObject(t, i) /\ Holds(t, i, Last(s)) /\ Depth(t, i) \in Nat
    BY <1>3, <1>6
  <2>2. Last(s).count = p \div 4 /\ Depth(t, i) # 0 /\ Depth(t, i) > 0
    BY <1>6, <2>1 DEF Holds, InObject
  <2>3. p % 4 \in {0, 1} => NamesBefore(t, i) = Last(s).names
    BY <1>6, <2>1, HeldNames
  <2>4. /\ e = "value" <=> AtValue(t, i)
        /\ e \in {"first_member", "member"} <=> AtName(t, i)
        /\ e = "first_member" <=> p = 1
        /\ e = "colon" <=> p % 4 = 2
        /\ e = "after_member" <=> p % 4 = 0
        /\ e \in {"value", "first_member", "member", "colon", "after_member"}
        /\ ~InArray(t, i)
    BY <1>2, <1>3, <2>1, ExpectedInObject
  <2>5. AtName(t, i) <=> p % 4 = 1
    BY <2>1, Zenon DEF AtName
  <2>6. AtValue(t, i) <=> p % 4 = 3
    BY <2>1, <2>2, <2>4, Zenon DEF AtValue
  <2> QED BY <2>1, <2>2, <2>3, <2>4, <2>5, <2>6
<1>7. ASSUME s # <<>>, Last(s).kind = "array"
      PROVE  /\ InArray(t, i) /\ Holds(t, i, Last(s)) /\ Last(s).count = p \div 2
             /\ e \in {"first_element", "element"} <=> AtValue(t, i)
             /\ e \in {"first_element", "element"} <=> p % 2 = 1
             /\ e = "first_element" <=> p = 1
             /\ e = "after_element" <=> p % 2 = 0
             /\ e \in {"first_element", "element", "after_element"}
             /\ ~AtName(t, i)
  <2>1. InArray(t, i) /\ Holds(t, i, Last(s)) /\ Depth(t, i) \in Nat
    BY <1>3, <1>7
  <2>2. Last(s).count = p \div 2
    BY <1>7, <2>1 DEF Holds
  <2>3. /\ e \in {"first_element", "element"} <=> AtValue(t, i)
        /\ AtValue(t, i) <=> p % 2 = 1
        /\ e = "first_element" <=> p = 1
        /\ e = "after_element" <=> p % 2 = 0
        /\ e \in {"first_element", "element", "after_element"}
        /\ ~AtName(t, i)
    BY <1>2, <1>3, <2>1, ExpectedInArray
  <2> QED BY <2>1, <2>2, <2>3
<1> QED BY <1>2, <1>3, <1>4, <1>5, <1>6, <1>7

\* Whether the text is a hello then, told from where the parser stands.
LEMMA HelloHere ==
    ASSUME NEW t, NEW x \in Tokens, NEW s, NEW e, NEW count, Ready(t, s, e, count)
    PROVE  IsHello(Append(t, x)) <=>
             \/ IsHello(t)
             \/ /\ e = "value" /\ Len(s) = 1 /\ Last(s).name = "type"
                /\ x = "'session.hello'"
<1> DEFINE named == Named(t, Len(t) - 1)
           deep == Depth(t, Len(t) - 1) = 1
           type == Spells[t[Len(t) - 1]] = "type"
           kept == Last(s).name = "type"
           one == Len(s) = 1
           value == e = "value"
           told == x = "'session.hello'"
           already == IsHello(t)
           now == IsHello(Append(t, x))
<1>1. t \in Texts /\ WellNested(t) /\ Len(s) \in Nat
  BY Where DEF Ready
<1>2. now <=> already \/ (named /\ deep /\ type /\ told)
  BY <1>1, HelloStep
<1>3. one => s # <<>>
  <2>1. s = <<>> => Len(s) = 0
    OBVIOUS
  <2>2. Len(s) = 1 => Len(s) # 0
    OBVIOUS
  <2> QED BY <2>1, <2>2
<1>4. value /\ s # <<>> => (deep <=> one) /\ (type <=> kept)
  BY <1>1 DEF Ready, Naming
<1>5. value /\ s # <<>> <=> named
  BY DEF Ready, Naming
<1> HIDE DEF named, deep, type, kept, one, value, told, already, now
<1>6. now <=> already \/ (value /\ one /\ kept /\ told)
  BY <1>2, <1>3, <1>4, <1>5, Zenon
<1> QED BY <1>6 DEF kept, one, value, told, already, now

\* A parser that is ready remains so after a token the grammar allows, where it takes the
\* places the grammar says and counts a name.
LEMMA ReadyStep ==
    ASSUME NEW t, NEW x \in Tokens, NEW s, NEW e, NEW count,
           Ready(t, s, e, count), NEW i, i = Len(t) + 1,
           Legal(Append(t, x), i), ~Exceeds(Append(t, x), i), x # "end",
           NEW r \in Seq(Containers), Len(r) <= MaxDepth,
           NEW f, Standing(Append(t, x), r, f),
           NEW more, more <= MaxMessageMembers,
           more = count + (IF AtName(t, i) /\ x \in GoodStrings THEN 1 ELSE 0),
           f = "colon" <=> AtName(t, i) /\ x \in GoodStrings,
           f = "value" /\ r # <<>> <=> e = "colon",
           f = "colon" => Len(r) = Len(s) /\ Last(r).name = Spells[x],
           f = "value" /\ r # <<>> => r = s
    PROVE  Ready(Append(t, x), r, f, more)
<1> DEFINE u == Append(t, x)
<1>1. /\ t \in Texts /\ s \in Seq(Containers) /\ WellNested(t) /\ Len(s) \in Nat
      /\ i \in Nat \ {0} /\ Depth(t, i) = Len(s)
  BY Where DEF Ready
<1>2. /\ u \in Texts /\ Len(u) = i /\ Len(t) \in Nat /\ u[i] = x /\ i - 1 = Len(t)
      /\ \A k \in 1..Len(t) : u[k] = t[k]
  BY <1>1, AppendKeeps
<1>3. \A k \in 1..i : Legal(u, k) /\ ~Exceeds(u, k) /\ u[k] # "end"
  <2> SUFFICES ASSUME NEW k \in 1..i PROVE Legal(u, k) /\ ~Exceeds(u, k) /\ u[k] # "end"
    OBVIOUS
  <2>1. CASE k = i
    BY <1>2, <2>1
  <2>2. CASE k # i
    <3>1. k \in 1..Len(t)
      BY <1>1, <1>2, <2>2
    <3>2. Legal(t, k) /\ ~Exceeds(t, k) /\ t[k] # "end"
      BY <3>1 DEF Ready
    <3> QED BY <1>1, <1>2, <3>1, <3>2, VerdictPrefix
  <2> QED BY <2>1, <2>2
<1>4. more = Cardinality(NameTokens(u, i))
  BY <1>1, NamesCount DEF Ready
<1>5. /\ e = "value" /\ s # <<>> <=> Named(t, Len(t) - 1)
      /\ e = "value" /\ s # <<>> =>
             Depth(t, Len(t) - 1) = Len(s) /\ Last(s).name = Spells[t[Len(t) - 1]]
      /\ e = "colon" <=> Named(t, Len(t))
      /\ e = "colon" => Depth(t, Len(t)) = Len(s) /\ Last(s).name = Spells[t[Len(t)]]
  BY DEF Ready, Naming
<1>7. Naming(u, r, f)
  <2>1. /\ Depth(u, i) = Depth(t, i) /\ u[i] = x
        /\ AtName(u, i) <=> AtName(t, i)
    BY <1>1, NextToken
  <2>2. Named(u, i) <=> AtName(t, i) /\ x \in GoodStrings
    BY <1>1, <2>1 DEF Named
  <2>3. CASE Len(t) = 0
    <3>1. i - 1 = 0 /\ ~Named(u, i - 1) /\ ~Named(t, Len(t))
      BY <1>2, <2>3 DEF Named
    <3>2. e # "colon"
      BY <1>5, <3>1
    <3> QED BY <1>1, <1>2, <2>1, <2>2, <3>1, <3>2 DEF Naming
  <2>4. CASE Len(t) # 0
    <3>1. Len(t) \in 1..(Len(t) + 1) /\ Len(t) \in 1..Len(t)
      BY <1>2, <2>4
    <3>2. Nested(t, Len(t)) /\ u[Len(t)] = t[Len(t)]
      BY <1>1, <1>2, <3>1 DEF WellNested
    <3>3. (AtName(u, Len(t)) <=> AtName(t, Len(t))) /\ Depth(u, Len(t)) = Depth(t, Len(t))
      BY <1>1, <3>1, <3>2, RolePrefix, PlacePrefix
    <3>4. Named(u, i - 1) <=> e = "colon"
      BY <1>2, <1>5, <3>2, <3>3 DEF Named
    <3>5. f = "colon" => Depth(u, Len(u)) = Len(r) /\ Last(r).name = Spells[u[Len(u)]]
      BY <1>1, <1>2, <2>1
    <3>6. f = "value" /\ r # <<>> =>
             Depth(u, Len(u) - 1) = Len(r) /\ Last(r).name = Spells[u[Len(u) - 1]]
      BY <1>2, <1>5, <3>2, <3>3
    <3>7. f = "colon" <=> Named(u, Len(u))
      BY <1>2, <2>2
    <3>8. f = "value" /\ r # <<>> <=> Named(u, Len(u) - 1)
      BY <1>2, <3>4
    <3> QED BY <3>5, <3>6, <3>7, <3>8 DEF Naming
  <2> QED BY <2>3, <2>4
<1> QED BY <1>2, <1>3, <1>4, <1>7 DEF Ready

\* The parser has looked at one token more: it is ready for the next, or has refused the text
\* for the reason the grammar gives.
Judged ==
    /\ expect' \in Places
    /\ \/ /\ status' = "parsing" /\ Ready(text', stack', expect', total')
          /\ HelloKept(text', isHello')
       \/ /\ UNCHANGED <<stack, expect, total, isHello>>
          /\ \/ status' = "GM_BAD_MESSAGE" /\ ~Legal(text', Len(text'))
             \/ status' = "GM_LIMIT_EXCEEDED" /\ Exceeds(text', Len(text'))

Looking(token) ==
    /\ Ready(text, stack, expect, total) /\ HelloKept(text, isHello)
    /\ expect \in Places /\ status = "parsing"
    /\ text' = Append(text, token)

\* What is known where a token is looked at.
LEMMA LookingAt ==
    ASSUME NEW token \in Tokens, Looking(token)
    PROVE  /\ text \in Texts /\ stack \in Seq(Containers) /\ WellNested(text)
           /\ Len(stack) \in Nat /\ Len(stack) <= MaxDepth
           /\ Ready(text, stack, expect, total) /\ HelloKept(text, isHello)
           /\ text' = Append(text, token) /\ Len(text') = Len(text) + 1 /\ Len(text) \in Nat
           /\ expect \in Places /\ total <= MaxMessageMembers /\ total \in Nat
           /\ \E q : Stands(text, stack, expect, q)
<1>1. Ready(text, stack, expect, total) /\ text' = Append(text, token) /\ expect \in Places
  BY DEF Looking
<1>2. /\ text \in Texts /\ stack \in Seq(Containers) /\ WellNested(text) /\ Len(stack) \in Nat
      /\ Len(stack) <= MaxDepth /\ total <= MaxMessageMembers
      /\ total = Cardinality(NameTokens(text, Len(text)))
  BY <1>1, Where DEF Ready
<1>3. total \in Nat
  BY <1>2, NamesCount
<1>4. Len(text') = Len(text) + 1 /\ Len(text) \in Nat
  BY <1>1, <1>2, AppendKeeps
<1>5. \E q : Stands(text, stack, expect, q)
  BY <1>1 DEF Ready, Standing
<1> QED BY <1>1, <1>2, <1>3, <1>4, <1>5 DEF Looking

\* A list with one entry is not empty.
LEMMA OneIsSome ==
    ASSUME NEW s, Len(s) = 1
    PROVE  s # <<>>
<1>1. s = <<>> => Len(s) = 0
  OBVIOUS
<1>2. Len(s) # 0
  OBVIOUS
<1> QED BY <1>1, <1>2

\* parse_value judges as the grammar does, wherever a value may stand.
LEMMA ParseValueJudged ==
    ASSUME NEW token \in Tokens, Looking(token), ParseValue(token),
           NEW i, i = Len(text) + 1, AtValue(text, i), expect # "colon",
           Legal(text', i) <=> token \in Scalars \cup Opens,
           Exceeds(text', i) <=> Len(stack) + 1 > MaxDepth \/ token = LongString,
           stack # <<>> => (Top.kind = "object" <=> expect = "value")
    PROVE  Judged
<1>1. PICK q : Stands(text, stack, expect, q)
  BY LookingAt
<1>2. /\ text \in Texts /\ stack \in Seq(Containers) /\ WellNested(text) /\ Len(stack) \in Nat
      /\ i \in Nat \ {0} /\ Depth(text, i) = Len(stack)
      /\ Ready(text, stack, expect, total)
      /\ expect \in Places /\ text' = Append(text, token)
      /\ total <= MaxMessageMembers /\ HelloKept(text, isHello) /\ total \in Nat
  BY LookingAt, Where
<1>3. Len(text') = i
  BY <1>2, AppendKeeps
<1>4. MaxDepth \in Nat
  BY LimitAssumption
<1>5. ~AtName(text, i)
  BY <1>2, ValueIsNoName
<1>6. CASE Len(stack) + 1 > MaxDepth
  <2>1. Return("GM_LIMIT_EXCEEDED")
    BY <1>2, <1>4, <1>6 DEF ParseValue
  <2>2. status' = "GM_LIMIT_EXCEEDED" /\ UNCHANGED <<stack, expect, total, isHello>>
    BY <2>1 DEF Return
  <2> QED BY <1>2, <1>3, <1>6, <2>2 DEF Judged
<1>7. CASE Len(stack) + 1 <= MaxDepth /\ token \in Opens
  <2> DEFINE c == IF token = "begin_object" THEN NewObject ELSE NewArray
             f == IF token = "begin_object" THEN "first_member" ELSE "first_element"
             r == Append(stack, c)
  <2>1. ~(Len(stack) + 1 > MaxDepth) /\ token \notin Scalars /\ token # LongString
    BY <1>2, <1>4, <1>7, TokenKinds
  <2>2. /\ stack' = r /\ expect' = f
        /\ UNCHANGED <<total, isHello, status>>
    BY <1>7, <2>1 DEF ParseValue
  <2>3. r \in Seq(Containers) /\ Len(r) = Len(stack) + 1 /\ Standing(text', r, f)
    BY <1>1, <1>2, <1>7, OpenStands
  <2>4. Legal(text', i) /\ ~Exceeds(text', i) /\ token # "end" /\ token # "'session.hello'"
    BY <1>7, <2>1, TokenKinds DEF Opens, LongString
  <2>5. f # "colon" /\ f # "value" /\ f \in Places
    BY DEF Places
  <2> HIDE DEF r, f
  <2>6. Ready(text', r, f, total)
    BY <1>2, <1>5, <1>7, <2>3, <2>4, <2>5, ReadyStep
  <2>7. HelloKept(text', isHello)
    BY <1>2, <2>4, HelloHere DEF HelloKept
  <2> QED BY <2>2, <2>5, <2>6, <2>7 DEF Judged, Looking
<1>8. CASE Len(stack) + 1 <= MaxDepth /\ token \in Scalars
  <2> DEFINE r == Store(stack)
             f == AfterValue(stack)
             h == isHello \/ NamesHello(token)
  <2>1. /\ ~(Len(stack) + 1 > MaxDepth) /\ token \notin Opens \cup Closes
        /\ token # "end" /\ token # LongString
    BY <1>2, <1>4, <1>8, TokenKinds
  <2>2. stack' = r /\ expect' = f /\ isHello' = h /\ UNCHANGED <<total, status>>
    BY <1>8, <2>1 DEF ParseValue, ValueDone
  <2>3. Leads(token, Len(stack), Len(stack)) /\ AtValue(text, q[Len(stack)])
    BY <1>1, <1>2, <2>1 DEF Leads, Plain, Stands, Chain
  <2>4. r \in Seq(Containers) /\ Len(r) = Len(stack) /\ Standing(text', r, f)
    BY <1>1, <1>2, <2>1, <2>3, TakenStands
  <2>5. Legal(text', i) /\ ~Exceeds(text', i)
    BY <1>8, <2>1, TokenKinds
  <2>6. f # "colon" /\ f # "value" /\ f \in Places
    BY DEF Places, AfterValue
  <2>7. HelloKept(text', h)
    <3>1. Len(stack) = 1 => (Top.kind = "object" <=> expect = "value")
      BY OneIsSome
    <3>2. NamesHello(token) <=> /\ expect = "value" /\ Len(stack) = 1
                                /\ Last(stack).name = "type" /\ token = "'session.hello'"
      BY <3>1, Zenon DEF NamesHello, Top
    <3>3. IsHello(text') <=> IsHello(text) \/ NamesHello(token)
      BY <1>2, <3>2, HelloHere
    <3>4. h \in BOOLEAN
      BY <1>2 DEF HelloKept
    <3>5. isHello <=> IsHello(text)
      BY <1>2 DEF HelloKept
    <3>6. h <=> IsHello(text')
      BY <3>3, <3>5
    <3> QED BY <3>4, <3>6 DEF HelloKept
  <2> HIDE DEF r, f, h
  <2>8. Len(r) <= MaxDepth
    BY <1>2, <1>4, <1>8, <2>4
  <2>9. Ready(text', r, f, total)
    BY <1>2, <1>5, <2>1, <2>4, <2>5, <2>6, <2>8, ReadyStep
  <2> QED BY <2>2, <2>6, <2>7, <2>9 DEF Judged, Looking
<1>9. CASE Len(stack) + 1 <= MaxDepth /\ token = LongString
  <2>1. ~(Len(stack) + 1 > MaxDepth) /\ token \notin Opens /\ token \notin Scalars
    BY <1>2, <1>4, <1>9, TokenKinds
  <2>2. Return("GM_LIMIT_EXCEEDED")
    BY <1>9, <2>1 DEF ParseValue
  <2>3. status' = "GM_LIMIT_EXCEEDED" /\ UNCHANGED <<stack, expect, total, isHello>>
    BY <2>2 DEF Return
  <2> QED BY <1>2, <1>3, <1>9, <2>3 DEF Judged
<1>10. CASE Len(stack) + 1 <= MaxDepth /\ token \notin Opens \cup Scalars \cup {LongString}
  <2>1. ~(Len(stack) + 1 > MaxDepth)
    BY <1>2, <1>4, <1>10
  <2>2. Return("GM_BAD_MESSAGE")
    BY <1>10, <2>1 DEF ParseValue
  <2>3. status' = "GM_BAD_MESSAGE" /\ UNCHANGED <<stack, expect, total, isHello>>
    BY <2>2 DEF Return
  <2> QED BY <1>2, <1>3, <1>10, <2>3 DEF Judged
<1>11. Len(stack) + 1 > MaxDepth \/ Len(stack) + 1 <= MaxDepth
  BY <1>2, <1>4
<1> QED BY <1>6, <1>7, <1>8, <1>9, <1>10, <1>11

\* A refusal for the right reason.
LEMMA RefusedJudged ==
    ASSUME NEW token \in Tokens, Looking(token), NEW i, i = Len(text) + 1,
           \/ Return("GM_BAD_MESSAGE") /\ ~Legal(text', i)
           \/ Return("GM_LIMIT_EXCEEDED") /\ Exceeds(text', i)
    PROVE  Judged
<1>1. Len(text') = i
  BY AppendKeeps DEF Looking, Ready
<1>2. expect \in Places /\ UNCHANGED <<stack, expect, total, isHello>>
  BY DEF Looking, Return
<1>3. \/ status' = "GM_BAD_MESSAGE" /\ ~Legal(text', i)
      \/ status' = "GM_LIMIT_EXCEEDED" /\ Exceeds(text', i)
  BY DEF Return
<1> QED BY <1>1, <1>2, <1>3 DEF Judged

\* A container ends where it may: its value is stored in the one around it.
LEMMA CloseJudged ==
    ASSUME NEW token \in Closes, Looking(token), Close, stack # <<>>,
           NEW i, i = Len(text) + 1, expect # "colon",
           Legal(text', i), ~Exceeds(text', i)
    PROVE  Judged
<1> DEFINE o == Front(stack)
           r == Store(o)
           f == AfterValue(o)
<1>0. /\ token \in Tokens /\ token \notin Opens /\ token \notin GoodStrings /\ token # "end"
      /\ token # "'session.hello'"
  BY TokenKinds DEF Closes, Opens, GoodStrings, Spells
<1>1. PICK q : Stands(text, stack, expect, q)
  BY <1>0, LookingAt
<1>2. /\ text \in Texts /\ stack \in Seq(Containers) /\ WellNested(text) /\ Len(stack) \in Nat
      /\ Ready(text, stack, expect, total) /\ text' = Append(text, token)
      /\ total <= MaxMessageMembers /\ HelloKept(text, isHello) /\ total \in Nat
      /\ Len(stack) <= MaxDepth
  BY <1>0, LookingAt
<1>3. /\ Len(stack) \in Nat \ {0} /\ o \in Seq(Containers) /\ Len(o) = Len(stack) - 1
      /\ \A j \in 1..(Len(stack) - 1) : o[j] = stack[j]
  BY <1>2, LastOfStack
<1> HIDE DEF o
<1>4. Leads(token, Len(stack), Len(o)) /\ AtValue(text, q[Len(o)])
  <2>1. Len(o) \in 0..Len(stack) /\ Len(o) < Len(stack)
    BY <1>3
  <2> QED BY <1>1, <1>3, <2>1 DEF Leads, Stands
<1>5. r \in Seq(Containers) /\ Len(r) = Len(o) /\ Standing(text', r, f)
  <2>1. o \in Seq(Containers) /\ \A j \in 1..Len(o) : o[j] = stack[j]
    BY <1>3
  <2>2. /\ Store(o) \in Seq(Containers) /\ Len(Store(o)) = Len(o)
        /\ Standing(Append(text, token), Store(o), AfterValue(o))
    <3> HIDE DEF r, f
    <3> QED BY <1>0, <1>1, <1>2, <1>4, <2>1, TakenStands
  <2> QED BY <1>2, <2>2
<1>6. f # "colon" /\ f # "value" /\ f \in Places
  BY DEF Places, AfterValue
<1>7. stack' = r /\ expect' = f /\ UNCHANGED <<total, status, isHello>>
  BY DEF Close, ValueDone, o
<1> HIDE DEF r, f
<1>8. MaxDepth \in Nat /\ Len(r) <= MaxDepth
  BY <1>2, <1>3, <1>5, LimitAssumption
<1>9. Ready(text', r, f, total)
  BY <1>0, <1>2, <1>5, <1>6, <1>8, ReadyStep
<1>10. HelloKept(text', isHello)
  BY <1>0, <1>2, HelloHere DEF HelloKept
<1> QED BY <1>6, <1>7, <1>9, <1>10 DEF Judged, Looking

\* A separator where it may stand.
LEMMA SeparatorJudged ==
    ASSUME NEW token \in {"name_separator", "value_separator"}, Looking(token), stack # <<>>,
           NEW i, i = Len(text) + 1, Legal(text', i), ~Exceeds(text', i),
           NEW p, p = Place(text, i),
           NEW f, expect' = f, UNCHANGED <<stack, total, isHello, status>>,
           \/ Top.kind = "object" /\ p % 4 = 2 /\ f = "value" /\ expect = "colon"
           \/ Top.kind = "object" /\ p % 4 = 0 /\ f = "member" /\ expect # "colon"
           \/ Top.kind = "array" /\ p % 2 = 0 /\ f = "element" /\ expect # "colon"
    PROVE  Judged
<1>0. /\ token \in Tokens /\ token \notin GoodStrings /\ token # "end"
      /\ token # "'session.hello'"
  BY DEF Tokens, GoodStrings, Spells
<1>1. PICK q : Stands(text, stack, expect, q)
  BY <1>0, LookingAt
<1>2. /\ text \in Texts /\ stack \in Seq(Containers) /\ WellNested(text)
      /\ Ready(text, stack, expect, total) /\ text' = Append(text, token)
      /\ total <= MaxMessageMembers /\ HelloKept(text, isHello) /\ total \in Nat
      /\ Len(stack) <= MaxDepth
  BY <1>0, LookingAt
<1>3. Standing(text', stack, f)
  BY <1>1, <1>2, SeparatorStands DEF Top
<1>4. f # "colon" /\ f \in Places /\ (f = "value" <=> expect = "colon")
  BY DEF Places
<1>5. Ready(text', stack, f, total)
  BY <1>0, <1>2, <1>3, <1>4, ReadyStep
<1>6. HelloKept(text', isHello)
  BY <1>0, <1>2, HelloHere DEF HelloKept
<1> QED BY <1>4, <1>5, <1>6 DEF Judged, Looking

\* What the parser expects tells what it is inside of.
LEMMA InsideHere ==
    ASSUME Ready(text, stack, expect, total)
    PROVE  /\ expect = "value" => stack = <<>> \/ Top.kind = "object"
           /\ expect \in {"first_member", "member", "colon", "after_member"} =>
                stack # <<>> /\ Top.kind = "object"
           /\ expect \in {"first_element", "element", "after_element"} =>
                stack # <<>> /\ Top.kind = "array"
           /\ expect = "end" => stack = <<>>
<1>1. stack = <<>> => expect \in {"value", "end"}
  BY Where
<1>2. stack # <<>> => Top.kind \in {"object", "array"}
  BY Where DEF Top
<1>3. stack # <<>> /\ Top.kind = "object" =>
         expect \in {"value", "first_member", "member", "colon", "after_member"}
  BY Where DEF Top
<1>4. stack # <<>> /\ Top.kind = "array" =>
         expect \in {"first_element", "element", "after_element"}
  BY Where DEF Top
<1> QED BY <1>1, <1>2, <1>3, <1>4

\* parse, where it starts, and parse_object past the colon: a value.
LEMMA ValueJudged ==
    ASSUME NEW token \in Tokens, Looking(token), Value(token)
    PROVE  Judged
<1> DEFINE i == Len(text) + 1
           p == Place(text, i)
<1>1. expect = "value" /\ ParseValue(token)
  BY DEF Value
<1>2. /\ text \in Texts /\ WellNested(text) /\ Ready(text, stack, expect, total)
      /\ text' = Append(text, token) /\ Len(stack) \in Nat
      /\ stack = <<>> \/ Top.kind = "object"
  BY <1>1, LookingAt, InsideHere
<1>3. /\ AtValue(text, i)
      /\ Legal(text', i) <=> token \in Scalars \cup Opens
      /\ Exceeds(text', i) <=> Len(stack) + 1 > MaxDepth \/ token = LongString
  <2>1. CASE stack = <<>>
    <3>1. p \in {1, 2} /\ Depth(text, i) = 0 /\ AtValue(text, i)
      BY <1>1, <1>2, <2>1, Where
    <3>2. /\ Legal(text', i) <=> token \in Scalars \cup Opens
          /\ Exceeds(text', i) <=> token = LongString
      BY <1>2, <3>1, OutsideVerdict
    <3>3. ~(Len(stack) + 1 > MaxDepth)
      BY <2>1, LimitAssumption
    <3> QED BY <3>1, <3>2, <3>3
  <2>2. CASE stack # <<>>
    <3>1. /\ InObject(text, i) /\ AtValue(text, i) /\ p % 4 = 3 /\ p \in Nat \ {0}
          /\ Depth(text, i) = Len(stack)
      BY <1>1, <1>2, <2>2, Where DEF Top
    <3>2. /\ Legal(text', i) <=> token \in Scalars \cup Opens
          /\ Exceeds(text', i) <=> Depth(text, i) + 1 > MaxDepth \/ token = LongString
      BY <1>2, <3>1, ObjectVerdict
    <3> QED BY <3>1, <3>2
  <2> QED BY <2>1, <2>2
<1> HIDE DEF i
<1>4. expect # "colon" /\ (stack # <<>> => (Top.kind = "object" <=> expect = "value"))
  BY <1>1, <1>2
<1> QED BY <1>1, <1>2, <1>3, <1>4, ParseValueJudged DEF i

\* parse_object up to the colon: a name, or the end of an empty object.
LEMMA MemberJudged ==
    ASSUME NEW token \in Tokens, Looking(token), Member(token)
    PROVE  Judged
<1> DEFINE i == Len(text) + 1
           p == Place(text, i)
           n == Cardinality(NameTokens(text, Len(text)))
<1>1. expect \in {"first_member", "member"} /\ expect # "colon"
  BY DEF Member
<1>2. /\ text \in Texts /\ WellNested(text) /\ Ready(text, stack, expect, total)
      /\ stack \in Seq(Containers) /\ Len(stack) \in Nat /\ Len(stack) <= MaxDepth
      /\ text' = Append(text, token) /\ Len(text') = i
      /\ total \in Nat /\ total <= MaxMessageMembers /\ HelloKept(text, isHello)
      /\ stack # <<>> /\ Top.kind = "object"
  BY <1>1, LookingAt, InsideHere
<1>3. /\ p \in Nat \ {0} /\ p % 4 = 1 /\ InObject(text, i) /\ AtName(text, i)
      /\ Top.count = p \div 4 /\ NamesBefore(text, i) = Top.names
      /\ expect = "first_member" <=> p = 1
  BY <1>1, <1>2, Where DEF Top
<1>4. n = total
  BY <1>2 DEF Ready
<1>5. /\ Legal(text', i) <=> \/ token \in GoodStrings /\ Spells[token] \notin Top.names
                             \/ p = 1 /\ token = "end_object"
      /\ Exceeds(text', i) <=>
             /\ ~(p = 1 /\ token = "end_object")
             /\ \/ Top.count >= MaxObjectMembers \/ total >= MaxMessageMembers
                \/ token = LongString
  <2>1. /\ Legal(text', i) <=> \/ token \in GoodStrings /\ Spells[token] \notin NamesBefore(text, i)
                               \/ p = 1 /\ token = "end_object"
        /\ Exceeds(text', i) <=>
               /\ ~(p = 1 /\ token = "end_object")
               /\ \/ p \div 4 >= MaxObjectMembers \/ n >= MaxMessageMembers
                  \/ token = LongString
    BY <1>2, <1>3, ObjectVerdict
  <2> HIDE DEF n, p, i
  <2> QED BY <1>3, <1>4, <2>1
<1> HIDE DEF n, p, i
<1>6. CASE expect = "first_member" /\ token = "end_object"
  <2>1. Close /\ token \in Closes
    BY <1>6 DEF Member, Closes
  <2>2. Legal(text', i) /\ ~Exceeds(text', i)
    BY <1>3, <1>5, <1>6
  <2> QED BY <1>1, <1>2, <2>1, <2>2, CloseJudged DEF i
<1>7. CASE ~(expect = "first_member" /\ token = "end_object")
  <2>1. ~(p = 1 /\ token = "end_object")
    BY <1>3, <1>7
  <2>2. CASE token = "end"
    <3>1. Return("GM_BAD_MESSAGE")
      BY <1>7, <2>2 DEF Member
    <3>2. ~Legal(text', i)
      BY <1>5, <2>1, <2>2, TokenKinds
    <3> QED BY <3>1, <3>2, RefusedJudged DEF i
  <2>3. CASE token # "end" /\ (TooMany(Top) \/ token = LongString)
    <3>1. Return("GM_LIMIT_EXCEEDED")
      BY <1>7, <2>3 DEF Member
    <3>2. Exceeds(text', i)
      BY <1>5, <2>1, <2>3 DEF TooMany
    <3> QED BY <3>1, <3>2, RefusedJudged DEF i
  <2>4. CASE /\ token # "end" /\ ~(TooMany(Top) \/ token = LongString)
             /\ token \notin GoodStrings \/ Spells[token] \in Top.names
    <3>1. Return("GM_BAD_MESSAGE")
      BY <1>7, <2>4 DEF Member
    <3>2. ~Legal(text', i)
      BY <1>5, <2>1, <2>4
    <3> QED BY <3>1, <3>2, RefusedJudged DEF i
  <2>5. CASE /\ token # "end" /\ ~(TooMany(Top) \/ token = LongString)
             /\ ~(token \notin GoodStrings \/ Spells[token] \in Top.names)
    <3> DEFINE c == [Top EXCEPT !.name = Spells[token]]
               r == Front(stack) \o <<c>>
    <3>1. /\ stack' = r /\ expect' = "colon" /\ total' = total + 1
          /\ UNCHANGED <<isHello, status>>
      BY <1>7, <2>5 DEF Member
    <3>2. Legal(text', i) /\ ~Exceeds(text', i) /\ token \in GoodStrings
      BY <1>5, <2>1, <2>5 DEF TooMany
    <3>3. PICK q : Stands(text, stack, expect, q)
      BY LookingAt
    <3>4. /\ r \in Seq(Containers) /\ Len(r) = Len(stack) /\ r[Len(stack)] = c
          /\ c.name = Spells[token] /\ Standing(text', r, "colon")
      <4>1. c = [Last(stack) EXCEPT !.name = Spells[token]]
        BY DEF Top
      <4>2. Last(stack).kind = "object" /\ Place(text, Len(text) + 1) % 4 = 1
        BY <1>2, <1>3 DEF Top, p, i
      <4> HIDE DEF c
      <4> HIDE DEF r
      <4>3. /\ Front(stack) \o <<c>> \in Seq(Containers)
            /\ Len(Front(stack) \o <<c>>) = Len(stack)
            /\ (Front(stack) \o <<c>>)[Len(stack)] = c /\ c.name = Spells[token]
            /\ Standing(Append(text, token), Front(stack) \o <<c>>, "colon")
        BY <1>2, <3>2, <3>3, <4>1, <4>2, NameStands, SMTT(30)
      <4> QED BY <1>2, <4>3 DEF r
    <3> HIDE DEF c, r
    <3>5. total + 1 <= MaxMessageMembers
      <4>1. MaxMessageMembers \in Nat /\ ~(total >= MaxMessageMembers)
        BY <2>5, LimitAssumption DEF TooMany
      <4> QED BY <1>2, <4>1
    <3>6. Len(r) <= MaxDepth /\ Last(r).name = Spells[token]
      BY <1>2, <3>4 DEF Last
    <3>7. /\ total + 1 = total + (IF AtName(text, i) /\ token \in GoodStrings THEN 1 ELSE 0)
          /\ i = Len(text) + 1
      BY <1>3, <3>2 DEF i
    <3>8. Ready(text', r, "colon", total + 1)
      BY <1>1, <1>2, <1>3, <2>5, <3>2, <3>4, <3>5, <3>6, <3>7, ReadyStep
    <3>9. HelloKept(text', isHello)
      BY <1>1, <1>2, HelloHere DEF HelloKept
    <3>10. "colon" \in Places
      BY DEF Places
    <3> QED BY <3>1, <3>8, <3>9, <3>10 DEF Judged, Looking
  <2> QED BY <2>2, <2>3, <2>4, <2>5
<1> QED BY <1>6, <1>7

\* parse_object at the colon.
LEMMA ColonJudged ==
    ASSUME NEW token \in Tokens, Looking(token), Colon(token)
    PROVE  Judged
<1> DEFINE i == Len(text) + 1
           p == Place(text, i)
<1>1. expect = "colon"
  BY DEF Colon
<1>2. /\ text \in Texts /\ WellNested(text) /\ Ready(text, stack, expect, total)
      /\ text' = Append(text, token) /\ stack # <<>> /\ Top.kind = "object"
  BY <1>1, LookingAt, InsideHere
<1>3. p \in Nat \ {0} /\ p % 4 = 2 /\ InObject(text, i)
  BY <1>1, <1>2, Where DEF Top
<1>4. (Legal(text', i) <=> token = "name_separator") /\ ~Exceeds(text', i)
  BY <1>2, <1>3, ObjectVerdict
<1> HIDE DEF p, i
<1>5. CASE token = "name_separator"
  <2>1. expect' = "value" /\ UNCHANGED <<stack, total, isHello, status>>
    BY <1>5 DEF Colon
  <2> QED BY <1>1, <1>2, <1>3, <1>4, <1>5, <2>1, SeparatorJudged DEF p, i
<1>6. CASE token # "name_separator"
  <2>1. Return("GM_BAD_MESSAGE")
    BY <1>6 DEF Colon
  <2> QED BY <1>4, <1>6, <2>1, RefusedJudged DEF i
<1> QED BY <1>5, <1>6

\* parse_object after a member.
LEMMA AfterMemberJudged ==
    ASSUME NEW token \in Tokens, Looking(token), AfterMember(token)
    PROVE  Judged
<1> DEFINE i == Len(text) + 1
           p == Place(text, i)
<1>1. expect = "after_member" /\ expect # "colon"
  BY DEF AfterMember
<1>2. /\ text \in Texts /\ WellNested(text) /\ Ready(text, stack, expect, total)
      /\ text' = Append(text, token) /\ stack # <<>> /\ Top.kind = "object"
  BY <1>1, LookingAt, InsideHere
<1>3. p \in Nat \ {0} /\ p % 4 = 0 /\ InObject(text, i)
  BY <1>1, <1>2, Where DEF Top
<1>4. (Legal(text', i) <=> token \in {"value_separator", "end_object"}) /\ ~Exceeds(text', i)
  BY <1>2, <1>3, ObjectVerdict
<1> HIDE DEF p, i
<1>5. CASE token = "end_object"
  <2>1. Close /\ token \in Closes
    BY <1>5 DEF AfterMember, Closes
  <2> QED BY <1>1, <1>2, <1>4, <1>5, <2>1, CloseJudged DEF i
<1>6. CASE token = "value_separator"
  <2>1. expect' = "member" /\ UNCHANGED <<stack, total, isHello, status>>
    BY <1>6 DEF AfterMember
  <2> QED BY <1>1, <1>2, <1>3, <1>4, <1>6, <2>1, SeparatorJudged DEF p, i
<1>7. CASE token \notin {"end_object", "value_separator"}
  <2>1. Return("GM_BAD_MESSAGE")
    BY <1>7 DEF AfterMember
  <2> QED BY <1>4, <1>7, <2>1, RefusedJudged DEF i
<1> QED BY <1>5, <1>6, <1>7

\* parse_array: an element, or the end of an empty array.
LEMMA ElementJudged ==
    ASSUME NEW token \in Tokens, Looking(token), Element(token)
    PROVE  Judged
<1> DEFINE i == Len(text) + 1
           p == Place(text, i)
<1>1. expect \in {"first_element", "element"} /\ expect # "colon" /\ expect # "value"
  BY DEF Element
<1>2. /\ text \in Texts /\ WellNested(text) /\ Ready(text, stack, expect, total)
      /\ text' = Append(text, token) /\ stack # <<>> /\ Top.kind = "array"
  BY <1>1, LookingAt, InsideHere
<1>3. /\ p \in Nat \ {0} /\ p % 2 = 1 /\ InArray(text, i) /\ AtValue(text, i)
      /\ Top.count = p \div 2 /\ Depth(text, i) = Len(stack)
      /\ expect = "first_element" <=> p = 1
  BY <1>1, <1>2, Where DEF Top
<1>4. /\ Legal(text', i) <=> \/ token \in Scalars \cup Opens
                             \/ p = 1 /\ token = "end_array"
      /\ Exceeds(text', i) <=>
             \/ /\ ~(p = 1 /\ token = "end_array")
                /\ Len(stack) + 1 > MaxDepth \/ Top.count >= MaxArrayElements
             \/ token = LongString
  <2>1. /\ Legal(text', i) <=> \/ token \in Scalars \cup Opens
                               \/ p = 1 /\ token = "end_array"
        /\ Exceeds(text', i) <=>
               \/ /\ ~(p = 1 /\ token = "end_array")
                  /\ \/ Depth(text, i) + 1 > MaxDepth
                     \/ p \div 2 >= MaxArrayElements
               \/ token = LongString
    BY <1>2, <1>3, ArrayVerdict
  <2> HIDE DEF p, i
  <2> QED BY <1>3, <2>1
<1> HIDE DEF p, i
<1>5. CASE expect = "first_element" /\ token = "end_array"
  <2>1. Close /\ token \in Closes /\ token # LongString
    BY <1>5 DEF Element, Closes, LongString
  <2>2. Legal(text', i) /\ ~Exceeds(text', i)
    BY <1>3, <1>4, <1>5, <2>1
  <2> QED BY <1>1, <1>2, <2>1, <2>2, CloseJudged DEF i
<1>6. CASE ~(expect = "first_element" /\ token = "end_array")
  <2>1. ~(p = 1 /\ token = "end_array")
    BY <1>3, <1>6
  <2>2. CASE token = "end"
    <3>1. Return("GM_BAD_MESSAGE")
      BY <1>6, <2>2 DEF Element
    <3>2. ~Legal(text', i)
      BY <1>4, <2>1, <2>2, TokenKinds
    <3> QED BY <3>1, <3>2, RefusedJudged DEF i
  <2>3. CASE token # "end" /\ Top.count >= MaxArrayElements
    <3>1. Return("GM_LIMIT_EXCEEDED")
      BY <1>6, <2>3 DEF Element
    <3>2. Exceeds(text', i)
      BY <1>4, <2>1, <2>3
    <3> QED BY <3>1, <3>2, RefusedJudged DEF i
  <2>4. CASE token # "end" /\ ~(Top.count >= MaxArrayElements)
    <3>1. ParseValue(token)
      BY <1>6, <2>4 DEF Element
    <3>2. /\ Legal(text', i) <=> token \in Scalars \cup Opens
          /\ Exceeds(text', i) <=> Len(stack) + 1 > MaxDepth \/ token = LongString
      BY <1>4, <2>1, <2>4
    <3>3. stack # <<>> => (Top.kind = "object" <=> expect = "value")
      BY <1>1, <1>2
    <3> QED BY <1>1, <1>3, <3>1, <3>2, <3>3, ParseValueJudged DEF i
  <2> QED BY <2>2, <2>3, <2>4
<1> QED BY <1>5, <1>6

\* parse_array after an element.
LEMMA AfterElementJudged ==
    ASSUME NEW token \in Tokens, Looking(token), AfterElement(token)
    PROVE  Judged
<1> DEFINE i == Len(text) + 1
           p == Place(text, i)
<1>1. expect = "after_element" /\ expect # "colon"
  BY DEF AfterElement
<1>2. /\ text \in Texts /\ WellNested(text) /\ Ready(text, stack, expect, total)
      /\ text' = Append(text, token) /\ stack # <<>> /\ Top.kind = "array"
  BY <1>1, LookingAt, InsideHere
<1>3. p \in Nat \ {0} /\ p % 2 = 0 /\ InArray(text, i)
  BY <1>1, <1>2, Where DEF Top
<1>4. (Legal(text', i) <=> token \in {"value_separator", "end_array"}) /\ ~Exceeds(text', i)
  BY <1>2, <1>3, ArrayVerdict
<1> HIDE DEF p, i
<1>5. CASE token = "end_array"
  <2>1. Close /\ token \in Closes
    BY <1>5 DEF AfterElement, Closes
  <2> QED BY <1>1, <1>2, <1>4, <1>5, <2>1, CloseJudged DEF i
<1>6. CASE token = "value_separator"
  <2>1. expect' = "element" /\ UNCHANGED <<stack, total, isHello, status>>
    BY <1>6 DEF AfterElement
  <2> QED BY <1>1, <1>2, <1>3, <1>4, <1>6, <2>1, SeparatorJudged DEF p, i
<1>7. CASE token \notin {"end_array", "value_separator"}
  <2>1. Return("GM_BAD_MESSAGE")
    BY <1>7 DEF AfterElement
  <2> QED BY <1>4, <1>7, <2>1, RefusedJudged DEF i
<1> QED BY <1>5, <1>6, <1>7

\* The rest of parse and enforce_v1_message_size: an accepted text is a document, and one longer
\* than a message a hello; one refused for its size alone is a document and no hello.
LEMMA EndJudged ==
    ASSUME NEW token \in Tokens, Looking(token), End(token)
    PROVE  /\ UNCHANGED <<stack, expect, total, isHello>>
           /\ \/ status' = "GM_BAD_MESSAGE" /\ ~Legal(text', Len(text'))
              \/ /\ status' = "GM_LIMIT_EXCEEDED" /\ Document(text')
                 /\ size = "hello" /\ ~IsHello(text')
              \/ status' = "GM_OK" /\ Document(text') /\ (size = "hello" => IsHello(text'))
<1> DEFINE i == Len(text) + 1
<1>1. /\ text \in Texts /\ WellNested(text) /\ Ready(text, stack, expect, total)
      /\ text' = Append(text, token) /\ Len(text') = i /\ Len(text) \in Nat
      /\ HelloKept(text, isHello) /\ expect = "end" /\ stack = <<>>
  BY LookingAt, InsideHere DEF End
<1>2. Place(text, i) \in {1, 2} /\ Depth(text, i) = 0 /\ ~AtValue(text, i)
  BY <1>1, Where
<1>3. Len(text) # 0
  <2> SUFFICES ASSUME Len(text) = 0 PROVE FALSE
    OBVIOUS
  <2>1. i = 1 /\ Nested(text, i)
    BY <1>1 DEF WellNested
  <2>2. Parent(text, i) = 0
    BY <2>1 DEF Nested
  <2>3. Siblings(text, i) = {1}
    BY <2>1, <2>2 DEF Siblings
  <2>4. Place(text, i) = 1
    BY <2>3, FS_Singleton DEF Place
  <2> QED BY <1>2, <2>4, ExpectedOutside
<1>4. text'[1] = text[1] /\ text'[i] = token /\ text' # <<>>
  <2>1. 1 \in 1..Len(text)
    BY <1>1, <1>3
  <2> QED BY <1>1, <2>1, AppendKeeps
<1>5. (Legal(text', i) <=> token = "end" /\ text[1] = "begin_object") /\ ~Exceeds(text', i)
  BY <1>1, <1>2, <1>4, OutsideVerdict
<1> HIDE DEF i
<1>6. /\ UNCHANGED <<stack, expect, total, isHello>>
      /\ status' = IF token # "end" \/ text[1] # "begin_object" THEN "GM_BAD_MESSAGE"
                   ELSE IF size = "hello" /\ ~isHello THEN "GM_LIMIT_EXCEEDED" ELSE "GM_OK"
  BY DEF End, Return
<1>7. CASE token # "end" \/ text[1] # "begin_object"
  BY <1>1, <1>5, <1>6, <1>7
<1>8. CASE ~(token # "end" \/ text[1] # "begin_object")
  <2>1. \A k \in 1..i : Legal(text', k) /\ ~Exceeds(text', k)
    <3> SUFFICES ASSUME NEW k \in 1..i PROVE Legal(text', k) /\ ~Exceeds(text', k)
      OBVIOUS
    <3>1. CASE k = i
      BY <1>5, <1>8, <3>1
    <3>2. CASE k # i
      <4>1. k \in 1..Len(text)
        BY <1>1, <3>2 DEF i
      <4>2. Legal(text, k) /\ ~Exceeds(text, k)
        BY <1>1, <4>1 DEF Ready
      <4> QED BY <1>1, <4>1, <4>2, VerdictPrefix
    <3> QED BY <3>1, <3>2
  <2>2. Document(text')
    BY <1>1, <1>4, <1>8, <2>1 DEF Document
  <2>3. IsHello(text') <=> isHello
    <3>1. IsHello(text') <=> IsHello(text)
      BY <1>1, <1>8, HelloHere
    <3> QED BY <1>1, <3>1 DEF HelloKept
  <2> QED BY <1>6, <1>8, <2>2, <2>3
<1> QED BY <1>7, <1>8

-------------------------------------------------------------------------------
(* The invariant: the parser's types, its verdict, and while it gives none, that it stands where  *)
(* the grammar says.  The last is what makes it inductive: the verdict on a token is right because *)
(* the stack is the chain of the containers the token is inside of, and the counts and names kept  *)
(* there are those of the text.                                                                    *)

ParserIInv ==
    /\ JsonTypeOK /\ VerdictMatchesGrammar
    /\ status = "parsing" => Ready(text, stack, expect, total) /\ HelloKept(text, isHello)

\* Before its first token the parser is ready.
LEMMA ReadyFirst == Ready(<<>>, <<>>, "value", 0) /\ HelloKept(<<>>, FALSE)
<1> DEFINE t == <<>>
<1>1. t \in Texts /\ Len(t) = 0
  BY EmptySeq DEF Texts
<1> HIDE DEF t
<1>2. Depth(t, 1) = 0
  BY DepthStep
<1>3. Parent(t, 1) = 0
  <2>1. {k \in 1..(1 - 1) : t[k] \in Opens /\ Depth(t, k) = Depth(t, 1) - 1} = {}
    OBVIOUS
  <2>2. Max({0}) = 0
    BY MaxIs
  <2> QED BY <2>1, <2>2 DEF Parent
<1>4. Nested(t, 1)
  BY <1>2, <1>3 DEF Nested
<1>5. WellNested(t)
  BY <1>1, <1>4 DEF WellNested
<1>6. Place(t, 1) = 1
  <2>1. Siblings(t, 1) = {1}
    BY <1>3 DEF Siblings
  <2> QED BY <2>1, FS_Singleton DEF Place
<1>7. Expected(t, 1) = "value"
  BY <1>2, <1>6 DEF Expected
<1>8. Stands(t, <<>>, "value", [j \in 0..0 |-> 1])
  <2> DEFINE q == [j \in 0..0 |-> 1]
             L == 0
  <2>1. q \in [0..L -> 1..(Len(t) + 1)] /\ q[L] = Len(t) + 1
    BY <1>1
  <2>2. \A j \in 0..L : j = 0 /\ q[j] = 1
    OBVIOUS
  <2>3. \A m \in 1..(Len(t) + 1) : m = 1
    BY <1>1
  <2>4. L = 0 /\ 1..L = {} /\ Len(<<>>) = L
    OBVIOUS
  <2> HIDE DEF q, L
  <2>5. Chain(t, q, L)
    BY <1>2, <2>1, <2>2, <2>3, <2>4 DEF Chain
  <2>6. \A j \in 0..L : ~(j < L)
    BY <2>4
  <2> QED BY <1>1, <1>6, <1>7, <2>4, <2>5, <2>6 DEF Stands, q
<1>9. Standing(t, <<>>, "value")
  BY <1>5, <1>8 DEF Standing
<1>10. 0 = Cardinality(NameTokens(t, Len(t)))
  <2>1. NameTokens(t, Len(t)) = {}
    BY <1>1 DEF NameTokens
  <2> QED BY <2>1, FS_EmptySet
<1>11. Naming(t, <<>>, "value")
  <2>1. ~Named(t, Len(t)) /\ ~Named(t, Len(t) - 1)
    BY <1>1 DEF Named
  <2> QED BY <2>1 DEF Naming
<1>12. 0 <= MaxDepth /\ 0 <= MaxMessageMembers /\ <<>> \in Seq(Containers) /\ Len(<<>>) = 0
  BY LimitAssumption, EmptySeq
<1>13. Ready(t, <<>>, "value", 0)
  BY <1>1, <1>9, <1>10, <1>11, <1>12 DEF Ready
<1>14. HelloKept(t, FALSE)
  <2>1. ~IsHello(t)
    BY <1>1 DEF IsHello
  <2> QED BY <2>1 DEF HelloKept
<1> QED BY <1>13, <1>14 DEF t

\* Both initial states of the module, a text and a message already parsed, satisfy it.
LEMMA ParserInit == Init => ParserIInv
<1> SUFFICES ASSUME Init PROVE ParserIInv
  OBVIOUS
<1>1. CASE JsonInit
  <2>1. /\ size \in Sizes /\ text = <<>> /\ stack = <<>> /\ expect = "value" /\ total = 0
        /\ isHello = FALSE
    BY <1>1 DEF JsonInit
  <2>2. status \in Statuses
    BY <1>1 DEF JsonInit, WholeText, Statuses
  <2>3. /\ text \in Seq(Tokens) /\ Len(text) = 0 /\ stack \in Seq(Containers) /\ Len(stack) = 0
        /\ expect \in Places
    BY <2>1, EmptySeq DEF Places
  <2>4. 0 <= MaxTokens /\ 0 <= MaxDepth /\ 0 \in 0..MaxMessageMembers
    BY LimitAssumption, TokensAssumption
  <2>5. JsonTypeOK
    BY <2>1, <2>2, <2>3, <2>4 DEF JsonTypeOK, Containers
  <2>6. VerdictMatchesGrammar
    BY <2>1 DEF VerdictMatchesGrammar
  <2> QED BY <2>1, <2>5, <2>6, ReadyFirst DEF ParserIInv
<1>2. CASE Parsed
  <2>1. /\ size = "message" /\ text = <<>> /\ stack = <<>> /\ expect = "end" /\ total = 0
        /\ isHello = FALSE /\ status = "GM_OK"
    BY <1>2 DEF Parsed
  <2>2. size \in Sizes /\ expect \in Places /\ status \in Statuses
    BY <2>1 DEF Sizes, Places, Statuses
  <2>3. text \in Seq(Tokens) /\ Len(text) = 0 /\ stack \in Seq(Containers) /\ Len(stack) = 0
    BY <2>1, EmptySeq
  <2>4. 0 <= MaxTokens /\ 0 <= MaxDepth /\ 0 \in 0..MaxMessageMembers
    BY LimitAssumption, TokensAssumption
  <2>5. JsonTypeOK
    BY <2>1, <2>2, <2>3, <2>4 DEF JsonTypeOK, Containers
  <2>6. VerdictMatchesGrammar
    BY <2>1 DEF VerdictMatchesGrammar
  <2> QED BY <2>1, <2>5, <2>6 DEF ParserIInv
<1> QED BY <1>1, <1>2 DEF Init

\* Every token keeps it.
LEMMA ParserStep == ParserIInv /\ [Next]_vars => ParserIInv'
<1> SUFFICES ASSUME ParserIInv, [Next]_vars PROVE ParserIInv'
  OBVIOUS
<1>1. ASSUME NEW token \in Tokens, Parse(token)
      PROVE  ParserIInv'
  <2>1. /\ status = "parsing" /\ text' = Append(text, token) /\ size' = size
        /\ Len(text) < MaxTokens /\ JsonTypeOK
        /\ Ready(text, stack, expect, total) /\ HelloKept(text, isHello)
    BY <1>1 DEF ParserIInv, Parse
  <2>2. Looking(token) /\ expect \in Places
    BY <2>1 DEF Looking, JsonTypeOK
  <2>3. /\ text \in Texts /\ text' \in Texts /\ Len(text') = Len(text) + 1 /\ Len(text) \in Nat
        /\ text' # <<>> /\ text'[Len(text')] = token
    <3>1. text \in Texts
      BY <2>1 DEF Ready
    <3>2. /\ text' \in Texts /\ Len(text') = Len(text) + 1 /\ Len(text) \in Nat
          /\ text'[Len(text) + 1] = token
      BY <2>1, <3>1, AppendKeeps
    <3>3. text' = <<>> => Len(text') = 0
      OBVIOUS
    <3> QED BY <3>1, <3>2, <3>3
  <2>4. MaxTokens \in Nat
    BY TokensAssumption
  <2>5. text' \in Seq(Tokens) /\ Len(text') <= MaxTokens
    BY <2>1, <2>3, <2>4 DEF Texts
  <2>6. ASSUME UNCHANGED <<stack, expect, total, isHello>>,
               status' \in Statuses \ {"parsing"}, VerdictMatchesGrammar'
        PROVE  ParserIInv'
    <3>1. JsonTypeOK'
      BY <2>1, <2>5, <2>6 DEF JsonTypeOK
    <3> QED BY <2>6, <3>1 DEF ParserIInv
  <2>7. CASE Judged
    <3>1. CASE /\ status' = "parsing"
               /\ Ready(text', stack', expect', total') /\ HelloKept(text', isHello')
      <4>1. /\ stack' \in Seq(Containers) /\ Len(stack') <= MaxDepth /\ total' <= MaxMessageMembers
            /\ isHello' \in BOOLEAN /\ expect' \in Places
            /\ total' = Cardinality(NameTokens(text', Len(text')))
            /\ \A k \in 1..Len(text') : Legal(text', k) /\ ~Exceeds(text', k) /\ text'[k] # "end"
        BY <2>7, <3>1 DEF Ready, HelloKept, Judged
      <4>2. total' \in Nat
        <5>1. WellNested(text)
          BY <2>1, Where
        <5>2. Cardinality(NameTokens(text, Len(text))) \in Nat
          BY <2>3, <5>1, NamesCount
        <5>3. Cardinality(NameTokens(text', Len(text'))) =
                Cardinality(NameTokens(text, Len(text)))
                    + (IF AtName(text, Len(text) + 1) /\ token \in GoodStrings THEN 1 ELSE 0)
          BY <2>1, <2>3, <5>1, NamesCount
        <5> QED BY <4>1, <5>2, <5>3
      <4>3. total' \in 0..MaxMessageMembers
        BY <4>1, <4>2, LimitAssumption
      <4>4. status' \in Statuses /\ size' \in Sizes
        BY <2>1, <3>1 DEF Statuses, JsonTypeOK
      <4>5. JsonTypeOK'
        BY <2>5, <4>1, <4>3, <4>4 DEF JsonTypeOK, Containers
      <4>6. Len(text') \in 1..Len(text')
        BY <2>3
      <4>7. VerdictMatchesGrammar'
        BY <3>1, <4>1, <4>6 DEF VerdictMatchesGrammar
      <4> QED BY <3>1, <4>5, <4>7 DEF ParserIInv
    <3>2. CASE /\ UNCHANGED <<stack, expect, total, isHello>>
               /\ status' = "GM_BAD_MESSAGE" /\ ~Legal(text', Len(text'))
      <4>1. VerdictMatchesGrammar' /\ status' \in Statuses \ {"parsing"}
        BY <3>2 DEF VerdictMatchesGrammar, Statuses
      <4> QED BY <2>6, <3>2, <4>1
    <3>3. CASE /\ UNCHANGED <<stack, expect, total, isHello>>
               /\ status' = "GM_LIMIT_EXCEEDED" /\ Exceeds(text', Len(text'))
      <4>1. VerdictMatchesGrammar' /\ status' \in Statuses \ {"parsing"}
        BY <3>3 DEF VerdictMatchesGrammar, Statuses
      <4> QED BY <2>6, <3>3, <4>1
    <3> QED BY <2>7, <3>1, <3>2, <3>3 DEF Judged
  <2>8. CASE End(token)
    <3>1. /\ UNCHANGED <<stack, expect, total, isHello>>
          /\ \/ status' = "GM_BAD_MESSAGE" /\ ~Legal(text', Len(text'))
             \/ /\ status' = "GM_LIMIT_EXCEEDED" /\ Document(text')
                /\ size' = "hello" /\ ~IsHello(text')
             \/ status' = "GM_OK" /\ Document(text') /\ (size' = "hello" => IsHello(text'))
      BY <2>1, <2>2, <2>8, EndJudged
    <3>2. VerdictMatchesGrammar' /\ status' \in Statuses \ {"parsing"}
      BY <3>1 DEF VerdictMatchesGrammar, Statuses
    <3> QED BY <2>6, <3>1, <3>2
  <2>9. Judged \/ End(token)
    BY <1>1, <2>2, ValueJudged, MemberJudged, ColonJudged, AfterMemberJudged, ElementJudged,
       AfterElementJudged DEF Parse
  <2> QED BY <2>7, <2>8, <2>9
<1>2. CASE UNCHANGED jsonVars
  BY <1>2 DEF ParserIInv, JsonTypeOK, VerdictMatchesGrammar, jsonVars
<1>3. UNCHANGED vars => UNCHANGED jsonVars
  BY DEF vars, jsonVars
<1> QED BY <1>1, <1>2, <1>3 DEF Next, JsonNext

\* gm_control_validate_json_text keeps its limits, and its verdict on every text is the grammar's:
\* accepted are the documents of the protocol, refused is what is wrong where it is wrong.
THEOREM ParserInvariant == Spec => []ParserIInv
BY ParserInit, ParserStep, PTL DEF Spec

\* gm_control_validate_json_text accepts exactly the documents of the protocol within every limit,
\* long ones as a hello only; a refused text is wrong, or above a limit, at its last token.
THEOREM VerdictIsTheGrammars == Spec => []VerdictMatchesGrammar
<1>1. ParserIInv => VerdictMatchesGrammar
  BY DEF ParserIInv
<1> QED BY <1>1, ParserInvariant, PTL

\* The parser's stack never passes MaxDepth nor its member count MaxMessageMembers.
THEOREM ParserTypeCorrect == Spec => []JsonTypeOK
<1>1. ParserIInv => JsonTypeOK
  BY DEF ParserIInv
<1> QED BY <1>1, ParserInvariant, PTL

-------------------------------------------------------------------------------
(* Messages: values of one kind at every level of a message, and what an edit does to them. *)

JsonKinds == {"number", "string", "boolean", "array", "object"}

\* A value has one kind and what is of that kind, and a number is an integer.
IsValue(value) ==
    /\ \E k \in JsonKinds : DOMAIN value = {k}
    /\ value = [k \in DOMAIN value |-> value[k]]
    /\ "number" \in DOMAIN value => value.number \in Int

\* The members of an object, and the elements of its arrays, are values.
HoldsValues(o) ==
    \A f \in DOMAIN o :
        /\ IsValue(o[f])
        /\ "array" \in DOMAIN o[f] => \A i \in DOMAIN o[f].array : IsValue(o[f].array[i])

\* The levels of a message: a profile, a part of a result, a result, the message.
LeafOK(o) == HoldsValues(o)
PartOK(o) == HoldsValues(o) /\ \A x \in ObjectsIn(o) : LeafOK(x)
ResultOK(o) == HoldsValues(o) /\ \A x \in ObjectsIn(o) : PartOK(x)
MessageOK(o) == HoldsValues(o) /\ \A x \in ObjectsIn(o) : ResultOK(x)

\* An object without objects and arrays.
Simple(o) == HoldsValues(o) /\ ObjectsIn(o) = {}
\* A value with no more than simple objects in it.
SimpleValue(v) ==
    /\ IsValue(v)
    /\ "object" \in DOMAIN v => Simple(v.object)
    /\ "array" \in DOMAIN v =>
        \A i \in DOMAIN v.array :
            IsValue(v.array[i]) /\ ("object" \in DOMAIN v.array[i] => Simple(v.array[i].object))

\* Each constructor makes a value of its kind.
LEMMA Constructors ==
    /\ \A n : DOMAIN Number(n) = {"number"} /\ Number(n).number = n
    /\ \A s : DOMAIN String(s) = {"string"} /\ String(s).string = s
    /\ \A b : DOMAIN Boolean(b) = {"boolean"} /\ Boolean(b).boolean = b
    /\ \A a : DOMAIN ArrayOf(a) = {"array"} /\ ArrayOf(a).array = a
    /\ \A o : DOMAIN ObjectOf(o) = {"object"} /\ ObjectOf(o).object = o
BY DEF Number, String, Boolean, ArrayOf, ObjectOf

\* Values that the constructors make.
LEMMA MadeValues ==
    /\ \A n \in Int : IsValue(Number(n)) /\ SimpleValue(Number(n))
    /\ \A s : IsValue(String(s)) /\ SimpleValue(String(s))
    /\ \A b : IsValue(Boolean(b)) /\ SimpleValue(Boolean(b))
    /\ \A a : IsValue(ArrayOf(a)) /\ \A o : IsValue(ObjectOf(o))
<1>1. /\ \A n \in Int : IsValue(Number(n))
      /\ \A s : IsValue(String(s))
      /\ \A b : IsValue(Boolean(b))
      /\ \A a : IsValue(ArrayOf(a)) /\ \A o : IsValue(ObjectOf(o))
  BY Constructors DEF IsValue, JsonKinds, Number, String, Boolean, ArrayOf, ObjectOf
<1> QED BY <1>1, Constructors DEF SimpleValue

\* An object whose members are numbers and strings is simple.
LEMMA SimpleIs ==
    ASSUME NEW o, \A f \in DOMAIN o : IsValue(o[f]) /\ DOMAIN o[f] \subseteq {"number", "string", "boolean"}
    PROVE  Simple(o)
<1>1. Having(o, "object") = {} /\ Having(o, "array") = {}
  BY DEF Having
<1>2. ObjectsIn(o) = {}
  BY <1>1 DEF ObjectsIn
<1> QED BY <1>1, <1>2 DEF Simple, HoldsValues, Having

\* The two profiles are simple.
LEMMA ProfilesSimple == Simple(PcmProfile) /\ Simple(OpusProfile)
<1>1. ASSUME NEW p \in {PcmProfile, OpusProfile}, NEW f \in DOMAIN p
      PROVE  IsValue(p[f]) /\ DOMAIN p[f] \subseteq {"number", "string", "boolean"}
  <2>1. DOMAIN p = {"codec", "sample_rate_hz", "channels", "channel_layout", "frames_per_packet"}
    BY DEF PcmProfile, OpusProfile
  <2>2. \/ \E n \in Int : p[f] = Number(n)
        \/ \E s : p[f] = String(s)
    BY <2>1 DEF PcmProfile, OpusProfile
  <2> QED BY <2>2, MadeValues, Constructors
<1> QED BY <1>1, SimpleIs

\* Every sample is a value with no more than simple objects in it.
LEMMA SamplesSimple ==
    ASSUME NEW f, NEW v \in Samples(f) \cup AnyValue
    PROVE  SimpleValue(v)
<1>1. CASE v \in {Number(n) : n \in NumbersFor(f)}
  <2>1. NumbersFor(f) \subseteq Int
    BY MessageAssumption DEF NumbersFor
  <2> QED BY <1>1, <2>1, MadeValues
<1>2. CASE v \in {String(x) : x \in StringsFor(f)}
  BY <1>2, MadeValues
<1>3. ASSUME NEW a, \A i \in DOMAIN a : \E n \in Int : a[i] = Number(n)
      PROVE  SimpleValue(ArrayOf(a))
  <2>1. \A i \in DOMAIN a : IsValue(a[i]) /\ "object" \notin DOMAIN a[i]
    BY <1>3, MadeValues, Constructors
  <2> QED BY <2>1, MadeValues, Constructors DEF SimpleValue
<1>4. ASSUME NEW a, \A i \in DOMAIN a : a[i] \in {PcmProfile, OpusProfile}
      PROVE  SimpleValue(Profiles(a))
  <2> DEFINE w == [i \in DOMAIN a |-> ObjectOf(a[i])]
  <2>1. \A i \in DOMAIN w : IsValue(w[i]) /\ Simple(w[i].object)
    BY <1>4, MadeValues, Constructors, ProfilesSimple
  <2> HIDE DEF w
  <2>2. SimpleValue(ArrayOf(w))
    BY <2>1, MadeValues, Constructors DEF SimpleValue
  <2> QED BY <2>2 DEF w, Profiles
<1>5. ASSUME NEW a, \A i \in DOMAIN a : a[i] \in Int PROVE SimpleValue(NumberArray(a))
  <2>1. SimpleValue(ArrayOf([i \in DOMAIN a |-> Number(a[i])]))
    BY <1>3, <1>5
  <2> QED BY <2>1 DEF NumberArray
<1>6. ASSUME NEW o, Simple(o) PROVE SimpleValue(ObjectOf(o))
  BY <1>6, MadeValues, Constructors DEF SimpleValue
<1>7. SimpleValue(ArrayOf(<<Number(1)>>)) /\ SimpleValue(ArrayOf(<<>>))
  BY <1>3
<1>8. SimpleValue(ArrayOf(<<String("1")>>))
  BY MadeValues, Constructors DEF SimpleValue
<1>9. CASE v \in PartsFor(f)
  <2>1. CASE f \in {"audio_send", "audio_receive", "microphone", "camera", "retryable"}
    BY <1>9, <2>1, MadeValues DEF PartsFor
  <2>2. CASE f = "versions"
    BY <1>5, <1>8, <1>9, <2>2 DEF PartsFor
  <2>3. CASE f = "profile"
    BY <1>6, <1>9, <2>3, ProfilesSimple DEF PartsFor
  <2>4. CASE f = "audio_profiles"
    BY <1>4, <1>7, <1>9, <2>4 DEF PartsFor
  <2>5. CASE /\ f \notin {"audio_send", "audio_receive", "microphone", "camera", "retryable"}
             /\ f # "versions" /\ f # "profile" /\ f # "audio_profiles"
    <3>1. PartsFor(f) = {}
      BY <2>5 DEF PartsFor
    <3> QED BY <1>9, <3>1
  <2> QED BY <2>1, <2>2, <2>3, <2>4, <2>5
<1>10. CASE v \in AnyValue
  <2>1. Simple(<<>>)
    BY SimpleIs
  <2>2. v \in {Number(1), String("ab"), ArrayOf(<<>>), ObjectOf(<<>>)} \/ v = Boolean(TRUE)
    BY <1>10 DEF AnyValue
  <2>3. SimpleValue(Boolean(TRUE))
    BY MadeValues
  <2>4. SimpleValue(Number(1)) /\ SimpleValue(String("ab")) /\ SimpleValue(ObjectOf(<<>>))
    BY <1>6, <2>1, MadeValues
  <2> QED BY <1>7, <2>2, <2>3, <2>4
<1> QED BY <1>1, <1>2, <1>9, <1>10 DEF Samples

\* x is an object in the value v.
InValue(x, v) ==
    \/ "object" \in DOMAIN v /\ x = v.object
    \/ "array" \in DOMAIN v /\ \E i \in ObjectPlaces(v.array) : x = v.array[i].object

\* The objects in an object are those in its members.
LEMMA ObjectsInMembers ==
    ASSUME NEW o, NEW x
    PROVE  x \in ObjectsIn(o) <=> \E f \in DOMAIN o : InValue(x, o[f])
BY DEF ObjectsIn, Having, InValue

\* How an edit comes about.
LEMMA EditShapes ==
    ASSUME NEW o, NEW inner, NEW e \in ObjectEdits(o, inner)
    PROVE  \/ \E f \in DOMAIN o :
                  e.edit = "removed" /\ e.object = Restrict(o, DOMAIN o \ {f})
           \/ e.edit = "added" /\ e.object = With(o, [other |-> Number(1)])
           \/ \E f \in DOMAIN o : \E v \in Samples(f) \cup AnyValue :
                  /\ e.edit = IF Kind(v) = Kind(o[f]) THEN "changed" ELSE "other_kind"
                  /\ e.object = Put(o, f, v)
           \/ \E f \in DOMAIN o : \E d \in inner[o[f].object] :
                  /\ "object" \in DOMAIN o[f] /\ e.edit = d.edit
                  /\ e.object = Put(o, f, ObjectOf(d.object))
           \/ \E f \in DOMAIN o : \E i \in ObjectPlaces(o[f].array) :
              \E d \in inner[o[f].array[i].object] :
                  /\ "array" \in DOMAIN o[f] /\ e.edit = d.edit
                  /\ e.object = Put(o, f, ArrayOf(Put(o[f].array, i, ObjectOf(d.object))))
<1>1. \A f, v, as : Replaced(o, f, v, as).edit = as /\ Replaced(o, f, v, as).object = Put(o, f, v)
  BY DEF Replaced
<1>2. ASSUME e \in Removals(o)
      PROVE  \E f \in DOMAIN o : e.edit = "removed" /\ e.object = Restrict(o, DOMAIN o \ {f})
  <2>1. PICK f \in DOMAIN o : e = [edit |-> "removed", object |-> Restrict(o, DOMAIN o \ {f})]
    BY <1>2 DEF Removals
  <2>2. e.edit = "removed" /\ e.object = Restrict(o, DOMAIN o \ {f})
    BY <2>1
  <2> QED BY <2>2
<1>3. ASSUME e = Addition(o) PROVE e.edit = "added" /\ e.object = With(o, [other |-> Number(1)])
  BY <1>3 DEF Addition
<1>4. ASSUME e \in Changes(o)
      PROVE  \E f \in DOMAIN o : \E v \in Samples(f) \cup AnyValue :
                  /\ e.edit = IF Kind(v) = Kind(o[f]) THEN "changed" ELSE "other_kind"
                  /\ e.object = Put(o, f, v)
  <2>1. PICK f \in DOMAIN o : \E v \in (Samples(f) \cup AnyValue) \ {o[f]} :
            e = Replaced(o, f, v, IF Kind(v) = Kind(o[f]) THEN "changed" ELSE "other_kind")
    BY <1>4 DEF Changes
  <2> PICK v \in (Samples(f) \cup AnyValue) \ {o[f]} :
            e = Replaced(o, f, v, IF Kind(v) = Kind(o[f]) THEN "changed" ELSE "other_kind")
    BY <2>1
  <2>2. v \in Samples(f) \cup AnyValue
    OBVIOUS
  <2>3. /\ e.edit = IF Kind(v) = Kind(o[f]) THEN "changed" ELSE "other_kind"
        /\ e.object = Put(o, f, v)
    BY <1>1
  <2> QED BY <2>2, <2>3
<1>5. ASSUME e \in Inside(o, inner)
      PROVE  \E f \in DOMAIN o : \E d \in inner[o[f].object] :
                  /\ "object" \in DOMAIN o[f] /\ e.edit = d.edit
                  /\ e.object = Put(o, f, ObjectOf(d.object))
  <2>1. PICK f \in Having(o, "object") : \E d \in inner[o[f].object] :
            e = Replaced(o, f, ObjectOf(d.object), d.edit)
    BY <1>5 DEF Inside
  <2>2. PICK d \in inner[o[f].object] : e = Replaced(o, f, ObjectOf(d.object), d.edit)
    BY <2>1
  <2>3. e.edit = d.edit /\ e.object = Put(o, f, ObjectOf(d.object))
    BY <1>1, <2>2
  <2>4. f \in DOMAIN o /\ "object" \in DOMAIN o[f]
    BY DEF Having
  <2> QED BY <2>3, <2>4
<1>6. ASSUME NEW f \in Having(o, "array"), e \in InsideArray(o, f, inner)
      PROVE  \E g \in DOMAIN o : \E i \in ObjectPlaces(o[g].array) :
             \E d \in inner[o[g].array[i].object] :
                /\ "array" \in DOMAIN o[g] /\ e.edit = d.edit
                /\ e.object = Put(o, g, ArrayOf(Put(o[g].array, i, ObjectOf(d.object))))
  <2>1. PICK i \in ObjectPlaces(o[f].array) : \E d \in inner[o[f].array[i].object] :
            e = Replaced(o, f, ArrayOf(Put(o[f].array, i, ObjectOf(d.object))), d.edit)
    BY <1>6 DEF InsideArray
  <2>2. PICK d \in inner[o[f].array[i].object] :
            e = Replaced(o, f, ArrayOf(Put(o[f].array, i, ObjectOf(d.object))), d.edit)
    BY <2>1
  <2>3. /\ e.edit = d.edit
        /\ e.object = Put(o, f, ArrayOf(Put(o[f].array, i, ObjectOf(d.object))))
    BY <1>1, <2>2
  <2>4. f \in DOMAIN o /\ "array" \in DOMAIN o[f]
    BY DEF Having
  <2> QED BY <2>3, <2>4
<1>7. \/ e \in Removals(o) \/ e = Addition(o) \/ e \in Changes(o) \/ e \in Inside(o, inner)
      \/ \E f \in Having(o, "array") : e \in InsideArray(o, f, inner)
  BY DEF ObjectEdits
<1> QED BY <1>2, <1>3, <1>4, <1>5, <1>6, <1>7

\* One member replaced by a value keeps the rest.
LEMMA ReplacedHolds ==
    ASSUME NEW o, HoldsValues(o), NEW f \in DOMAIN o, NEW v, IsValue(v),
           "array" \in DOMAIN v => \A i \in DOMAIN v.array : IsValue(v.array[i])
    PROVE  /\ HoldsValues(Put(o, f, v))
           /\ \A x \in ObjectsIn(Put(o, f, v)) : x \in ObjectsIn(o) \/ InValue(x, v)
<1>1. /\ DOMAIN Put(o, f, v) = DOMAIN o
      /\ \A g \in DOMAIN o : Put(o, f, v)[g] = IF g = f THEN v ELSE o[g]
  BY DEF Put
<1>2. HoldsValues(Put(o, f, v))
  BY <1>1 DEF HoldsValues
<1>3. ASSUME NEW x \in ObjectsIn(Put(o, f, v)) PROVE x \in ObjectsIn(o) \/ InValue(x, v)
  <2>1. PICK g \in DOMAIN o : InValue(x, Put(o, f, v)[g])
    BY <1>1, ObjectsInMembers
  <2> QED BY <1>1, <2>1, ObjectsInMembers
<1> QED BY <1>2, <1>3

\* An edit leaves members and elements values, and the objects inside are the old ones, edited
\* ones and simple ones.
LEMMA EditHolds ==
    ASSUME NEW o, HoldsValues(o), NEW inner, NEW e \in ObjectEdits(o, inner)
    PROVE  /\ HoldsValues(e.object)
           /\ \A x \in ObjectsIn(e.object) :
                 \/ x \in ObjectsIn(o) \/ Simple(x)
                 \/ \E y \in ObjectsIn(o) : \E d \in inner[y] : x = d.object
<1>1. CASE \E f \in DOMAIN o : e.object = Restrict(o, DOMAIN o \ {f})
  <2>1. PICK f \in DOMAIN o : e.object = Restrict(o, DOMAIN o \ {f})
    BY <1>1
  <2>2. /\ DOMAIN e.object = DOMAIN o \ {f}
        /\ \A g \in DOMAIN e.object : e.object[g] = o[g]
    BY <2>1 DEF Restrict
  <2>3. HoldsValues(e.object)
    BY <2>2 DEF HoldsValues
  <2>4. \A x \in ObjectsIn(e.object) : x \in ObjectsIn(o)
    BY <2>2, ObjectsInMembers
  <2> QED BY <2>3, <2>4
<1>2. CASE e.object = With(o, [other |-> Number(1)])
  <2>1. /\ DOMAIN e.object = DOMAIN o \cup {"other"}
        /\ \A g \in DOMAIN e.object : e.object[g] = IF g \in DOMAIN o THEN o[g] ELSE Number(1)
    BY <1>2 DEF With
  <2>2. IsValue(Number(1)) /\ DOMAIN Number(1) = {"number"}
    BY MadeValues, Constructors
  <2>3. HoldsValues(e.object)
    BY <2>1, <2>2 DEF HoldsValues
  <2>4. \A x : ~InValue(x, Number(1))
    BY <2>2 DEF InValue
  <2>5. \A x \in ObjectsIn(e.object) : x \in ObjectsIn(o)
    BY <2>1, <2>4, ObjectsInMembers
  <2> QED BY <2>3, <2>5
<1>3. ASSUME NEW f \in DOMAIN o, NEW v \in Samples(f) \cup AnyValue, e.object = Put(o, f, v)
      PROVE  /\ HoldsValues(e.object)
             /\ \A x \in ObjectsIn(e.object) : x \in ObjectsIn(o) \/ Simple(x)
  <2>1. SimpleValue(v)
    BY SamplesSimple
  <2>2. \A x : InValue(x, v) => Simple(x)
    BY <2>1 DEF SimpleValue, InValue, ObjectPlaces
  <2>3. IsValue(v) /\ ("array" \in DOMAIN v => \A i \in DOMAIN v.array : IsValue(v.array[i]))
    BY <2>1 DEF SimpleValue
  <2> QED BY <1>3, <2>2, <2>3, ReplacedHolds
<1>4. ASSUME NEW f \in DOMAIN o, NEW d \in inner[o[f].object], "object" \in DOMAIN o[f],
             e.object = Put(o, f, ObjectOf(d.object))
      PROVE  /\ HoldsValues(e.object)
             /\ \A x \in ObjectsIn(e.object) :
                   x \in ObjectsIn(o) \/ \E y \in ObjectsIn(o) : \E c \in inner[y] : x = c.object
  <2>1. o[f].object \in ObjectsIn(o)
    BY <1>4, ObjectsInMembers DEF InValue
  <2>2. /\ IsValue(ObjectOf(d.object)) /\ DOMAIN ObjectOf(d.object) = {"object"}
        /\ ObjectOf(d.object).object = d.object
    BY MadeValues, Constructors
  <2>3. \A x : InValue(x, ObjectOf(d.object)) => x = d.object
    BY <2>2 DEF InValue
  <2>4. /\ HoldsValues(e.object)
        /\ \A x \in ObjectsIn(e.object) : x \in ObjectsIn(o) \/ InValue(x, ObjectOf(d.object))
    BY <1>4, <2>2, ReplacedHolds
  <2> QED BY <2>1, <2>3, <2>4
<1>5. ASSUME NEW f \in DOMAIN o, "array" \in DOMAIN o[f], NEW i \in ObjectPlaces(o[f].array),
             NEW d \in inner[o[f].array[i].object],
             e.object = Put(o, f, ArrayOf(Put(o[f].array, i, ObjectOf(d.object))))
      PROVE  /\ HoldsValues(e.object)
             /\ \A x \in ObjectsIn(e.object) :
                   x \in ObjectsIn(o) \/ \E y \in ObjectsIn(o) : \E c \in inner[y] : x = c.object
  <2> DEFINE a == o[f].array
             b == Put(a, i, ObjectOf(d.object))
  <2>1. i \in DOMAIN a /\ "object" \in DOMAIN a[i]
    BY DEF ObjectPlaces
  <2>2. a[i].object \in ObjectsIn(o)
    BY <1>5, ObjectsInMembers DEF InValue
  <2>3. /\ IsValue(ObjectOf(d.object)) /\ DOMAIN ObjectOf(d.object) = {"object"}
        /\ ObjectOf(d.object).object = d.object
    BY MadeValues, Constructors
  <2>4. DOMAIN b = DOMAIN a /\ \A j \in DOMAIN a : b[j] = IF j = i THEN ObjectOf(d.object) ELSE a[j]
    BY DEF Put
  <2>5. \A j \in DOMAIN a : IsValue(a[j])
    BY <1>5 DEF HoldsValues
  <2> HIDE DEF b
  <2>6. \A j \in DOMAIN b : IsValue(b[j])
    BY <2>3, <2>4, <2>5
  <2>7. IsValue(ArrayOf(b)) /\ DOMAIN ArrayOf(b) = {"array"} /\ ArrayOf(b).array = b
    BY MadeValues, Constructors
  <2>8. ASSUME NEW x, InValue(x, ArrayOf(b)) PROVE x = d.object \/ x \in ObjectsIn(o)
    <3>1. PICK j \in ObjectPlaces(b) : x = b[j].object
      BY <2>7, <2>8 DEF InValue
    <3>2. CASE j = i
      BY <2>1, <2>3, <2>4, <3>1, <3>2
    <3>3. CASE j # i
      <4>1. j \in ObjectPlaces(a) /\ x = a[j].object
        BY <2>4, <3>1, <3>3 DEF ObjectPlaces
      <4> QED BY <1>5, <4>1, ObjectsInMembers DEF InValue
    <3> QED BY <3>2, <3>3
  <2>9. /\ HoldsValues(Put(o, f, ArrayOf(b)))
        /\ \A x \in ObjectsIn(Put(o, f, ArrayOf(b))) :
              x \in ObjectsIn(o) \/ InValue(x, ArrayOf(b))
    BY <2>6, <2>7, ReplacedHolds
  <2>10. e.object = Put(o, f, ArrayOf(b))
    BY <1>5 DEF b
  <2> QED BY <2>2, <2>8, <2>9, <2>10
<1> QED BY <1>1, <1>2, <1>3, <1>4, <1>5, EditShapes

\* The edits of every level keep it a level.
LEMMA EditsKeepLevels ==
    ASSUME NEW o
    PROVE  /\ LeafOK(o) => \A e \in ProfileEdits(o) : LeafOK(e.object)
           /\ PartOK(o) => \A e \in PartEdits(o) : PartOK(e.object)
           /\ ResultOK(o) => \A e \in ResultEdits(o) : ResultOK(e.object)
           /\ MessageOK(o) => \A e \in Edits(o) : MessageOK(e.object)
<1>1. ASSUME NEW x, Simple(x) PROVE LeafOK(x) /\ PartOK(x) /\ ResultOK(x)
  BY <1>1 DEF Simple, LeafOK, PartOK, ResultOK
<1>2. ASSUME NEW p, LeafOK(p), NEW e \in ProfileEdits(p) PROVE LeafOK(e.object)
  BY <1>2, EditHolds DEF LeafOK, ProfileEdits
<1>3. ASSUME NEW p, PartOK(p), NEW e \in PartEdits(p) PROVE PartOK(e.object)
  <2> DEFINE inner == [x \in ObjectsIn(p) |-> ProfileEdits(x)]
  <2>1. \A y \in ObjectsIn(p) : inner[y] = ProfileEdits(y)
    OBVIOUS
  <2>2. HoldsValues(p) /\ e \in ObjectEdits(p, inner) /\ \A x \in ObjectsIn(p) : LeafOK(x)
    BY <1>3 DEF PartOK, PartEdits
  <2> HIDE DEF inner
  <2>3. /\ HoldsValues(e.object)
        /\ \A x \in ObjectsIn(e.object) :
              \/ x \in ObjectsIn(p) \/ Simple(x)
              \/ \E y \in ObjectsIn(p) : \E d \in inner[y] : x = d.object
    BY <2>2, EditHolds
  <2>4. ASSUME NEW x \in ObjectsIn(e.object) PROVE LeafOK(x)
    BY <1>1, <1>2, <2>1, <2>2, <2>3
  <2> QED BY <2>3, <2>4 DEF PartOK
<1>4. ASSUME NEW p, ResultOK(p), NEW e \in ResultEdits(p) PROVE ResultOK(e.object)
  <2> DEFINE inner == [x \in ObjectsIn(p) |-> PartEdits(x)]
  <2>1. \A y \in ObjectsIn(p) : inner[y] = PartEdits(y)
    OBVIOUS
  <2>2. HoldsValues(p) /\ e \in ObjectEdits(p, inner) /\ \A x \in ObjectsIn(p) : PartOK(x)
    BY <1>4 DEF ResultOK, ResultEdits
  <2> HIDE DEF inner
  <2>3. /\ HoldsValues(e.object)
        /\ \A x \in ObjectsIn(e.object) :
              \/ x \in ObjectsIn(p) \/ Simple(x)
              \/ \E y \in ObjectsIn(p) : \E d \in inner[y] : x = d.object
    BY <2>2, EditHolds
  <2>4. ASSUME NEW x \in ObjectsIn(e.object) PROVE PartOK(x)
    BY <1>1, <1>3, <2>1, <2>2, <2>3
  <2> QED BY <2>3, <2>4 DEF ResultOK
<1>5. ASSUME NEW p, MessageOK(p), NEW e \in Edits(p) PROVE MessageOK(e.object)
  <2> DEFINE inner == [x \in ObjectsIn(p) |-> ResultEdits(x)]
  <2>1. \A y \in ObjectsIn(p) : inner[y] = ResultEdits(y)
    OBVIOUS
  <2>2. HoldsValues(p) /\ e \in ObjectEdits(p, inner) /\ \A x \in ObjectsIn(p) : ResultOK(x)
    BY <1>5 DEF MessageOK, Edits
  <2> HIDE DEF inner
  <2>3. /\ HoldsValues(e.object)
        /\ \A x \in ObjectsIn(e.object) :
              \/ x \in ObjectsIn(p) \/ Simple(x)
              \/ \E y \in ObjectsIn(p) : \E d \in inner[y] : x = d.object
    BY <2>2, EditHolds
  <2>4. ASSUME NEW x \in ObjectsIn(e.object) PROVE ResultOK(x)
    BY <1>1, <1>4, <2>1, <2>2, <2>3
  <2> QED BY <2>3, <2>4 DEF MessageOK
<1> QED BY <1>2, <1>3, <1>4, <1>5

\* In every schema a member of one name is of one kind.
MemberKind(f) ==
    CASE f \in {"v", "id", "udp_port", "playout_target_ms", "stream_id", "key_epoch",
                "sample_rate_hz", "channels", "frames_per_packet", "version",
                "packet_interval_us", "feedback_age_ms"} \cup LimitKeys -> "number"
      [] f \in {"versions", "audio_profiles"} -> "array"
      [] f \in {"profile", "result", "error", "capabilities", "limits"} -> "object"
      [] f \in {"audio_send", "audio_receive", "microphone", "camera", "retryable"} -> "boolean"
      [] OTHER -> "string"
Fits(o) == "other" \notin DOMAIN o /\ \A f \in DOMAIN o : MemberKind(f) \in DOMAIN o[f]

\* A value of a kind is of no other.
LEMMA OneKind ==
    ASSUME NEW v, IsValue(v), NEW k \in DOMAIN v
    PROVE  DOMAIN v = {k} /\ Kind(v) = k
<1>1. DOMAIN v = {k}
  BY DEF IsValue
<1> QED BY <1>1 DEF Kind

\* Between objects that fit, no edit adds a member or makes one of another kind.
LEMMA EditsThatFit ==
    ASSUME NEW o, HoldsValues(o), Fits(o), NEW inner, NEW e \in ObjectEdits(o, inner),
           Fits(e.object)
    PROVE  \/ /\ e.edit = "removed"
              /\ \E f \in DOMAIN o : DOMAIN e.object = DOMAIN o \ {f}
              /\ \A g \in DOMAIN e.object : e.object[g] = o[g]
           \/ e.edit = "changed" /\ DOMAIN e.object = DOMAIN o
           \/ \E f \in DOMAIN o : \E d \in inner[o[f].object] :
                  /\ MemberKind(f) = "object" /\ e.edit = d.edit
                  /\ e.object = Put(o, f, ObjectOf(d.object))
           \/ \E f \in DOMAIN o : \E i \in ObjectPlaces(o[f].array) :
              \E d \in inner[o[f].array[i].object] :
                  /\ MemberKind(f) = "array" /\ e.edit = d.edit
                  /\ e.object = Put(o, f, ArrayOf(Put(o[f].array, i, ObjectOf(d.object))))
<1>1. \A f, v : /\ DOMAIN Put(o, f, v) = DOMAIN o
                /\ f \in DOMAIN o => Put(o, f, v)[f] = v
                /\ \A g \in DOMAIN o : g # f => Put(o, f, v)[g] = o[g]
  BY DEF Put
<1>2. ASSUME NEW f \in DOMAIN o PROVE IsValue(o[f]) /\ DOMAIN o[f] = {MemberKind(f)} /\ Kind(o[f]) = MemberKind(f)
  BY OneKind DEF HoldsValues, Fits
<1>3. CASE e.edit = "removed" /\ \E f \in DOMAIN o : e.object = Restrict(o, DOMAIN o \ {f})
  BY <1>3 DEF Restrict
<1>4. e.object # With(o, [other |-> Number(1)])
  BY DEF Fits, With
<1>5. ASSUME NEW f \in DOMAIN o, NEW v \in Samples(f) \cup AnyValue,
             e.edit = IF Kind(v) = Kind(o[f]) THEN "changed" ELSE "other_kind",
             e.object = Put(o, f, v)
      PROVE  e.edit = "changed" /\ DOMAIN e.object = DOMAIN o
  <2>1. IsValue(v)
    BY SamplesSimple DEF SimpleValue
  <2>2. MemberKind(f) \in DOMAIN v
    BY <1>1, <1>5 DEF Fits
  <2>3. Kind(v) = MemberKind(f)
    BY <2>1, <2>2, OneKind
  <2>4. Kind(o[f]) = MemberKind(f)
    BY <1>2
  <2>5. e.edit = "changed"
    BY <1>5, <2>3, <2>4
  <2> QED BY <1>1, <1>5, <2>5
<1>6. ASSUME NEW f \in DOMAIN o
      PROVE  /\ "object" \in DOMAIN o[f] => MemberKind(f) = "object"
             /\ "array" \in DOMAIN o[f] => MemberKind(f) = "array"
  BY <1>2
<1>7. CASE \E f \in DOMAIN o : \E d \in inner[o[f].object] :
              /\ "object" \in DOMAIN o[f] /\ e.edit = d.edit
              /\ e.object = Put(o, f, ObjectOf(d.object))
  BY <1>6, <1>7
<1>8. CASE \E f \in DOMAIN o : \E i \in ObjectPlaces(o[f].array) :
           \E d \in inner[o[f].array[i].object] :
              /\ "array" \in DOMAIN o[f] /\ e.edit = d.edit
              /\ e.object = Put(o, f, ArrayOf(Put(o[f].array, i, ObjectOf(d.object))))
  BY <1>6, <1>8
<1>9. CASE \E f \in DOMAIN o : \E v \in Samples(f) \cup AnyValue :
              /\ e.edit = IF Kind(v) = Kind(o[f]) THEN "changed" ELSE "other_kind"
              /\ e.object = Put(o, f, v)
  BY <1>5, <1>9
<1>10. CASE \E f \in DOMAIN o : e.edit = "removed" /\ e.object = Restrict(o, DOMAIN o \ {f})
  BY <1>3, <1>10
<1>11. \/ \E f \in DOMAIN o : e.edit = "removed" /\ e.object = Restrict(o, DOMAIN o \ {f})
       \/ e.edit = "added" /\ e.object = With(o, [other |-> Number(1)])
       \/ \E f \in DOMAIN o : \E v \in Samples(f) \cup AnyValue :
              /\ e.edit = IF Kind(v) = Kind(o[f]) THEN "changed" ELSE "other_kind"
              /\ e.object = Put(o, f, v)
       \/ \E f \in DOMAIN o : \E d \in inner[o[f].object] :
              /\ "object" \in DOMAIN o[f] /\ e.edit = d.edit
              /\ e.object = Put(o, f, ObjectOf(d.object))
       \/ \E f \in DOMAIN o : \E i \in ObjectPlaces(o[f].array) :
          \E d \in inner[o[f].array[i].object] :
              /\ "array" \in DOMAIN o[f] /\ e.edit = d.edit
              /\ e.object = Put(o, f, ArrayOf(Put(o[f].array, i, ObjectOf(d.object))))
  BY EditShapes
<1> QED BY <1>4, <1>7, <1>8, <1>9, <1>10, <1>11

\* A legal part of a message has the members its schema lists, each of its kind.
LEMMA PartsFit ==
    ASSUME NEW v
    PROVE  /\ IsProfile(v) => DOMAIN v.object = ProfileKeys /\ Fits(v.object)
           /\ IsLimits(v) => DOMAIN v.object = LimitKeys /\ Fits(v.object)
           /\ IsCapabilities(v) => DOMAIN v.object = CapabilityKeys /\ Fits(v.object)
           /\ ErrorShape(v) => DOMAIN v = {"code", "message", "retryable"} /\ Fits(v)
<1>1. ASSUME IsProfile(v) PROVE DOMAIN v.object = ProfileKeys /\ Fits(v.object)
  BY <1>1 DEF IsProfile, HasKeys, ProfileKeys, Fits, MemberKind, IsString, IsNumber, IsU32, Is, LimitKeys
<1>2. ASSUME IsLimits(v) PROVE DOMAIN v.object = LimitKeys /\ Fits(v.object)
  BY <1>2 DEF IsLimits, HasKeys, LimitKeys, Fits, MemberKind, IsNumber, IsU32, Is
<1>3. ASSUME IsCapabilities(v) PROVE DOMAIN v.object = CapabilityKeys /\ Fits(v.object)
  BY <1>3 DEF IsCapabilities, HasKeys, CapabilityKeys, Fits, MemberKind, Is, LimitKeys
<1>4. ASSUME ErrorShape(v) PROVE DOMAIN v = {"code", "message", "retryable"} /\ Fits(v)
  BY <1>4 DEF ErrorShape, HasKeys, Fits, MemberKind, IsString, Is, LimitKeys
<1> QED BY <1>1, <1>2, <1>3, <1>4

\* No edit but of a value, within its kind, leaves a profile a profile.
LEMMA ProfileClosed ==
    ASSUME NEW v, IsProfile(v), HoldsValues(v.object), NEW inner,
           NEW e \in ObjectEdits(v.object, inner), IsProfile(ObjectOf(e.object))
    PROVE  e.edit = "changed"
<1>1. /\ DOMAIN v.object = ProfileKeys /\ Fits(v.object)
      /\ DOMAIN e.object = ProfileKeys /\ Fits(e.object)
  BY PartsFit, Constructors
<1>2. \A f \in ProfileKeys : MemberKind(f) \notin {"object", "array"}
  BY DEF ProfileKeys, MemberKind, LimitKeys
<1> QED BY <1>1, <1>2, EditsThatFit

\* The same of limits.
LEMMA LimitsClosed ==
    ASSUME NEW v, IsLimits(v), HoldsValues(v.object), NEW inner,
           NEW e \in ObjectEdits(v.object, inner), IsLimits(ObjectOf(e.object))
    PROVE  e.edit = "changed"
<1>1. /\ DOMAIN v.object = LimitKeys /\ Fits(v.object)
      /\ DOMAIN e.object = LimitKeys /\ Fits(e.object)
  BY PartsFit, Constructors
<1>2. \A f \in LimitKeys : MemberKind(f) \notin {"object", "array"}
  BY DEF MemberKind, LimitKeys
<1> QED BY <1>1, <1>2, EditsThatFit

\* The same of errors.
LEMMA ErrorClosed ==
    ASSUME NEW o, ErrorShape(o), HoldsValues(o), NEW inner,
           NEW e \in ObjectEdits(o, inner), ErrorShape(e.object)
    PROVE  e.edit = "changed"
<1>1. /\ DOMAIN o = {"code", "message", "retryable"} /\ Fits(o)
      /\ DOMAIN e.object = {"code", "message", "retryable"} /\ Fits(e.object)
  BY PartsFit
<1>2. \A f \in {"code", "message", "retryable"} : MemberKind(f) \notin {"object", "array"}
  BY DEF MemberKind, LimitKeys
<1> QED BY <1>1, <1>2, EditsThatFit

\* The same of capabilities, the profiles they list included.
LEMMA CapabilitiesClosed ==
    ASSUME NEW v, IsCapabilities(v), PartOK(v.object),
           NEW e \in PartEdits(v.object), IsCapabilities(ObjectOf(e.object))
    PROVE  e.edit = "changed"
<1> DEFINE c == v.object
           inner == [x \in ObjectsIn(c) |-> ProfileEdits(x)]
           a == c["audio_profiles"].array
<1>1. /\ DOMAIN c = CapabilityKeys /\ Fits(c)
      /\ DOMAIN e.object = CapabilityKeys /\ Fits(e.object)
  BY PartsFit, Constructors
<1>2. /\ \A f \in CapabilityKeys : MemberKind(f) # "object"
      /\ \A f \in CapabilityKeys : MemberKind(f) = "array" => f = "audio_profiles"
      /\ "audio_profiles" \in CapabilityKeys
  BY DEF CapabilityKeys, MemberKind, LimitKeys
<1>3. HoldsValues(c) /\ e \in ObjectEdits(c, inner) /\ \A x \in ObjectsIn(c) : HoldsValues(x)
  BY DEF PartOK, PartEdits, LeafOK
<1>4. \A x \in ObjectsIn(c) : inner[x] = ProfileEdits(x)
  OBVIOUS
<1> HIDE DEF inner, c
<1>5. \A i \in DOMAIN a : IsProfile(a[i])
  BY DEF IsCapabilities, c
<1>6. \A i \in DOMAIN e.object["audio_profiles"].array : IsProfile(e.object["audio_profiles"].array[i])
  BY Constructors DEF IsCapabilities
<1>7. "array" \in DOMAIN c["audio_profiles"]
  BY DEF IsCapabilities, Is, c
<1>8. ASSUME NEW i \in ObjectPlaces(a), NEW d \in inner[a[i].object],
             e.edit = d.edit, e.object = Put(c, "audio_profiles", ArrayOf(Put(a, i, ObjectOf(d.object))))
      PROVE  e.edit = "changed"
  <2>1. i \in DOMAIN a /\ a[i].object \in ObjectsIn(c)
    BY <1>1, <1>2, <1>7, ObjectsInMembers DEF InValue, ObjectPlaces
  <2>2. d \in ProfileEdits(a[i].object) /\ HoldsValues(a[i].object)
    BY <1>3, <1>4, <2>1
  <2>3. e.object["audio_profiles"] = ArrayOf(Put(a, i, ObjectOf(d.object)))
    BY <1>1, <1>2, <1>8 DEF Put
  <2>4. e.object["audio_profiles"].array = Put(a, i, ObjectOf(d.object))
    BY <2>3, Constructors
  <2>5. i \in DOMAIN Put(a, i, ObjectOf(d.object)) /\ Put(a, i, ObjectOf(d.object))[i] = ObjectOf(d.object)
    BY <2>1 DEF Put
  <2>6. IsProfile(ObjectOf(d.object))
    BY <1>6, <2>4, <2>5
  <2>7. d.edit = "changed"
    BY <1>5, <2>1, <2>2, <2>6, ProfileClosed DEF ProfileEdits
  <2> QED BY <1>8, <2>7
<1> QED BY <1>1, <1>2, <1>3, <1>8, EditsThatFit

ResultKeySets ==
    {HelloResultKeys, {"udp_port", "path_state"}, OpenResultKeys, {"stream_id", "key_epoch", "state"},
     {"stream_id", "state"}, {"state"}, StatusKeys, {"token", "monotonic_ns"}}

\* A legal result has one of eight lists of members, each member of its kind.
LEMMA ResultFits ==
    ASSUME NEW r, ResultShape(r)
    PROVE  /\ DOMAIN r \in ResultKeySets /\ Fits(r)
           /\ "capabilities" \in DOMAIN r => IsCapabilities(r["capabilities"])
           /\ "limits" \in DOMAIN r => IsLimits(r["limits"])
           /\ "profile" \in DOMAIN r => IsProfile(r["profile"])
<1>1. DOMAIN r \in ResultKeySets
  BY DEF ResultShape, HasKeys, ResultKeySets
<1> USE DEF Fits, MemberKind, LimitKeys, IsString, IsNumber, IsId, IsU32, Is
<1>2. CASE DOMAIN r = HelloResultKeys
  <2>1. /\ IsNumber(r, "version", 1, 1) /\ IsString(r, "role", {"apple-output-server"})
        /\ IsString(r, "server_id", Uuids) /\ IsString(r, "boot_id", Uuids)
        /\ IsString(r, "session_id", SessionIds) /\ IsNumber(r, "udp_port", 1, MaxU16)
        /\ IsCapabilities(r["capabilities"]) /\ IsLimits(r["limits"])
    BY <1>2 DEF ResultShape, HasKeys, HelloResultKeys, OpenResultKeys, StatusKeys
  <2>2. "object" \in DOMAIN r["capabilities"] /\ "object" \in DOMAIN r["limits"]
    BY <2>1 DEF IsCapabilities, IsLimits
  <2>3. Fits(r)
    BY <1>2, <2>1, <2>2 DEF HelloResultKeys
  <2> QED BY <1>1, <1>2, <2>1, <2>3 DEF HelloResultKeys
<1>3. CASE DOMAIN r = OpenResultKeys
  <2>1. /\ IsId(r, "stream_id") /\ IsId(r, "key_epoch") /\ IsProfile(r["profile"])
        /\ IsU32(r, "packet_interval_us") /\ IsString(r, "path_state", {"probing"})
    BY <1>3 DEF ResultShape, HasKeys, HelloResultKeys, OpenResultKeys, StatusKeys
  <2>2. "object" \in DOMAIN r["profile"]
    BY <2>1 DEF IsProfile
  <2>3. Fits(r)
    BY <1>3, <2>1, <2>2 DEF OpenResultKeys
  <2> QED BY <1>1, <1>3, <2>1, <2>3 DEF OpenResultKeys
<1>4. CASE DOMAIN r = StatusKeys
  <2>1. /\ IsString(r, "output_state", EndpointStates)
        /\ IsString(r, "session_stream_state", Reasons)
        /\ IsString(r, "transport_state", Reasons) /\ IsNumber(r, "feedback_age_ms", 0, 6000)
    BY <1>4 DEF ResultShape, HasKeys, HelloResultKeys, OpenResultKeys, StatusKeys
  <2>2. Fits(r)
    BY <1>4, <2>1 DEF StatusKeys
  <2> QED BY <1>1, <1>4, <2>2 DEF StatusKeys
<1>5. CASE DOMAIN r = {"udp_port", "path_state"}
  <2>1. IsNumber(r, "udp_port", 1, MaxU16) /\ IsString(r, "path_state", {"bound"})
    BY <1>5 DEF ResultShape, HasKeys, HelloResultKeys, OpenResultKeys, StatusKeys
  <2>2. Fits(r)
    BY <1>5, <2>1
  <2> QED BY <1>1, <1>5, <2>2
<1>6. CASE DOMAIN r = {"stream_id", "key_epoch", "state"}
  <2>1. IsId(r, "stream_id") /\ IsId(r, "key_epoch") /\ IsString(r, "state", Reasons)
    BY <1>6 DEF ResultShape, HasKeys, HelloResultKeys, OpenResultKeys, StatusKeys
  <2>2. Fits(r)
    BY <1>6, <2>1
  <2> QED BY <1>1, <1>6, <2>2
<1>7. CASE DOMAIN r = {"stream_id", "state"}
  <2>1. IsId(r, "stream_id") /\ IsString(r, "state", Reasons)
    BY <1>7 DEF ResultShape, HasKeys, HelloResultKeys, OpenResultKeys, StatusKeys
  <2>2. Fits(r)
    BY <1>7, <2>1
  <2> QED BY <1>1, <1>7, <2>2
<1>8. CASE DOMAIN r = {"state"}
  <2>1. IsString(r, "state", Reasons)
    BY <1>8 DEF ResultShape, HasKeys, HelloResultKeys, OpenResultKeys, StatusKeys
  <2>2. Fits(r)
    BY <1>8, <2>1
  <2> QED BY <1>1, <1>8, <2>2
<1>9. CASE DOMAIN r = {"token", "monotonic_ns"}
  <2>1. IsString(r, "token", Tokens64) /\ IsString(r, "monotonic_ns", GoodDecimals)
    BY <1>9 DEF ResultShape, HasKeys, HelloResultKeys, OpenResultKeys, StatusKeys
  <2>2. Fits(r)
    BY <1>9, <2>1
  <2> QED BY <1>1, <1>9, <2>2
<1> QED BY <1>1, <1>2, <1>3, <1>4, <1>5, <1>6, <1>7, <1>8, <1>9 DEF ResultKeySets

\* Of the eight lists only two are another with a member less.
LEMMA ResultLists ==
    ASSUME NEW S \in ResultKeySets, NEW f \in S, S \ {f} \in ResultKeySets
    PROVE  S \ {f} \in {{"stream_id", "state"}, {"state"}}
<1>1. CASE S = HelloResultKeys
  BY <1>1 DEF ResultKeySets, HelloResultKeys, OpenResultKeys, StatusKeys
<1>2. CASE S = OpenResultKeys
  BY <1>2 DEF ResultKeySets, HelloResultKeys, OpenResultKeys, StatusKeys
<1>3. CASE S = StatusKeys
  BY <1>3 DEF ResultKeySets, HelloResultKeys, OpenResultKeys, StatusKeys
<1>4. CASE S = {"udp_port", "path_state"} \/ S = {"token", "monotonic_ns"} \/ S = {"state"}
  BY <1>4 DEF ResultKeySets, HelloResultKeys, OpenResultKeys, StatusKeys
<1>5. CASE S = {"stream_id", "key_epoch", "state"} \/ S = {"stream_id", "state"}
  BY <1>5 DEF ResultKeySets, HelloResultKeys, OpenResultKeys, StatusKeys
<1> QED BY <1>1, <1>2, <1>3, <1>4, <1>5 DEF ResultKeySets

\* An edited result is refused, but for a value changed within its kind and the two stream
\* results that lose a member.
LEMMA ResultClosed ==
    ASSUME NEW r, ResultShape(r), ResultOK(r), NEW e \in ResultEdits(r), ResultShape(e.object)
    PROVE  \/ e.edit = "changed"
           \/ e.edit = "removed" /\ DOMAIN e.object \in {{"stream_id", "state"}, {"state"}}
<1> DEFINE inner == [x \in ObjectsIn(r) |-> PartEdits(x)]
<1>1. HoldsValues(r) /\ e \in ObjectEdits(r, inner) /\ \A x \in ObjectsIn(r) : PartOK(x)
  BY DEF ResultOK, ResultEdits
<1>2. \A x \in ObjectsIn(r) : inner[x] = PartEdits(x)
  OBVIOUS
<1> HIDE DEF inner
<1>3. DOMAIN r \in ResultKeySets /\ Fits(r) /\ DOMAIN e.object \in ResultKeySets /\ Fits(e.object)
  BY ResultFits
<1>4. ASSUME NEW f \in DOMAIN r, DOMAIN e.object = DOMAIN r \ {f}
      PROVE  DOMAIN e.object \in {{"stream_id", "state"}, {"state"}}
  BY <1>3, <1>4, ResultLists
<1>5. ASSUME NEW f \in DOMAIN r
      PROVE  MemberKind(f) # "array"
             /\ (MemberKind(f) = "object" => f \in {"capabilities", "limits", "profile"})
  BY <1>3 DEF ResultKeySets, HelloResultKeys, OpenResultKeys, StatusKeys, MemberKind, LimitKeys
<1>6. ASSUME NEW f \in DOMAIN r, NEW d \in inner[r[f].object], MemberKind(f) = "object",
             e.edit = d.edit, e.object = Put(r, f, ObjectOf(d.object))
      PROVE  e.edit = "changed"
  <2>1. f \in DOMAIN e.object /\ e.object[f] = ObjectOf(d.object)
    BY <1>6 DEF Put
  <2>2. "object" \in DOMAIN r[f]
    BY <1>3, <1>6 DEF Fits
  <2>3. r[f].object \in ObjectsIn(r)
    BY <2>2, ObjectsInMembers DEF InValue
  <2>4. d \in PartEdits(r[f].object) /\ PartOK(r[f].object) /\ HoldsValues(r[f].object)
    BY <1>1, <1>2, <2>3 DEF PartOK
  <2>5. CASE f = "capabilities"
    <3>1. IsCapabilities(r[f]) /\ IsCapabilities(ObjectOf(d.object))
      BY <2>1, <2>5, ResultFits
    <3> QED BY <1>6, <2>4, <3>1, CapabilitiesClosed
  <2>6. CASE f = "limits"
    <3>1. IsLimits(r[f]) /\ IsLimits(ObjectOf(d.object))
      BY <2>1, <2>6, ResultFits
    <3> QED BY <1>6, <2>4, <3>1, LimitsClosed DEF PartEdits
  <2>7. CASE f = "profile"
    <3>1. IsProfile(r[f]) /\ IsProfile(ObjectOf(d.object))
      BY <2>1, <2>7, ResultFits
    <3> QED BY <1>6, <2>4, <3>1, ProfileClosed DEF PartEdits
  <2> QED BY <1>5, <1>6, <2>5, <2>6, <2>7
<1>7. \A f \in DOMAIN r : MemberKind(f) # "array"
  BY <1>5
<1> QED BY <1>1, <1>3, <1>4, <1>6, <1>7, EditsThatFit

\* What an accepted message is: an event, a result, an error or a request.
LEMMA AcceptedIs ==
    ASSUME NEW m, Accepted(m)
    PROVE  /\ IsNumber(m, "v", 1, 255) /\ m["v"].number = 1 /\ IsString(m, "type", TypeStrings)
           /\ \/ m["type"].string \in EventTypes /\ EventLegal(m, m["type"].string)
              \/ /\ IsId(m, "id")
                 /\ \/ m["type"].string = "result" /\ ResultLegal(m)
                    \/ m["type"].string = "error" /\ ErrorLegal(m)
                    \/ /\ m["type"].string \in RequestTypes
                       /\ RequestLegal(m, m["type"].string)
<1> DEFINE type == m["type"].string
<1>1. /\ IsNumber(m, "v", 1, 255) /\ m["v"].number = 1 /\ IsString(m, "type", TypeStrings)
      /\ SchemaStatus(m, type) = "GM_OK"
  BY DEF Accepted, ParseMessage
<1>2. EventLegal(m, type) => type \in EventTypes
  BY DEF EventLegal
<1>3. RequestStatus(m, type) = "GM_OK" => RequestLegal(m, type)
  BY DEF RequestStatus
<1>4. RequestLegal(m, type) => type \in RequestTypes
  BY DEF RequestLegal
<1>5. /\ Verdict(EventLegal(m, type)) = "GM_OK" => EventLegal(m, type)
      /\ Verdict(ResultLegal(m)) = "GM_OK" => ResultLegal(m)
      /\ Verdict(ErrorLegal(m)) = "GM_OK" => ErrorLegal(m)
  BY DEF Verdict
<1>6. CASE IsEvent(type)
  <2>1. SchemaStatus(m, type) = Verdict(EventLegal(m, type))
    BY <1>6 DEF SchemaStatus, IsEvent, EventTypes
  <2> QED BY <1>1, <1>2, <1>5, <2>1
<1>7. CASE ~IsEvent(type)
  <2>1. IsId(m, "id")
    BY <1>1, <1>7 DEF SchemaStatus
  <2>2. CASE type = "result"
    <3>1. SchemaStatus(m, type) = Verdict(ResultLegal(m))
      BY <1>7, <2>1, <2>2 DEF SchemaStatus
    <3> QED BY <1>1, <1>5, <2>1, <2>2, <3>1
  <2>3. CASE type = "error"
    <3>1. SchemaStatus(m, type) = Verdict(ErrorLegal(m))
      BY <1>7, <2>1, <2>3 DEF SchemaStatus
    <3> QED BY <1>1, <1>5, <2>1, <2>3, <3>1
  <2>4. CASE type # "result" /\ type # "error"
    <3>1. SchemaStatus(m, type) = RequestStatus(m, type)
      BY <1>7, <2>1, <2>4 DEF SchemaStatus
    <3> QED BY <1>1, <1>3, <1>4, <2>1, <3>1
  <2> QED BY <2>2, <2>3, <2>4
<1> QED BY <1>6, <1>7

\* A legal request has the members that its type lists, each of its kind.
LEMMA RequestFits ==
    ASSUME NEW m, NEW type, RequestLegal(m, type), "number" \in DOMAIN m["v"],
           "number" \in DOMAIN m["id"], "string" \in DOMAIN m["type"]
    PROVE  /\ Fits(m) /\ "result" \notin DOMAIN m /\ "error" \notin DOMAIN m
           /\ \/ DOMAIN m = RequestKeys(type)
              \/ type = "session.close" /\ DOMAIN m = Envelope \cup {"reason"}
           /\ "profile" \in DOMAIN m => IsProfile(m["profile"])
           /\ "versions" \in DOMAIN m => DescendingVersions(m["versions"].array)
<1>1. /\ type \in RequestTypes
      /\ \/ DOMAIN m = RequestKeys(type)
         \/ type = "session.close" /\ DOMAIN m = Envelope \cup {"reason"}
  BY DEF RequestLegal, HasKeys
<1> USE DEF Fits, MemberKind, LimitKeys, IsString, IsNumber, IsId, IsU32, Is, Envelope
<1>2. CASE type = "session.hello"
  <2>1. DOMAIN m = {"v", "id", "type", "role", "client_name", "versions", "udp_port"}
    BY <1>1, <1>2 DEF RequestKeys
  <2>2. /\ IsString(m, "role", {"win-client"}) /\ IsString(m, "client_name", AtMost(128))
        /\ Is(m, "versions", "array") /\ IsNumber(m, "udp_port", 1, MaxU16)
        /\ DescendingVersions(m["versions"].array)
    BY <1>2 DEF RequestLegal
  <2>3. Fits(m)
    BY <2>1, <2>2
  <2> QED BY <1>1, <2>1, <2>2, <2>3
<1>3. CASE type = "transport.bind"
  <2>1. DOMAIN m = {"v", "id", "type", "session_id", "udp_port"}
    BY <1>1, <1>3 DEF RequestKeys
  <2>2. IsString(m, "session_id", SessionIds) /\ IsNumber(m, "udp_port", 1, MaxU16)
    BY <1>3 DEF RequestLegal
  <2>3. Fits(m)
    BY <2>1, <2>2
  <2> QED BY <1>1, <2>1, <2>3
<1>4. CASE type = "stream.open"
  <2>1. DOMAIN m = {"v", "id", "type", "kind", "direction", "profile", "playout_target_ms"}
    BY <1>1, <1>4 DEF RequestKeys
  <2>2. /\ IsString(m, "kind", {"audio"}) /\ IsString(m, "direction", {"win_to_apple"})
        /\ IsProfile(m["profile"]) /\ IsNumber(m, "playout_target_ms", 15, 120)
    BY <1>4 DEF RequestLegal
  <2>3. "object" \in DOMAIN m["profile"]
    BY <2>2 DEF IsProfile
  <2>4. Fits(m)
    BY <2>1, <2>2, <2>3
  <2> QED BY <1>1, <2>1, <2>2, <2>4
<1>5. CASE type = "stream.start"
  <2>1. DOMAIN m = {"v", "id", "type", "stream_id", "first_media_timestamp"}
    BY <1>1, <1>5 DEF RequestKeys
  <2>2. IsId(m, "stream_id") /\ IsString(m, "first_media_timestamp", GoodDecimals)
    BY <1>5 DEF RequestLegal
  <2>3. Fits(m)
    BY <2>1, <2>2
  <2> QED BY <1>1, <2>1, <2>3
<1>6. CASE type \in {"stream.stop", "stream.close"}
  <2>1. DOMAIN m = {"v", "id", "type", "stream_id"}
    BY <1>1, <1>6 DEF RequestKeys
  <2>2. IsId(m, "stream_id")
    BY <1>6 DEF RequestLegal
  <2>3. Fits(m)
    BY <2>1, <2>2
  <2> QED BY <1>1, <2>1, <2>3
<1>7. CASE type = "stream.rekey"
  <2>1. DOMAIN m = {"v", "id", "type", "stream_id", "key_epoch"}
    BY <1>1, <1>7 DEF RequestKeys
  <2>2. IsId(m, "stream_id") /\ IsId(m, "key_epoch")
    BY <1>7 DEF RequestLegal
  <2>3. Fits(m)
    BY <2>1, <2>2
  <2> QED BY <1>1, <2>1, <2>3
<1>8. CASE type = "ping"
  <2>1. DOMAIN m = {"v", "id", "type", "token"}
    BY <1>1, <1>8 DEF RequestKeys
  <2>2. IsString(m, "token", Tokens64)
    BY <1>8 DEF RequestLegal
  <2>3. Fits(m)
    BY <2>1, <2>2
  <2> QED BY <1>1, <2>1, <2>3
<1>9. CASE type = "session.close"
  <2>1. DOMAIN m = {"v", "id", "type"} \/ DOMAIN m = {"v", "id", "type", "reason"}
    BY <1>1, <1>9 DEF RequestKeys
  <2>2. "reason" \in DOMAIN m => IsString(m, "reason", Reasons)
    BY <1>9 DEF RequestLegal
  <2>3. Fits(m)
    BY <2>1, <2>2
  <2> QED BY <1>1, <2>1, <2>3
<1>10. CASE type = "status.get"
  <2>1. DOMAIN m = {"v", "id", "type"}
    BY <1>1, <1>10 DEF RequestKeys
  <2>2. Fits(m)
    BY <2>1
  <2> QED BY <1>1, <2>1, <2>2
<1> QED BY <1>1, <1>2, <1>3, <1>4, <1>5, <1>6, <1>7, <1>8, <1>9, <1>10 DEF RequestTypes

\* The same of an event.
LEMMA EventFits ==
    ASSUME NEW m, NEW type, EventLegal(m, type), "number" \in DOMAIN m["v"],
           "string" \in DOMAIN m["type"]
    PROVE  /\ Fits(m) /\ DOMAIN m = EventKeys(type)
           /\ DOMAIN m \cap {"result", "error", "profile", "versions", "id"} = {}
<1>1. type \in EventTypes /\ DOMAIN m = EventKeys(type)
  BY DEF EventLegal, HasKeys
<1> USE DEF Fits, MemberKind, LimitKeys, IsString, IsNumber, IsId, Is
<1>2. CASE type = "event.stream.started"
  <2>1. DOMAIN m = {"v", "type", "stream_id", "first_media_timestamp"}
    BY <1>1, <1>2 DEF EventKeys
  <2>2. IsId(m, "stream_id") /\ IsString(m, "first_media_timestamp", GoodDecimals)
    BY <1>1, <1>2, <2>1 DEF EventLegal
  <2>3. Fits(m)
    BY <2>1, <2>2
  <2> QED BY <1>1, <2>1, <2>3
<1>3. CASE type = "event.stream.stopped"
  <2>1. DOMAIN m = {"v", "type", "stream_id", "reason"}
    BY <1>1, <1>3 DEF EventKeys
  <2>2. IsId(m, "stream_id") /\ IsString(m, "reason", Reasons)
    BY <1>1, <1>3, <2>1 DEF EventLegal
  <2>3. Fits(m)
    BY <2>1, <2>2
  <2> QED BY <1>1, <2>1, <2>3
<1>4. CASE type = "event.output.state"
  <2>1. DOMAIN m = {"v", "type", "state", "reason"}
    BY <1>1, <1>4 DEF EventKeys
  <2>2. IsString(m, "state", EndpointStates) /\ IsString(m, "reason", Reasons)
    BY <1>1, <1>4, <2>1 DEF EventLegal
  <2>3. Fits(m)
    BY <2>1, <2>2
  <2> QED BY <1>1, <2>1, <2>3
<1>5. CASE type = "event.session.expiring"
  <2>1. DOMAIN m = {"v", "type", "reason", "deadline_monotonic_ns"}
    BY <1>1, <1>5 DEF EventKeys
  <2>2. IsString(m, "deadline_monotonic_ns", GoodDecimals) /\ IsString(m, "reason", Reasons)
    BY <1>1, <1>5, <2>1 DEF EventLegal
  <2>3. Fits(m)
    BY <2>1, <2>2
  <2> QED BY <1>1, <2>1, <2>3
<1> QED BY <1>1, <1>2, <1>3, <1>4, <1>5 DEF EventTypes

\* The members an accepted message has, by what it is.
MessageKeys(type) ==
    CASE type \in EventTypes   -> {EventKeys(type)}
      [] type = "result"        -> {Envelope \cup {"result"}}
      [] type = "error"         -> {Envelope \cup {"error"}}
      [] type = "session.close" -> {Envelope, Envelope \cup {"reason"}}
      [] OTHER                  -> {RequestKeys(type)}

\* Only a close may be written in two ways.
LEMMA OneWayToWrite ==
    ASSUME NEW type, type # "session.close"
    PROVE  \E S : MessageKeys(type) = {S}
<1>1. CASE type \in EventTypes
  <2>1. MessageKeys(type) = {EventKeys(type)}
    BY <1>1 DEF MessageKeys, EventTypes
  <2> QED BY <2>1
<1>2. CASE type \notin EventTypes /\ type = "result"
  <2>1. MessageKeys(type) = {Envelope \cup {"result"}}
    BY <1>2 DEF MessageKeys
  <2> QED BY <2>1
<1>3. CASE type \notin EventTypes /\ type = "error"
  <2>1. MessageKeys(type) = {Envelope \cup {"error"}}
    BY <1>3 DEF MessageKeys
  <2> QED BY <2>1
<1>4. CASE type \notin EventTypes \cup {"result", "error"}
  <2>1. MessageKeys(type) = {RequestKeys(type)}
    BY <1>4 DEF MessageKeys
  <2> QED BY <2>1
<1> QED BY <1>1, <1>2, <1>3, <1>4

\* An accepted message has the members its type lists, each of its kind, and legal parts.
LEMMA MessageFits ==
    ASSUME NEW m, Accepted(m)
    PROVE  /\ Fits(m) /\ "type" \in DOMAIN m /\ DOMAIN m \in MessageKeys(m["type"].string)
           /\ m["type"].string \in EventTypes \cup RequestTypes \cup {"result", "error"}
           /\ "result" \in DOMAIN m => m["type"].string = "result" /\ ResultShape(m["result"].object)
           /\ "error" \in DOMAIN m => ErrorShape(m["error"].object)
           /\ "profile" \in DOMAIN m => IsProfile(m["profile"])
           /\ "versions" \in DOMAIN m => DescendingVersions(m["versions"].array)
<1> DEFINE type == m["type"].string
<1>1. /\ "type" \in DOMAIN m /\ "number" \in DOMAIN m["v"] /\ "string" \in DOMAIN m["type"]
      /\ IsId(m, "id") => "id" \in DOMAIN m /\ "number" \in DOMAIN m["id"]
  BY AcceptedIs DEF IsNumber, IsString, IsId, Is
<1>2. EventTypes \cap {"result", "error"} = {} /\ RequestTypes \cap {"result", "error"} = {}
      /\ EventTypes \cap RequestTypes = {}
  BY DEF EventTypes, RequestTypes
<1> HIDE DEF type
<1>3. CASE type \in EventTypes /\ EventLegal(m, type)
  <2>1. Fits(m) /\ DOMAIN m = EventKeys(type)
        /\ DOMAIN m \cap {"result", "error", "profile", "versions", "id"} = {}
    BY <1>1, <1>3, EventFits DEF type
  <2>2. MessageKeys(type) = {EventKeys(type)}
    BY <1>3 DEF MessageKeys, EventTypes
  <2> QED BY <1>1, <1>3, <2>1, <2>2 DEF type
<1>4. CASE IsId(m, "id") /\ type = "result" /\ ResultLegal(m)
  <2>1. DOMAIN m = {"v", "id", "type", "result"} /\ "object" \in DOMAIN m["result"]
        /\ ResultShape(m["result"].object)
    BY <1>4 DEF ResultLegal, HasKeys, Is, Envelope
  <2>2. Fits(m)
    BY <1>1, <1>4, <2>1 DEF Fits, MemberKind, LimitKeys
  <2>3. DOMAIN m \in MessageKeys(type)
    BY <1>4, <2>1 DEF MessageKeys, EventTypes, Envelope
  <2> QED BY <1>1, <1>4, <2>1, <2>2, <2>3 DEF type
<1>5. CASE IsId(m, "id") /\ type = "error" /\ ErrorLegal(m)
  <2>1. DOMAIN m = {"v", "id", "type", "error"} /\ "object" \in DOMAIN m["error"]
        /\ ErrorShape(m["error"].object)
    BY <1>5 DEF ErrorLegal, HasKeys, Is, Envelope
  <2>2. Fits(m)
    BY <1>1, <1>5, <2>1 DEF Fits, MemberKind, LimitKeys
  <2>3. DOMAIN m \in MessageKeys(type)
    BY <1>5, <2>1 DEF MessageKeys, EventTypes, Envelope
  <2> QED BY <1>1, <1>5, <2>1, <2>2, <2>3 DEF type
<1>6. CASE IsId(m, "id") /\ type \in RequestTypes /\ RequestLegal(m, type)
  <2>1. /\ Fits(m) /\ "result" \notin DOMAIN m /\ "error" \notin DOMAIN m
        /\ \/ DOMAIN m = RequestKeys(type)
           \/ type = "session.close" /\ DOMAIN m = Envelope \cup {"reason"}
        /\ "profile" \in DOMAIN m => IsProfile(m["profile"])
        /\ "versions" \in DOMAIN m => DescendingVersions(m["versions"].array)
    BY <1>1, <1>6, RequestFits DEF type
  <2>2. CASE type = "session.close"
    <3>1. RequestKeys(type) = Envelope
      BY <2>2 DEF RequestKeys
    <3>2. MessageKeys(type) = {Envelope, Envelope \cup {"reason"}}
      BY <1>2, <1>6, <2>2 DEF MessageKeys
    <3> QED BY <1>1, <1>6, <2>1, <2>2, <3>1, <3>2 DEF type
  <2>3. CASE type # "session.close"
    <3>1. MessageKeys(type) = {RequestKeys(type)}
      BY <1>2, <1>6, <2>3 DEF MessageKeys
    <3> QED BY <1>1, <1>6, <2>1, <2>3, <3>1 DEF type
  <2> QED BY <2>2, <2>3
<1> QED BY <1>3, <1>4, <1>5, <1>6, AcceptedIs DEF type

\* An accepted message one edit away from an accepted one: nothing was added or became another
\* kind, and only a close lost its reason, or a stream result its epoch or stream.
LEMMA MessageClosed ==
    ASSUME NEW m, Accepted(m), MessageOK(m), NEW e \in Edits(m), Accepted(e.object)
    PROVE  /\ e.edit \in {"changed", "removed"}
           /\ e.edit = "removed" =>
                 \/ e.object["type"].string = "session.close"
                 \/ /\ e.object["type"].string = "result"
                    /\ DOMAIN e.object["result"].object \in {{"stream_id", "state"}, {"state"}}
<1> DEFINE n == e.object
           inner == [x \in ObjectsIn(m) |-> ResultEdits(x)]
<1>1. HoldsValues(m) /\ e \in ObjectEdits(m, inner) /\ \A x \in ObjectsIn(m) : ResultOK(x)
  BY DEF MessageOK, Edits
<1>2. \A x \in ObjectsIn(m) : inner[x] = ResultEdits(x)
  OBVIOUS
<1> HIDE DEF inner
<1>3. Fits(m) /\ Fits(n) /\ "type" \in DOMAIN m /\ "type" \in DOMAIN n
  BY MessageFits
<1>4. CASE /\ e.edit = "removed"
           /\ \E f \in DOMAIN m : DOMAIN n = DOMAIN m \ {f}
           /\ \A g \in DOMAIN n : n[g] = m[g]
  <2>1. n["type"] = m["type"]
    BY <1>3, <1>4
  <2>2. PICK f \in DOMAIN m : DOMAIN n = DOMAIN m \ {f}
    BY <1>4
  <2>3. DOMAIN m # DOMAIN n
    BY <2>2
  <2>4. DOMAIN m \in MessageKeys(n["type"].string) /\ DOMAIN n \in MessageKeys(n["type"].string)
    BY <2>1, MessageFits
  <2>5. n["type"].string = "session.close"
    BY <2>3, <2>4, OneWayToWrite
  <2> QED BY <1>4, <2>5
<1>5. ASSUME NEW f \in DOMAIN m
      PROVE  /\ MemberKind(f) = "array" => f = "versions"
             /\ MemberKind(f) = "object" => f \in {"profile", "result", "error"}
  <2>1. DOMAIN m \in MessageKeys(m["type"].string)
        /\ m["type"].string \in EventTypes \cup RequestTypes \cup {"result", "error"}
    BY MessageFits
  <2>2. \A type : DOMAIN m \in MessageKeys(type) => DOMAIN m \cap {"audio_profiles", "capabilities", "limits"} = {}
    BY DEF MessageKeys, EventKeys, RequestKeys, Envelope
  <2> QED BY <2>1, <2>2 DEF MemberKind, LimitKeys
<1>6. ASSUME NEW f \in DOMAIN m, NEW d \in inner[m[f].object], MemberKind(f) = "object",
             e.edit = d.edit, n = Put(m, f, ObjectOf(d.object))
      PROVE  \/ e.edit = "changed"
             \/ /\ e.edit = "removed" /\ n["type"].string = "result"
                /\ DOMAIN n["result"].object \in {{"stream_id", "state"}, {"state"}}
  <2>1. f \in DOMAIN n /\ n[f] = ObjectOf(d.object) /\ n[f].object = d.object
    BY <1>6, Constructors DEF Put
  <2>2. "object" \in DOMAIN m[f]
    BY <1>3, <1>6 DEF Fits
  <2>3. m[f].object \in ObjectsIn(m)
    BY <2>2, ObjectsInMembers DEF InValue
  <2>4. d \in ResultEdits(m[f].object) /\ ResultOK(m[f].object) /\ HoldsValues(m[f].object)
    BY <1>1, <1>2, <2>3 DEF ResultOK
  <2>5. CASE f = "result"
    <3>1. ResultShape(m[f].object) /\ ResultShape(d.object) /\ n["type"].string = "result"
      BY <2>1, <2>5, MessageFits
    <3> QED BY <1>6, <2>1, <2>4, <2>5, <3>1, ResultClosed
  <2>6. CASE f = "error"
    <3>1. ErrorShape(m[f].object) /\ ErrorShape(d.object)
      BY <2>1, <2>6, MessageFits
    <3> QED BY <1>6, <2>4, <3>1, ErrorClosed DEF ResultEdits
  <2>7. CASE f = "profile"
    <3>1. IsProfile(m[f]) /\ IsProfile(ObjectOf(d.object))
      BY <2>1, <2>7, MessageFits
    <3> QED BY <1>6, <2>4, <3>1, ProfileClosed DEF ResultEdits
  <2> QED BY <1>5, <1>6, <2>5, <2>6, <2>7
<1>7. ASSUME NEW f \in DOMAIN m, NEW i \in ObjectPlaces(m[f].array), MemberKind(f) = "array"
      PROVE  FALSE
  <2>1. f = "versions" /\ "array" \in DOMAIN m[f]
    BY <1>3, <1>5, <1>7 DEF Fits
  <2>2. i \in DOMAIN m[f].array /\ "object" \in DOMAIN m[f].array[i]
    BY DEF ObjectPlaces
  <2>3. IsValue(m[f].array[i])
    BY <1>1, <2>1, <2>2 DEF HoldsValues
  <2>4. "number" \in DOMAIN m[f].array[i]
    BY <2>1, <2>2, MessageFits DEF DescendingVersions
  <2>5. DOMAIN m[f].array[i] = {"object"}
    BY <2>2, <2>3, OneKind
  <2> QED BY <2>4, <2>5
<1>8. CASE \E f \in DOMAIN m : \E d \in inner[m[f].object] :
              /\ MemberKind(f) = "object" /\ e.edit = d.edit
              /\ n = Put(m, f, ObjectOf(d.object))
  BY <1>6, <1>8
<1>9. ~ \E f \in DOMAIN m : \E i \in ObjectPlaces(m[f].array) : MemberKind(f) = "array"
  BY <1>7
<1> QED BY <1>1, <1>3, <1>4, <1>8, <1>9, EditsThatFit

-------------------------------------------------------------------------------
(* The messages that the programs write, and the samples, have values at every level. *)

\* An object whose members are simple values is a message, a result and a part.
LEMMA SimpleMembers ==
    ASSUME NEW o, \A f \in DOMAIN o : SimpleValue(o[f])
    PROVE  LeafOK(o) /\ PartOK(o) /\ ResultOK(o) /\ MessageOK(o)
<1>1. HoldsValues(o)
  BY DEF SimpleValue, HoldsValues
<1>2. ASSUME NEW x \in ObjectsIn(o) PROVE Simple(x)
  <2>1. PICK f \in DOMAIN o : InValue(x, o[f])
    BY ObjectsInMembers
  <2> QED BY <2>1 DEF SimpleValue, InValue, ObjectPlaces
<1>3. ASSUME NEW x, Simple(x) PROVE LeafOK(x) /\ PartOK(x) /\ ResultOK(x)
  BY <1>3 DEF Simple, LeafOK, PartOK, ResultOK
<1> QED BY <1>1, <1>2, <1>3 DEF LeafOK, PartOK, ResultOK, MessageOK

\* An object whose members are simple values or objects of the level below.
LEMMA Levels ==
    ASSUME NEW o
    PROVE  /\ (\A f \in DOMAIN o : SimpleValue(o[f]) \/ \E p : PartOK(p) /\ o[f] = ObjectOf(p)) => ResultOK(o)
           /\ (\A f \in DOMAIN o : SimpleValue(o[f]) \/ \E p : ResultOK(p) /\ o[f] = ObjectOf(p)) => MessageOK(o)
<1>1. ASSUME NEW v, NEW p, v = ObjectOf(p)
      PROVE  IsValue(v) /\ DOMAIN v = {"object"} /\ \A x : InValue(x, v) => x = p
  BY <1>1, MadeValues, Constructors DEF InValue
<1>2. ASSUME NEW v, NEW x, SimpleValue(v), InValue(x, v) PROVE PartOK(x) /\ ResultOK(x)
  BY <1>2 DEF SimpleValue, InValue, ObjectPlaces, Simple, PartOK, ResultOK
<1>3. ASSUME \A f \in DOMAIN o : SimpleValue(o[f]) \/ \E p : o[f] = ObjectOf(p)
      PROVE  HoldsValues(o)
  BY <1>1, <1>3 DEF SimpleValue, HoldsValues
<1>4. ASSUME \A f \in DOMAIN o : SimpleValue(o[f]) \/ \E p : PartOK(p) /\ o[f] = ObjectOf(p)
      PROVE  ResultOK(o)
  <2>1. HoldsValues(o)
    BY <1>3, <1>4
  <2>2. ASSUME NEW x \in ObjectsIn(o) PROVE PartOK(x)
    <3>1. PICK f \in DOMAIN o : InValue(x, o[f])
      BY ObjectsInMembers
    <3> QED BY <1>1, <1>2, <1>4, <3>1
  <2> QED BY <2>1, <2>2 DEF ResultOK
<1>5. ASSUME \A f \in DOMAIN o : SimpleValue(o[f]) \/ \E p : ResultOK(p) /\ o[f] = ObjectOf(p)
      PROVE  MessageOK(o)
  <2>1. HoldsValues(o)
    BY <1>3, <1>5
  <2>2. ASSUME NEW x \in ObjectsIn(o) PROVE ResultOK(x)
    <3>1. PICK f \in DOMAIN o : InValue(x, o[f])
      BY ObjectsInMembers
    <3> QED BY <1>1, <1>2, <1>5, <3>1
  <2> QED BY <2>1, <2>2 DEF MessageOK
<1> QED BY <1>4, <1>5

\* The envelope's members are simple.
LEMMA RequestOK ==
    ASSUME NEW id \in Int, NEW type, NEW p
    PROVE  /\ (\A f \in DOMAIN p : SimpleValue(p[f])) => MessageOK(Request(id, type, p))
           /\ ResultOK(p) => MessageOK(Result(id, p))
<1>1. SimpleValue(Number(1)) /\ SimpleValue(Number(id)) /\ \A s : SimpleValue(String(s))
  BY MadeValues
<1>2. ASSUME NEW t
      PROVE  LET h == [v |-> Number(1), id |-> Number(id), type |-> String(t)]
             IN  \A f \in DOMAIN h : SimpleValue(h[f])
  BY <1>1
<1>3. ASSUME NEW t, NEW q
      PROVE  /\ \A f \in DOMAIN Request(id, t, q) :
                    SimpleValue(Request(id, t, q)[f]) \/ (f \in DOMAIN q /\ Request(id, t, q)[f] = q[f])
  <2> DEFINE h == [v |-> Number(1), id |-> Number(id), type |-> String(t)]
  <2>1. \A f \in DOMAIN h : SimpleValue(h[f])
    BY <1>2
  <2>2. Request(id, t, q) = With(h, q)
    BY DEF Request
  <2> HIDE DEF h
  <2> QED BY <2>1, <2>2 DEF With
<1>4. ASSUME \A f \in DOMAIN p : SimpleValue(p[f]) PROVE MessageOK(Request(id, type, p))
  BY <1>3, <1>4, SimpleMembers
<1>5. ASSUME ResultOK(p) PROVE MessageOK(Result(id, p))
  <2>1. Result(id, p) = Request(id, "result", [result |-> ObjectOf(p)])
    BY DEF Result
  <2>2. \A f \in DOMAIN Result(id, p) : SimpleValue(Result(id, p)[f]) \/ Result(id, p)[f] = ObjectOf(p)
    BY <1>3, <2>1
  <2> QED BY <1>5, <2>2, Levels
<1> QED BY <1>4, <1>5

\* Request k of the probe is of one of its four kinds.
LEMMA RequestsAre ==
    ASSUME NEW port, NEW k \in Steps, NEW m \in ProbeRequests(port)[k]
    PROVE  \/ k = 1 /\ \E n \in OptionNames : m = session_hello_json(n, port)
           \/ k = 2 /\ m = transport_bind_json(SessionTold, port)
           \/ k = 3 /\ \E ms \in OptionPlayouts : m = stream_open_json(ms)
           \/ k = 4 /\ \E t \in {"0", "2^64-1"} : m = stream_start_json(StreamTold, t)
<1> DEFINE A == {session_hello_json(n, port) : n \in OptionNames}
           B == {transport_bind_json(SessionTold, port)}
           C == {stream_open_json(ms) : ms \in OptionPlayouts}
           D == {stream_start_json(StreamTold, t) : t \in {"0", "2^64-1"}}
<1>1. ProbeRequests(port) = <<A, B, C, D>>
  BY DEF ProbeRequests
<1> HIDE DEF A, B, C, D
<1>2. \/ k = 1 /\ m \in A
      \/ k = 2 /\ m \in B
      \/ k = 3 /\ m \in C
      \/ k = 4 /\ m \in D
  BY <1>1 DEF Steps
<1> QED BY <1>2 DEF A, B, C, D

\* What the two programs write and the samples are messages with values at every level.
LEMMA FirstMessages ==
    ASSUME NEW m, StreamTold \in Int,
           \/ m \in SampleMessages
           \/ \E k \in Steps : \/ m = HarnessReplies[k]
                             \/ \E port \in OptionPorts : m \in ProbeRequests(port)[k]
    PROVE  MessageOK(m)
<1>1. /\ \A n \in Int : SimpleValue(Number(n))
      /\ \A s : SimpleValue(String(s))
  BY MadeValues
<1>2. SimpleValue(Boolean(TRUE)) /\ SimpleValue(Boolean(FALSE))
  BY MadeValues
<1>3. SimpleValue(ObjectOf(PcmProfile)) /\ SimpleValue(ObjectOf(OpusProfile))
  BY MadeValues, Constructors, ProfilesSimple DEF SimpleValue
<1>4. SimpleValue(ArrayOf(<<Number(1)>>)) /\ SimpleValue(ArrayOf(<<ObjectOf(PcmProfile)>>))
  BY MadeValues, Constructors, ProfilesSimple DEF SimpleValue
<1>5. ASSUME NEW id \in Int, NEW p, \A f \in DOMAIN p : SimpleValue(p[f])
      PROVE  MessageOK(Result(id, p)) /\ \A type : MessageOK(Request(id, type, p))
  BY <1>5, RequestOK, SimpleMembers
<1>6. MaxU16 \in Int
  BY MessageAssumption
<1>17. ASSUME NEW n, NEW p \in OptionPorts PROVE MessageOK(session_hello_json(n, p))
  <2> DEFINE q == [role |-> String("win-client"), client_name |-> String(n),
                   versions |-> ArrayOf(<<Number(1)>>), udp_port |-> Number(p)]
  <2>1. SimpleValue(Number(p))
    BY <1>1, <1>6 DEF OptionPorts
  <2>2. \A f \in DOMAIN q : SimpleValue(q[f])
    BY <1>1, <1>4, <2>1
  <2>3. session_hello_json(n, p) = Request(1, "session.hello", q)
    BY DEF session_hello_json
  <2> HIDE DEF q
  <2>4. 1 \in Int
    OBVIOUS
  <2>5. MessageOK(Request(1, "session.hello", q))
    BY <1>5, <2>2, <2>4, Zenon
  <2> QED BY <2>3, <2>5
<1>18. ASSUME NEW x, NEW p \in OptionPorts PROVE MessageOK(transport_bind_json(x, p))
  BY <1>1, <1>5, <1>6 DEF transport_bind_json, OptionPorts
<1>19. ASSUME NEW ms \in OptionPlayouts PROVE MessageOK(stream_open_json(ms))
  BY <1>1, <1>3, <1>5 DEF stream_open_json, OptionPlayouts
<1>20. ASSUME NEW n \in Int, NEW t PROVE MessageOK(stream_start_json(n, t))
  BY <1>1, <1>5 DEF stream_start_json
<1>7. ASSUME NEW k \in Steps, NEW port \in OptionPorts, m \in ProbeRequests(port)[k]
      PROVE  MessageOK(m)
  <2>1. \/ \E n \in OptionNames : m = session_hello_json(n, port)
        \/ m = transport_bind_json(SessionTold, port)
        \/ \E ms \in OptionPlayouts : m = stream_open_json(ms)
        \/ \E t \in {"0", "2^64-1"} : m = stream_start_json(StreamTold, t)
    BY <1>7, RequestsAre
  <2> QED BY <1>17, <1>18, <1>19, <1>20, <2>1
<1>8. MessageOK(hello_result)
  <2> DEFINE caps == [audio_send |-> Boolean(FALSE), audio_receive |-> Boolean(TRUE),
                  microphone |-> Boolean(FALSE), camera |-> Boolean(FALSE),
                  audio_profiles |-> ArrayOf(<<ObjectOf(PcmProfile)>>)]
             limits == [max_audio_subscribers |-> Number(1),
                  playout_target_ms_min |-> Number(15), playout_target_ms_max |-> Number(120)]
             r == [version |-> Number(1), role |-> String("apple-output-server"),
                  server_id |-> String("uuid_1"), session_id |-> String("a_session_id"),
                  boot_id |-> String("uuid_2"), udp_port |-> Number(51838),
                  capabilities |-> ObjectOf(caps), limits |-> ObjectOf(limits)]
  <2>1. \A f \in DOMAIN caps : SimpleValue(caps[f])
    <3> DEFINE T == Boolean(TRUE)
               F == Boolean(FALSE)
               ps == ArrayOf(<<ObjectOf(PcmProfile)>>)
               o == [audio_send |-> F, audio_receive |-> T, microphone |-> F, camera |-> F,
                     audio_profiles |-> ps]
    <3>1. SimpleValue(T) /\ SimpleValue(F) /\ SimpleValue(ps)
      BY <1>4, <1>2
    <3> HIDE DEF T, F, ps
    <3>2. \A f \in DOMAIN o : SimpleValue(o[f])
      BY <3>1
    <3> QED BY <3>2 DEF T, F, ps
  <2>2. \A f \in DOMAIN limits : SimpleValue(limits[f])
    BY <1>1
  <2>3. hello_result = Result(1, r)
    BY DEF hello_result
  <2> HIDE DEF caps, limits
  <2>4. PartOK(caps) /\ PartOK(limits)
    BY <2>1, <2>2, SimpleMembers
  <2>5. \A f \in DOMAIN r : SimpleValue(r[f]) \/ \E p : PartOK(p) /\ r[f] = ObjectOf(p)
    BY <1>1, <2>4
  <2> HIDE DEF r
  <2>6. ResultOK(r)
    BY <2>5, Levels
  <2> QED BY <2>3, <2>6, RequestOK
<1>9. MessageOK(bind_result)
  BY <1>1, <1>5 DEF bind_result
<1>10. MessageOK(open_result)
  BY <1>1, <1>3, <1>5 DEF open_result
<1>11. MessageOK(start_result)
  BY <1>1, <1>5 DEF start_result
<1>12. ASSUME m \in OtherRequests PROVE MessageOK(m)
  <2>1. \A t : MessageOK(Request(7, t, [stream_id |-> Number(1)]))
    BY <1>1, <1>5
  <2>2. MessageOK(Request(7, "stream.rekey", [stream_id |-> Number(1), key_epoch |-> Number(2)]))
    BY <1>1, <1>5
  <2>3. MessageOK(Request(7, "status.get", <<>>))
    <3>1. ASSUME NEW o, DOMAIN o = {} PROVE MessageOK(Request(7, "status.get", o))
      <4>1. \A f \in DOMAIN o : SimpleValue(o[f])
        BY <3>1
      <4>2. 7 \in Int
        OBVIOUS
      <4> QED BY <1>5, <4>1, <4>2, Zenon
    <3>2. DOMAIN <<>> = {}
      OBVIOUS
    <3> QED BY <3>1, <3>2
  <2>4. MessageOK(Request(7, "ping", [token |-> String("ab")]))
    BY <1>1, <1>5
  <2>5. MessageOK(Request(7, "session.close", [reason |-> String("ab")]))
    BY <1>1, <1>5
  <2> QED BY <1>12, <2>1, <2>2, <2>3, <2>4, <2>5 DEF OtherRequests
<1>13. ASSUME m \in OtherResults PROVE MessageOK(m)
  <2>1. MessageOK(Result(3, [open_result["result"].object EXCEPT
                  !["profile"] = ObjectOf(OpusProfile), !["packet_interval_us"] = Number(10000)]))
    <3> DEFINE r == [stream_id |-> Number(1), key_epoch |-> Number(1),
                     profile |-> ObjectOf(PcmProfile),
                     packet_interval_us |-> Number(5000), path_state |-> String("probing")]
               o == [r EXCEPT !["profile"] = ObjectOf(OpusProfile),
                              !["packet_interval_us"] = Number(10000)]
    <3>1. open_result["result"] = ObjectOf(r)
      BY DEF open_result, Result, Request, With
    <3>2. open_result["result"].object = r
      BY <3>1, Constructors
    <3>3. \A f \in DOMAIN o : SimpleValue(o[f])
      BY <1>1, <1>3
    <3> HIDE DEF r
    <3>4. MessageOK(Result(3, o))
      <4> HIDE DEF o
      <4> QED BY <1>5, <3>3
    <3> QED BY <3>2, <3>4
  <2>2. MessageOK(Result(7, [stream_id |-> Number(1), key_epoch |-> Number(2),
                             state |-> String("ab")]))
    BY <1>1, <1>5
  <2>3. MessageOK(Result(7, [output_state |-> String("available"),
                             session_stream_state |-> String("ab"),
                             transport_state |-> String("ab"), feedback_age_ms |-> Number(0)]))
    BY <1>1, <1>5
  <2>4. MessageOK(Result(7, [token |-> String("ab"), monotonic_ns |-> String("1")]))
    BY <1>1, <1>5
  <2>5. MessageOK(Request(7, "error", [error |-> ObjectOf([code |-> String("INTERNAL"),
                message |-> String("256_bytes"), retryable |-> Boolean(TRUE)])]))
    <3> DEFINE e == [code |-> String("INTERNAL"), message |-> String("256_bytes"),
                     retryable |-> Boolean(TRUE)]
    <3>1. \A f \in DOMAIN e : IsValue(e[f]) /\ DOMAIN e[f] \subseteq {"number", "string", "boolean"}
      <4> DEFINE T == Boolean(TRUE)
                 o == [code |-> String("INTERNAL"), message |-> String("256_bytes"),
                       retryable |-> T]
      <4>1. IsValue(T) /\ DOMAIN T = {"boolean"}
        BY MadeValues, Constructors
      <4> HIDE DEF T
      <4>2. \A f \in DOMAIN o : IsValue(o[f]) /\ DOMAIN o[f] \subseteq {"number", "string", "boolean"}
        BY <4>1, MadeValues, Constructors
      <4> QED BY <4>2 DEF T
    <3> HIDE DEF e
    <3>2. SimpleValue(ObjectOf(e))
      BY <3>1, SimpleIs, MadeValues, Constructors DEF SimpleValue
    <3>3. MessageOK(Request(7, "error", [error |-> ObjectOf(e)]))
      BY <1>5, <3>2
    <3> QED BY <3>3 DEF e
  <2> QED BY <1>13, <2>1, <2>2, <2>3, <2>4, <2>5 DEF OtherResults
<1>14. ASSUME NEW t PROVE MessageOK(Event(t))
  <2> DEFINE h == [v |-> Number(1), type |-> String(t)]
  <2>1. ASSUME NEW p, \A f \in DOMAIN p : SimpleValue(p[f]) PROVE MessageOK(With(h, p))
    <3>1. \A f \in DOMAIN With(h, p) : SimpleValue(With(h, p)[f])
      BY <1>1, <2>1 DEF With
    <3> QED BY <3>1, SimpleMembers
  <2> HIDE DEF h
  <2>2. CASE t = "event.stream.started"
    <3>1. MessageOK(With(h, [stream_id |-> Number(1), first_media_timestamp |-> String("1")]))
      BY <1>1, <2>1
    <3> QED BY <2>2, <3>1 DEF Event, h
  <2>3. CASE t = "event.stream.stopped"
    <3>1. MessageOK(With(h, [stream_id |-> Number(1), reason |-> String("ab")]))
      BY <1>1, <2>1
    <3> QED BY <2>3, <3>1 DEF Event, h
  <2>4. CASE t = "event.output.state"
    <3>1. MessageOK(With(h, [state |-> String("available"), reason |-> String("ab")]))
      BY <1>1, <2>1
    <3> QED BY <2>4, <3>1 DEF Event, h
  <2>5. CASE t \notin {"event.stream.started", "event.stream.stopped", "event.output.state"}
    <3>1. MessageOK(With(h, [reason |-> String("ab"), deadline_monotonic_ns |-> String("1")]))
      BY <1>1, <2>1
    <3> QED BY <2>5, <3>1 DEF Event, h
  <2> QED BY <2>2, <2>3, <2>4, <2>5
<1>15. ASSUME NEW k \in Steps, m = HarnessReplies[k] PROVE MessageOK(m)
  BY <1>8, <1>9, <1>10, <1>11, <1>15 DEF HarnessReplies, Steps
<1>16. CASE m \in SampleMessages
  BY <1>12, <1>13, <1>14, <1>16 DEF SampleMessages
<1> QED BY <1>7, <1>15, <1>16

-------------------------------------------------------------------------------
(* The ranges of what is read of an accepted message. *)

EditNames == {"removed", "added", "changed", "other_kind"}

\* Every edit has a name, at every level.
LEMMA EditsNamed ==
    ASSUME NEW o, NEW e \in Edits(o)
    PROVE  e.edit \in EditNames
<1> USE DEF EditNames
<1>1. ASSUME NEW p, NEW inner, \A y \in ObjectsIn(p) : \A d \in inner[y] : d.edit \in EditNames,
             NEW d \in ObjectEdits(p, inner)
      PROVE  d.edit \in EditNames
  <2>1. CASE \E f \in DOMAIN p : \E c \in inner[p[f].object] :
                "object" \in DOMAIN p[f] /\ d.edit = c.edit
    <3>1. PICK f \in DOMAIN p : \E c \in inner[p[f].object] :
              "object" \in DOMAIN p[f] /\ d.edit = c.edit
      BY <2>1
    <3>2. p[f].object \in ObjectsIn(p)
      BY <3>1, ObjectsInMembers DEF InValue
    <3> QED BY <1>1, <3>1, <3>2
  <2>2. CASE \E f \in DOMAIN p : \E i \in ObjectPlaces(p[f].array) :
             \E c \in inner[p[f].array[i].object] : "array" \in DOMAIN p[f] /\ d.edit = c.edit
    <3>1. PICK f \in DOMAIN p : \E i \in ObjectPlaces(p[f].array) :
              \E c \in inner[p[f].array[i].object] : "array" \in DOMAIN p[f] /\ d.edit = c.edit
      BY <2>2
    <3> PICK i \in ObjectPlaces(p[f].array) :
              \E c \in inner[p[f].array[i].object] : "array" \in DOMAIN p[f] /\ d.edit = c.edit
      BY <3>1
    <3>2. p[f].array[i].object \in ObjectsIn(p)
      BY <3>1, ObjectsInMembers DEF InValue
    <3> QED BY <1>1, <3>1, <3>2
  <2>3. CASE \E f \in DOMAIN p : d.edit = "removed" /\ d.object = Restrict(p, DOMAIN p \ {f})
    BY <2>3
  <2>4. CASE d.edit = "added" /\ d.object = With(p, [other |-> Number(1)])
    BY <2>4
  <2>5. CASE \E f \in DOMAIN p : \E v \in Samples(f) \cup AnyValue :
                /\ d.edit = IF Kind(v) = Kind(p[f]) THEN "changed" ELSE "other_kind"
                /\ d.object = Put(p, f, v)
    BY <2>5
  <2>6. \/ \E f \in DOMAIN p : d.edit = "removed" /\ d.object = Restrict(p, DOMAIN p \ {f})
        \/ d.edit = "added" /\ d.object = With(p, [other |-> Number(1)])
        \/ \E f \in DOMAIN p : \E v \in Samples(f) \cup AnyValue :
                /\ d.edit = IF Kind(v) = Kind(p[f]) THEN "changed" ELSE "other_kind"
                /\ d.object = Put(p, f, v)
        \/ \E f \in DOMAIN p : \E c \in inner[p[f].object] :
                /\ "object" \in DOMAIN p[f] /\ d.edit = c.edit
                /\ d.object = Put(p, f, ObjectOf(c.object))
        \/ \E f \in DOMAIN p : \E i \in ObjectPlaces(p[f].array) :
           \E c \in inner[p[f].array[i].object] :
                /\ "array" \in DOMAIN p[f] /\ d.edit = c.edit
                /\ d.object = Put(p, f, ArrayOf(Put(p[f].array, i, ObjectOf(c.object))))
    BY <1>1, EditShapes
  <2> HIDE DEF EditNames
  <2> QED BY <2>1, <2>2, <2>3, <2>4, <2>5, <2>6
<1>2. \A p : \A d \in ProfileEdits(p) : d.edit \in EditNames
  BY <1>1 DEF ProfileEdits
<1>3. \A p : \A d \in PartEdits(p) : d.edit \in EditNames
  BY <1>1, <1>2 DEF PartEdits
<1>4. \A p : \A d \in ResultEdits(p) : d.edit \in EditNames
  BY <1>1, <1>3 DEF ResultEdits
<1> QED BY <1>1, <1>4 DEF Edits

\* A message has one of three verdicts.
LEMMA ParseMessageIs ==
    ASSUME NEW m
    PROVE  ParseMessage(m) \in {"GM_OK", "GM_BAD_MESSAGE", "GM_UNSUPPORTED_VERSION"}
<1>1. \A legal : Verdict(legal) \in {"GM_OK", "GM_BAD_MESSAGE"}
  BY DEF Verdict
<1>2. ASSUME NEW type
      PROVE  RequestStatus(m, type) \in {"GM_OK", "GM_BAD_MESSAGE", "GM_UNSUPPORTED_VERSION"}
  <2>1. CASE ~RequestLegal(m, type)
    BY <2>1 DEF RequestStatus
  <2>2. CASE RequestLegal(m, type)
    BY <2>2, Zenon DEF RequestStatus
  <2> QED BY <2>1, <2>2
<1>3. ASSUME NEW type
      PROVE  SchemaStatus(m, type) \in {"GM_OK", "GM_BAD_MESSAGE", "GM_UNSUPPORTED_VERSION"}
  <2>1. CASE IsEvent(type)
    BY <1>1, <2>1 DEF SchemaStatus
  <2>2. CASE ~IsEvent(type) /\ ~IsId(m, "id")
    BY <2>2 DEF SchemaStatus
  <2>3. CASE ~IsEvent(type) /\ IsId(m, "id") /\ type = "result"
    BY <1>1, <2>3 DEF SchemaStatus
  <2>4. CASE ~IsEvent(type) /\ IsId(m, "id") /\ type = "error"
    BY <1>1, <2>4 DEF SchemaStatus
  <2>5. CASE ~IsEvent(type) /\ IsId(m, "id") /\ type \notin {"result", "error"}
    <3>1. SchemaStatus(m, type) = RequestStatus(m, type)
      BY <2>5 DEF SchemaStatus
    <3> QED BY <1>2, <3>1
  <2> QED BY <2>1, <2>2, <2>3, <2>4, <2>5
<1> QED BY <1>3 DEF ParseMessage

\* A legal request asks for what the control session takes for granted.
LEMMA RequestRanges ==
    ASSUME NEW m, NEW type, RequestLegal(m, type)
    PROVE  /\ DOMAIN m \cap {"result", "deadline_monotonic_ns"} = {}
           /\ \A f \in {"stream_id", "key_epoch"} : f \in DOMAIN m => IsId(m, f)
           /\ type \in {"session.hello", "transport.bind"} => IsNumber(m, "udp_port", 1, MaxU16)
           /\ type = "stream.open" => IsNumber(m, "playout_target_ms", 15, 120)
<1>1. /\ type \in RequestTypes
      /\ \/ DOMAIN m = RequestKeys(type)
         \/ type = "session.close" /\ DOMAIN m = Envelope \cup {"reason"}
  BY DEF RequestLegal, HasKeys
<1>2. CASE type = "session.hello"
  <2>1. DOMAIN m = {"v", "id", "type", "role", "client_name", "versions", "udp_port"}
    BY <1>1, <1>2 DEF RequestKeys, Envelope
  <2>2. IsNumber(m, "udp_port", 1, MaxU16)
    BY <1>2 DEF RequestLegal
  <2> QED BY <1>2, <2>1, <2>2
<1>3. CASE type = "transport.bind"
  <2>1. DOMAIN m = {"v", "id", "type", "session_id", "udp_port"}
    BY <1>1, <1>3 DEF RequestKeys, Envelope
  <2>2. IsNumber(m, "udp_port", 1, MaxU16)
    BY <1>3 DEF RequestLegal
  <2> QED BY <1>3, <2>1, <2>2
<1>4. CASE type = "stream.open"
  <2>1. DOMAIN m = {"v", "id", "type", "kind", "direction", "profile", "playout_target_ms"}
    BY <1>1, <1>4 DEF RequestKeys, Envelope
  <2>2. IsNumber(m, "playout_target_ms", 15, 120)
    BY <1>4 DEF RequestLegal
  <2> QED BY <1>4, <2>1, <2>2
<1>5. CASE type = "stream.start"
  <2>1. DOMAIN m = {"v", "id", "type", "stream_id", "first_media_timestamp"}
    BY <1>1, <1>5 DEF RequestKeys, Envelope
  <2>2. IsId(m, "stream_id")
    BY <1>5 DEF RequestLegal
  <2> QED BY <1>5, <2>1, <2>2
<1>6. CASE type \in {"stream.stop", "stream.close"}
  <2>1. DOMAIN m = {"v", "id", "type", "stream_id"}
    BY <1>1, <1>6 DEF RequestKeys, Envelope
  <2>2. IsId(m, "stream_id")
    BY <1>6 DEF RequestLegal
  <2> QED BY <1>6, <2>1, <2>2
<1>7. CASE type = "stream.rekey"
  <2>1. DOMAIN m = {"v", "id", "type", "stream_id", "key_epoch"}
    BY <1>1, <1>7 DEF RequestKeys, Envelope
  <2>2. IsId(m, "stream_id") /\ IsId(m, "key_epoch")
    BY <1>7 DEF RequestLegal
  <2> QED BY <1>7, <2>1, <2>2
<1>8. CASE type = "ping"
  <2>1. DOMAIN m = {"v", "id", "type", "token"}
    BY <1>1, <1>8 DEF RequestKeys, Envelope
  <2> QED BY <1>8, <2>1
<1>9. CASE type \in {"session.close", "status.get"}
  <2>1. DOMAIN m \subseteq {"v", "id", "type", "reason"}
    BY <1>1, <1>9 DEF RequestKeys, Envelope
  <2> QED BY <1>9, <2>1
<1> QED BY <1>1, <1>2, <1>3, <1>4, <1>5, <1>6, <1>7, <1>8, <1>9 DEF RequestTypes

\* A legal result about a stream names it, and its epoch.
LEMMA ResultRanges ==
    ASSUME NEW r, ResultShape(r), NEW f \in {"stream_id", "key_epoch"}, f \in DOMAIN r
    PROVE  IsId(r, f)
<1>1. DOMAIN r \in ResultKeySets
  BY ResultFits
<1>2. DOMAIN r \in {OpenResultKeys, {"stream_id", "key_epoch", "state"}, {"stream_id", "state"}}
  BY <1>1 DEF ResultKeySets, HelloResultKeys, StatusKeys
<1>3. CASE DOMAIN r = OpenResultKeys
  <2>1. IsId(r, "stream_id") /\ IsId(r, "key_epoch")
    BY <1>3 DEF ResultShape, HasKeys, HelloResultKeys, OpenResultKeys, StatusKeys
  <2> QED BY <2>1
<1>4. CASE DOMAIN r = {"stream_id", "key_epoch", "state"}
  <2>1. IsId(r, "stream_id") /\ IsId(r, "key_epoch")
    BY <1>4 DEF ResultShape, HasKeys, HelloResultKeys, OpenResultKeys, StatusKeys
  <2> QED BY <2>1
<1>5. CASE DOMAIN r = {"stream_id", "state"}
  <2>1. IsId(r, "stream_id")
    BY <1>5 DEF ResultShape, HasKeys, HelloResultKeys, OpenResultKeys, StatusKeys
  <2> QED BY <1>5, <2>1
<1> QED BY <1>2, <1>3, <1>4, <1>5

\* What an accepted message is and where its fields are.
LEMMA BodyIs ==
    ASSUME NEW m, Accepted(m)
    PROVE  LET type == m["type"].string
           IN  \/ type = "result" /\ Body(m) = m["result"].object /\ ResultShape(Body(m))
               \/ /\ type = "error" /\ Body(m) = m
                  /\ DOMAIN m = {"v", "id", "type", "error"}
               \/ type \in RequestTypes /\ Body(m) = m /\ RequestLegal(m, type)
               \/ /\ type \in EventTypes /\ EventLegal(m, type)
                  /\ Body(m) = IF type = "event.session.expiring"
                               THEN With(m, [monotonic_ns |-> m["deadline_monotonic_ns"]]) ELSE m
<1> DEFINE type == m["type"].string
<1> SUFFICES
        \/ type = "result" /\ Body(m) = m["result"].object /\ ResultShape(Body(m))
        \/ type = "error" /\ Body(m) = m /\ DOMAIN m = {"v", "id", "type", "error"}
        \/ type \in RequestTypes /\ Body(m) = m /\ RequestLegal(m, type)
        \/ /\ type \in EventTypes /\ EventLegal(m, type)
           /\ Body(m) = IF type = "event.session.expiring"
                        THEN With(m, [monotonic_ns |-> m["deadline_monotonic_ns"]]) ELSE m
  OBVIOUS
<1>1. \/ type \in EventTypes /\ EventLegal(m, type)
      \/ type = "result" /\ ResultLegal(m)
      \/ type = "error" /\ ErrorLegal(m)
      \/ type \in RequestTypes /\ RequestLegal(m, type)
  BY AcceptedIs
<1> HIDE DEF type
<1>2. CASE type \in EventTypes /\ EventLegal(m, type)
  <2>1. DOMAIN m = EventKeys(type)
    BY <1>2 DEF EventLegal, HasKeys
  <2>2. /\ "result" \notin EventKeys(type)
        /\ "deadline_monotonic_ns" \in EventKeys(type) <=> type = "event.session.expiring"
    BY <1>2 DEF EventKeys, EventTypes
  <2>3. Body(m) = IF type = "event.session.expiring"
                  THEN With(m, [monotonic_ns |-> m["deadline_monotonic_ns"]]) ELSE m
    BY <2>1, <2>2 DEF Body
  <2> QED BY <1>2, <2>3
<1>3. CASE type = "result" /\ ResultLegal(m)
  <2>1. DOMAIN m = {"v", "id", "type", "result"} /\ ResultShape(m["result"].object)
    BY <1>3 DEF ResultLegal, HasKeys, Envelope
  <2>2. Body(m) = m["result"].object
    BY <2>1 DEF Body
  <2> QED BY <1>3, <2>1, <2>2
<1>4. CASE type = "error" /\ ErrorLegal(m)
  <2>1. DOMAIN m = {"v", "id", "type", "error"}
    BY <1>4 DEF ErrorLegal, HasKeys, Envelope
  <2>2. Body(m) = m
    BY <2>1 DEF Body
  <2> QED BY <1>4, <2>1, <2>2
<1>5. CASE type \in RequestTypes /\ RequestLegal(m, type)
  <2>1. DOMAIN m \cap {"result", "deadline_monotonic_ns"} = {}
    BY <1>5, RequestRanges
  <2>2. Body(m) = m
    BY <2>1 DEF Body
  <2> QED BY <1>5, <2>2
<1> QED BY <1>1, <1>2, <1>3, <1>4, <1>5

\* The streams and epochs an accepted message names are identifiers.
LEMMA BodyRanges ==
    ASSUME NEW m, Accepted(m), NEW f \in {"stream_id", "key_epoch"}, f \in DOMAIN Body(m)
    PROVE  IsId(Body(m), f)
<1> DEFINE type == m["type"].string
<1>1. CASE type = "result" /\ ResultShape(Body(m))
  BY <1>1, ResultRanges
<1>2. CASE type \in RequestTypes /\ Body(m) = m /\ RequestLegal(m, type)
  BY <1>2, RequestRanges
<1>3. CASE Body(m) = m /\ DOMAIN m = {"v", "id", "type", "error"}
  BY <1>3
<1>4. ASSUME EventLegal(m, type),
             Body(m) = IF type = "event.session.expiring"
                       THEN With(m, [monotonic_ns |-> m["deadline_monotonic_ns"]]) ELSE m
      PROVE  IsId(Body(m), f)
  <2>1. DOMAIN m = EventKeys(type) /\ ("stream_id" \in EventKeys(type) => IsId(m, "stream_id"))
    BY <1>4 DEF EventLegal, HasKeys
  <2> HIDE DEF type
  <2>2. EventKeys(type) \subseteq {"v", "type", "stream_id", "first_media_timestamp", "reason",
                                   "state", "deadline_monotonic_ns"}
    BY DEF EventKeys
  <2>3. /\ f \in DOMAIN m => Body(m)[f] = m[f]
        /\ DOMAIN Body(m) \subseteq DOMAIN m \cup {"monotonic_ns"}
    BY <1>4 DEF With
  <2>4. f \in DOMAIN m /\ f = "stream_id"
    BY <2>1, <2>2, <2>3
  <2> QED BY <2>1, <2>3, <2>4 DEF IsId, IsNumber, Is
<1> HIDE DEF type
<1> QED BY <1>1, <1>2, <1>3, <1>4, BodyIs DEF type

\* Values of an accepted message's body are values.
LEMMA BodyHolds ==
    ASSUME NEW m, Accepted(m), MessageOK(m)
    PROVE  HoldsValues(Body(m))
<1> DEFINE type == m["type"].string
<1>1. HoldsValues(m) /\ \A x \in ObjectsIn(m) : HoldsValues(x)
  BY DEF MessageOK, ResultOK
<1>2. CASE type = "result" /\ Body(m) = m["result"].object
  <2>1. "result" \in DOMAIN m /\ "object" \in DOMAIN m["result"]
    BY <1>2, AcceptedIs DEF ResultLegal, HasKeys, Is, EventTypes, RequestTypes
  <2>2. m["result"].object \in ObjectsIn(m)
    BY <2>1, ObjectsInMembers DEF InValue
  <2> QED BY <1>1, <1>2, <2>2
<1>3. CASE Body(m) = m
  BY <1>1, <1>3
<1>4. CASE /\ type = "event.session.expiring" /\ EventLegal(m, type)
           /\ Body(m) = With(m, [monotonic_ns |-> m["deadline_monotonic_ns"]])
  <2>1. "deadline_monotonic_ns" \in DOMAIN m
    BY <1>4 DEF EventLegal, HasKeys, EventKeys
  <2>2. \A f \in DOMAIN Body(m) : \E g \in DOMAIN m : Body(m)[f] = m[g]
    BY <1>4, <2>1 DEF With
  <2> QED BY <1>1, <2>2 DEF HoldsValues
<1> QED BY <1>2, <1>3, <1>4, BodyIs

\* gm_control.cpp:821-1206: what the session reads of an accepted request is in range.
LEMMA InfoInRange ==
    ASSUME NEW m, Accepted(m), MessageOK(m)
    PROVE  LET info == Info(m) fields == info.fields IN
           /\ info.id \in 0..MaxU32 /\ (info.id = 0 <=> info.kind \in EventTypes)
           /\ \A f \in {"stream_id", "key_epoch"} :
                  fields[f].number \in (IF f \in DOMAIN Body(m) THEN 1 ELSE 0)..MaxU32
           /\ info.kind \in {"session.hello", "transport.bind"} =>
                  fields["udp_port"].number \in 1..MaxU16
           /\ info.kind = "stream.open" => fields["playout_target_ms"].number \in 15..120
<1> DEFINE type == m["type"].string
           fields == Info(m).fields
<1>1. /\ Info(m).kind = type /\ Info(m).id = IF IsEvent(type) THEN 0 ELSE m["id"].number
      /\ \A f \in InfoFields : fields[f] = IF f \in Copied(m) THEN Seen(Body(m)[f]) ELSE Zero(f)
  BY DEF Info
<1> HIDE DEF fields
<1>2. MaxU32 \in Nat /\ MaxU16 \in Nat
  BY MessageAssumption
<1>3. ASSUME NEW b, NEW f, NEW lo, NEW hi, HoldsValues(b), IsNumber(b, f, lo, hi)
      PROVE  /\ f \in DOMAIN b /\ Seen(b[f]).number \in Int
             /\ lo <= Seen(b[f]).number /\ Seen(b[f]).number <= hi
  <2>1. f \in DOMAIN b /\ "number" \in DOMAIN b[f] /\ b[f].number >= lo /\ b[f].number <= hi
    BY <1>3 DEF IsNumber, Is
  <2>2. DOMAIN b[f] = {"number"} /\ b[f].number \in Int
    BY <1>3, <2>1, OneKind DEF HoldsValues, IsValue
  <2>3. Seen(b[f]) = b[f]
    BY <2>2, Constructors DEF Seen
  <2> QED BY <2>1, <2>2, <2>3
<1>4. HoldsValues(Body(m)) /\ HoldsValues(m)
  BY BodyHolds DEF MessageOK
<1>5. Info(m).id \in 0..MaxU32 /\ (Info(m).id = 0 <=> Info(m).kind \in EventTypes)
  <2>1. CASE type \in EventTypes
    BY <1>1, <1>2, <2>1 DEF IsEvent
  <2>2. CASE type \notin EventTypes
    <3>1. IsNumber(m, "id", 1, MaxU32) /\ type \in RequestTypes \cup {"result", "error"}
      BY <2>2, AcceptedIs DEF IsId
    <3>2. ~IsEvent(type)
      BY <2>2, <3>1 DEF IsEvent, RequestTypes
    <3>3. m["id"].number \in Int /\ 1 <= m["id"].number /\ m["id"].number <= MaxU32
      BY <1>4, <3>1 DEF IsNumber, Is, HoldsValues, IsValue
    <3> QED BY <1>1, <1>2, <2>2, <3>2, <3>3
  <2> QED BY <2>1, <2>2
<1>6. ASSUME NEW f \in {"stream_id", "key_epoch"}
      PROVE  fields[f].number \in (IF f \in DOMAIN Body(m) THEN 1 ELSE 0)..MaxU32
  <2>1. f \in InfoFields /\ f \in NumberFields
    BY DEF InfoFields, NumberFields
  <2>2. CASE f \in DOMAIN Body(m)
    <3>1. IsNumber(Body(m), f, 1, MaxU32)
      BY <2>2, BodyRanges DEF IsId
    <3>2. fields[f] = Seen(Body(m)[f])
      BY <1>1, <2>1, <2>2 DEF Copied
    <3> QED BY <1>2, <1>3, <1>4, <2>2, <3>1, <3>2
  <2>3. CASE f \notin DOMAIN Body(m)
    <3>1. fields[f] = Zero(f)
      BY <1>1, <2>1, <2>3 DEF Copied
    <3>2. Zero(f) = Number(0)
      BY DEF Zero, NumberFields, StringFields
    <3> QED BY <1>2, <2>3, <3>1, <3>2, Constructors
  <2> QED BY <2>2, <2>3
<1>7. ASSUME NEW f \in {"udp_port", "playout_target_ms"}, NEW lo \in Int, NEW hi \in Int,
             Body(m) = m, IsNumber(m, f, lo, hi)
      PROVE  fields[f].number \in lo..hi
  <2>1. f \in InfoFields /\ f \in DOMAIN Body(m)
    BY <1>7 DEF InfoFields, NumberFields, IsNumber, Is
  <2>2. fields[f] = Seen(m[f])
    BY <1>1, <1>7, <2>1 DEF Copied
  <2> QED BY <1>3, <1>4, <1>7, <2>2
<1>8. type \in RequestTypes => Body(m) = m /\ RequestLegal(m, type)
  BY BodyIs DEF RequestTypes, EventTypes
<1>9. type \in {"session.hello", "transport.bind"} => fields["udp_port"].number \in 1..MaxU16
  BY <1>2, <1>7, <1>8, RequestRanges DEF RequestTypes
<1>10. type = "stream.open" => fields["playout_target_ms"].number \in 15..120
  <2>1. ASSUME type = "stream.open" PROVE Body(m) = m /\ IsNumber(m, "playout_target_ms", 15, 120)
    BY <1>8, <2>1, RequestRanges DEF RequestTypes
  <2>2. 15 \in Int /\ 120 \in Int
    OBVIOUS
  <2> QED BY <1>7, <2>1, <2>2
<1> QED BY <1>1, <1>5, <1>6, <1>9, <1>10 DEF fields

-------------------------------------------------------------------------------
(* The info of a message says what the message says. *)

\* The members of an accepted message that its caller can be told.
Told(m) == DOMAIN Body(m) \ Untold

\* A value's seen form is itself or, cut off at a NUL, another nonempty string.
LEMMA SeenIs ==
    ASSUME NEW v
    PROVE  Seen(v) = v \/ (v = String(NulString) /\ Seen(v) = String("ab"))
BY DEF Seen

\* What a legal result tells is not what memset leaves.
LEMMA ResultTells ==
    ASSUME NEW r, ResultShape(r), HoldsValues(r), NEW f \in DOMAIN r \cap InfoFields
    PROVE  Seen(r[f]) # Zero(f)
<1>1. ASSUME NEW S, IsString(r, f, S), "empty" \notin S PROVE Seen(r[f]) # String("empty")
  <2>1. "string" \in DOMAIN r[f] /\ r[f].string # "empty"
    BY <1>1 DEF IsString, Is
  <2>2. r[f] # String("empty")
    BY <2>1, Constructors
  <2>3. String("ab") # String("empty")
    BY Constructors
  <2> QED BY <2>2, <2>3, SeenIs
<1>2. ASSUME NEW hi, IsNumber(r, f, 1, hi) PROVE Seen(r[f]) # Number(0)
  <2>1. "number" \in DOMAIN r[f] /\ r[f].number >= 1
    BY <1>2 DEF IsNumber, Is
  <2>2. r[f] # Number(0) /\ r[f] # String(NulString)
    <3>1. DOMAIN r[f] = {"number"}
      BY <2>1, OneKind DEF HoldsValues
    <3> QED BY <2>1, <3>1, Constructors
  <2> QED BY <2>2, SeenIs
<1>3. /\ "empty" \notin Uuids /\ "empty" \notin SessionIds /\ "empty" \notin Reasons
      /\ "empty" \notin EndpointStates /\ "empty" \notin Tokens64 /\ "empty" \notin GoodDecimals
      /\ "empty" \notin {"apple-output-server"} /\ "empty" \notin {"bound"}
      /\ "empty" \notin {"probing"}
  BY DEF Uuids, SessionIds, Reasons, EndpointStates, Tokens64, GoodDecimals
<1>4. CASE f \in StringFields
  <2>1. Zero(f) = String("empty")
    BY <1>4 DEF Zero, NumberFields, StringFields
  <2>2. \E S : IsString(r, f, S) /\ "empty" \notin S
    <3>1. DOMAIN r \in ResultKeySets
      BY ResultFits
    <3> USE DEF ResultShape, HasKeys, HelloResultKeys, OpenResultKeys, StatusKeys
    <3>2. CASE DOMAIN r = HelloResultKeys
      <4>1. /\ IsString(r, "role", {"apple-output-server"})
            /\ IsString(r, "server_id", Uuids) /\ IsString(r, "boot_id", Uuids)
            /\ IsString(r, "session_id", SessionIds)
        BY <3>2
      <4>2. f \in {"role", "server_id", "boot_id", "session_id"}
        BY <1>4, <3>2 DEF StringFields
      <4> QED BY <1>3, <4>1, <4>2
    <3>3. CASE DOMAIN r = {"udp_port", "path_state"}
      <4>1. IsString(r, "path_state", {"bound"})
        BY <3>3
      <4>2. f = "path_state"
        BY <1>4, <3>3 DEF StringFields
      <4> QED BY <1>3, <4>1, <4>2
    <3>4. CASE DOMAIN r = OpenResultKeys
      <4>1. IsString(r, "path_state", {"probing"})
        BY <3>4
      <4>2. f = "path_state"
        BY <1>4, <3>4 DEF StringFields
      <4> QED BY <1>3, <4>1, <4>2
    <3>5. CASE \/ DOMAIN r = {"stream_id", "key_epoch", "state"}
               \/ DOMAIN r = {"stream_id", "state"} \/ DOMAIN r = {"state"}
      <4>1. IsString(r, "state", Reasons)
        BY <3>5
      <4>2. f = "state"
        BY <1>4, <3>5 DEF StringFields
      <4> QED BY <1>3, <4>1, <4>2
    <3>6. CASE DOMAIN r = StatusKeys
      <4>1. /\ IsString(r, "output_state", EndpointStates)
            /\ IsString(r, "session_stream_state", Reasons)
            /\ IsString(r, "transport_state", Reasons)
        BY <3>6
      <4>2. f \in {"output_state", "session_stream_state", "transport_state"}
        BY <1>4, <3>6 DEF StringFields
      <4> QED BY <1>3, <4>1, <4>2
    <3>7. CASE DOMAIN r = {"token", "monotonic_ns"}
      <4>1. IsString(r, "token", Tokens64) /\ IsString(r, "monotonic_ns", GoodDecimals)
        BY <3>7
      <4> QED BY <1>3, <3>7, <4>1
    <3> QED BY <3>1, <3>2, <3>3, <3>4, <3>5, <3>6, <3>7 DEF ResultKeySets
  <2> QED BY <1>1, <2>1, <2>2
<1>5. CASE f \in NumberFields
  <2>1. Zero(f) = Number(0)
    BY <1>5 DEF Zero, NumberFields, StringFields
  <2>2. CASE f \in {"stream_id", "key_epoch"}
    <3>1. IsNumber(r, f, 1, MaxU32)
      BY <2>2, ResultRanges DEF IsId
    <3> QED BY <1>2, <2>1, <3>1
  <2>3. CASE f = "udp_port"
    <3>1. DOMAIN r \in ResultKeySets
      BY ResultFits
    <3>2. DOMAIN r = HelloResultKeys \/ DOMAIN r = {"udp_port", "path_state"}
      BY <2>3, <3>1 DEF ResultKeySets, OpenResultKeys, StatusKeys
    <3>3. CASE DOMAIN r = HelloResultKeys
      <4>1. IsNumber(r, "udp_port", 1, MaxU16)
        BY <3>3 DEF ResultShape, HasKeys, HelloResultKeys, OpenResultKeys, StatusKeys
      <4> QED BY <1>2, <2>1, <2>3, <4>1
    <3>4. CASE DOMAIN r = {"udp_port", "path_state"}
      <4>1. IsNumber(r, "udp_port", 1, MaxU16)
        BY <3>4 DEF ResultShape, HasKeys, HelloResultKeys, OpenResultKeys, StatusKeys
      <4> QED BY <1>2, <2>1, <2>3, <4>1
    <3> QED BY <3>2, <3>3, <3>4
  <2>4. CASE f = "playout_target_ms"
    <3>1. DOMAIN r \in ResultKeySets
      BY ResultFits
    <3> QED BY <2>4, <3>1 DEF ResultKeySets, HelloResultKeys, OpenResultKeys, StatusKeys
  <2> QED BY <1>5, <2>2, <2>3, <2>4 DEF NumberFields
<1>6. CASE f = "profile"
  <2>1. IsProfile(r[f])
    BY <1>6, ResultFits
  <2>2. "object" \in DOMAIN r[f] /\ DOMAIN r[f].object = ProfileKeys
    BY <2>1 DEF IsProfile, HasKeys
  <2>3. DOMAIN r[f] = {"object"}
    BY <2>2, OneKind DEF HoldsValues
  <2>4. Seen(r[f]) = r[f]
    BY <2>3, Constructors, SeenIs
  <2>5. Zero(f) = ObjectOf(<<>>)
    BY <1>6 DEF Zero, NumberFields, StringFields
  <2>6. DOMAIN <<>> = {} /\ ProfileKeys # {}
    BY DEF ProfileKeys
  <2>7. Zero(f).object = <<>>
    BY <2>5, Constructors
  <2> QED BY <2>2, <2>4, <2>6, <2>7
<1>7. CASE f = "versions"
  <2>1. DOMAIN r \in ResultKeySets
    BY ResultFits
  <2> QED BY <1>7, <2>1 DEF ResultKeySets, HelloResultKeys, OpenResultKeys, StatusKeys
<1> QED BY <1>4, <1>5, <1>6, <1>7 DEF InfoFields

\* What can be told of a message is what the info has room for, and a deadline.
LEMMA ToldIs ==
    ASSUME NEW m, Accepted(m)
    PROVE  /\ Copied(m) \subseteq Told(m)
           /\ \A f \in Told(m) :
                 \/ f \in Copied(m)
                 \/ /\ f = "deadline_monotonic_ns" /\ "monotonic_ns" \in Copied(m)
                    /\ Body(m)[f] = Body(m)["monotonic_ns"]
<1> DEFINE type == m["type"].string
<1>1. InfoFields \cap Untold = {} /\ "monotonic_ns" \in InfoFields
  BY DEF InfoFields, NumberFields, StringFields, Untold
<1>2. Copied(m) \subseteq Told(m)
  BY <1>1 DEF Copied, Told
<1>3. CASE ResultShape(Body(m))
  <2>1. DOMAIN Body(m) \in ResultKeySets
    BY <1>3, ResultFits
  <2>2. \A S \in ResultKeySets : S \subseteq InfoFields \cup Untold
    BY DEF ResultKeySets, HelloResultKeys, OpenResultKeys, StatusKeys, InfoFields, NumberFields,
           StringFields, Untold
  <2> QED BY <1>2, <2>1, <2>2 DEF Told, Copied
<1>4. CASE Body(m) = m /\ DOMAIN m = {"v", "id", "type", "error"}
  BY <1>2, <1>4 DEF Told, Untold
<1>5. CASE Body(m) = m /\ RequestLegal(m, type)
  <2>1. \/ DOMAIN m = RequestKeys(type)
        \/ DOMAIN m = Envelope \cup {"reason"}
    BY <1>5 DEF RequestLegal, HasKeys
  <2> HIDE DEF type
  <2>2. RequestKeys(type) \subseteq InfoFields \cup Untold
    BY DEF RequestKeys, Envelope, InfoFields, NumberFields, StringFields, Untold
  <2>3. Envelope \cup {"reason"} \subseteq InfoFields \cup Untold
    BY DEF Envelope, InfoFields, NumberFields, StringFields, Untold
  <2> QED BY <1>2, <1>5, <2>1, <2>2, <2>3 DEF Told, Copied
<1>6. CASE type # "event.session.expiring" /\ EventLegal(m, type) /\ Body(m) = m
  <2>1. DOMAIN m = EventKeys(type) /\ type \in EventTypes
    BY <1>6 DEF EventLegal, HasKeys
  <2> HIDE DEF type
  <2>2. EventKeys(type) \subseteq InfoFields \cup Untold
    BY <1>6, <2>1 DEF EventKeys, EventTypes, InfoFields, NumberFields, StringFields, Untold
  <2> QED BY <1>2, <1>6, <2>1, <2>2 DEF Told, Copied
<1>7. CASE /\ type = "event.session.expiring" /\ EventLegal(m, type)
           /\ Body(m) = With(m, [monotonic_ns |-> m["deadline_monotonic_ns"]])
  <2>1. DOMAIN m = {"v", "type", "reason", "deadline_monotonic_ns"}
    BY <1>7 DEF EventLegal, HasKeys, EventKeys
  <2>2. /\ DOMAIN Body(m) = DOMAIN m \cup {"monotonic_ns"}
        /\ Body(m)["monotonic_ns"] = m["deadline_monotonic_ns"]
        /\ Body(m)["deadline_monotonic_ns"] = m["deadline_monotonic_ns"]
    BY <1>7, <2>1 DEF With
  <2>3. "reason" \in InfoFields /\ {"v", "type"} \subseteq Untold
    BY DEF InfoFields, StringFields, Untold
  <2> QED BY <1>1, <1>2, <2>1, <2>2, <2>3 DEF Told, Copied
<1> QED BY <1>3, <1>4, <1>5, <1>6, <1>7, BodyIs

\* Functions with one domain and the same values are the same.
LEMMA SameFunction ==
    ASSUME NEW f, NEW g, f = [x \in DOMAIN f |-> f[x]], g = [x \in DOMAIN g |-> g[x]],
           DOMAIN f = DOMAIN g, \A x \in DOMAIN f : f[x] = g[x]
    PROVE  f = g
OBVIOUS

\* Two accepted messages that say the same tell the same, and the other way round.
LEMMA SaysIs ==
    ASSUME NEW m, NEW n
    PROVE  Said(m) = Said(n) <=>
               /\ DOMAIN m \cap {"type", "id"} = DOMAIN n \cap {"type", "id"}
               /\ \A f \in DOMAIN m \cap {"type", "id"} : m[f] = n[f]
               /\ Told(m) = Told(n)
               /\ \A f \in Told(m) : Seen(Body(m)[f]) = Seen(Body(n)[f])
<1> DEFINE head(o) == Restrict(o, DOMAIN o \cap {"type", "id"})
           seen(o) == LET b == Restrict(Body(o), DOMAIN Body(o) \ Untold)
                      IN  [f \in DOMAIN b |-> Seen(b[f])]
<1>1. ASSUME NEW o
      PROVE  /\ head(o) = [f \in DOMAIN o \cap {"type", "id"} |-> o[f]]
             /\ seen(o) = [f \in Told(o) |-> Seen(Body(o)[f])]
  <2>1. Restrict(Body(o), DOMAIN Body(o) \ Untold) = [f \in Told(o) |-> Body(o)[f]]
    BY DEF Told, Restrict
  <2> QED BY <2>1 DEF Restrict
<1>2. \A o : Said(o) = [head |-> head(o), body |-> seen(o)]
  BY DEF Said
<1> HIDE DEF head, seen
<1>3. Said(m) = Said(n) <=> head(m) = head(n) /\ seen(m) = seen(n)
  BY <1>2
<1>4. /\ \A o : head(o) = [f \in DOMAIN head(o) |-> head(o)[f]]
      /\ \A o : DOMAIN head(o) = DOMAIN o \cap {"type", "id"} /\ \A f \in DOMAIN head(o) : head(o)[f] = o[f]
      /\ \A o : seen(o) = [f \in DOMAIN seen(o) |-> seen(o)[f]]
      /\ \A o : DOMAIN seen(o) = Told(o) /\ \A f \in DOMAIN seen(o) : seen(o)[f] = Seen(Body(o)[f])
  BY <1>1
<1>5. head(m) = head(n) <=> /\ DOMAIN m \cap {"type", "id"} = DOMAIN n \cap {"type", "id"}
                            /\ \A f \in DOMAIN m \cap {"type", "id"} : m[f] = n[f]
  <2>1. ASSUME head(m) = head(n)
        PROVE  /\ DOMAIN m \cap {"type", "id"} = DOMAIN n \cap {"type", "id"}
               /\ \A f \in DOMAIN m \cap {"type", "id"} : m[f] = n[f]
    <3>1. DOMAIN head(m) = DOMAIN head(n) /\ \A f \in DOMAIN head(m) : head(m)[f] = head(n)[f]
      BY <2>1
    <3> QED BY <1>4, <3>1
  <2>2. ASSUME DOMAIN m \cap {"type", "id"} = DOMAIN n \cap {"type", "id"},
               \A f \in DOMAIN m \cap {"type", "id"} : m[f] = n[f]
        PROVE  head(m) = head(n)
    <3>1. DOMAIN head(m) = DOMAIN head(n) /\ \A f \in DOMAIN head(m) : head(m)[f] = head(n)[f]
      BY <1>4, <2>2
    <3> QED BY <1>4, <3>1, SameFunction
  <2> QED BY <2>1, <2>2
<1>6. seen(m) = seen(n) <=> /\ Told(m) = Told(n)
                            /\ \A f \in Told(m) : Seen(Body(m)[f]) = Seen(Body(n)[f])
  <2>1. ASSUME seen(m) = seen(n)
        PROVE  /\ Told(m) = Told(n)
               /\ \A f \in Told(m) : Seen(Body(m)[f]) = Seen(Body(n)[f])
    <3>1. DOMAIN seen(m) = DOMAIN seen(n) /\ \A f \in DOMAIN seen(m) : seen(m)[f] = seen(n)[f]
      BY <2>1
    <3> QED BY <1>4, <3>1
  <2>2. ASSUME Told(m) = Told(n), \A f \in Told(m) : Seen(Body(m)[f]) = Seen(Body(n)[f])
        PROVE  seen(m) = seen(n)
    <3>1. DOMAIN seen(m) = DOMAIN seen(n) /\ \A f \in DOMAIN seen(m) : seen(m)[f] = seen(n)[f]
      BY <1>4, <2>2
    <3> QED BY <1>4, <3>1, SameFunction
  <2> QED BY <2>1, <2>2
<1> QED BY <1>3, <1>5, <1>6

\* The caller can tell two messages apart by their types, identifiers, reasons and fields.
LEMMA InfoIs ==
    ASSUME NEW m, NEW n
    PROVE  Info(m) = Info(n) <=>
               /\ m["type"].string = n["type"].string
               /\ Info(m).id = Info(n).id
               /\ Info(m).has_reason = Info(n).has_reason
               /\ \A f \in InfoFields : Info(m).fields[f] = Info(n).fields[f]
<1> DEFINE F(o) == [f \in InfoFields |-> IF f \in Copied(o) THEN Seen(Body(o)[f]) ELSE Zero(f)]
           M(type) == type \in RequestTypes \ {"status.get", "ping"}
           I(o) == IF IsEvent(o["type"].string) THEN 0 ELSE o["id"].number
           R(o) == o["type"].string \in RequestTypes \cup EventTypes /\ "reason" \in DOMAIN o
<1>1. \A o : Info(o) = [kind |-> o["type"].string, mutating |-> M(o["type"].string), id |-> I(o),
                        has_reason |-> R(o), fields |-> F(o)]
  BY DEF Info
<1>2. F(m) = [f \in InfoFields |-> F(m)[f]] /\ F(n) = [f \in InfoFields |-> F(n)[f]]
  OBVIOUS
<1> HIDE DEF F, M, I, R
<1>3. Info(m).id = I(m) /\ Info(m).has_reason = R(m) /\ Info(m).fields = F(m)
      /\ Info(m).kind = m["type"].string
  BY <1>1
<1>4. Info(n).id = I(n) /\ Info(n).has_reason = R(n) /\ Info(n).fields = F(n)
      /\ Info(n).kind = n["type"].string
  BY <1>1
<1>5. ASSUME m["type"].string = n["type"].string, I(m) = I(n), R(m) = R(n), F(m) = F(n)
      PROVE  Info(m) = Info(n)
  BY <1>1, <1>5
<1>6. F(m) = F(n) <=> \A f \in InfoFields : F(m)[f] = F(n)[f]
  BY <1>2
<1>7. ASSUME Info(m) = Info(n)
      PROVE  m["type"].string = n["type"].string /\ I(m) = I(n) /\ R(m) = R(n) /\ F(m) = F(n)
  BY <1>3, <1>4, <1>7
<1> QED BY <1>3, <1>4, <1>5, <1>6, <1>7, Zenon

\* The type and the identifier of an accepted message.
LEMMA HeadIs ==
    ASSUME NEW m, Accepted(m), MessageOK(m)
    PROVE  /\ DOMAIN m["type"] = {"string"} /\ m["type"] = String(m["type"].string)
           /\ \/ /\ m["type"].string \in EventTypes
                 /\ DOMAIN m \cap {"type", "id"} = {"type"} /\ Info(m).id = 0
              \/ /\ m["type"].string \in RequestTypes \cup {"result", "error"}
                 /\ m["type"].string \notin EventTypes
                 /\ DOMAIN m \cap {"type", "id"} = {"type", "id"}
                 /\ m["id"] = Number(Info(m).id)
<1> DEFINE type == m["type"].string
<1>1. HoldsValues(m) /\ Info(m).id = IF IsEvent(type) THEN 0 ELSE m["id"].number
  BY DEF MessageOK, Info
<1>2. "type" \in DOMAIN m /\ "string" \in DOMAIN m["type"]
  BY AcceptedIs DEF IsString, Is
<1>3. ASSUME NEW v, IsValue(v), "string" \in DOMAIN v PROVE v = String(v.string)
  <2>1. DOMAIN v = {"string"} /\ v = [k \in DOMAIN v |-> v[k]]
    BY <1>3, OneKind DEF IsValue
  <2> QED BY <2>1 DEF String
<1>4. ASSUME NEW v, IsValue(v), "number" \in DOMAIN v PROVE v = Number(v.number)
  <2>1. DOMAIN v = {"number"} /\ v = [k \in DOMAIN v |-> v[k]]
    BY <1>4, OneKind DEF IsValue
  <2> QED BY <2>1 DEF Number
<1>5. DOMAIN m["type"] = {"string"} /\ m["type"] = String(type)
  BY <1>1, <1>2, <1>3, Constructors DEF HoldsValues
<1>6. CASE type \in EventTypes /\ EventLegal(m, type)
  <2>1. DOMAIN m = EventKeys(type)
    BY <1>6 DEF EventLegal, HasKeys
  <2> HIDE DEF type
  <2>2. EventKeys(type) \cap {"type", "id"} = {"type"}
    BY DEF EventKeys
  <2> QED BY <1>1, <1>5, <1>6, <2>1, <2>2 DEF IsEvent, type
<1>7. CASE /\ IsId(m, "id")
           /\ type \in RequestTypes \cup {"result", "error"}
  <2>1. type \notin EventTypes /\ ~IsEvent(type)
    BY <1>7 DEF IsEvent, EventTypes, RequestTypes
  <2>2. "id" \in DOMAIN m /\ "number" \in DOMAIN m["id"]
    BY <1>7 DEF IsId, IsNumber, Is
  <2>3. m["id"] = Number(m["id"].number)
    BY <1>1, <1>4, <2>2 DEF HoldsValues
  <2> QED BY <1>1, <1>2, <1>5, <1>7, <2>1, <2>2, <2>3
<1> QED BY <1>6, <1>7, AcceptedIs

\* Messages of one type have the same members unless it is a result or a close.
LEMMA SameMembers ==
    ASSUME NEW m, Accepted(m), NEW n, Accepted(n), m["type"].string = n["type"].string,
           m["type"].string \notin {"result", "session.close"}
    PROVE  DOMAIN Body(m) = DOMAIN Body(n)
<1> DEFINE type == m["type"].string
<1>1. DOMAIN m = DOMAIN n
  BY MessageFits, OneWayToWrite
<1>2. ASSUME NEW o, Accepted(o), o["type"].string = type
      PROVE  DOMAIN Body(o) = IF type = "event.session.expiring" THEN DOMAIN o \cup {"monotonic_ns"}
                              ELSE DOMAIN o
  <2>1. \/ type # "event.session.expiring" /\ Body(o) = o
        \/ /\ type = "event.session.expiring"
           /\ Body(o) = With(o, [monotonic_ns |-> o["deadline_monotonic_ns"]])
    BY <1>2, BodyIs DEF RequestTypes, EventTypes
  <2> QED BY <2>1 DEF With
<1> QED BY <1>1, <1>2

\* Whether a request or an event has a reason shows in what it tells.
LEMMA ReasonIs ==
    ASSUME NEW m, Accepted(m)
    PROVE  /\ Info(m).has_reason \in BOOLEAN
           /\ Info(m).has_reason =
                  (/\ m["type"].string \in RequestTypes \cup EventTypes
                   /\ "reason" \in Told(m))
<1> DEFINE type == m["type"].string
<1>1. Info(m).has_reason = (type \in RequestTypes \cup EventTypes /\ "reason" \in DOMAIN m)
  BY DEF Info
<1>2. "reason" \notin Untold
  BY DEF Untold
<1>3. ASSUME type \in RequestTypes \cup EventTypes
      PROVE  "reason" \in DOMAIN m <=> "reason" \in Told(m)
  <2>1. Body(m) = m \/ Body(m) = With(m, [monotonic_ns |-> m["deadline_monotonic_ns"]])
    BY <1>3, BodyIs DEF RequestTypes, EventTypes
  <2>2. "reason" \in DOMAIN m <=> "reason" \in DOMAIN Body(m)
    BY <2>1 DEF With
  <2> QED BY <1>2, <2>2 DEF Told
<1> QED BY <1>1, <1>3

\* What the fields and the reason of the info say is what can be told.
LEMMA FieldsTell ==
    ASSUME NEW m, Accepted(m), MessageOK(m), NEW n, Accepted(n), MessageOK(n),
           m["type"].string = n["type"].string
    PROVE  (/\ Info(m).has_reason = Info(n).has_reason
            /\ \A f \in InfoFields : Info(m).fields[f] = Info(n).fields[f])
           <=> (/\ Told(m) = Told(n)
                /\ \A f \in Told(m) : Seen(Body(m)[f]) = Seen(Body(n)[f]))
<1> DEFINE type == m["type"].string
<1>1. ASSUME NEW o
      PROVE  \A f \in InfoFields :
                 Info(o).fields[f] = IF f \in Copied(o) THEN Seen(Body(o)[f]) ELSE Zero(f)
  BY DEF Info
<1>2. InfoFields \cap Untold = {} /\ "deadline_monotonic_ns" \notin InfoFields
      /\ "monotonic_ns" \in InfoFields /\ "reason" \in InfoFields
  BY DEF InfoFields, NumberFields, StringFields, Untold
<1>3. \A o : Copied(o) = Told(o) \cap InfoFields
  BY <1>2 DEF Copied, Told
<1>4. ASSUME Told(m) = Told(n), \A f \in Told(m) : Seen(Body(m)[f]) = Seen(Body(n)[f])
      PROVE  /\ Info(m).has_reason = Info(n).has_reason
             /\ \A f \in InfoFields : Info(m).fields[f] = Info(n).fields[f]
  <2>1. \A f \in InfoFields : Info(m).fields[f] = Info(n).fields[f]
    BY <1>1, <1>3, <1>4
  <2>2. Info(m).has_reason = Info(n).has_reason
    BY <1>4, ReasonIs
  <2> QED BY <2>1, <2>2
<1>5. ASSUME Info(m).has_reason = Info(n).has_reason,
             \A f \in InfoFields : Info(m).fields[f] = Info(n).fields[f]
      PROVE  Told(m) = Told(n) /\ \A f \in Told(m) : Seen(Body(m)[f]) = Seen(Body(n)[f])
  <2>1. Told(m) = Told(n)
    <3>1. CASE type = "result"
      <4>1. ASSUME NEW o, Accepted(o), MessageOK(o), o["type"].string = "result"
            PROVE  /\ Told(o) = Copied(o)
                   /\ \A f \in InfoFields : f \in Copied(o) <=> Info(o).fields[f] # Zero(f)
        <5>1. ResultShape(Body(o)) /\ HoldsValues(Body(o))
          BY <4>1, BodyIs, BodyHolds DEF RequestTypes, EventTypes
        <5>2. "deadline_monotonic_ns" \notin DOMAIN Body(o)
          <6>1. DOMAIN Body(o) \in ResultKeySets
            BY <5>1, ResultFits
          <6> QED BY <6>1 DEF ResultKeySets, HelloResultKeys, OpenResultKeys, StatusKeys
        <5>3. Told(o) = Copied(o)
          BY <4>1, <5>2, ToldIs DEF Told
        <5>4. \A f \in Copied(o) : Seen(Body(o)[f]) # Zero(f)
          BY <5>1, ResultTells DEF Copied
        <5> QED BY <1>1, <5>3, <5>4
      <4>2. \A f \in InfoFields : f \in Copied(m) <=> f \in Copied(n)
        BY <1>5, <3>1, <4>1
      <4> QED BY <1>3, <3>1, <4>1, <4>2
    <3>2. CASE type = "session.close"
      <4>1. ASSUME NEW o, Accepted(o), o["type"].string = "session.close"
            PROVE  Told(o) = IF Info(o).has_reason THEN {"reason"} ELSE {}
        <5>1. Body(o) = o /\ RequestLegal(o, "session.close")
          BY <4>1, BodyIs DEF EventTypes, RequestTypes
        <5>2. DOMAIN o \subseteq {"v", "id", "type", "reason"}
          BY <5>1 DEF RequestLegal, HasKeys, RequestKeys, Envelope
        <5>3. Told(o) \subseteq {"reason"}
          BY <5>1, <5>2 DEF Told, Untold
        <5>4. "session.close" \in RequestTypes \cup EventTypes
          BY DEF RequestTypes
        <5>5. Info(o).has_reason <=> "reason" \in Told(o)
          BY <4>1, <5>4, ReasonIs
        <5> QED BY <5>3, <5>5
      <4> QED BY <1>5, <3>2, <4>1
    <3>3. CASE type \notin {"result", "session.close"}
      BY <3>3, SameMembers DEF Told
    <3> QED BY <3>1, <3>2, <3>3
  <2>2. ASSUME NEW f \in Copied(m) PROVE Seen(Body(m)[f]) = Seen(Body(n)[f])
    BY <1>1, <1>3, <1>5, <2>1
  <2>3. ASSUME NEW f \in Told(m) PROVE Seen(Body(m)[f]) = Seen(Body(n)[f])
    <3>1. CASE f \in Copied(m)
      BY <2>2, <3>1
    <3>2. CASE f \notin Copied(m)
      <4>1. /\ f = "deadline_monotonic_ns" /\ "monotonic_ns" \in Copied(m)
            /\ Body(m)[f] = Body(m)["monotonic_ns"]
        BY <3>2, ToldIs
      <4>2. f \in Told(n) /\ f \notin Copied(n)
        BY <1>2, <1>3, <2>1, <4>1
      <4>3. Body(n)[f] = Body(n)["monotonic_ns"]
        BY <4>2, ToldIs
      <4> QED BY <2>2, <4>1, <4>3
    <3> QED BY <3>1, <3>2
  <2> QED BY <2>1, <2>3
<1> QED BY <1>4, <1>5

\* gm_control.cpp:661-668: two accepted messages read the same exactly when they say the same.
LEMMA TellsApart ==
    ASSUME NEW m, Accepted(m), MessageOK(m), NEW n, Accepted(n), MessageOK(n)
    PROVE  Info(m) = Info(n) <=> Said(m) = Said(n)
<1> DEFINE Heads == /\ DOMAIN m \cap {"type", "id"} = DOMAIN n \cap {"type", "id"}
                    /\ \A f \in DOMAIN m \cap {"type", "id"} : m[f] = n[f]
           Bodies == /\ Told(m) = Told(n)
                     /\ \A f \in Told(m) : Seen(Body(m)[f]) = Seen(Body(n)[f])
           Fields == /\ Info(m).has_reason = Info(n).has_reason
                     /\ \A f \in InfoFields : Info(m).fields[f] = Info(n).fields[f]
<1>1. Said(m) = Said(n) <=> Heads /\ Bodies
  BY SaysIs
<1>2. Info(m) = Info(n) <=>
          m["type"].string = n["type"].string /\ Info(m).id = Info(n).id /\ Fields
  BY InfoIs
<1>3. Heads => m["type"].string = n["type"].string
  BY HeadIs
<1>4. ASSUME m["type"].string = n["type"].string
      PROVE  Heads <=> Info(m).id = Info(n).id
  <2>1. CASE m["type"].string \in EventTypes
    BY <1>4, <2>1, HeadIs
  <2>2. CASE m["type"].string \notin EventTypes
    <3>1. /\ DOMAIN m \cap {"type", "id"} = {"type", "id"}
          /\ m["id"] = Number(Info(m).id) /\ m["type"] = String(m["type"].string)
      BY <2>2, HeadIs
    <3>2. /\ DOMAIN n \cap {"type", "id"} = {"type", "id"}
          /\ n["id"] = Number(Info(n).id) /\ n["type"] = String(n["type"].string)
      BY <1>4, <2>2, HeadIs
    <3>3. m["id"] = n["id"] <=> Info(m).id = Info(n).id
      BY <3>1, <3>2, Constructors
    <3> QED BY <1>4, <3>1, <3>2, <3>3
  <2> QED BY <2>1, <2>2
<1>5. m["type"].string = n["type"].string => (Fields <=> Bodies)
  BY FieldsTell
<1> HIDE DEF Heads, Bodies, Fields
<1> QED BY <1>1, <1>2, <1>3, <1>4, <1>5, Zenon

-------------------------------------------------------------------------------
(* Each program understands what the other writes. *)

\* What the programs write in an envelope.
LEMMA RequestIs ==
    ASSUME NEW id \in 1..4, NEW p,
           NEW type \in {"session.hello", "transport.bind", "stream.open", "stream.start", "result"},
           NEW m, m = Request(id, type, p), DOMAIN p \cap Envelope = {}
    PROVE  /\ \A f : f \in DOMAIN m <=> f \in Envelope \/ f \in DOMAIN p
           /\ \A f \in DOMAIN p : m[f] = p[f]
           /\ Info(m).id = id /\ Info(m).kind = type
           /\ type # "result" /\ RequestStatus(m, type) = "GM_OK" => Accepted(m)
           /\ type = "result" /\ ResultLegal(m) => Accepted(m)
<1>1. /\ DOMAIN m = Envelope \cup DOMAIN p /\ \A f \in DOMAIN p : m[f] = p[f]
      /\ m["v"] = Number(1) /\ m["id"] = Number(id) /\ m["type"] = String(type)
  BY DEF Request, With, Envelope
<1>2. {"v", "id", "type"} \subseteq DOMAIN m
  BY <1>1 DEF Envelope
<1>3. /\ m["v"].number = 1 /\ "number" \in DOMAIN m["v"]
      /\ m["id"].number = id /\ "number" \in DOMAIN m["id"]
      /\ m["type"].string = type /\ "string" \in DOMAIN m["type"]
  BY <1>1, Constructors
<1>4. type \in TypeStrings /\ ~IsEvent(type)
  <2>1. type \in SampleStrings
    BY DEF SampleStrings, RequestTypes
  <2>2. Bytes(type) = 10
    BY DEF Bytes
  <2>3. type \notin NotPrintable \cup Upper /\ type # "empty"
    BY DEF NotPrintable, Upper, NulString
  <2>4. ~IsEvent(type)
    BY DEF IsEvent, EventTypes
  <2> QED BY <2>1, <2>2, <2>3, <2>4 DEF TypeStrings, AtMost
<1>5. IsNumber(m, "v", 1, 255) /\ IsString(m, "type", TypeStrings) /\ IsId(m, "id")
  BY <1>2, <1>3, <1>4, MessageAssumption DEF IsNumber, IsString, IsId, Is
<1>6. ParseMessage(m) = SchemaStatus(m, type)
  BY <1>3, <1>5 DEF ParseMessage
<1>7. CASE type = "result"
  <2>1. ASSUME ResultLegal(m) PROVE Accepted(m)
    <3>1. SchemaStatus(m, type) = Verdict(ResultLegal(m))
      BY <1>4, <1>5, <1>7 DEF SchemaStatus
    <3>2. Verdict(ResultLegal(m)) = "GM_OK"
      BY <2>1, Zenon DEF Verdict
    <3> QED BY <1>6, <3>1, <3>2 DEF Accepted
  <2>2. Info(m).id = id /\ Info(m).kind = type
    BY <1>3, <1>4 DEF Info
  <2> QED BY <1>1, <1>7, <2>1, <2>2
<1>8. CASE type # "result"
  <2>1. ASSUME RequestStatus(m, type) = "GM_OK" PROVE Accepted(m)
    <3>1. SchemaStatus(m, type) = RequestStatus(m, type)
      BY <1>4, <1>5, <1>8 DEF SchemaStatus
    <3> QED BY <1>6, <2>1, <3>1 DEF Accepted
  <2>2. Info(m).id = id /\ Info(m).kind = type
    BY <1>3, <1>4 DEF Info
  <2> QED BY <1>1, <1>8, <2>1, <2>2
<1> QED BY <1>7, <1>8

\* A field of a request is seen in the info.
LEMMA FieldIs ==
    ASSUME NEW m, "result" \notin DOMAIN m, "deadline_monotonic_ns" \notin DOMAIN m,
           NEW f \in DOMAIN m \cap InfoFields
    PROVE  Info(m).fields[f] = Seen(m[f])
<1>1. Body(m) = m
  BY DEF Body
<1> QED BY <1>1 DEF Info, Copied

\* The values of the messages that the programs write.
LEMMA WrittenValues ==
    ASSUME NEW m, NEW f \in DOMAIN m
    PROVE  /\ \A n \in Int : \A lo \in Int : \A hi \in Int :
                  m[f] = Number(n) /\ lo <= n /\ n <= hi => IsNumber(m, f, lo, hi)
           /\ \A s : \A S : m[f] = String(s) /\ s \in S => IsString(m, f, S)
           /\ \A b : m[f] = Boolean(b) => Is(m, f, "boolean") /\ m[f].boolean = b
           /\ \A a : m[f] = ArrayOf(a) => Is(m, f, "array") /\ m[f].array = a
BY Constructors DEF IsNumber, IsString, Is

\* Values other than strings are seen as they are.
LEMMA SeenValues ==
    /\ \A n : Seen(Number(n)) = Number(n)
    /\ \A s : s # NulString => Seen(String(s)) = String(s)
    /\ \A o : Seen(ObjectOf(o)) = ObjectOf(o)
<1>1. String(NulString).string = NulString /\ DOMAIN String(NulString) = {"string"}
  BY Constructors
<1>2. ASSUME NEW n PROVE Seen(Number(n)) = Number(n)
  <2>1. Number(n) # String(NulString)
    BY <1>1, Constructors
  <2> QED BY <2>1, SeenIs
<1>3. ASSUME NEW s, s # NulString PROVE Seen(String(s)) = String(s)
  <2>1. String(s) # String(NulString)
    BY <1>1, <1>3, Constructors
  <2> QED BY <2>1, SeenIs
<1>4. ASSUME NEW o PROVE Seen(ObjectOf(o)) = ObjectOf(o)
  <2>1. ObjectOf(o) # String(NulString)
    BY <1>1, Constructors
  <2> QED BY <2>1, SeenIs
<1> QED BY <1>2, <1>3, <1>4

\* The profile of the PCM stream is one.
LEMMA PcmIsProfile == IsProfile(ObjectOf(PcmProfile))
<1> DEFINE p == PcmProfile
<1>1. /\ p["codec"] = String("pcm_s16le") /\ p["sample_rate_hz"] = Number(48000)
      /\ p["channels"] = Number(2) /\ p["channel_layout"] = String("stereo")
      /\ p["frames_per_packet"] = Number(240) /\ DOMAIN p = ProfileKeys
  BY DEF PcmProfile, ProfileKeys
<1>2. "object" \in DOMAIN ObjectOf(p) /\ ObjectOf(p).object = p
  BY Constructors
<1> HIDE DEF p
<1>3. ProfileValid(p)
  BY <1>1, Constructors DEF ProfileValid
<1>4. /\ IsString(p, "codec", {"pcm_s16le", "opus"}) /\ IsU32(p, "sample_rate_hz")
      /\ IsNumber(p, "channels", 0, MaxU16) /\ IsNumber(p, "frames_per_packet", 0, MaxU16)
      /\ IsString(p, "channel_layout", {"stereo"})
  BY <1>1, Constructors, MessageAssumption DEF IsNumber, IsU32, IsString, Is, ProfileKeys
<1>5. IsProfile(ObjectOf(p))
  BY <1>1, <1>2, <1>3, <1>4 DEF IsProfile, HasKeys
<1> QED BY <1>5 DEF p

\* A result that has a result's shape is accepted, and its members are seen in the info.
LEMMA ResultIs ==
    ASSUME NEW id \in 1..4, NEW r, ResultShape(r)
    PROVE  LET m == Result(id, r) IN
           /\ Accepted(m) /\ Info(m).kind = "result" /\ Info(m).id = id
           /\ \A f \in DOMAIN r \cap InfoFields : Info(m).fields[f] = Seen(r[f])
<1> DEFINE m == Result(id, r)
           p == [result |-> ObjectOf(r)]
<1>1. DOMAIN p = {"result"} /\ p["result"] = ObjectOf(r) /\ m = Request(id, "result", p)
  BY DEF Result
<1> HIDE DEF m, p
<1>2. DOMAIN p \cap Envelope = {}
  BY <1>1 DEF Envelope
<1>3. /\ \A f : f \in DOMAIN m <=> f \in Envelope \/ f \in DOMAIN p
      /\ \A f \in DOMAIN p : m[f] = p[f]
      /\ Info(m).id = id /\ Info(m).kind = "result"
      /\ ResultLegal(m) => Accepted(m)
  BY <1>1, <1>2, RequestIs
<1>4. DOMAIN m = Envelope \cup {"result"} /\ m["result"] = ObjectOf(r)
  BY <1>1, <1>3
<1>5. Is(m, "result", "object") /\ m["result"].object = r
  BY <1>4, Constructors DEF Is
<1>6. ResultLegal(m)
  BY <1>4, <1>5 DEF ResultLegal, HasKeys
<1>7. Body(m) = r
  <2>1. "result" \in DOMAIN m /\ "deadline_monotonic_ns" \notin DOMAIN m
    BY <1>4 DEF Envelope
  <2>2. Body(m) = m["result"].object
    BY <2>1 DEF Body
  <2> QED BY <1>5, <2>2
<1>8. \A f \in DOMAIN r \cap InfoFields : Info(m).fields[f] = Seen(r[f])
  BY <1>7 DEF Info, Copied
<1> QED BY <1>3, <1>6, <1>8 DEF m

\* main.swift:227-521: each reply of the harness is accepted, and says this.
LEMMA RepliesSay ==
    /\ \A k \in Steps :
           LET m == HarnessReplies[k]
           IN  Accepted(m) /\ Info(m).kind = "result" /\ Info(m).id = k
    /\ Info(hello_result).fields["role"] = String("apple-output-server")
    /\ Info(hello_result).fields["session_id"] = String("a_session_id")
    /\ Info(hello_result).fields["server_id"] = String("uuid_1")
    /\ Info(bind_result).fields["path_state"] = String("bound")
    /\ Info(open_result).fields["path_state"] = String("probing")
    /\ Info(open_result).fields["stream_id"] = Number(1)
    /\ Info(open_result).fields["key_epoch"] = Number(1)
    /\ Info(start_result).fields["state"] = String("started")
<1> USE DEF ResultShape, HasKeys, HelloResultKeys, OpenResultKeys, StatusKeys
<1> DEFINE Good(m, k) == Accepted(m) /\ Info(m).kind = "result" /\ Info(m).id = k
<1>1. 51838 \in Int /\ 1 <= 51838 /\ 51838 <= MaxU16 /\ MaxU16 \in Int /\ MaxU32 \in Int
      /\ MaxU16 < MaxU32
  BY MessageAssumption
<1>9. {"role", "session_id", "server_id", "path_state", "stream_id", "key_epoch", "state"}
          \subseteq InfoFields
  BY DEF InfoFields, NumberFields, StringFields
<1>2. /\ Good(hello_result, 1)
      /\ Info(hello_result).fields["role"] = String("apple-output-server")
      /\ Info(hello_result).fields["session_id"] = String("a_session_id")
      /\ Info(hello_result).fields["server_id"] = String("uuid_1")
  <2> DEFINE T == Boolean(TRUE)
             F == Boolean(FALSE)
             ps == ArrayOf(<<ObjectOf(PcmProfile)>>)
             c == [audio_send |-> F, audio_receive |-> T, microphone |-> F, camera |-> F,
                   audio_profiles |-> ps]
             l == [max_audio_subscribers |-> Number(1),
                   playout_target_ms_min |-> Number(15), playout_target_ms_max |-> Number(120)]
             r == [version |-> Number(1), role |-> String("apple-output-server"),
                   server_id |-> String("uuid_1"), session_id |-> String("a_session_id"),
                   boot_id |-> String("uuid_2"), udp_port |-> Number(51838),
                   capabilities |-> ObjectOf(c), limits |-> ObjectOf(l)]
  <2>1. hello_result = Result(1, r)
    BY DEF hello_result
  <2>2. /\ DOMAIN T = {"boolean"} /\ T.boolean /\ DOMAIN F = {"boolean"} /\ ~F.boolean
        /\ DOMAIN ps = {"array"} /\ ps.array = <<ObjectOf(PcmProfile)>>
    BY Constructors
  <2> HIDE DEF T, F, ps
  <2>3. /\ DOMAIN c = CapabilityKeys
        /\ c["audio_send"] = F /\ c["audio_receive"] = T /\ c["microphone"] = F
        /\ c["camera"] = F /\ c["audio_profiles"] = ps
    BY DEF CapabilityKeys
  <2> HIDE DEF c
  <2>4. /\ DOMAIN l = LimitKeys /\ l["max_audio_subscribers"] = Number(1)
        /\ l["playout_target_ms_min"] = Number(15) /\ l["playout_target_ms_max"] = Number(120)
    BY DEF LimitKeys
  <2> HIDE DEF l
  <2>5. /\ DOMAIN r = HelloResultKeys
        /\ r["version"] = Number(1) /\ r["role"] = String("apple-output-server")
        /\ r["server_id"] = String("uuid_1") /\ r["session_id"] = String("a_session_id")
        /\ r["boot_id"] = String("uuid_2") /\ r["udp_port"] = Number(51838)
        /\ r["capabilities"] = ObjectOf(c) /\ r["limits"] = ObjectOf(l)
    OBVIOUS
  <2> HIDE DEF r
  <2>6. IsCapabilities(ObjectOf(c))
    <3>1. "object" \in DOMAIN ObjectOf(c) /\ ObjectOf(c).object = c
      BY Constructors
    <3>2. HasKeys(c, CapabilityKeys) /\ Is(c, "audio_profiles", "array")
      BY <2>2, <2>3 DEF Is, CapabilityKeys
    <3>3. \A f \in CapabilityKeys \ {"audio_profiles"} : Is(c, f, "boolean")
      BY <2>2, <2>3 DEF Is, CapabilityKeys
    <3>4. \A f \in {"audio_send", "microphone", "camera"} : ~c[f].boolean
      BY <2>2, <2>3
    <3>5. Len(c["audio_profiles"].array) \in (IF c["audio_receive"].boolean THEN 1..2 ELSE {0})
      <4>1. c["audio_receive"].boolean /\ Len(c["audio_profiles"].array) = 1
        BY <2>2, <2>3
      <4> QED BY <4>1
    <3>6. \A i \in DOMAIN c["audio_profiles"].array : IsProfile(c["audio_profiles"].array[i])
      BY <2>2, <2>3, PcmIsProfile
    <3> QED BY <3>1, <3>2, <3>3, <3>4, <3>5, <3>6 DEF IsCapabilities
  <2>7. IsLimits(ObjectOf(l))
    <3>1. "object" \in DOMAIN ObjectOf(l) /\ ObjectOf(l).object = l
      BY Constructors
    <3>2. \A f \in LimitKeys : IsU32(l, f)
      BY <1>1, <2>4, Constructors DEF IsU32, IsNumber, Is, LimitKeys
    <3>3. l["playout_target_ms_min"].number <= l["playout_target_ms_max"].number
      BY <2>4, Constructors
    <3> QED BY <2>4, <3>1, <3>2, <3>3 DEF IsLimits
  <2>8. /\ IsNumber(r, "version", 1, 1) /\ IsString(r, "role", {"apple-output-server"})
        /\ IsString(r, "server_id", Uuids) /\ IsString(r, "boot_id", Uuids)
        /\ IsString(r, "session_id", SessionIds) /\ IsNumber(r, "udp_port", 1, MaxU16)
    BY <1>1, <2>5, WrittenValues DEF Uuids, SessionIds
  <2>9. ResultShape(r)
    BY <2>5, <2>6, <2>7, <2>8
  <2>10. {"role", "session_id", "server_id"} \subseteq DOMAIN r \cap InfoFields
    BY <1>9, <2>5
  <2> QED BY <2>1, <2>5, <2>9, <2>10, ResultIs, SeenValues DEF NulString
<1>3. /\ Good(bind_result, 2)
      /\ Info(bind_result).fields["path_state"] = String("bound")
  <2> DEFINE r == [udp_port |-> Number(51838), path_state |-> String("bound")]
  <2>1. bind_result = Result(2, r)
    BY DEF bind_result
  <2>2. /\ DOMAIN r = {"udp_port", "path_state"}
        /\ r["udp_port"] = Number(51838) /\ r["path_state"] = String("bound")
    OBVIOUS
  <2> HIDE DEF r
  <2>3. IsNumber(r, "udp_port", 1, MaxU16) /\ IsString(r, "path_state", {"bound"})
    BY <1>1, <2>2, WrittenValues
  <2>4. ResultShape(r)
    BY <2>2, <2>3
  <2>5. "path_state" \in DOMAIN r \cap InfoFields
    BY <1>9, <2>2
  <2> QED BY <2>1, <2>2, <2>4, <2>5, ResultIs, SeenValues DEF NulString
<1>4. /\ Good(open_result, 3)
      /\ Info(open_result).fields["path_state"] = String("probing")
      /\ Info(open_result).fields["stream_id"] = Number(1)
      /\ Info(open_result).fields["key_epoch"] = Number(1)
  <2> DEFINE r == [stream_id |-> Number(1), key_epoch |-> Number(1),
                   profile |-> ObjectOf(PcmProfile), packet_interval_us |-> Number(5000),
                   path_state |-> String("probing")]
  <2>1. open_result = Result(3, r)
    BY DEF open_result
  <2>2. /\ DOMAIN r = OpenResultKeys /\ r["stream_id"] = Number(1) /\ r["key_epoch"] = Number(1)
        /\ r["profile"] = ObjectOf(PcmProfile) /\ r["packet_interval_us"] = Number(5000)
        /\ r["path_state"] = String("probing")
    OBVIOUS
  <2> HIDE DEF r
  <2>3. /\ IsId(r, "stream_id") /\ IsId(r, "key_epoch") /\ IsProfile(r["profile"])
        /\ IsU32(r, "packet_interval_us") /\ IsString(r, "path_state", {"probing"})
    BY <1>1, <2>2, WrittenValues, PcmIsProfile DEF IsId, IsU32
  <2>4. r["packet_interval_us"].number = PacketInterval(r["profile"].object)
    <3>1. PcmProfile["codec"].string = "pcm_s16le"
      BY Constructors DEF PcmProfile
    <3> QED BY <2>2, <3>1, Constructors DEF PacketInterval
  <2>5. ResultShape(r)
    BY <2>2, <2>3, <2>4
  <2>6. {"path_state", "stream_id", "key_epoch"} \subseteq DOMAIN r \cap InfoFields
    BY <1>9, <2>2
  <2> QED BY <2>1, <2>2, <2>5, <2>6, ResultIs, SeenValues DEF NulString
<1>5. /\ Good(start_result, 4)
      /\ Info(start_result).fields["state"] = String("started")
  <2> DEFINE r == [state |-> String("started")]
  <2>1. start_result = Result(4, r)
    BY DEF start_result
  <2>2. DOMAIN r = {"state"} /\ r["state"] = String("started")
    OBVIOUS
  <2> HIDE DEF r
  <2>3. "started" \in Reasons
    <3>1. "started" \in SampleStrings
      BY DEF SampleStrings, Constants
    <3>2. Bytes("started") = 10
      BY DEF Bytes
    <3>3. "started" # "empty" /\ "started" \notin NotPrintable
      BY DEF NotPrintable, NulString
    <3> QED BY <3>1, <3>2, <3>3 DEF Reasons, AtMost
  <2>4. IsString(r, "state", Reasons)
    BY <2>2, <2>3, WrittenValues
  <2>5. ResultShape(r)
    BY <2>2, <2>4
  <2>6. "state" \in DOMAIN r \cap InfoFields
    BY <1>9, <2>2
  <2> QED BY <2>1, <2>2, <2>5, <2>6, ResultIs, SeenValues DEF NulString
<1>6. \A k \in Steps : Good(HarnessReplies[k], k)
  <2> HIDE DEF Good
  <2> QED BY <1>2, <1>3, <1>4, <1>5 DEF HarnessReplies, Steps
<1> QED BY <1>2, <1>3, <1>4, <1>5, <1>6

\* main.cpp:749-823: each reply is what the probe requires at its step.
LEMMA AppleUnderstood ==
    ASSUME NEW k \in Steps, NEW id \in OptionServerIds
    PROVE  Accepted(HarnessReplies[k]) /\ ProbeTakes(k, Info(HarnessReplies[k]), id)
<1>1. /\ HarnessReplies[1] = hello_result /\ HarnessReplies[2] = bind_result
      /\ HarnessReplies[3] = open_result /\ HarnessReplies[4] = start_result
  BY DEF HarnessReplies
<1>2. Number(1) # Number(0) /\ String("a_session_id") # String("empty")
  BY Constructors
<1> QED BY <1>1, <1>2, RepliesSay DEF ProbeTakes, Steps, OptionServerIds

\* What the probe reads in the replies and names in its next requests.
LEMMA ToldBefore == SessionTold = "a_session_id" /\ StreamTold = 1
BY RepliesSay, Constructors DEF SessionTold, StreamTold


\* main.cpp:205-317, main.swift:222-263,440-521: each request the probe writes is what the
\* harness requires at its step.
LEMMA WindowsUnderstood ==
    ASSUME NEW k \in Steps, NEW port \in OptionPorts, NEW m \in ProbeRequests(port)[k]
    PROVE  Accepted(m) /\ HarnessTakes(k, Info(m), port)
<1>1. MaxU16 \in Int /\ 1 <= MaxU16 /\ MaxU16 < MaxU32 /\ 0 <= MaxU16 /\ MaxU32 \in Int
  BY MessageAssumption
<1>2. {"role", "udp_port", "session_id", "playout_target_ms", "profile", "stream_id",
       "first_media_timestamp"} \subseteq InfoFields
  BY DEF InfoFields, NumberFields, StringFields
<1>3. ASSUME NEW n \in OptionNames, k = 1, m = session_hello_json(n, port)
      PROVE  Accepted(m) /\ HarnessTakes(k, Info(m), port)
  <2> DEFINE p == [role |-> String("win-client"), client_name |-> String(n),
                   versions |-> ArrayOf(<<Number(1)>>), udp_port |-> Number(port)]
  <2>1. /\ DOMAIN p = {"role", "client_name", "versions", "udp_port"}
        /\ p["role"] = String("win-client") /\ p["client_name"] = String(n)
        /\ p["versions"] = ArrayOf(<<Number(1)>>) /\ p["udp_port"] = Number(port)
    OBVIOUS
  <2>2. m = Request(1, "session.hello", p)
    BY <1>3 DEF session_hello_json
  <2> HIDE DEF p
  <2>3. /\ \A f : f \in DOMAIN m <=> f \in Envelope \/ f \in DOMAIN p
        /\ \A f \in DOMAIN p : m[f] = p[f]
        /\ Info(m).id = 1 /\ Info(m).kind = "session.hello"
        /\ RequestStatus(m, "session.hello") = "GM_OK" => Accepted(m)
    <3>1. DOMAIN p \cap Envelope = {} /\ 1 \in 1..4
      BY <2>1 DEF Envelope
    <3> QED BY <2>2, <3>1, RequestIs
  <2>4. /\ m["role"] = String("win-client") /\ m["client_name"] = String(n)
        /\ m["versions"] = ArrayOf(<<Number(1)>>) /\ m["udp_port"] = Number(port)
        /\ DOMAIN m = {"v", "id", "type", "role", "client_name", "versions", "udp_port"}
    BY <2>1, <2>3 DEF Envelope
  <2>5. port \in Int /\ 1 <= port /\ port <= MaxU16
    BY <1>1 DEF OptionPorts
  <2>6. n \in AtMost(128)
    <3>1. n \in SampleStrings
      BY DEF OptionNames, SampleStrings, Sized, NotPrintable
    <3>2. Bytes(n) \in 1..128
      BY DEF OptionNames
    <3> QED BY <3>1, <3>2 DEF AtMost
  <2>7. /\ IsString(m, "role", {"win-client"}) /\ IsString(m, "client_name", AtMost(128))
        /\ Is(m, "versions", "array") /\ IsNumber(m, "udp_port", 1, MaxU16)
    BY <1>1, <2>4, <2>5, <2>6, WrittenValues
  <2>8. DescendingVersions(m["versions"].array) /\ Number(1) \in Range(m["versions"].array)
    <3>1. m["versions"].array = <<Number(1)>>
      BY <2>4, Constructors
    <3>2. DescendingVersions(<<Number(1)>>)
      BY Constructors DEF DescendingVersions
    <3>3. Number(1) \in Range(<<Number(1)>>)
      BY DEF Range
    <3> QED BY <3>1, <3>2, <3>3
  <2>9. RequestLegal(m, "session.hello")
    BY <2>4, <2>7, <2>8 DEF RequestLegal, RequestTypes, HasKeys, RequestKeys, Envelope
  <2>10. Accepted(m)
    BY <2>3, <2>8, <2>9 DEF RequestStatus
  <2>11. /\ Info(m).fields["role"] = String("win-client")
         /\ Info(m).fields["udp_port"] = Number(port)
    BY <1>2, <2>4, FieldIs, SeenValues DEF NulString
  <2>12. Number(port) # Number(0)
    BY <2>5, Constructors
  <2> QED BY <1>3, <2>3, <2>10, <2>11, <2>12 DEF HarnessTakes
<1>4. ASSUME k = 2, m = transport_bind_json("a_session_id", port)
      PROVE  Accepted(m) /\ HarnessTakes(k, Info(m), port)
  <2> DEFINE p == [session_id |-> String("a_session_id"), udp_port |-> Number(port)]
  <2>1. /\ DOMAIN p = {"session_id", "udp_port"}
        /\ p["session_id"] = String("a_session_id") /\ p["udp_port"] = Number(port)
    OBVIOUS
  <2>2. m = Request(2, "transport.bind", p)
    BY <1>4 DEF transport_bind_json
  <2> HIDE DEF p
  <2>3. /\ \A f : f \in DOMAIN m <=> f \in Envelope \/ f \in DOMAIN p
        /\ \A f \in DOMAIN p : m[f] = p[f]
        /\ Info(m).id = 2 /\ Info(m).kind = "transport.bind"
        /\ RequestStatus(m, "transport.bind") = "GM_OK" => Accepted(m)
    <3>1. DOMAIN p \cap Envelope = {} /\ 2 \in 1..4
      BY <2>1 DEF Envelope
    <3> QED BY <2>2, <3>1, RequestIs
  <2>4. /\ m["session_id"] = String("a_session_id") /\ m["udp_port"] = Number(port)
        /\ DOMAIN m = {"v", "id", "type", "session_id", "udp_port"}
    BY <2>1, <2>3 DEF Envelope
  <2>5. port \in Int /\ 1 <= port /\ port <= MaxU16
    BY <1>1 DEF OptionPorts
  <2>6. IsString(m, "session_id", SessionIds) /\ IsNumber(m, "udp_port", 1, MaxU16)
    BY <1>1, <2>4, <2>5, WrittenValues DEF SessionIds
  <2>7. RequestLegal(m, "transport.bind")
    BY <2>4, <2>6 DEF RequestLegal, RequestTypes, HasKeys, RequestKeys, Envelope
  <2>8. Accepted(m)
    BY <2>3, <2>7 DEF RequestStatus
  <2>9. /\ Info(m).fields["session_id"] = String("a_session_id")
        /\ Info(m).fields["udp_port"] = Number(port)
    BY <1>2, <2>4, FieldIs, SeenValues DEF NulString
  <2> QED BY <1>4, <2>3, <2>8, <2>9 DEF HarnessTakes
<1>5. ASSUME NEW ms \in OptionPlayouts, k = 3, m = stream_open_json(ms)
      PROVE  Accepted(m) /\ HarnessTakes(k, Info(m), port)
  <2> DEFINE p == [kind |-> String("audio"), direction |-> String("win_to_apple"),
                   profile |-> ObjectOf(PcmProfile), playout_target_ms |-> Number(ms)]
  <2>1. /\ DOMAIN p = {"kind", "direction", "profile", "playout_target_ms"}
        /\ p["kind"] = String("audio") /\ p["direction"] = String("win_to_apple")
        /\ p["profile"] = ObjectOf(PcmProfile) /\ p["playout_target_ms"] = Number(ms)
    OBVIOUS
  <2>2. m = Request(3, "stream.open", p)
    BY <1>5 DEF stream_open_json
  <2> HIDE DEF p
  <2>3. /\ \A f : f \in DOMAIN m <=> f \in Envelope \/ f \in DOMAIN p
        /\ \A f \in DOMAIN p : m[f] = p[f]
        /\ Info(m).id = 3 /\ Info(m).kind = "stream.open"
        /\ RequestStatus(m, "stream.open") = "GM_OK" => Accepted(m)
    <3>1. DOMAIN p \cap Envelope = {} /\ 3 \in 1..4
      BY <2>1 DEF Envelope
    <3> QED BY <2>2, <3>1, RequestIs
  <2>4. /\ m["kind"] = String("audio") /\ m["direction"] = String("win_to_apple")
        /\ m["profile"] = ObjectOf(PcmProfile) /\ m["playout_target_ms"] = Number(ms)
        /\ DOMAIN m = {"v", "id", "type", "kind", "direction", "profile", "playout_target_ms"}
    BY <2>1, <2>3 DEF Envelope
  <2>5. ms \in Int /\ 15 <= ms /\ ms <= 120
    BY DEF OptionPlayouts
  <2>6. /\ IsString(m, "kind", {"audio"}) /\ IsString(m, "direction", {"win_to_apple"})
        /\ IsProfile(m["profile"]) /\ IsNumber(m, "playout_target_ms", 15, 120)
    BY <2>4, <2>5, WrittenValues, PcmIsProfile
  <2>7. RequestLegal(m, "stream.open")
    BY <2>4, <2>6 DEF RequestLegal, RequestTypes, HasKeys, RequestKeys, Envelope
  <2>8. Accepted(m)
    BY <2>3, <2>7 DEF RequestStatus
  <2>9. /\ Info(m).fields["profile"] = ObjectOf(PcmProfile)
        /\ Info(m).fields["playout_target_ms"] = Number(ms)
    BY <1>2, <2>4, FieldIs, SeenValues
  <2>10. Number(ms) # Number(0)
    BY <2>5, Constructors
  <2>11. ObjectOf(PcmProfile).object["codec"] = String("pcm_s16le")
    BY Constructors DEF PcmProfile
  <2> QED BY <1>5, <2>3, <2>8, <2>9, <2>10, <2>11 DEF HarnessTakes
<1>6. ASSUME NEW t \in {"0", "2^64-1"}, k = 4, m = stream_start_json(1, t)
      PROVE  Accepted(m) /\ HarnessTakes(k, Info(m), port)
  <2> DEFINE p == [stream_id |-> Number(1), first_media_timestamp |-> String(t)]
  <2>1. /\ DOMAIN p = {"stream_id", "first_media_timestamp"}
        /\ p["stream_id"] = Number(1) /\ p["first_media_timestamp"] = String(t)
    OBVIOUS
  <2>2. m = Request(4, "stream.start", p)
    BY <1>6 DEF stream_start_json
  <2> HIDE DEF p
  <2>3. /\ \A f : f \in DOMAIN m <=> f \in Envelope \/ f \in DOMAIN p
        /\ \A f \in DOMAIN p : m[f] = p[f]
        /\ Info(m).id = 4 /\ Info(m).kind = "stream.start"
        /\ RequestStatus(m, "stream.start") = "GM_OK" => Accepted(m)
    <3>1. DOMAIN p \cap Envelope = {} /\ 4 \in 1..4
      BY <2>1 DEF Envelope
    <3> QED BY <2>2, <3>1, RequestIs
  <2>4. /\ m["stream_id"] = Number(1) /\ m["first_media_timestamp"] = String(t)
        /\ DOMAIN m = {"v", "id", "type", "stream_id", "first_media_timestamp"}
    BY <2>1, <2>3 DEF Envelope
  <2>5. IsId(m, "stream_id") /\ IsString(m, "first_media_timestamp", GoodDecimals)
    BY <1>1, <2>4, WrittenValues DEF IsId, GoodDecimals
  <2>6. RequestLegal(m, "stream.start")
    BY <2>4, <2>5 DEF RequestLegal, RequestTypes, HasKeys, RequestKeys, Envelope
  <2>7. Accepted(m)
    BY <2>3, <2>6 DEF RequestStatus
  <2>8. /\ Info(m).fields["stream_id"] = Number(1)
        /\ Info(m).fields["first_media_timestamp"] = String(t)
    BY <1>2, <2>4, FieldIs, SeenValues DEF NulString
  <2>9. String(t) # String("empty")
    BY Constructors
  <2> QED BY <1>6, <2>3, <2>7, <2>8, <2>9 DEF HarnessTakes
<1> QED BY <1>3, <1>4, <1>5, <1>6, RequestsAre, ToldBefore

-------------------------------------------------------------------------------
(* The messages of a behaviour. *)

\* The inductive invariant of the messages.  Whether a schema was closed to an edit is a question
\* about the message before the edit: its members have to be values, at every level that is edited.
MessageIInv ==
    MessageTypeOK /\ MessageOK(message) /\ SchemasAreClosed /\ BothProgramsUnderstood

\* A message with values at every level is of the type of messages.
LEMMA MessageTyped ==
    ASSUME MessageOK(message), edits \in 0..MaxEdits,
           edit \in {"none", "written", "sample"} \cup EditNames
    PROVE  MessageTypeOK
<1>1. ParseMessage(message) \in {"GM_OK", "GM_BAD_MESSAGE", "GM_UNSUPPORTED_VERSION"}
  BY ParseMessageIs
<1> QED BY <1>1, InfoInRange DEF MessageTypeOK, EditNames

\* A behaviour begins without a message, with one a program writes or with a sample.
LEMMA MessageInitially ==
    ASSUME Init
    PROVE  MessageIInv
<1>1. edits = 0 /\ edits \in 0..MaxEdits
  BY MessageAssumption DEF Init, NoMessage, MessageInit
<1>2. CASE message = <<>> /\ edit = "none"
  <2>1. \A f \in DOMAIN message : SimpleValue(message[f])
    BY <1>2
  <2>2. MessageOK(message)
    BY <2>1, SimpleMembers
  <2> QED BY <1>1, <1>2, <2>2, MessageTyped
       DEF MessageIInv, SchemasAreClosed, BothProgramsUnderstood
<1> DEFINE Written == \E k \in Steps : \/ message = HarnessReplies[k]
                                     \/ \E port \in OptionPorts : message \in ProbeRequests(port)[k]
<1>3. CASE edit = "written" /\ Written
  <2>1. MessageOK(message)
    BY <1>3, ToldBefore, FirstMessages
  <2>2. Accepted(message)
    <3>1. "empty" \in OptionServerIds
      BY DEF OptionServerIds
    <3> QED BY <1>3, <3>1, WindowsUnderstood, AppleUnderstood
  <2>3. BothProgramsUnderstood
    BY <2>2, WindowsUnderstood, AppleUnderstood DEF BothProgramsUnderstood
  <2> QED BY <1>1, <1>3, <2>1, <2>3, MessageTyped DEF MessageIInv, SchemasAreClosed
<1>4. CASE edit = "sample" /\ message \in SampleMessages
  <2>1. MessageOK(message)
    BY <1>4, ToldBefore, FirstMessages
  <2> QED BY <1>1, <1>4, <2>1, MessageTyped
       DEF MessageIInv, SchemasAreClosed, BothProgramsUnderstood
<1> QED BY <1>2, <1>3, <1>4 DEF Init, NoMessage, MessageInit

\* An accepted message edited once more has its levels, and its schemas are closed to the edit.
LEMMA MessageStep ==
    ASSUME MessageIInv, [Next]_vars
    PROVE  MessageIInv'
<1>1. CASE EditMessage
  <2>1. PICK e \in Edits(message) : edit' = e.edit /\ message' = e.object
    BY <1>1 DEF EditMessage
  <2>2. Accepted(message) /\ MessageOK(message)
    BY <1>1 DEF EditMessage, MessageIInv
  <2>3. MessageOK(message')
    BY <2>1, <2>2, EditsKeepLevels
  <2>4. edit' \in EditNames
    BY <2>1, EditsNamed
  <2>5. edits' \in 0..MaxEdits
    BY <1>1, MessageAssumption DEF MessageIInv, MessageTypeOK, EditMessage
  <2>6. MessageTypeOK'
    <3>1. ParseMessage(message') \in {"GM_OK", "GM_BAD_MESSAGE", "GM_UNSUPPORTED_VERSION"}
      BY ParseMessageIs
    <3> QED BY <2>3, <2>4, <2>5, <3>1, InfoInRange DEF MessageTypeOK, EditNames
  <2>7. ASSUME Accepted(e.object)
        PROVE  /\ e.edit \notin {"added", "other_kind"}
               /\ e.edit = "removed" =>
                     \/ e.object["type"].string = "session.close"
                     \/ /\ e.object["type"].string = "result"
                        /\ DOMAIN e.object["result"].object
                               \in {{"stream_id", "state"}, {"state"}}
    BY <2>2, <2>7, MessageClosed
  <2>8. SchemasAreClosed'
    BY <2>1, <2>7 DEF SchemasAreClosed
  <2>9. BothProgramsUnderstood'
    BY <2>4 DEF BothProgramsUnderstood, EditNames
  <2> QED BY <2>3, <2>6, <2>8, <2>9 DEF MessageIInv
<1>2. CASE UNCHANGED messageVars
  BY <1>2 DEF MessageIInv, MessageTypeOK, SchemasAreClosed, BothProgramsUnderstood, messageVars
<1>3. UNCHANGED vars => UNCHANGED messageVars
  BY DEF vars, messageVars
<1> QED BY <1>1, <1>2, <1>3 DEF Next

\* Between gm_control_parse_message and its caller: every message has values at every level, the
\* schemas are closed, and what the two programs write is understood.
THEOREM MessageInvariant == Spec => []MessageIInv
BY MessageInitially, MessageStep, PTL DEF Spec

\* However often a message is edited, its schema takes no member more, none less and none of
\* another kind, but for the reason of a close and the two results about a stream.
THEOREM SchemasAlwaysClosed == Spec => []SchemasAreClosed
<1>1. MessageIInv => SchemasAreClosed
  BY DEF MessageIInv
<1> QED BY <1>1, MessageInvariant, PTL

\* For every largest port, and whatever the probe's options, the harness takes each request of
\* the probe at its step, and the probe each reply of the harness at its own: the role, session,
\* path states, stream, key epoch and ports that each asks for are those the other one writes.
THEOREM ProgramsAlwaysUnderstand == Spec => []BothProgramsUnderstood
<1>1. MessageIInv => BothProgramsUnderstood
  BY DEF MessageIInv
<1> QED BY <1>1, MessageInvariant, PTL

\* The info of two accepted messages, one edit apart, is the same exactly when they say the same.
THEOREM InfoAlwaysSays == Spec => InfoSaysWhatWasSaid
<1>1. ASSUME MessageIInv, MessageIInv', [Next]_vars
      PROVE  [(Accepted(message) /\ Accepted(message')) =>
                  (Info(message) = Info(message') <=> Said(message) = Said(message'))]_messageVars
  <2>1. MessageOK(message) /\ MessageOK(message')
    BY <1>1 DEF MessageIInv
  <2> QED BY <2>1, TellsApart
<1> QED BY <1>1, MessageInvariant, PTL DEF Spec, InfoSaysWhatWasSaid

\* The parser keeps its limits, and an accepted request is in the ranges that the control session
\* takes for granted.
THEOREM TypeCorrect == Spec => []TypeOK
<1>1. ParserIInv /\ MessageIInv => TypeOK
  BY DEF ParserIInv, MessageIInv, TypeOK
<1> QED BY <1>1, ParserInvariant, MessageInvariant, PTL
================================================================================
