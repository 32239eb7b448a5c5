------------------------ MODULE PanelUserListProofs ------------------------
(***************************************************************************)
(* Proofs about PanelUserList, for every panel, page size, scan limit and  *)
(* size of an int, and any number of changes under a scan.                 *)
(*                                                                         *)
(* While nobody is shifted the panel moves towards its head, so a user     *)
(* that was read stays below the next page or is gone; while nobody is     *)
(* gone it moves away from the head, so a user that was not read stays  *)
(* beyond the pages read.  Each half is what one of the properties needs.  *)
(***************************************************************************)
EXTENDS PanelUserList, FiniteSetTheorems, SequenceTheorems, TLAPS

-----------------------------------------------------------------------------
(* Filtering by position. *)

\* The place of position i among those of P.
Rank(P, i) == Cardinality({j \in P : j <= i})

\* The places are exactly the numbers up to the size of P, one per position.
LEMMA Ranks ==
    ASSUME NEW P \in SUBSET Nat, IsFiniteSet(P)
    PROVE  /\ Cardinality(P) \in Nat
           /\ \A i \in P : Rank(P, i) \in 1..Cardinality(P)
           /\ \A i, j \in P : Rank(P, i) = Rank(P, j) => i = j
           /\ \A n \in 1..Cardinality(P) : \E i \in P : Rank(P, i) = n
<1> DEFINE Upto(i) == {j \in P : j <= i}
           f == [i \in P |-> Rank(P, i)]
<1>1. Cardinality(P) \in Nat
    BY FS_CardinalityType
<1>2. ASSUME NEW i \in P
      PROVE  IsFiniteSet(Upto(i)) /\ Rank(P, i) \in 1..Cardinality(P)
    <2>1. IsFiniteSet(Upto(i)) /\ Cardinality(Upto(i)) <= Cardinality(P)
        BY FS_Subset
    <2>2. Cardinality(Upto(i)) \in Nat /\ Cardinality(Upto(i)) # 0
        <3>1. i \in Upto(i)
            OBVIOUS
        <3> HIDE DEF Upto
        <3>2. QED
            BY <2>1, <3>1, FS_CardinalityType, FS_EmptySet
    <2>3. QED
        BY <1>1, <2>1, <2>2 DEF Rank
<1>3. ASSUME NEW i \in P, NEW j \in P, i < j
      PROVE  Rank(P, i) < Rank(P, j)
    <2>1. Upto(i) \subseteq Upto(j) /\ j \in Upto(j) /\ j \notin Upto(i)
        <3>1. \A k \in P : k \in Nat /\ (k <= i => k <= j)
            BY <1>3
        <3>2. ~(j <= i) /\ j <= j
            BY <1>3
        <3>3. QED
            BY <3>1, <3>2
    <2>2. IsFiniteSet(Upto(i)) /\ IsFiniteSet(Upto(j))
        BY <1>2
    <2> HIDE DEF Upto
    <2>3. Cardinality(Upto(i)) < Cardinality(Upto(j))
        BY <2>1, <2>2, FS_Subset, FS_CardinalityType
    <2>4. QED
        BY <2>3 DEF Rank, Upto
<1>4. \A i, j \in P : Rank(P, i) = Rank(P, j) => i = j
    <2> SUFFICES ASSUME NEW i \in P, NEW j \in P, i # j
                 PROVE  Rank(P, i) # Rank(P, j)
        OBVIOUS
    <2>1. Rank(P, i) \in Nat /\ Rank(P, j) \in Nat
        <3>1. Rank(P, i) \in 1..Cardinality(P) /\ Rank(P, j) \in 1..Cardinality(P)
            BY <1>2
        <3>2. QED
            BY <1>1, <3>1
    <2>2. i < j \/ j < i
        <3>1. i \in Nat /\ j \in Nat
            OBVIOUS
        <3>2. QED
            BY <3>1
    <2>3. QED
        BY <1>3, <2>1, <2>2
<1>5. f \in Injection(P, 1..Cardinality(P))
    <2>1. f \in [P -> 1..Cardinality(P)]
        BY <1>2
    <2>2. QED
        BY <1>4, <2>1 DEF Injection, IsInjective
<1>6. f \in Surjection(P, 1..Cardinality(P))
    <2>1. IsFiniteSet(1..Cardinality(P)) /\ Cardinality(1..Cardinality(P)) = Cardinality(P)
        BY <1>1, FS_Interval
    <2> HIDE DEF f
    <2>2. QED
        BY <1>5, <2>1, FS_Injection
<1>7. QED
    BY <1>1, <1>2, <1>4, <1>6 DEF Surjection

\* Keep lists the elements at the positions, each at its place.
LEMMA Keeping ==
    ASSUME NEW T, NEW s \in Seq(T), NEW P \in SUBSET DOMAIN s
    PROVE  /\ Keep(s, P) \in Seq(T) /\ Len(Keep(s, P)) = Cardinality(P) /\ IsFiniteSet(P)
           /\ DOMAIN Keep(s, P) = 1..Cardinality(P)
           /\ \A i \in P : Rank(P, i) \in DOMAIN Keep(s, P) /\ Keep(s, P)[Rank(P, i)] = s[i]
           /\ \A n \in DOMAIN Keep(s, P) : \E i \in P : Rank(P, i) = n /\ Keep(s, P)[n] = s[i]
<1>1. DOMAIN s = 1..Len(s) /\ Len(s) \in Nat
    OBVIOUS
<1>2. IsFiniteSet(P) /\ P \in SUBSET Nat
    <2>1. IsFiniteSet(DOMAIN s) /\ DOMAIN s \subseteq Nat
        BY <1>1, FS_Interval
    <2>2. QED
        BY <2>1, FS_Subset
<1>3. /\ Cardinality(P) \in Nat
      /\ \A i \in P : Rank(P, i) \in 1..Cardinality(P)
      /\ \A i, j \in P : Rank(P, i) = Rank(P, j) => i = j
      /\ \A n \in 1..Cardinality(P) : \E i \in P : Rank(P, i) = n
    BY <1>2, Ranks
<1>4. Keep(s, P) = [n \in 1..Cardinality(P) |-> s[CHOOSE i \in P : Rank(P, i) = n]]
    BY DEF Keep, Rank
<1> DEFINE pos(n) == CHOOSE i \in P : Rank(P, i) = n
<1>5. \A n \in 1..Cardinality(P) : pos(n) \in P /\ Rank(P, pos(n)) = n /\ Keep(s, P)[n] = s[pos(n)]
    BY <1>3, <1>4
<1> HIDE DEF pos
<1>6. \A n \in 1..Cardinality(P) : s[pos(n)] \in T
    BY <1>5
<1>7. Keep(s, P) \in [1..Cardinality(P) -> T]
    BY <1>4, <1>5, <1>6 DEF pos
<1>8. Keep(s, P) \in Seq(T) /\ Len(Keep(s, P)) = Cardinality(P) /\ DOMAIN Keep(s, P) = 1..Cardinality(P)
    BY <1>3, <1>7
<1>9. \A i \in P : Keep(s, P)[Rank(P, i)] = s[i]
    BY <1>3, <1>5
<1>10. QED
    BY <1>2, <1>3, <1>5, <1>8, <1>9

-----------------------------------------------------------------------------
(* The inductive invariant. *)

\* The scan reads whole pages below its limit, and no more users than it asked for.
Paged ==
    /\ \E n \in Nat : start = n * PageSize
    /\ pc = "scan" => start < MaxScan
    /\ Scanning => Len(combined) <= start

\* While nobody enters or changes place: what was read is gone or below the next page.
ReadBelow ==
    Scanning /\ shifted = {} =>
        /\ \A i, j \in DOMAIN combined : combined[i].uuid = combined[j].uuid => i = j
        /\ \A i \in DOMAIN combined : \/ combined[i].uuid \in gone
                                      \/ \E p \in DOMAIN panel : p <= start /\ panel[p] = combined[i].uuid
        /\ \A p \in DOMAIN panel : panel[p] \notin gone

\* User u was read while the token owned it.
WasRead(u) == \E i \in DOMAIN combined : combined[i].uuid = u /\ combined[i].owned

\* While nobody leaves or goes to a later place: who was not read is beyond the pages.
UnreadBeyond ==
    Scanning /\ gone = {} =>
        \A u \in kept :
            \/ WasRead(u)
            \/ pc = "scan" /\ \E p \in DOMAIN panel : p > start /\ panel[p] = u
            \/ pc = "filter" /\ (counts => Len(panel) > MaxScan)

\* An answer is the page of the list that was put together.
Answered ==
    /\ query \in Queries \cup {<<>>}
    /\ pc = "idle" /\ answer.status \in {"ok", "aborted"} =>
          answer = filterJSONListPaged(combined, panelResponsePage(query))

ListInv ==
    /\ TypeOK /\ Paged /\ ReadBelow /\ UnreadBeyond /\ Answered
    /\ Scanning => kept \subseteq owned /\ kept \subseteq ToSet(panel)

-----------------------------------------------------------------------------
(* The panel's list and its pages. *)

\* The smaller of two numbers.
LEMMA MinOfTwo ==
    ASSUME NEW a \in Int, NEW b \in Int
    PROVE  Min({a, b}) = IF a <= b THEN a ELSE b
<1>1. CASE a <= b
    BY <1>1 DEF Min
<1>2. CASE ~(a <= b)
    <2>1. b <= a /\ b <= b /\ a # b
        BY <1>2
    <2>2. QED
        BY <1>2, <2>1 DEF Min
<1>3. QED
    BY <1>1, <1>2

\* The positions of a sequence.
LEMMA Positions ==
    ASSUME NEW T, NEW s \in Seq(T)
    PROVE  Len(s) \in Nat /\ DOMAIN s = 1..Len(s) /\ \A i \in DOMAIN s : s[i] \in T
OBVIOUS

\* A function on the first n positions is a list.
LEMMA Listed ==
    ASSUME NEW T, NEW n \in Nat, NEW f \in [1..n -> T]
    PROVE  f \in Seq(T) /\ Len(f) = n
OBVIOUS

\* A list followed by another.
LEMMA Joined ==
    ASSUME NEW T, NEW s \in Seq(T), NEW r \in Seq(T)
    PROVE  /\ s \o r \in Seq(T) /\ Len(s \o r) = Len(s) + Len(r)
           /\ \A i \in 1..Len(s) : (s \o r)[i] = s[i]
           /\ \A i \in 1..Len(r) : (s \o r)[Len(s) + i] = r[i]
OBVIOUS

\* A part of a list.
LEMMA Cut ==
    ASSUME NEW T, NEW s \in Seq(T), NEW m \in 1..(Len(s) + 1), NEW n \in (m - 1)..Len(s)
    PROVE  /\ SubSeq(s, m, n) \in Seq(T) /\ Len(SubSeq(s, m, n)) = n - m + 1
           /\ \A p \in 1..(n - m + 1) : SubSeq(s, m, n)[p] = s[m + p - 1]
<1>1. Len(s) \in Nat /\ m \in Int /\ n \in Int /\ 1 <= m /\ n <= Len(s) /\ m - 1 <= n
    OBVIOUS
<1>2. \A p \in m..n : s[p] \in T
    BY <1>1
<1>3. /\ SubSeq(s, m, n) \in Seq(T) /\ Len(SubSeq(s, m, n)) = IF m <= n THEN n - m + 1 ELSE 0
      /\ \A p \in 1..(n - m + 1) : SubSeq(s, m, n)[p] = s[m + p - 1]
    BY <1>1, <1>2, SubSeqProperties
<1>4. QED
    BY <1>1, <1>3

\* A user inserted at position i moves those from there on by one.
LEMMA Inserted ==
    ASSUME NEW T, NEW s \in Seq(T), NEW i \in 1..(Len(s) + 1), NEW e \in T
    PROVE  /\ InsertAt(s, i, e) \in Seq(T) /\ Len(InsertAt(s, i, e)) = Len(s) + 1
           /\ InsertAt(s, i, e)[i] = e
           /\ \A p \in 1..Len(s) : p < i => InsertAt(s, i, e)[p] = s[p]
           /\ \A p \in 1..Len(s) : i <= p => InsertAt(s, i, e)[p + 1] = s[p]
<1> DEFINE a == SubSeq(s, 1, i - 1)
           b == SubSeq(s, i, Len(s))
           x == <<e>>
           m == a \o x
<1>1. Len(s) \in Nat /\ i \in Nat \ {0} /\ i <= Len(s) + 1
    OBVIOUS
<1>2. a \in Seq(T) /\ Len(a) = i - 1 /\ \A p \in 1..(i - 1) : a[p] = s[1 + p - 1]
    <2>1. 1 \in 1..(Len(s) + 1) /\ i - 1 \in (1 - 1)..Len(s) /\ i - 1 - 1 + 1 = i - 1
        BY <1>1
    <2>2. QED
        BY <2>1, Cut
<1>3. b \in Seq(T) /\ Len(b) = Len(s) - i + 1 /\ \A p \in 1..(Len(s) - i + 1) : b[p] = s[i + p - 1]
    <2>1. i \in 1..(Len(s) + 1) /\ Len(s) \in (i - 1)..Len(s)
        BY <1>1
    <2>2. QED
        BY <2>1, Cut
<1>4. x \in Seq(T) /\ Len(x) = 1 /\ x[1] = e
    OBVIOUS
<1> HIDE DEF a, b, x
<1>5. /\ m \in Seq(T) /\ Len(m) = i /\ m[i] = e /\ \A p \in 1..(i - 1) : m[p] = s[p]
    <2>1. a \in Seq(T) /\ x \in Seq(T)
        BY <1>2, <1>4
    <2>2. /\ a \o x \in Seq(T) /\ Len(a \o x) = Len(a) + Len(x)
          /\ \A p \in 1..Len(a) : (a \o x)[p] = a[p]
          /\ \A p \in 1..Len(x) : (a \o x)[Len(a) + p] = x[p]
        BY <2>1, Joined
    <2> HIDE DEF m
    <2>3. /\ m \in Seq(T) /\ Len(m) = Len(a) + Len(x)
          /\ \A p \in 1..Len(a) : m[p] = a[p]
          /\ \A p \in 1..Len(x) : m[Len(a) + p] = x[p]
        BY <2>2 DEF m
    <2>4. Len(a) + 1 = i /\ 1 \in 1..Len(x)
        BY <1>1, <1>2, <1>4
    <2>5. m[i] = e
        BY <1>4, <2>3, <2>4
    <2>6. QED
        BY <1>1, <1>2, <1>4, <2>3, <2>4, <2>5
<1> HIDE DEF m
<1>6. /\ m \o b \in Seq(T) /\ Len(m \o b) = Len(m) + Len(b) /\ \A p \in 1..Len(m) : (m \o b)[p] = m[p]
      /\ \A p \in 1..Len(b) : (m \o b)[Len(m) + p] = b[p]
    <2>1. m \in Seq(T) /\ b \in Seq(T)
        BY <1>3, <1>5
    <2>2. QED
        BY <2>1, Joined
<1>7. InsertAt(s, i, e) = m \o b
    BY DEF InsertAt, m, a, b, x
<1>8. Len(m \o b) = Len(s) + 1 /\ (m \o b)[i] = e
    BY <1>1, <1>3, <1>5, <1>6
<1>9. \A p \in 1..Len(s) : p < i => (m \o b)[p] = s[p]
    BY <1>1, <1>5, <1>6
<1>10. ASSUME NEW p \in 1..Len(s), i <= p PROVE (m \o b)[p + 1] = s[p]
    <2>1. PICK q \in Int : q = p - i + 1
        BY <1>1
    <2>2. q \in 1..Len(b) /\ Len(m) + q = p + 1 /\ i + q - 1 = p /\ q \in 1..(Len(s) - i + 1)
        BY <1>1, <1>3, <1>5, <1>10, <2>1
    <2>3. (m \o b)[Len(m) + q] = b[q] /\ b[q] = s[i + q - 1]
        BY <1>3, <1>6, <2>2
    <2>4. QED
        BY <2>2, <2>3
<1>11. QED
    BY <1>6, <1>7, <1>8, <1>9, <1>10

\* A user removed from position i moves those after it back by one.
LEMMA Removed ==
    ASSUME NEW T, NEW s \in Seq(T), NEW i \in 1..Len(s)
    PROVE  /\ RemoveAt(s, i) \in Seq(T) /\ Len(RemoveAt(s, i)) = Len(s) - 1
           /\ \A p \in 1..(Len(s) - 1) : p < i => RemoveAt(s, i)[p] = s[p]
           /\ \A p \in 1..(Len(s) - 1) : i <= p => RemoveAt(s, i)[p] = s[p + 1]
<1> DEFINE a == SubSeq(s, 1, i - 1)
           b == SubSeq(s, i + 1, Len(s))
<1>1. Len(s) \in Nat /\ i \in Nat \ {0} /\ i <= Len(s)
    OBVIOUS
<1>2. a \in Seq(T) /\ Len(a) = i - 1 /\ \A p \in 1..(i - 1) : a[p] = s[1 + p - 1]
    <2>1. 1 \in 1..(Len(s) + 1) /\ i - 1 \in (1 - 1)..Len(s) /\ i - 1 - 1 + 1 = i - 1
        BY <1>1
    <2>2. QED
        BY <2>1, Cut
<1>3. b \in Seq(T) /\ Len(b) = Len(s) - i /\ \A p \in 1..(Len(s) - i) : b[p] = s[i + 1 + p - 1]
    <2>1. PICK j \in Nat : j = i + 1
        BY <1>1
    <2>2. j \in 1..(Len(s) + 1) /\ Len(s) \in (j - 1)..Len(s) /\ Len(s) - j + 1 = Len(s) - i
        BY <1>1, <2>1
    <2>3. /\ SubSeq(s, j, Len(s)) \in Seq(T) /\ Len(SubSeq(s, j, Len(s))) = Len(s) - j + 1
          /\ \A p \in 1..(Len(s) - j + 1) : SubSeq(s, j, Len(s))[p] = s[j + p - 1]
        BY <2>2, Cut
    <2>4. QED
        BY <2>1, <2>2, <2>3
<1> HIDE DEF a, b
<1>4. /\ a \o b \in Seq(T) /\ Len(a \o b) = Len(a) + Len(b) /\ \A p \in 1..Len(a) : (a \o b)[p] = a[p]
      /\ \A p \in 1..Len(b) : (a \o b)[Len(a) + p] = b[p]
    <2>1. a \in Seq(T) /\ b \in Seq(T)
        BY <1>2, <1>3
    <2>2. QED
        BY <2>1, Joined
<1>5. RemoveAt(s, i) = a \o b
    BY DEF RemoveAt, a, b
<1>6. Len(a \o b) = Len(s) - 1
    BY <1>1, <1>2, <1>3, <1>4
<1>7. \A p \in 1..(Len(s) - 1) : p < i => (a \o b)[p] = s[p]
    BY <1>1, <1>2, <1>4
<1>8. ASSUME NEW p \in 1..(Len(s) - 1), i <= p PROVE (a \o b)[p] = s[p + 1]
    <2>1. PICK q \in Int : q = p - i + 1
        BY <1>1
    <2>2. q \in 1..Len(b) /\ Len(a) + q = p /\ i + 1 + q - 1 = p + 1 /\ q \in 1..(Len(s) - i)
        BY <1>1, <1>2, <1>3, <1>8, <2>1
    <2>3. (a \o b)[Len(a) + q] = b[q] /\ b[q] = s[i + 1 + q - 1]
        BY <1>3, <1>4, <2>2
    <2>4. QED
        BY <2>2, <2>3
<1>9. QED
    BY <1>4, <1>5, <1>6, <1>7, <1>8
\* In a list without repetitions, an insertion moves nobody towards the head.
LEMMA InsertedMoves ==
    ASSUME NEW T, NEW s \in Seq(T), IsInjective(s), NEW i \in 1..(Len(s) + 1), NEW e \in T,
           e \notin ToSet(s)
    PROVE  LET r == InsertAt(s, i, e)
           IN  /\ r \in Seq(T) /\ IsInjective(r) /\ Len(r) = Len(s) + 1
               /\ \A p \in DOMAIN s : \E q \in DOMAIN r : q >= p /\ r[q] = s[p]
<1> DEFINE r == InsertAt(s, i, e)
<1>1. /\ r \in Seq(T) /\ Len(r) = Len(s) + 1 /\ r[i] = e
      /\ \A p \in 1..Len(s) : p < i => r[p] = s[p]
      /\ \A p \in 1..Len(s) : i <= p => r[p + 1] = s[p]
    <2>1. /\ InsertAt(s, i, e) \in Seq(T) /\ Len(InsertAt(s, i, e)) = Len(s) + 1
          /\ InsertAt(s, i, e)[i] = e
          /\ \A p \in 1..Len(s) : p < i => InsertAt(s, i, e)[p] = s[p]
          /\ \A p \in 1..Len(s) : i <= p => InsertAt(s, i, e)[p + 1] = s[p]
        BY ONLY Inserted, s \in Seq(T), i \in 1..(Len(s) + 1), e \in T
    <2>2. QED
        BY <2>1
<1> HIDE DEF r
<1>2. Len(s) \in Nat /\ i \in Nat /\ DOMAIN s = 1..Len(s) /\ DOMAIN r = 1..(Len(s) + 1)
    BY <1>1
<1>3. \A p \in DOMAIN s : s[p] # e
    BY DEF ToSet
<1>4. ASSUME NEW q \in DOMAIN r, q # i
      PROVE  \E p \in DOMAIN s : r[q] = s[p] /\ (q < i => p = q) /\ (q > i => p = q - 1)
    <2>1. CASE q < i
        BY <1>1, <1>2, <2>1
    <2>2. CASE q > i
        <3> DEFINE o == q - 1
        <3>0. o \in 1..Len(s) /\ o + 1 = q /\ i <= o
            BY <1>2, <2>2
        <3> HIDE DEF o
        <3>1. PICK p \in 1..Len(s) : p + 1 = q /\ i <= p
            BY <3>0
        <3>2. QED
            BY <1>1, <1>2, <2>2, <3>1
    <2>3. QED
        BY <1>2, <1>4, <2>1, <2>2
<1>5. IsInjective(r)
    <2> SUFFICES ASSUME NEW a \in DOMAIN r, NEW b \in DOMAIN r, r[a] = r[b] PROVE a = b
        BY DEF IsInjective
    <2>1. CASE a = i \/ b = i
        BY <1>1, <1>3, <1>4, <2>1
    <2>2. CASE a # i /\ b # i
        <3>1. PICK p \in DOMAIN s : r[a] = s[p] /\ (a < i => p = a) /\ (a > i => p = a - 1)
            BY <1>4, <2>2
        <3>2. PICK q \in DOMAIN s : r[b] = s[q] /\ (b < i => q = b) /\ (b > i => q = b - 1)
            BY <1>4, <2>2
        <3>3. p = q
            BY <3>1, <3>2 DEF IsInjective
        <3>4. QED
            BY <1>2, <2>2, <3>1, <3>2, <3>3
    <2>3. QED
        BY <2>1, <2>2
<1>6. ASSUME NEW p \in DOMAIN s PROVE \E q \in DOMAIN r : q >= p /\ r[q] = s[p]
    <2>1. CASE p < i
        BY <1>1, <1>2, <2>1
    <2>2. CASE i <= p
        <3>1. p + 1 \in DOMAIN r /\ p + 1 >= p /\ r[p + 1] = s[p]
            BY <1>1, <1>2, <2>2
        <3>2. QED
            BY <3>1
    <2>3. QED
        BY <1>2, <2>1, <2>2
<1>7. QED
    BY <1>1, <1>5, <1>6 DEF r

\* A removal moves nobody away from the head, and the user removed is gone.
LEMMA RemovedMoves ==
    ASSUME NEW T, NEW s \in Seq(T), IsInjective(s), NEW i \in DOMAIN s
    PROVE  LET r == RemoveAt(s, i)
           IN  /\ r \in Seq(T) /\ IsInjective(r)
               /\ \A p \in DOMAIN s : p # i => \E q \in DOMAIN r : q <= p /\ r[q] = s[p]
               /\ \A q \in DOMAIN r : \E p \in DOMAIN s : p # i /\ r[q] = s[p]
<1> DEFINE r == RemoveAt(s, i)
<1>1. /\ r \in Seq(T) /\ Len(r) = Len(s) - 1
      /\ \A p \in 1..(Len(s) - 1) : p < i => r[p] = s[p]
      /\ \A p \in 1..(Len(s) - 1) : i <= p => r[p] = s[p + 1]
    <2>1. i \in 1..Len(s)
        OBVIOUS
    <2>2. QED
        BY <2>1, Removed
<1> HIDE DEF r
<1>2. Len(s) \in Nat /\ i \in 1..Len(s) /\ DOMAIN s = 1..Len(s) /\ DOMAIN r = 1..(Len(s) - 1)
    BY <1>1
<1>3. ASSUME NEW q \in DOMAIN r
      PROVE  \E p \in DOMAIN s : p # i /\ r[q] = s[p] /\ (q < i => p = q) /\ (i <= q => p = q + 1)
    <2>1. CASE q < i
        BY <1>1, <1>2, <2>1
    <2>2. CASE i <= q
        <3>1. PICK p \in DOMAIN s : p = q + 1
            BY <1>2
        <3>2. QED
            BY <1>1, <1>2, <2>2, <3>1
    <2>3. QED
        BY <1>2, <2>1, <2>2
<1>4. IsInjective(r)
    <2> SUFFICES ASSUME NEW a \in DOMAIN r, NEW b \in DOMAIN r, r[a] = r[b] PROVE a = b
        BY DEF IsInjective
    <2>1. PICK p \in DOMAIN s : r[a] = s[p] /\ (a < i => p = a) /\ (i <= a => p = a + 1)
        BY <1>3
    <2>2. PICK q \in DOMAIN s : r[b] = s[q] /\ (b < i => q = b) /\ (i <= b => q = b + 1)
        BY <1>3
    <2>3. p = q
        BY <2>1, <2>2 DEF IsInjective
    <2>4. QED
        BY <1>2, <2>1, <2>2, <2>3
<1>5. ASSUME NEW p \in DOMAIN s, p # i PROVE \E q \in DOMAIN r : q <= p /\ r[q] = s[p]
    <2>1. CASE p < i
        BY <1>1, <1>2, <2>1
    <2>2. CASE i < p
        <3> DEFINE o == p - 1
        <3>0. o \in DOMAIN r /\ o + 1 = p
            BY <1>2, <2>2
        <3> HIDE DEF o
        <3>1. PICK q \in DOMAIN r : q + 1 = p
            BY <3>0
        <3>2. q <= p /\ r[q] = s[p]
            BY <1>1, <1>2, <2>2, <3>1
        <3>3. QED
            BY <3>2
    <2>3. QED
        BY <1>2, <1>5, <2>1, <2>2
<1>6. QED
    BY <1>1, <1>3, <1>4, <1>5 DEF r

\* A user that goes to another place leaves the list without repetitions, and
\* one that goes to an earlier place moves nobody else towards the head.
LEMMA MovedMoves ==
    ASSUME NEW T, NEW s \in Seq(T), IsInjective(s), NEW j \in DOMAIN s, NEW i \in DOMAIN s
    PROVE  LET r == InsertAt(RemoveAt(s, j), i, s[j])
           IN  /\ r \in Seq(T) /\ IsInjective(r) /\ Len(r) = Len(s)
               /\ \A p \in DOMAIN s : p # j => \E q \in DOMAIN r : r[q] = s[p]
               /\ i < j => \A p \in DOMAIN s : p # j => \E q \in DOMAIN r : q >= p /\ r[q] = s[p]
<1> DEFINE t == RemoveAt(s, j)
           r == InsertAt(t, i, s[j])
<1>1. Len(s) \in Nat /\ DOMAIN s = 1..Len(s) /\ i \in 1..Len(s) /\ j \in 1..Len(s) /\ s[j] \in T
    OBVIOUS
<1>2. /\ t \in Seq(T) /\ Len(t) = Len(s) - 1
      /\ \A p \in 1..(Len(s) - 1) : p < j => t[p] = s[p]
      /\ \A p \in 1..(Len(s) - 1) : j <= p => t[p] = s[p + 1]
    BY <1>1, Removed
<1>3. /\ IsInjective(t)
      /\ \A p \in DOMAIN s : p # j => \E q \in DOMAIN t : q <= p /\ t[q] = s[p]
      /\ \A q \in DOMAIN t : \E p \in DOMAIN s : p # j /\ t[q] = s[p]
    BY <1>1, RemovedMoves
<1> HIDE DEF t
<1>4. s[j] \notin ToSet(t)
    BY <1>1, <1>3 DEF ToSet, IsInjective
<1>5. i \in 1..(Len(t) + 1)
    BY <1>1, <1>2
<1>6. /\ r \in Seq(T) /\ IsInjective(r) /\ Len(r) = Len(t) + 1
      /\ \A p \in DOMAIN t : \E q \in DOMAIN r : q >= p /\ r[q] = t[p]
    BY <1>1, <1>2, <1>3, <1>4, <1>5, InsertedMoves
<1>7. /\ \A p \in 1..Len(t) : p < i => r[p] = t[p]
      /\ \A p \in 1..Len(t) : i <= p => r[p + 1] = t[p]
    <2>1. /\ \A p \in 1..Len(t) : p < i => InsertAt(t, i, s[j])[p] = t[p]
          /\ \A p \in 1..Len(t) : i <= p => InsertAt(t, i, s[j])[p + 1] = t[p]
        <3>1. t \in Seq(T) /\ s[j] \in T
            BY <1>1, <1>2
        <3> DEFINE e == s[j]
        <3>2. e \in T
            BY <3>1
        <3> HIDE DEF e
        <3>3. ASSUME NEW p \in 1..Len(t)
              PROVE  (p < i => InsertAt(t, i, e)[p] = t[p]) /\ (i <= p => InsertAt(t, i, e)[p + 1] = t[p])
            BY ONLY Inserted, <1>5, <3>1, <3>2, <3>3, SMTT(30)
        <3>4. QED
            BY <3>3 DEF e
    <2>2. QED
        BY <2>1
<1> HIDE DEF r
<1>8. ASSUME NEW p \in DOMAIN s, p # j PROVE \E q \in DOMAIN r : r[q] = s[p]
    <2>1. PICK o \in DOMAIN t : t[o] = s[p]
        BY <1>3, <1>8
    <2>2. QED
        BY <1>6, <2>1
<1>9. ASSUME i < j, NEW p \in DOMAIN s, p # j PROVE \E q \in DOMAIN r : q >= p /\ r[q] = s[p]
    <2>1. DOMAIN r = 1..Len(s) /\ p \in 1..Len(s) /\ Len(t) = Len(s) - 1
        BY <1>1, <1>2, <1>6
    <2>2. CASE p < i
        <3>1. p \in 1..Len(t) /\ p < j
            BY <1>1, <1>9, <2>1, <2>2
        <3>2. r[p] = s[p]
            BY <1>2, <1>7, <2>1, <2>2, <3>1
        <3>3. QED
            BY <2>1, <3>2
    <2>3. CASE i <= p /\ p < j
        <3>1. p \in 1..Len(t) /\ p + 1 \in DOMAIN r /\ p + 1 >= p
            BY <1>1, <2>1, <2>3
        <3>2. r[p + 1] = s[p]
            BY <1>2, <1>7, <2>1, <2>3, <3>1
        <3>3. QED
            BY <3>1, <3>2
    <2>4. CASE j < p
        <3>1. PICK o \in 1..Len(t) : o + 1 = p
            <4> DEFINE o == p - 1
            <4>1. o \in 1..Len(t) /\ o + 1 = p
                BY <1>1, <2>1, <2>4
            <4> HIDE DEF o
            <4>2. QED
                BY <4>1
        <3>2. j <= o /\ i <= o
            BY <1>1, <1>9, <2>1, <2>4, <3>1
        <3>3. r[p] = s[p]
            BY <1>2, <1>7, <2>1, <3>1, <3>2
        <3>4. QED
            BY <2>1, <3>3
    <2>5. QED
        BY <1>1, <1>9, <2>1, <2>2, <2>3, <2>4
<1>10. Len(r) = Len(s)
    BY <1>1, <1>2, <1>6
<1>11. QED
    BY <1>6, <1>8, <1>9, <1>10 DEF r, t

-----------------------------------------------------------------------------
(* Numbers. *)

LEMMA Numbers ==
    /\ PageSize \in Nat /\ PageSize > 0 /\ MaxScan \in Nat /\ MaxScan > 0
    /\ HalfInts \in Nat /\ HalfInts > 0 /\ MaxInt \in Nat /\ MaxChanges \in Nat
<1>1. PageSize \in Nat \ {0} /\ MaxScan \in Nat \ {0} /\ HalfInts \in Nat \ {0} /\ MaxChanges \in Nat
    BY ListAssumption
<1>2. QED
    BY <1>1 DEF MaxInt

LEMMA Multiples ==
    ASSUME NEW a \in Nat, NEW b \in Nat, NEW c \in Nat, a <= b
    PROVE  a * c \in Nat /\ a * c <= b * c
<1>1. PICK d \in Nat : b = a + d
    BY b - a \in Nat, b = a + (b - a)
<1>2. b * c = a * c + d * c /\ a * c \in Nat /\ d * c \in Nat
    BY <1>1
<1>3. QED
    BY <1>2

\* The scan's limit is a number of whole pages, so a page that starts below it
\* ends below it.
LEMMA WholePages ==
    ASSUME NEW n \in Nat, n * PageSize < MaxScan
    PROVE  n * PageSize + PageSize <= MaxScan /\ (n + 1) * PageSize = n * PageSize + PageSize
<1>1. PageSize \in Nat /\ PageSize > 0 /\ MaxScan \in Nat
    BY Numbers
<1>2. PICK k \in Nat : MaxScan = k * PageSize
    <2>1. MaxScan % PageSize = 0
        BY ListAssumption
    <2>2. MaxScan = (MaxScan \div PageSize) * PageSize /\ MaxScan \div PageSize \in Nat
        BY <1>1, <2>1
    <2>3. QED
        BY <2>2
<1>3. n + 1 <= k
    <2>1. SUFFICES ASSUME k <= n PROVE FALSE
        OBVIOUS
    <2>2. k * PageSize <= n * PageSize
        BY <1>1, <2>1, Multiples
    <2>3. k * PageSize \in Nat /\ n * PageSize \in Nat
        BY <1>1
    <2>4. QED
        BY <1>2, <2>2, <2>3
<1>4. (n + 1) * PageSize <= k * PageSize
    BY <1>1, <1>3, Multiples
<1>5. (n + 1) * PageSize = n * PageSize + PageSize
    BY <1>1
<1>6. QED
    BY <1>2, <1>4, <1>5

\* A number that fits an int is computed as it is.
LEMMA WrapFits ==
    ASSUME NEW n \in Int
    PROVE  /\ Wrap(n) \in Int
           /\ (-HalfInts <= n /\ n <= MaxInt) => Wrap(n) = n
<1>1. HalfInts \in Nat /\ HalfInts > 0
    BY Numbers
<1> DEFINE m == 2 * HalfInts
           k == n + HalfInts
<1>2. m \in Nat /\ m > 0 /\ k \in Int
    BY <1>1
<1>3. ASSUME NEW x \in Int, NEW y \in Nat, y > 0
      PROVE  x % y \in Int /\ (0 <= x /\ x < y => x % y = x)
    BY <1>3
<1>4. k % m \in Int /\ (0 <= k /\ k < m => k % m = k)
    <2> HIDE DEF k, m
    <2>1. QED
        BY <1>2, <1>3
<1>5. Wrap(n) = (k % m) - HalfInts
    BY DEF Wrap
<1>6. (-HalfInts <= n /\ n <= HalfInts - 1) => (0 <= k /\ k < m)
    BY <1>1
<1>7. Wrap(n) \in Int
    <2> HIDE DEF k, m
    <2>1. QED
        BY <1>1, <1>4, <1>5
<1>8. ASSUME -HalfInts <= n, n <= MaxInt PROVE Wrap(n) = n
    <2>1. k % m = k
        <3> HIDE DEF k, m
        <3>1. QED
            BY <1>4, <1>6, <1>8 DEF MaxInt
    <2>2. k - HalfInts = n
        BY <1>1
    <2>3. QED
        BY <1>5, <2>1, <2>2
<1>9. QED
    BY <1>7, <1>8

-----------------------------------------------------------------------------
(* Pages of the panel. *)

\* A page of the panel holds the users from its first on, no more than asked for.
LEMMA PageOfPanel ==
    ASSUME TypeOK, NEW from \in 0..Len(panel), NEW size \in Nat
    PROVE  /\ PanelPage(from, size) \in Items
           /\ Len(PanelPage(from, size)) =
                 IF size <= Len(panel) - from THEN size ELSE Len(panel) - from
           /\ \A i \in 1..Len(PanelPage(from, size)) :
                 /\ from + i \in DOMAIN panel
                 /\ PanelPage(from, size)[i] =
                       [uuid |-> panel[from + i], owned |-> panel[from + i] \in owned]
<1> DEFINE n == Min({size, Len(panel) - from})
           f == [i \in 1..n |-> [uuid |-> panel[from + i], owned |-> panel[from + i] \in owned]]
<1>1. panel \in Seq(Users) /\ Len(panel) \in Nat /\ DOMAIN panel = 1..Len(panel)
    BY DEF TypeOK
<1>2. from \in Nat /\ from <= Len(panel) /\ Len(panel) - from \in Nat
    BY <1>1
<1>3. n = IF size <= Len(panel) - from THEN size ELSE Len(panel) - from
    BY <1>2, MinOfTwo
<1> HIDE DEF n
<1>4. n \in Nat /\ \A i \in 1..n : from + i \in DOMAIN panel /\ panel[from + i] \in Users
    <2>1. n \in Nat /\ n <= Len(panel) - from
        BY <1>2, <1>3
    <2>2. \A i \in 1..n : from + i \in DOMAIN panel
        BY <1>1, <1>2, <2>1
    <2>3. QED
        BY <1>1, <2>1, <2>2
<1>5. PanelPage(from, size) = f
    BY DEF PanelPage, n
<1>6. f \in [1..n -> [uuid : Users, owned : BOOLEAN]]
    BY <1>4
<1>7. \A i \in 1..n : f[i] = [uuid |-> panel[from + i], owned |-> panel[from + i] \in owned]
    OBVIOUS
<1> HIDE DEF f
<1>8. f \in Items /\ Len(f) = n
    <2>1. n \in Nat
        BY <1>4
    <2>2. QED
        BY <1>6, <2>1, Listed DEF Items
<1>9. QED
    BY <1>3, <1>4, <1>5, <1>7, <1>8

\* What a step of the scan reads: the users at the positions of its page.
LEMMA PageOfScan ==
    ASSUME TypeOK
    PROVE  /\ UpstreamPage \in Items /\ Len(UpstreamPage) \in Nat /\ Len(UpstreamPage) <= PageSize
           /\ \A i \in 1..Len(UpstreamPage) :
                 /\ start + i \in DOMAIN panel
                 /\ UpstreamPage[i] = [uuid |-> panel[start + i], owned |-> panel[start + i] \in owned]
           /\ Len(panel) >= start + PageSize => Len(UpstreamPage) = PageSize
           /\ \A p \in DOMAIN panel :
                 start < p /\ p <= start + PageSize => p - start \in 1..Len(UpstreamPage)
<1>1. /\ Len(panel) \in Nat /\ DOMAIN panel = 1..Len(panel) /\ start \in Nat
      /\ PageSize \in Nat /\ PageSize > 0
    BY Numbers DEF TypeOK
<1>2. CASE start < Len(panel)
    <2>1. UpstreamPage = PanelPage(start, PageSize) /\ start \in 0..Len(panel)
        BY <1>1, <1>2 DEF UpstreamPage
    <2>2. /\ UpstreamPage \in Items
          /\ Len(UpstreamPage) = IF PageSize <= Len(panel) - start THEN PageSize ELSE Len(panel) - start
          /\ \A i \in 1..Len(UpstreamPage) :
                 /\ start + i \in DOMAIN panel
                 /\ UpstreamPage[i] = [uuid |-> panel[start + i], owned |-> panel[start + i] \in owned]
        BY <1>1, <2>1, PageOfPanel
    <2> HIDE DEF UpstreamPage
    <2>3. Len(UpstreamPage) = IF PageSize <= Len(panel) - start THEN PageSize ELSE Len(panel) - start
        BY <2>2
    <2>4. PICK n : n = Len(UpstreamPage)
        OBVIOUS
    <2>5. n = IF PageSize <= Len(panel) - start THEN PageSize ELSE Len(panel) - start
        BY <2>3, <2>4
    <2>6. \/ n = PageSize /\ PageSize <= Len(panel) - start
          \/ n = Len(panel) - start /\ ~(PageSize <= Len(panel) - start)
        BY <2>5
    <2>7. n \in Nat /\ n <= PageSize /\ (Len(panel) >= start + PageSize => n = PageSize)
        BY <1>1, <1>2, <2>6
    <2>8. ASSUME NEW p \in DOMAIN panel, start < p, p <= start + PageSize
          PROVE  p - start \in 1..n
        BY <1>1, <1>2, <2>6, <2>8
    <2>9. QED
        BY <2>2, <2>4, <2>7, <2>8
<1>3. CASE ~(start < Len(panel))
    <2>1. UpstreamPage = <<>>
        BY <1>3 DEF UpstreamPage
    <2>2. UpstreamPage \in Items /\ Len(UpstreamPage) = 0
        BY <2>1 DEF Items
    <2>3. ~(Len(panel) >= start + PageSize) /\ \A p \in DOMAIN panel : ~(start < p)
        BY <1>1, <1>3
    <2>4. QED
        BY <1>1, <2>2, <2>3
<1>4. QED
    BY <1>2, <1>3

-----------------------------------------------------------------------------
(* The page a query asks for. *)

Asking == Queries \cup {<<>>}

LEMMA Given ==
    ASSUME NEW q \in Asking
    PROVE  \A key \in DOMAIN q : q[key] \in Int
<1>1. CASE q \in Queries
    BY <1>1, QueriesAssumption
<1>2. CASE q = <<>>
    BY <1>2
<1>3. QED
    BY <1>1, <1>2 DEF Asking

\* The first of one or two keys.
LEMMA MinOfKeys ==
    ASSUME NEW S, S \subseteq {1, 2}, S # {}
    PROVE  Min(S) \in S
<1>1. CASE 1 \in S
    <2>1. \A y \in S : 1 <= y
        OBVIOUS
    <2>2. \E x \in S : \A y \in S : x <= y
        BY <1>1, <2>1
    <2>3. QED
        BY <2>2 DEF Min
<1>2. CASE 1 \notin S
    <2>1. 2 \in S /\ \A y \in S : 2 <= y
        <3>1. \A y \in S : y = 2
            BY <1>2
        <3>2. PICK x : x \in S
            OBVIOUS
        <3>3. QED
            BY <3>1, <3>2
    <2>2. \E x \in S : \A y \in S : x <= y
        BY <2>1
    <2>3. QED
        BY <2>2 DEF Min
<1>3. QED
    BY <1>1, <1>2

KeyLists == {<<"size", "limit">>, <<"start", "offset">>, <<"page">>}

LEMMA FirstTyped ==
    ASSUME NEW q \in Asking, NEW keys \in KeyLists, NEW low \in {0, 1}
    PROVE  FirstInt(q, keys, low) \in Nat
<1> DEFINE good == {i \in DOMAIN keys : Atoi(q, keys[i]) /\ q[keys[i]] >= low}
<1>1. DOMAIN keys \subseteq {1, 2}
    BY DEF KeyLists
<1>2. FirstInt(q, keys, low) = IF good = {} THEN 0 ELSE q[keys[Min(good)]]
    BY DEF FirstInt
<1>3. ASSUME good # {} PROVE q[keys[Min(good)]] \in Nat
    <2>1. Min(good) \in good
        <3>1. good \subseteq {1, 2}
            BY <1>1
        <3> HIDE DEF good
        <3>2. QED
            BY <1>3, <3>1, MinOfKeys
    <2>2. PICK i \in DOMAIN keys : i = Min(good) /\ Atoi(q, keys[i]) /\ q[keys[i]] >= low
        BY <2>1
    <2>3. q[keys[i]] \in Int
        BY <2>2, Given DEF Atoi
    <2>4. QED
        BY <2>2, <2>3
<1> HIDE DEF good
<1>4. QED
    BY <1>2, <1>3

\* The parts of a page are numbers, and the size is not negative.
LEMMA PageTyped ==
    ASSUME NEW q \in Asking
    PROVE  /\ panelResponsePage(q).size \in Nat /\ panelResponsePage(q).start \in Int
           /\ firstPositiveInt(q, <<"size", "limit">>) \in Nat
           /\ firstNonNegativeInt(q, <<"start", "offset">>) \in Nat
           /\ firstPositiveInt(q, <<"page">>) \in Nat
<1> DEFINE size  == firstPositiveInt(q, <<"size", "limit">>)
           given == firstNonNegativeInt(q, <<"start", "offset">>)
           page  == firstPositiveInt(q, <<"page">>)
<1>1. size \in Nat /\ given \in Nat /\ page \in Nat
    BY FirstTyped DEF KeyLists, firstPositiveInt, firstNonNegativeInt
<1>2. panelResponsePage(q) = [size |-> size,
         start |-> IF size > 0 /\ given = 0 /\ page > 1 THEN Wrap((page - 1) * size) ELSE given]
    BY DEF panelResponsePage
<1> HIDE DEF size, given, page
<1>3. (page - 1) * size \in Int
    BY <1>1
<1>4. Wrap((page - 1) * size) \in Int
    <2>1. PICK n \in Int : n = (page - 1) * size
        BY <1>3
    <2>2. Wrap(n) \in Int
        BY WrapFits
    <2>3. QED
        BY <2>1, <2>2
<1>5. panelResponsePage(q).size \in Nat /\ panelResponsePage(q).start \in Int
    BY <1>1, <1>2, <1>4
<1>6. QED
    BY <1>1, <1>5 DEF size, given, page

\* A raw token's page is the one of a query without parameters: no cut.
LEMMA NoPage == panelResponsePage(<<>>) = [start |-> 0, size |-> 0]
<1>1. \A keys, low : FirstInt(<<>>, keys, low) = 0
    BY DEF FirstInt, Atoi
<1>2. QED
    BY <1>1 DEF panelResponsePage, firstPositiveInt, firstNonNegativeInt

\* The users of a list, by name.
LEMMA Named ==
    ASSUME NEW items \in Items
    PROVE  /\ Uuids(items) \in Seq(Users) /\ Len(Uuids(items)) = Len(items)
           /\ DOMAIN Uuids(items) = DOMAIN items
           /\ \A i \in DOMAIN items : Uuids(items)[i] = items[i].uuid
<1>1. items \in Seq([uuid : Users, owned : BOOLEAN])
    BY DEF Items
<1>2. Len(items) \in Nat /\ DOMAIN items = 1..Len(items) /\ \A i \in DOMAIN items : items[i] \in [uuid : Users, owned : BOOLEAN]
    BY <1>1, Positions
<1>3. \A i \in DOMAIN items : items[i].uuid \in Users
    BY <1>2
<1>4. Uuids(items) = [i \in DOMAIN items |-> items[i].uuid]
    BY DEF Uuids
<1>5. Uuids(items) \in [1..Len(items) -> Users]
    BY <1>2, <1>3, <1>4
<1>6. Uuids(items) \in Seq(Users) /\ Len(Uuids(items)) = Len(items)
    BY <1>2, <1>5, Listed
<1>7. QED
    BY <1>4, <1>6

\* The users of a list the token owned.
LEMMA Seen ==
    ASSUME NEW items \in Items
    PROVE  /\ Visible(items) = Keep(items, {i \in DOMAIN items : items[i].owned})
           /\ Visible(items) \in Items /\ Len(Visible(items)) \in Nat
<1> DEFINE P == {i \in DOMAIN items : items[i].owned}
<1>1. Visible(items) = Keep(items, P)
    BY DEF Visible
<1>2. P \in SUBSET DOMAIN items /\ items \in Seq([uuid : Users, owned : BOOLEAN])
    BY DEF Items
<1> HIDE DEF P
<1>3. Keep(items, P) \in Seq([uuid : Users, owned : BOOLEAN])
    BY <1>2, Keeping
<1>4. Visible(items) \in Items /\ Len(Visible(items)) \in Nat
    BY <1>1, <1>3, Positions DEF Items
<1>5. QED
    BY <1>1, <1>4 DEF P

\* The page cut out of a list is a list.
LEMMA CutTyped ==
    ASSUME NEW items \in Items, NEW page, page.size \in Nat, page.start \in Int,
           ~SlicePanics(items, page)
    PROVE  slicePage(items, page) \in Items
<1>1. items \in Seq([uuid : Users, owned : BOOLEAN]) /\ Len(items) \in Nat
    BY Positions DEF Items
<1>2. CASE page.size = 0
    BY <1>2 DEF slicePage
<1>3. CASE page.size > 0 /\ page.start >= Len(items)
    <2>1. slicePage(items, page) = <<>>
        BY <1>3 DEF slicePage
    <2>2. QED
        BY <2>1 DEF Items
<1>4. CASE page.size > 0 /\ page.start < Len(items)
    <2>1. slicePage(items, page) = SubSeq(items, page.start + 1, PageEnd(items, page))
        <3>1. page.size # 0 /\ ~(page.size > 0 /\ page.start >= Len(items))
            BY <1>1, <1>4
        <3>2. QED
            BY <3>1 DEF slicePage
    <2>2. PICK w \in Int : w = Wrap(page.start + page.size)
        <3>1. PICK k \in Int : k = page.start + page.size
            OBVIOUS
        <3>2. QED
            BY <3>1, WrapFits
    <2>3. PageEnd(items, page) = IF w <= Len(items) THEN w ELSE Len(items)
        BY <1>1, <2>2, MinOfTwo DEF PageEnd
    <2>4. PICK e \in Int : e = PageEnd(items, page) /\ e <= Len(items)
        BY <1>1, <2>2, <2>3
    <2>5. ~(page.start < 0) /\ ~(e < page.start)
        BY <1>4, <2>4 DEF SlicePanics
    <2>6. PICK m \in Int : m = page.start + 1
        OBVIOUS
    <2>7. m \in 1..(Len(items) + 1) /\ e \in (m - 1)..Len(items)
        BY <1>1, <1>4, <2>4, <2>5, <2>6
    <2>8. SubSeq(items, m, e) \in Seq([uuid : Users, owned : BOOLEAN])
        BY <1>1, <2>7, Cut
    <2>9. QED
        BY <2>1, <2>4, <2>6, <2>8 DEF Items
<1>5. QED
    BY <1>1, <1>2, <1>3, <1>4

\* So the answer is of its type.
LEMMA Filtered ==
    ASSUME NEW items \in Items, NEW page, page.size \in Nat, page.start \in Int
    PROVE  LET a == filterJSONListPaged(items, page)
           IN  a.status \in {"ok", "aborted"} /\ a.users \in Seq(Users) /\ a.total \in Nat
<1>1. Visible(items) \in Items /\ Len(Visible(items)) \in Nat
    BY Seen
<1>2. CASE SlicePanics(Visible(items), page)
    <2>1. filterJSONListPaged(items, page) = [status |-> "aborted", users |-> <<>>, total |-> 0]
        BY <1>2 DEF filterJSONListPaged, NoAnswer
    <2>2. QED
        BY <2>1
<1>3. CASE ~SlicePanics(Visible(items), page)
    <2>1. filterJSONListPaged(items, page) =
             [status |-> "ok", users  |-> Uuids(slicePage(Visible(items), page)),
              total  |-> Len(Visible(items))]
        BY <1>3 DEF filterJSONListPaged
    <2>2. slicePage(Visible(items), page) \in Items
        BY <1>1, <1>3, CutTyped
    <2>3. Uuids(slicePage(Visible(items), page)) \in Seq(Users)
        BY <2>2, Named
    <2>4. QED
        BY <1>1, <2>1, <2>3
<1>4. QED
    BY <1>2, <1>3

-----------------------------------------------------------------------------
(* The invariant holds at first, and every step keeps it. *)

LEMMA InitInv == Init => ListInv
<1> SUFFICES ASSUME Init PROVE ListInv
    OBVIOUS
<1> USE DEF Init, NoAnswer
<1>1. TypeOK
    <2>1. panel \in Seq(Users) /\ IsInjective(panel)
        BY ListAssumption
    <2>2. combined \in Items
        BY DEF Items
    <2>3. changes \in 0..MaxChanges /\ start \in 0..MaxScan
        BY Numbers
    <2>4. answer.status \in Statuses /\ answer.users \in Seq(Users) /\ answer.total \in Nat
        BY DEF Statuses
    <2>5. QED
        BY <2>1, <2>2, <2>3, <2>4 DEF TypeOK, Scanning
<1>2. Paged
    <2>1. start = 0 * PageSize
        BY Numbers
    <2>2. QED
        BY <2>1 DEF Paged, Scanning
<1>3. ReadBelow /\ UnreadBeyond /\ Answered
    BY DEF ReadBelow, UnreadBeyond, Answered, Scanning
<1>4. QED
    BY <1>1, <1>2, <1>3 DEF ListInv, Scanning

LEMMA AskInv ==
    ASSUME ListInv, NEW q \in Queries, Ask(q)
    PROVE  ListInv'
<1> USE DEF Ask, NoAnswer, panelVars
<1>1. panel \in Seq(Users) /\ IsInjective(panel) /\ owned \subseteq Users
    BY DEF ListInv, TypeOK
<1>2. kept' \subseteq owned /\ kept' \subseteq ToSet(panel)
    OBVIOUS
<1>3. TypeOK'
    <2>1. combined' \in Items /\ Len(combined') = 0
        BY DEF Items
    <2>2. start' \in 0..MaxScan /\ 0 <= MaxScan
        BY Numbers
    <2>3. answer'.status \in Statuses /\ answer'.users \in Seq(Users) /\ answer'.total \in Nat
        BY DEF Statuses
    <2>4. kept' \subseteq Users /\ shifted' = {} /\ gone' = {}
        BY <1>1
    <2>5. panel' = panel /\ owned' = owned /\ counts' = counts /\ changes' = changes /\ pc' = "scan"
        OBVIOUS
    <2>6. QED
        BY <2>1, <2>2, <2>3, <2>4, <2>5 DEF ListInv, TypeOK, Scanning
<1>4. Paged'
    <2>1. start' = 0 * PageSize /\ start' < MaxScan /\ Len(combined') <= start'
        BY Numbers
    <2>2. QED
        BY <2>1 DEF Paged, Scanning
<1>5. ReadBelow'
    BY DEF ReadBelow, Scanning
<1>6. UnreadBeyond'
    <2> SUFFICES ASSUME NEW u \in kept'
                 PROVE  pc' = "scan" /\ \E p \in DOMAIN panel' : p > start' /\ panel'[p] = u
        BY DEF UnreadBeyond
    <2>1. PICK p \in DOMAIN panel : panel[p] = u
        BY <1>2 DEF ToSet
    <2>2. p > 0
        BY <1>1
    <2>3. QED
        BY <2>1, <2>2
<1>7. Answered'
    BY DEF Answered
<1>8. QED
    BY <1>2, <1>3, <1>4, <1>5, <1>6, <1>7 DEF ListInv

\* A page below the limit: what it adds was not read before, and who is still
\* unread stands beyond it.
LEMMA ReadPageInv ==
    ASSUME ListInv, ReadPage
    PROVE  ListInv'
<1> DEFINE pg == UpstreamPage
           L  == Len(combined)
<1>1. /\ pc = "scan" /\ combined' = combined \o pg /\ start' = start + PageSize
      /\ pc' \in {"scan", "filter"}
      /\ pc' = "scan" => start + PageSize < MaxScan
      /\ pc' = "filter" => LastPage \/ start + PageSize >= MaxScan
    <2>1. MaxScan \in Nat /\ PageSize \in Nat /\ start \in Nat
        BY Numbers DEF ListInv, TypeOK
    <2>2. QED
        BY <2>1 DEF ReadPage, NextStart
<1>2. /\ panel' = panel /\ owned' = owned /\ counts' = counts /\ changes' = changes
      /\ query' = query /\ answer' = answer /\ shifted' = shifted /\ gone' = gone /\ kept' = kept
    BY DEF ReadPage, panelVars, histVars
<1>3. /\ panel \in Seq(Users) /\ IsInjective(panel) /\ Len(panel) \in Nat
      /\ DOMAIN panel = 1..Len(panel) /\ start \in Nat /\ PageSize \in Nat /\ PageSize > 0
      /\ MaxScan \in Nat /\ combined \in Items /\ L \in Nat
      /\ DOMAIN combined = 1..L /\ L <= start
    BY <1>1, Numbers, Positions DEF ListInv, TypeOK, Items, Paged, Scanning
<1>4. /\ pg \in Items /\ Len(pg) \in Nat /\ Len(pg) <= PageSize
      /\ \A i \in 1..Len(pg) :
           start + i \in DOMAIN panel /\ pg[i] = [uuid |-> panel[start + i], owned |-> panel[start + i] \in owned]
      /\ Len(panel) >= start + PageSize => Len(pg) = PageSize
      /\ \A p \in DOMAIN panel : start < p /\ p <= start + PageSize => p - start \in 1..Len(pg)
    BY PageOfScan DEF ListInv
<1>5. start + PageSize <= MaxScan /\ \E n \in Nat : start + PageSize = n * PageSize
    <2>1. PICK n \in Nat : start = n * PageSize
        BY DEF ListInv, Paged
    <2>2. start < MaxScan
        BY <1>1 DEF ListInv, Paged
    <2>3. n * PageSize + PageSize <= MaxScan /\ (n + 1) * PageSize = n * PageSize + PageSize
        BY <2>1, <2>2, WholePages
    <2>4. QED
        BY <2>1, <2>3
<1> HIDE DEF pg
<1>6. /\ combined' \in Items /\ Len(combined') = L + Len(pg)
      /\ \A i \in 1..L : combined'[i] = combined[i]
      /\ \A i \in 1..Len(pg) : combined'[L + i] = pg[i]
    <2>1. combined \in Seq([uuid : Users, owned : BOOLEAN]) /\ pg \in Seq([uuid : Users, owned : BOOLEAN])
        BY <1>3, <1>4 DEF Items
    <2>2. /\ combined \o pg \in Seq([uuid : Users, owned : BOOLEAN])
          /\ Len(combined \o pg) = Len(combined) + Len(pg)
          /\ \A i \in 1..Len(combined) : (combined \o pg)[i] = combined[i]
          /\ \A i \in 1..Len(pg) : (combined \o pg)[Len(combined) + i] = pg[i]
        BY <2>1, Joined
    <2>3. QED
        BY <1>1, <2>2 DEF Items
<1> HIDE DEF L
<1>7. DOMAIN combined' = 1..(L + Len(pg))
    BY <1>6, Positions DEF Items
<1>8. ASSUME NEW i \in DOMAIN combined'
      PROVE  \/ i \in DOMAIN combined /\ combined'[i] = combined[i]
             \/ \E k \in 1..Len(pg) : /\ i = L + k /\ start + k \in DOMAIN panel
                                      /\ combined'[i].uuid = panel[start + k]
    <2>1. CASE i <= L
        BY <1>3, <1>4, <1>6, <1>7, <2>1
    <2>2. CASE i > L
        <3>1. i - L \in 1..Len(pg) /\ i = L + (i - L)
            BY <1>3, <1>4, <1>7, <2>2
        <3>2. PICK k \in 1..Len(pg) : i = L + k
            BY <3>1
        <3>3. combined'[L + k] = pg[k]
            BY <1>6, <3>2
        <3>4. start + k \in DOMAIN panel /\ pg[k].uuid = panel[start + k]
            <4>1. /\ start + k \in DOMAIN panel
                  /\ pg[k] = [uuid |-> panel[start + k], owned |-> panel[start + k] \in owned]
                BY <1>4, <3>2
            <4>2. QED
                BY <4>1
        <3>5. QED
            BY <3>2, <3>3, <3>4
    <2>3. QED
        BY <1>3, <1>4, <1>7, <2>1, <2>2
<1>9. TypeOK'
    <2>1. start' \in 0..MaxScan /\ Len(combined') <= MaxScan
        BY <1>1, <1>3, <1>4, <1>5, <1>6
    <2>2. QED
        BY <1>1, <1>2, <1>6, <2>1 DEF ListInv, TypeOK
<1>10. Paged'
    <2>1. Len(combined') <= start'
        BY <1>1, <1>3, <1>4, <1>6
    <2>2. QED
        BY <1>1, <1>5, <2>1 DEF Paged
<1>11. ReadBelow'
    <2> SUFFICES ASSUME shifted = {}
                 PROVE  /\ \A i, j \in DOMAIN combined' : combined'[i].uuid = combined'[j].uuid => i = j
                        /\ \A i \in DOMAIN combined' :
                              \/ combined'[i].uuid \in gone
                              \/ \E p \in DOMAIN panel : p <= start' /\ panel[p] = combined'[i].uuid
                        /\ \A p \in DOMAIN panel : panel[p] \notin gone
        BY <1>2 DEF ReadBelow
    <2>1. /\ \A i, j \in DOMAIN combined : combined[i].uuid = combined[j].uuid => i = j
          /\ \A i \in DOMAIN combined : \/ combined[i].uuid \in gone
                                        \/ \E p \in DOMAIN panel : p <= start /\ panel[p] = combined[i].uuid
          /\ \A p \in DOMAIN panel : panel[p] \notin gone
        BY <1>1 DEF ListInv, ReadBelow, Scanning
    <2>2. ASSUME NEW i \in DOMAIN combined, NEW k \in 1..Len(pg), start + k \in DOMAIN panel,
                 combined[i].uuid = panel[start + k]
          PROVE  FALSE
        <3>1. PICK p \in DOMAIN panel : p <= start /\ panel[p] = panel[start + k]
            BY <2>1, <2>2
        <3>2. p = start + k
            BY <1>3, <2>2, <3>1 DEF IsInjective
        <3>3. k \in Nat /\ k > 0
            BY <1>4
        <3>4. QED
            BY <1>3, <3>1, <3>2, <3>3
    <2>3. ASSUME NEW i \in DOMAIN combined', NEW j \in DOMAIN combined',
                 combined'[i].uuid = combined'[j].uuid
          PROVE  i = j
        <3>1. CASE i \in DOMAIN combined /\ combined'[i] = combined[i]
            <4>1. CASE j \in DOMAIN combined /\ combined'[j] = combined[j]
                BY <2>1, <2>3, <3>1, <4>1
            <4>2. CASE \E k \in 1..Len(pg) : /\ j = L + k /\ start + k \in DOMAIN panel
                                             /\ combined'[j].uuid = panel[start + k]
                BY <2>2, <2>3, <3>1, <4>2
            <4>3. QED
                BY <1>8, <4>1, <4>2
        <3>2. CASE \E k \in 1..Len(pg) : /\ i = L + k /\ start + k \in DOMAIN panel
                                         /\ combined'[i].uuid = panel[start + k]
            <4>1. PICK k \in 1..Len(pg) : /\ i = L + k /\ start + k \in DOMAIN panel
                                          /\ combined'[i].uuid = panel[start + k]
                BY <3>2
            <4>2. CASE j \in DOMAIN combined /\ combined'[j] = combined[j]
                BY <2>2, <2>3, <4>1, <4>2
            <4>3. CASE \E l \in 1..Len(pg) : /\ j = L + l /\ start + l \in DOMAIN panel
                                             /\ combined'[j].uuid = panel[start + l]
                <5>1. PICK l \in 1..Len(pg) : /\ j = L + l /\ start + l \in DOMAIN panel
                                              /\ combined'[j].uuid = panel[start + l]
                    BY <4>3
                <5>2. start + k = start + l
                    BY <1>3, <2>3, <4>1, <5>1 DEF IsInjective
                <5>3. QED
                    BY <1>3, <4>1, <5>1, <5>2
            <4>4. QED
                BY <1>8, <4>2, <4>3
        <3>3. QED
            BY <1>8, <3>1, <3>2
    <2>4. ASSUME NEW i \in DOMAIN combined'
          PROVE  \/ combined'[i].uuid \in gone
                 \/ \E p \in DOMAIN panel : p <= start' /\ panel[p] = combined'[i].uuid
        <3>1. CASE i \in DOMAIN combined /\ combined'[i] = combined[i]
            <4>1. \A p \in DOMAIN panel : p <= start => p <= start'
                BY <1>1, <1>3
            <4>2. QED
                BY <2>1, <3>1, <4>1
        <3>2. CASE \E k \in 1..Len(pg) : /\ i = L + k /\ start + k \in DOMAIN panel
                                         /\ combined'[i].uuid = panel[start + k]
            <4>1. \A k \in 1..Len(pg) : start + k <= start'
                BY <1>1, <1>3, <1>4
            <4>2. QED
                BY <3>2, <4>1
        <3>3. QED
            BY <1>8, <3>1, <3>2
    <2>5. QED
        BY <2>1, <2>3, <2>4
<1>12. UnreadBeyond'
    <2> SUFFICES ASSUME gone = {}, NEW u \in kept
                 PROVE  \/ WasRead(u)'
                        \/ pc' = "scan" /\ \E p \in DOMAIN panel : p > start' /\ panel[p] = u
                        \/ pc' = "filter" /\ (counts => Len(panel) > MaxScan)
        BY <1>2 DEF UnreadBeyond
    <2>1. u \in owned
        BY <1>1 DEF ListInv, Scanning
    <2>2. WasRead(u) \/ \E p \in DOMAIN panel : p > start /\ panel[p] = u
        BY <1>1 DEF ListInv, UnreadBeyond, Scanning
    <2>3. CASE WasRead(u)
        <3>1. PICK i \in DOMAIN combined : combined[i].uuid = u /\ combined[i].owned
            BY <2>3 DEF WasRead
        <3>2. i \in DOMAIN combined' /\ combined'[i] = combined[i]
            BY <1>3, <1>4, <1>6, <1>7
        <3>3. QED
            BY <3>1, <3>2 DEF WasRead
    <2>4. CASE \E p \in DOMAIN panel : p > start /\ panel[p] = u
        <3>1. PICK p \in DOMAIN panel : p > start /\ panel[p] = u
            BY <2>4
        <3>2. CASE p <= start + PageSize
            <4>1. PICK k \in 1..Len(pg) : k = p - start
                BY <1>4, <3>1, <3>2
            <4>2. start + k = p /\ L + k \in DOMAIN combined'
                BY <1>3, <1>4, <1>7, <4>1
            <4>3. combined'[L + k].uuid = u /\ combined'[L + k].owned
                <5>1. combined'[L + k] = pg[k]
                    BY <1>6, <4>1
                <5>2. pg[k] = [uuid |-> panel[start + k], owned |-> panel[start + k] \in owned]
                    BY <1>4, <4>1
                <5>3. pg[k].uuid = panel[start + k] /\ pg[k].owned = (panel[start + k] \in owned)
                    BY <5>2
                <5>4. QED
                    BY <2>1, <3>1, <4>2, <5>1, <5>3
            <4>4. QED
                BY <4>2, <4>3 DEF WasRead
        <3>3. CASE p > start + PageSize
            <4>1. Len(panel) > start + PageSize /\ Len(pg) = PageSize /\ p > start'
                BY <1>1, <1>3, <1>4, <3>3
            <4>2. CASE pc' = "scan"
                BY <3>1, <4>1, <4>2
            <4>3. CASE pc' = "filter"
                <5>1. ASSUME counts PROVE Len(panel) > MaxScan
                    <6>1. ~LastPage
                        BY <1>3, <1>4, <4>1, <5>1 DEF LastPage, Total, pg
                    <6>2. QED
                        BY <1>1, <1>3, <4>1, <4>3, <6>1
                <5>2. QED
                    BY <4>3, <5>1
            <4>4. QED
                BY <1>1, <4>2, <4>3
        <3>4. QED
            BY <1>3, <3>2, <3>3
    <2>5. QED
        BY <2>2, <2>3, <2>4
<1>13. Answered'
    BY <1>1, <1>2 DEF ListInv, Answered
<1>14. QED
    BY <1>1, <1>2, <1>9, <1>10, <1>11, <1>12, <1>13 DEF ListInv, Scanning

\* Between two requests only the list and its answer count.
LEMMA IdleInv ==
    ASSUME ListInv, pc' = "idle", query' \in Asking, start' = start, combined' \in Items,
           UNCHANGED <<panel, owned, counts, changes, shifted, gone, kept>>,
           answer'.status \in Statuses, answer'.users \in Seq(Users), answer'.total \in Nat,
           answer'.status \in {"ok", "aborted"} =>
               answer' = filterJSONListPaged(combined', panelResponsePage(query'))
    PROVE  ListInv'
<1>1. TypeOK'
    BY DEF ListInv, TypeOK, Scanning
<1>2. Paged'
    BY DEF ListInv, Paged, Scanning
<1>3. ReadBelow' /\ UnreadBeyond'
    BY DEF ReadBelow, UnreadBeyond, Scanning
<1>4. Answered'
    BY DEF Answered, Asking
<1>5. QED
    BY <1>1, <1>2, <1>3, <1>4 DEF ListInv, Scanning

LEMMA PageFailsInv ==
    ASSUME ListInv, PageFails
    PROVE  ListInv'
<1>1. PICK status \in {"502", "upstream"} : answer' = NoAnswer(status)
    BY DEF PageFails
<1>2. answer'.status = status /\ answer'.users = <<>> /\ answer'.total = 0
    BY <1>1 DEF NoAnswer
<1>3. answer'.status \in Statuses /\ answer'.status \notin {"ok", "aborted"}
    BY <1>2 DEF Statuses
<1>4. answer'.users \in Seq(Users) /\ answer'.total \in Nat
    BY <1>2
<1>5. /\ pc' = "idle" /\ query' = query /\ start' = start /\ combined' = combined
      /\ UNCHANGED <<panel, owned, counts, changes, shifted, gone, kept>>
    BY DEF PageFails, panelVars, histVars
<1>6. query' \in Asking /\ combined' \in Items
    BY <1>5 DEF ListInv, TypeOK, Answered, Asking
<1>7. QED
    BY <1>3, <1>4, <1>5, <1>6, IdleInv

LEMMA AnswerInv ==
    ASSUME ListInv, Answer
    PROVE  ListInv'
<1>1. /\ pc' = "idle" /\ query' = query /\ start' = start /\ combined' = combined
      /\ UNCHANGED <<panel, owned, counts, changes, shifted, gone, kept>>
      /\ answer' = filterJSONListPaged(combined, panelResponsePage(query))
    BY DEF Answer, panelVars, histVars
<1>2. query' \in Asking /\ combined' \in Items /\ query \in Asking /\ combined \in Items
    BY <1>1 DEF ListInv, TypeOK, Answered, Asking
<1>3. panelResponsePage(query).size \in Nat /\ panelResponsePage(query).start \in Int
    BY <1>2, PageTyped
<1>4. answer'.status \in {"ok", "aborted"} /\ answer'.users \in Seq(Users) /\ answer'.total \in Nat
    BY <1>1, <1>2, <1>3, Filtered
<1>5. answer'.status \in Statuses
    BY <1>4 DEF Statuses
<1>6. QED
    BY <1>1, <1>2, <1>4, <1>5, IdleInv

LEMMA ListRawInv ==
    ASSUME ListInv, ListRaw
    PROVE  ListInv'
<1>1. /\ pc' = "idle" /\ query' = <<>> /\ start' = start
      /\ UNCHANGED <<panel, owned, counts, changes, shifted, gone, kept>>
      /\ answer' = filterJSONListPaged(combined', [start |-> 0, size |-> 0])
    BY DEF ListRaw, panelVars, histVars
<1>2. PICK from \in 0..Len(panel), size \in {PageSize, Len(panel)} : combined' = PanelPage(from, size)
    BY DEF ListRaw
<1>3. TypeOK /\ size \in Nat
    BY <1>2, Numbers DEF ListInv, TypeOK
<1>4. combined' \in Items
    BY <1>2, <1>3, PageOfPanel
<1>5. query' \in Asking /\ answer' = filterJSONListPaged(combined', panelResponsePage(query'))
    BY <1>1, NoPage DEF Asking
<1>6. panelResponsePage(query').size \in Nat /\ panelResponsePage(query').start \in Int
    BY <1>5, PageTyped
<1>7. answer'.status \in {"ok", "aborted"} /\ answer'.users \in Seq(Users) /\ answer'.total \in Nat
    BY <1>4, <1>5, <1>6, Filtered
<1>8. answer'.status \in Statuses
    BY <1>7 DEF Statuses
<1>9. QED
    BY <1>1, <1>4, <1>5, <1>7, <1>8, IdleInv

\* A change to the panel leaves the request alone.
LEMMA ChangeFacts ==
    ASSUME ListInv, Change
    PROVE  /\ Scanning /\ Scanning' /\ changes' \in 0..MaxChanges
           /\ pc' = pc /\ query' = query /\ start' = start /\ combined' = combined
           /\ answer' = answer /\ counts' = counts
           /\ Paged' /\ Answered'
<1>1. /\ Scanning /\ pc' = pc /\ query' = query /\ start' = start /\ combined' = combined
      /\ answer' = answer /\ counts' = counts /\ changes' = changes + 1 /\ changes < MaxChanges
    BY DEF Change, scanVars
<1>2. changes' \in 0..MaxChanges
    BY <1>1, Numbers DEF ListInv, TypeOK
<1>3. Scanning' /\ Paged' /\ Answered'
    BY <1>1 DEF ListInv, Paged, Answered, Scanning
<1>4. QED
    BY <1>1, <1>2, <1>3

LEMMA EnterInv ==
    ASSUME ListInv, NEW u \in Users, NEW i \in 1..(Len(panel) + 1), Enter(u, i)
    PROVE  ListInv'
<1>1. /\ Scanning /\ Scanning' /\ changes' \in 0..MaxChanges
      /\ pc' = pc /\ query' = query /\ start' = start /\ combined' = combined
      /\ answer' = answer /\ counts' = counts
      /\ Paged' /\ Answered'
    BY ChangeFacts DEF Enter
<1>2. /\ u \notin ToSet(panel) /\ panel' = InsertAt(panel, i, u) /\ shifted' = shifted \cup {u}
      /\ owned' = owned /\ gone' = gone /\ kept' = kept
    BY DEF Enter
<1>3. panel \in Seq(Users) /\ IsInjective(panel) /\ Len(panel) \in Nat /\ DOMAIN panel = 1..Len(panel)
    BY DEF ListInv, TypeOK
<1>4. /\ panel' \in Seq(Users) /\ IsInjective(panel') /\ Len(panel') = Len(panel) + 1
      /\ \A p \in DOMAIN panel : \E q \in DOMAIN panel' : q >= p /\ panel'[q] = panel[p]
    BY <1>2, <1>3, InsertedMoves
<1>5. DOMAIN panel' = 1..(Len(panel) + 1) /\ start \in Nat /\ MaxScan \in Nat
    BY <1>4, Numbers DEF ListInv, TypeOK
<1>6. TypeOK'
    <2>1. shifted' \subseteq Users
        BY <1>2 DEF ListInv, TypeOK
    <2>2. QED
        BY <1>1, <1>2, <1>4, <2>1 DEF ListInv, TypeOK
<1>7. ReadBelow'
    BY <1>2 DEF ReadBelow
<1>8. UnreadBeyond'
    <2> SUFFICES ASSUME gone = {}, NEW v \in kept
                 PROVE  \/ WasRead(v)'
                        \/ pc = "scan" /\ \E p \in DOMAIN panel' : p > start /\ panel'[p] = v
                        \/ pc = "filter" /\ (counts => Len(panel') > MaxScan)
        BY <1>1, <1>2 DEF UnreadBeyond
    <2>1. CASE WasRead(v)
        BY <1>1, <2>1 DEF WasRead
    <2>2. CASE pc = "scan" /\ \E p \in DOMAIN panel : p > start /\ panel[p] = v
        <3>1. PICK p \in DOMAIN panel : p > start /\ panel[p] = v
            BY <2>2
        <3>2. PICK q \in DOMAIN panel' : q >= p /\ panel'[q] = panel[p]
            BY <1>4
        <3>3. q > start
            BY <1>3, <1>5, <3>1, <3>2
        <3>4. QED
            BY <2>2, <3>1, <3>2, <3>3
    <2>3. CASE pc = "filter" /\ (counts => Len(panel) > MaxScan)
        BY <1>3, <1>4, <1>5, <2>3
    <2>4. QED
        BY <1>1, <2>1, <2>2, <2>3 DEF ListInv, UnreadBeyond
<1>9. kept \subseteq owned /\ kept \subseteq ToSet(panel')
    <2>1. kept \subseteq owned /\ kept \subseteq ToSet(panel)
        BY <1>1 DEF ListInv
    <2>2. ToSet(panel) \subseteq ToSet(panel')
        BY <1>4 DEF ToSet
    <2>3. QED
        BY <2>1, <2>2
<1>10. QED
    BY <1>1, <1>2, <1>6, <1>7, <1>8, <1>9 DEF ListInv

LEMMA LeaveInv ==
    ASSUME ListInv, NEW u \in Users, Leave(u)
    PROVE  ListInv'
<1>1. /\ Scanning /\ Scanning' /\ changes' \in 0..MaxChanges
      /\ pc' = pc /\ query' = query /\ start' = start /\ combined' = combined
      /\ answer' = answer /\ counts' = counts
      /\ Paged' /\ Answered'
    BY ChangeFacts DEF Leave
<1>2. /\ gone' = gone \cup {u} /\ kept' = kept \ {u}
      /\ owned' = owned /\ shifted' = shifted
    BY DEF Leave
<1>3. PICK i \in DOMAIN panel : panel[i] = u /\ panel' = RemoveAt(panel, i)
    BY DEF Leave
<1>4. panel \in Seq(Users) /\ IsInjective(panel) /\ Len(panel) \in Nat /\ DOMAIN panel = 1..Len(panel)
    BY DEF ListInv, TypeOK
<1>5. /\ panel' \in Seq(Users) /\ IsInjective(panel')
      /\ \A p \in DOMAIN panel : p # i => \E q \in DOMAIN panel' : q <= p /\ panel'[q] = panel[p]
      /\ \A q \in DOMAIN panel' : \E p \in DOMAIN panel : p # i /\ panel'[q] = panel[p]
    <2> DEFINE r == RemoveAt(panel, i)
    <2>1. /\ r \in Seq(Users) /\ IsInjective(r)
          /\ \A p \in DOMAIN panel : p # i => \E q \in DOMAIN r : q <= p /\ r[q] = panel[p]
          /\ \A q \in DOMAIN r : \E p \in DOMAIN panel : p # i /\ r[q] = panel[p]
        BY <1>4, RemovedMoves
    <2>2. panel' = r
        BY <1>3
    <2> HIDE DEF r
    <2>3. QED
        BY <2>1, <2>2
<1>6. start \in Nat /\ DOMAIN panel' \subseteq Nat
    BY <1>5 DEF ListInv, TypeOK
<1>7. TypeOK'
    <2>1. gone' \subseteq Users /\ kept' \subseteq Users
        BY <1>2 DEF ListInv, TypeOK
    <2>2. QED
        BY <1>1, <1>2, <1>5, <2>1 DEF ListInv, TypeOK
<1>8. UnreadBeyond'
    BY <1>2 DEF UnreadBeyond
<1>9. ReadBelow'
    <2> SUFFICES ASSUME shifted = {}
                 PROVE  /\ \A a, b \in DOMAIN combined : combined[a].uuid = combined[b].uuid => a = b
                        /\ \A a \in DOMAIN combined :
                              \/ combined[a].uuid \in gone'
                              \/ \E q \in DOMAIN panel' : q <= start /\ panel'[q] = combined[a].uuid
                        /\ \A q \in DOMAIN panel' : panel'[q] \notin gone'
        BY <1>1, <1>2 DEF ReadBelow
    <2>1. /\ \A a, b \in DOMAIN combined : combined[a].uuid = combined[b].uuid => a = b
          /\ \A a \in DOMAIN combined : \/ combined[a].uuid \in gone
                                        \/ \E p \in DOMAIN panel : p <= start /\ panel[p] = combined[a].uuid
          /\ \A p \in DOMAIN panel : panel[p] \notin gone
        BY <1>1 DEF ListInv, ReadBelow
    <2>2. ASSUME NEW a \in DOMAIN combined
          PROVE  \/ combined[a].uuid \in gone'
                 \/ \E q \in DOMAIN panel' : q <= start /\ panel'[q] = combined[a].uuid
        <3>1. CASE combined[a].uuid \in gone
            BY <1>2, <3>1
        <3>2. CASE \E p \in DOMAIN panel : p <= start /\ panel[p] = combined[a].uuid
            <4>1. PICK p \in DOMAIN panel : p <= start /\ panel[p] = combined[a].uuid
                BY <3>2
            <4>2. CASE p = i
                BY <1>2, <1>3, <4>1, <4>2
            <4>3. CASE p # i
                <5>1. PICK q \in DOMAIN panel' : q <= p /\ panel'[q] = panel[p]
                    BY <1>5, <4>3
                <5>2. q <= start
                    BY <1>4, <1>6, <4>1, <5>1
                <5>3. QED
                    BY <4>1, <5>1, <5>2
            <4>4. QED
                BY <4>2, <4>3
        <3>3. QED
            BY <2>1, <3>1, <3>2
    <2>3. ASSUME NEW q \in DOMAIN panel'
          PROVE  panel'[q] \notin gone'
        <3>1. PICK p \in DOMAIN panel : p # i /\ panel'[q] = panel[p]
            BY <1>5
        <3>2. panel[p] # u
            BY <1>3, <1>4, <3>1 DEF IsInjective
        <3>3. QED
            BY <1>2, <2>1, <3>1, <3>2
    <2>4. QED
        BY <2>1, <2>2, <2>3
<1>10. kept' \subseteq owned' /\ kept' \subseteq ToSet(panel')
    <2> SUFFICES ASSUME NEW v \in kept' PROVE v \in owned' /\ v \in ToSet(panel')
        OBVIOUS
    <2>1. v \in owned /\ v \in ToSet(panel) /\ v # u
        BY <1>1, <1>2 DEF ListInv
    <2>2. PICK p \in DOMAIN panel : panel[p] = v
        BY <2>1 DEF ToSet
    <2>3. p # i
        BY <1>3, <2>1, <2>2
    <2>4. \E q \in DOMAIN panel' : panel'[q] = v
        BY <1>5, <2>2, <2>3
    <2>5. QED
        BY <1>2, <2>1, <2>4 DEF ToSet
<1>11. QED
    BY <1>1, <1>7, <1>8, <1>9, <1>10 DEF ListInv

LEMMA MoveInv ==
    ASSUME ListInv, NEW u \in Users, NEW i \in DOMAIN panel, Move(u, i)
    PROVE  ListInv'
<1>1. /\ Scanning /\ Scanning' /\ changes' \in 0..MaxChanges
      /\ pc' = pc /\ query' = query /\ start' = start /\ combined' = combined
      /\ answer' = answer /\ counts' = counts
      /\ Paged' /\ Answered'
    BY ChangeFacts DEF Move
<1>2. shifted' = shifted \cup {u} /\ kept' = kept \ {u} /\ owned' = owned
    BY DEF Move
<1>3. PICK j \in DOMAIN panel :
        /\ panel[j] = u /\ i # j /\ panel' = InsertAt(RemoveAt(panel, j), i, u)
        /\ gone' = IF i > j THEN gone \cup {u} ELSE gone
    BY DEF Move
<1>4. panel \in Seq(Users) /\ IsInjective(panel) /\ Len(panel) \in Nat /\ DOMAIN panel = 1..Len(panel)
    BY DEF ListInv, TypeOK
<1>5. /\ panel' \in Seq(Users) /\ IsInjective(panel') /\ Len(panel') = Len(panel)
      /\ \A p \in DOMAIN panel : p # j => \E q \in DOMAIN panel' : panel'[q] = panel[p]
      /\ i < j => \A p \in DOMAIN panel : p # j => \E q \in DOMAIN panel' : q >= p /\ panel'[q] = panel[p]
    <2> DEFINE r == InsertAt(RemoveAt(panel, j), i, panel[j])
    <2>1. /\ r \in Seq(Users) /\ IsInjective(r) /\ Len(r) = Len(panel)
          /\ \A p \in DOMAIN panel : p # j => \E q \in DOMAIN r : r[q] = panel[p]
          /\ i < j => \A p \in DOMAIN panel : p # j => \E q \in DOMAIN r : q >= p /\ r[q] = panel[p]
        BY <1>4, MovedMoves
    <2>2. panel' = r
        BY <1>3
    <2> HIDE DEF r
    <2>3. QED
        BY <2>1, <2>2
<1>6. start \in Nat /\ MaxScan \in Nat /\ DOMAIN panel' = 1..Len(panel)
    BY <1>4, <1>5, Numbers DEF ListInv, TypeOK
<1>7. TypeOK'
    <2>1. shifted' \subseteq Users /\ gone' \subseteq Users /\ kept' \subseteq Users
        BY <1>2, <1>3 DEF ListInv, TypeOK
    <2>2. QED
        BY <1>1, <1>2, <1>5, <2>1 DEF ListInv, TypeOK
<1>8. ReadBelow'
    BY <1>2 DEF ReadBelow
<1>9. UnreadBeyond'
    <2> SUFFICES ASSUME gone' = {}, NEW v \in kept'
                 PROVE  \/ WasRead(v)'
                        \/ pc = "scan" /\ \E p \in DOMAIN panel' : p > start /\ panel'[p] = v
                        \/ pc = "filter" /\ (counts => Len(panel') > MaxScan)
        BY <1>1 DEF UnreadBeyond
    <2>1. i < j /\ gone = {} /\ v \in kept /\ v # u
        <3>1. ~(i > j)
            BY <1>3
        <3>2. gone' = gone
            BY <1>3, <3>1
        <3>3. i < j
            BY <1>3, <1>4, <3>1
        <3>4. QED
            BY <1>2, <3>2, <3>3
    <2>2. CASE WasRead(v)
        BY <1>1, <2>2 DEF WasRead
    <2>3. CASE pc = "scan" /\ \E p \in DOMAIN panel : p > start /\ panel[p] = v
        <3>1. PICK p \in DOMAIN panel : p > start /\ panel[p] = v
            BY <2>3
        <3>2. p # j
            BY <1>3, <2>1, <3>1
        <3>3. PICK q \in DOMAIN panel' : q >= p /\ panel'[q] = panel[p]
            BY <1>5, <2>1, <3>2
        <3>4. q > start
            BY <1>4, <1>6, <3>1, <3>3
        <3>5. QED
            BY <2>3, <3>1, <3>3, <3>4
    <2>4. CASE pc = "filter" /\ (counts => Len(panel) > MaxScan)
        BY <1>5, <2>4
    <2>5. QED
        BY <1>1, <2>1, <2>2, <2>3, <2>4 DEF ListInv, UnreadBeyond
<1>10. kept' \subseteq owned' /\ kept' \subseteq ToSet(panel')
    <2> SUFFICES ASSUME NEW v \in kept' PROVE v \in owned' /\ v \in ToSet(panel')
        OBVIOUS
    <2>1. v \in owned /\ v \in ToSet(panel) /\ v # u
        BY <1>1, <1>2 DEF ListInv
    <2>2. PICK p \in DOMAIN panel : panel[p] = v
        BY <2>1 DEF ToSet
    <2>3. p # j
        BY <1>3, <2>1, <2>2
    <2>4. \E q \in DOMAIN panel' : panel'[q] = v
        BY <1>5, <2>2, <2>3
    <2>5. QED
        BY <1>2, <2>1, <2>4 DEF ToSet
<1>11. QED
    BY <1>1, <1>7, <1>8, <1>9, <1>10 DEF ListInv

LEMMA ReassignInv ==
    ASSUME ListInv, NEW u \in Users, Reassign(u)
    PROVE  ListInv'
<1>1. /\ Scanning /\ Scanning' /\ changes' \in 0..MaxChanges
      /\ pc' = pc /\ query' = query /\ start' = start /\ combined' = combined
      /\ answer' = answer /\ counts' = counts
      /\ Paged' /\ Answered'
    BY ChangeFacts DEF Reassign
<1>2. /\ owned' = IF u \in owned THEN owned \ {u} ELSE owned \cup {u}
      /\ kept' = kept \ {u}
      /\ panel' = panel /\ shifted' = shifted /\ gone' = gone
    BY DEF Reassign
<1>3. TypeOK'
    <2>1. owned' \subseteq Users /\ kept' \subseteq Users
        BY <1>2 DEF ListInv, TypeOK
    <2>2. QED
        BY <1>1, <1>2, <2>1 DEF ListInv, TypeOK
<1>4. ReadBelow'
    BY <1>1, <1>2 DEF ListInv, ReadBelow
<1>5. UnreadBeyond'
    <2> SUFFICES ASSUME gone = {}, NEW v \in kept
                 PROVE  \/ WasRead(v)'
                        \/ pc = "scan" /\ \E p \in DOMAIN panel : p > start /\ panel[p] = v
                        \/ pc = "filter" /\ (counts => Len(panel) > MaxScan)
        BY <1>1, <1>2 DEF UnreadBeyond
    <2>1. WasRead(v) => WasRead(v)'
        BY <1>1 DEF WasRead
    <2>2. QED
        BY <1>1, <2>1 DEF ListInv, UnreadBeyond
<1>6. kept' \subseteq owned' /\ kept' \subseteq ToSet(panel')
    BY <1>1, <1>2 DEF ListInv
<1>7. QED
    BY <1>1, <1>3, <1>4, <1>5, <1>6 DEF ListInv

LEMMA StutterInv ==
    ASSUME ListInv, UNCHANGED vars
    PROVE  ListInv'
<1>1. /\ UNCHANGED <<panel, owned, counts, changes, pc, query, start, combined, answer>>
      /\ UNCHANGED <<shifted, gone, kept>>
    BY DEF vars, panelVars, scanVars, histVars
<1>2. TypeOK' /\ Paged' /\ Answered'
    BY <1>1 DEF ListInv, TypeOK, Paged, Answered, Scanning
<1>3. ReadBelow'
    BY <1>1 DEF ListInv, ReadBelow, Scanning
<1>4. UnreadBeyond'
    BY <1>1 DEF ListInv, UnreadBeyond, WasRead, Scanning
<1>5. QED
    BY <1>1, <1>2, <1>3, <1>4 DEF ListInv, Scanning

LEMMA NextInv == ListInv /\ [Next]_vars => ListInv'
<1> SUFFICES ASSUME ListInv, [Next]_vars PROVE ListInv'
    OBVIOUS
<1>1. CASE \E q \in Queries : Ask(q)
    BY <1>1, AskInv
<1>2. CASE ReadPage
    BY <1>2, ReadPageInv
<1>3. CASE PageFails
    BY <1>3, PageFailsInv
<1>4. CASE Answer
    BY <1>4, AnswerInv
<1>5. CASE ListRaw
    BY <1>5, ListRawInv
<1>6. ASSUME NEW u \in Users,
             \/ Leave(u) \/ Reassign(u)
             \/ \E i \in 1..(Len(panel) + 1) : Enter(u, i)
             \/ \E i \in DOMAIN panel : Move(u, i)
      PROVE  ListInv'
    BY <1>6, LeaveInv, ReassignInv, EnterInv, MoveInv
<1>7. CASE UNCHANGED vars
    BY <1>7, StutterInv
<1>8. QED
    BY <1>1, <1>2, <1>3, <1>4, <1>5, <1>6, <1>7 DEF Next

LEMMA ListInvariant == Spec => []ListInv
<1>1. QED
    BY InitInv, NextInv, PTL DEF Spec

\* Every variable of the list request keeps its type: above all, a list is put
\* together from maxPanelUserScan users at most, whatever the panel does
\* between two pages.
THEOREM ListTypes == Spec => []TypeOK
<1>1. ListInv => TypeOK
    BY DEF ListInv
<1>2. QED
    BY <1>1, ListInvariant, PTL

\* Users that enter the panel's list or go to an earlier place in it, while the
\* pages of handlePanelRestrictedUserList are read, push nobody else out of the
\* answer: when every page carries the total, nobody leaves the list or goes to a
\* later place and it fits the scan, whoever the token owned throughout is in it.
THEOREM NobodyIsMissed == Spec => []NobodyMissed
<1>1. ListInv => NobodyMissed
    <2> SUFFICES ASSUME ListInv, pc = "filter", counts, gone = {}, Len(panel) <= MaxScan,
                        NEW u \in kept
                 PROVE  u \in ToSet(Uuids(Visible(combined)))
        BY DEF NobodyMissed
    <2>1. combined \in Items /\ Len(panel) \in Nat /\ MaxScan \in Nat
        BY Numbers DEF ListInv, TypeOK
    <2>2. WasRead(u)
        BY <2>1 DEF ListInv, UnreadBeyond, Scanning
    <2> DEFINE P == {i \in DOMAIN combined : combined[i].owned}
    <2>3. PICK i \in P : combined[i].uuid = u
        BY <2>2 DEF WasRead
    <2>4. P \in SUBSET DOMAIN combined /\ combined \in Seq([uuid : Users, owned : BOOLEAN])
        BY <2>1 DEF Items
    <2>5. Visible(combined) = Keep(combined, P) /\ Visible(combined) \in Items
        BY <2>1, Seen
    <2> HIDE DEF P
    <2>6. Rank(P, i) \in DOMAIN Keep(combined, P) /\ Keep(combined, P)[Rank(P, i)] = combined[i]
        BY <2>3, <2>4, Keeping
    <2>7. PICK n : n \in DOMAIN Visible(combined) /\ Visible(combined)[n].uuid = u
        BY <2>3, <2>5, <2>6
    <2>8. n \in DOMAIN Uuids(Visible(combined)) /\ Uuids(Visible(combined))[n] = u
        BY <2>5, <2>7, Named
    <2>9. QED
        BY <2>8 DEF ToSet
<1>2. QED
    BY <1>1, ListInvariant, PTL

\* Users that leave the panel's list between two pages of the scan bring nobody
\* into the answer a second time: while nobody enters the list or changes place
\* in it, the total counts users.
THEOREM NobodyIsTwice == Spec => []NobodyTwice
<1>1. ListInv => NobodyTwice
    <2> SUFFICES ASSUME ListInv, pc = "filter", shifted = {}
                 PROVE  IsInjective(Uuids(combined))
        BY DEF NobodyTwice
    <2>1. combined \in Items
        BY DEF ListInv, TypeOK
    <2>2. \A i, j \in DOMAIN combined : combined[i].uuid = combined[j].uuid => i = j
        BY DEF ListInv, ReadBelow, Scanning
    <2>3. QED
        BY <2>1, <2>2, Named DEF IsInjective
<1>2. QED
    BY <1>1, ListInvariant, PTL

-----------------------------------------------------------------------------
(* The page is the one asked for. *)

\* A position comes before another iff its place does.
LEMMA RanksOrdered ==
    ASSUME NEW P \in SUBSET Nat, IsFiniteSet(P), NEW i \in P, NEW j \in P
    PROVE  i <= j <=> Rank(P, i) <= Rank(P, j)
<1>1. ASSUME NEW k \in P, NEW l \in P, k <= l
      PROVE  Rank(P, k) <= Rank(P, l)
    <2>1. {h \in P : h <= k} \subseteq {h \in P : h <= l}
        <3>1. \A h \in P : h \in Nat /\ k \in Nat /\ l \in Nat /\ (h <= k => h <= l)
            BY <1>1
        <3>2. QED
            BY <3>1
    <2>2. IsFiniteSet({h \in P : h <= l})
        BY FS_Subset
    <2>3. Cardinality({h \in P : h <= k}) <= Cardinality({h \in P : h <= l})
        BY <2>1, <2>2, FS_Subset
    <2>4. QED
        BY <2>3 DEF Rank
<1>2. /\ Rank(P, i) \in Nat /\ Rank(P, j) \in Nat /\ i \in Nat /\ j \in Nat
      /\ Rank(P, i) = Rank(P, j) => i = j
    <2>1. /\ Cardinality(P) \in Nat
          /\ \A k \in P : Rank(P, k) \in 1..Cardinality(P)
          /\ \A k, l \in P : Rank(P, k) = Rank(P, l) => k = l
        BY Ranks
    <2>2. QED
        BY <2>1
<1>3. CASE i <= j
    BY <1>1, <1>3
<1>4. CASE ~(i <= j)
    <2>1. j <= i /\ i # j
        BY <1>2, <1>4
    <2>2. Rank(P, j) <= Rank(P, i)
        BY <1>1, <2>1
    <2>3. QED
        BY <1>2, <1>4, <2>1, <2>2
<1>5. QED
    BY <1>3, <1>4

\* There are b - a positions with a place from a + 1 to b.
LEMMA Window ==
    ASSUME NEW P \in SUBSET Nat, IsFiniteSet(P), NEW a \in Nat, NEW b \in Nat,
           a <= b, b <= Cardinality(P)
    PROVE  Cardinality({i \in P : a < Rank(P, i) /\ Rank(P, i) <= b}) = b - a
<1> DEFINE W == {i \in P : a < Rank(P, i) /\ Rank(P, i) <= b}
           f == [i \in W |-> Rank(P, i)]
<1>1. /\ Cardinality(P) \in Nat
      /\ \A i \in P : Rank(P, i) \in 1..Cardinality(P)
      /\ \A i, j \in P : Rank(P, i) = Rank(P, j) => i = j
      /\ \A n \in 1..Cardinality(P) : \E i \in P : Rank(P, i) = n
    BY Ranks
<1>2. \A i \in W : Rank(P, i) \in (a + 1)..b
    BY <1>1
<1>3. f \in Bijection(W, (a + 1)..b)
    <2>1. f \in [W -> (a + 1)..b]
        BY <1>2
    <2>2. f \in Injection(W, (a + 1)..b)
        BY <1>1, <2>1 DEF Injection, IsInjective
    <2>3. \A n \in (a + 1)..b : \E i \in W : f[i] = n
        <3> SUFFICES ASSUME NEW n \in (a + 1)..b PROVE \E i \in W : f[i] = n
            OBVIOUS
        <3>1. n \in 1..Cardinality(P) /\ a < n /\ n <= b
            BY <1>1
        <3>2. PICK i \in P : Rank(P, i) = n
            BY <1>1, <3>1
        <3>3. i \in W
            BY <3>1, <3>2
        <3>4. QED
            BY <3>2, <3>3
    <2>4. QED
        BY <2>1, <2>2, <2>3 DEF Bijection, Surjection
<1>4. IsFiniteSet(W)
    BY FS_Subset
<1>5. IsFiniteSet((a + 1)..b) /\ Cardinality((a + 1)..b) = b - a
    <2>1. PICK c \in Int : c = a + 1
        OBVIOUS
    <2>2. IsFiniteSet(c..b) /\ Cardinality(c..b) = IF c > b THEN 0 ELSE b - c + 1
        BY FS_Interval
    <2>3. (IF c > b THEN 0 ELSE b - c + 1) = b - a
        BY <2>1
    <2>4. QED
        BY <2>1, <2>2, <2>3
<1> HIDE DEF W, f
<1>6. Cardinality(W) = Cardinality((a + 1)..b)
    BY <1>3, <1>4, <1>5, FS_Bijection DEF ExistsBijection
<1>7. QED
    BY <1>5, <1>6 DEF W

\* Where every number fits an int, the first one that the code takes is the
\* first one asked for.
LEMMA FirstAsked ==
    ASSUME NEW q \in Asking, NEW keys \in KeyLists, NEW low \in {0, 1}, NEW d,
           \A key \in DOMAIN q : q[key] <= MaxInt
    PROVE  \/ FirstInt(q, keys, low) = Asked(q, keys, low, d) /\ FirstInt(q, keys, low) >= low
           \/ FirstInt(q, keys, low) = 0 /\ Asked(q, keys, low, d) = d
<1> DEFINE good == {i \in DOMAIN keys : Atoi(q, keys[i]) /\ q[keys[i]] >= low}
           all  == {i \in DOMAIN keys : keys[i] \in DOMAIN q /\ q[keys[i]] >= low}
<1>1. ASSUME NEW key \in DOMAIN q, q[key] >= low PROVE Atoi(q, key)
    <2>1. q[key] \in Int /\ q[key] <= MaxInt /\ MaxInt \in Nat
        BY Given, Numbers
    <2>2. QED
        BY <1>1, <2>1 DEF Atoi
<1>2. good = all
    BY <1>1 DEF Atoi
<1>3. /\ FirstInt(q, keys, low) = IF good = {} THEN 0 ELSE q[keys[Min(good)]]
      /\ Asked(q, keys, low, d) = IF all = {} THEN d ELSE q[keys[Min(all)]]
    BY DEF FirstInt, Asked
<1>4. ASSUME good # {} PROVE q[keys[Min(good)]] >= low
    <2>1. good \subseteq {1, 2}
        BY DEF KeyLists
    <2>2. Min(good) \in good
        <3> HIDE DEF good
        <3>1. QED
            BY <1>4, <2>1, MinOfKeys
    <2>3. QED
        BY <2>2
<1> HIDE DEF good, all
<1>5. QED
    BY <1>2, <1>3, <1>4

\* The page of a query that fits an int is the one it asks for.
LEMMA PageAsked ==
    ASSUME NEW q \in Asking, Fits(q)
    PROVE  /\ AskedSize(q) \in Nat /\ panelResponsePage(q).size = AskedSize(q)
           /\ AskedSize(q) > 0 => /\ AskedStart(q) \in Nat /\ AskedStart(q) + AskedSize(q) <= MaxInt
                                  /\ panelResponsePage(q).start = AskedStart(q)
<1> DEFINE size  == firstPositiveInt(q, <<"size", "limit">>)
           given == firstNonNegativeInt(q, <<"start", "offset">>)
           page  == firstPositiveInt(q, <<"page">>)
           asked == Asked(q, <<"page">>, 1, 1)
<1>1. size \in Nat /\ given \in Nat /\ page \in Nat
    BY PageTyped
<1>2. size = AskedSize(q) /\ given = Asked(q, <<"start", "offset">>, 0, 0)
    BY FirstAsked DEF Fits, KeyLists, AskedSize, firstPositiveInt, firstNonNegativeInt
<1>3. (page = asked /\ page >= 1) \/ (page = 0 /\ asked = 1)
    BY FirstAsked DEF Fits, KeyLists, firstPositiveInt
<1>4. panelResponsePage(q) = [size |-> size,
         start |-> IF size > 0 /\ given = 0 /\ page > 1 THEN Wrap((page - 1) * size) ELSE given]
    BY DEF panelResponsePage
<1>5. /\ AskedStart(q) = IF given > 0 THEN given ELSE (asked - 1) * size
      /\ AskedStart(q) + size <= MaxInt
    BY <1>2 DEF AskedStart, Fits
<1> HIDE DEF size, given, page, asked
<1>6. ASSUME size > 0
      PROVE  AskedStart(q) \in Nat /\ panelResponsePage(q).start = AskedStart(q)
    <2>1. CASE given > 0
        BY <1>1, <1>4, <1>5, <2>1
    <2>2. CASE given = 0 /\ page > 1
        <3>1. PICK n \in Nat : n = (page - 1) * size
            <4>1. page - 1 \in Nat
                BY <1>1, <2>2
            <4>2. (page - 1) * size \in Nat
                BY <1>1, <4>1
            <4>3. QED
                BY <4>2
        <3>2. AskedStart(q) = n
            BY <1>1, <1>3, <1>5, <2>2, <3>1
        <3>3. -HalfInts <= n /\ n <= MaxInt
            BY <1>1, <1>5, <3>2, Numbers
        <3>4. Wrap(n) = n
            BY <3>3, WrapFits
        <3>5. panelResponsePage(q).start = Wrap(n)
            BY <1>4, <1>6, <2>2, <3>1
        <3>6. QED
            BY <3>2, <3>4, <3>5
    <2>3. CASE given = 0 /\ ~(page > 1)
        <3>1. asked = 1
            BY <1>1, <1>3, <2>3
        <3>2. (asked - 1) * size = 0
            BY <1>1, <3>1
        <3>3. AskedStart(q) = 0
            BY <1>5, <2>3, <3>2
        <3>4. QED
            BY <1>4, <2>3, <3>3
    <2>4. QED
        BY <1>1, <2>1, <2>2, <2>3
<1>7. panelResponsePage(q).size = size
    BY <1>4
<1>8. QED
    BY <1>1, <1>2, <1>5, <1>6, <1>7

\* The positions of a page among those the token owned.
PagePositions(P, from, size) ==
    {i \in P : size > 0 => Rank(P, i) > from /\ Rank(P, i) <= from + size}

\* Answer a shows the users at those positions, in their order.
ShowsPage(a, items, from, size) ==
    LET mine   == {i \in DOMAIN items : items[i].owned}
        onPage == PagePositions(mine, from, size)
    IN  /\ a.total = Cardinality(mine)
        /\ Len(a.users) = Cardinality(onPage)
        /\ \A i \in onPage : a.users[Rank(onPage, i)] = items[i].uuid

LEMMA PageShown ==
    ASSUME NEW items \in Items, NEW page, NEW size \in Nat, NEW from, page.size = size,
           size > 0 => from \in Nat /\ page.start = from /\ from + size <= MaxInt
    PROVE  ShowsPage(filterJSONListPaged(items, page), items, from, size)
<1> DEFINE mine   == {i \in DOMAIN items : items[i].owned}
           onPage == PagePositions(mine, from, size)
           a      == filterJSONListPaged(items, page)
           V      == Visible(items)
           N      == Cardinality(mine)
<1>1. mine \in SUBSET DOMAIN items /\ items \in Seq([uuid : Users, owned : BOOLEAN])
    BY DEF Items
<1>2. V = Keep(items, mine) /\ V \in Items
    BY Seen
<1> HIDE DEF mine, V
<1>3. /\ Len(V) = N /\ IsFiniteSet(mine) /\ DOMAIN V = 1..N
      /\ \A i \in mine : Rank(mine, i) \in 1..N /\ V[Rank(mine, i)] = items[i]
    BY <1>1, <1>2, Keeping
<1>4. mine \in SUBSET Nat /\ N \in Nat
    <2>1. DOMAIN items \subseteq Nat
        BY <1>1
    <2>2. QED
        BY <1>1, <1>3, <2>1, FS_CardinalityType
<1>5. /\ a = IF SlicePanics(V, page) THEN NoAnswer("aborted")
             ELSE [status |-> "ok", users |-> Uuids(slicePage(V, page)), total |-> Len(V)]
    BY DEF filterJSONListPaged, V
<1> HIDE DEF N, a
<1>6. SUFFICES /\ a.total = N
               /\ Len(a.users) = Cardinality(onPage)
               /\ \A i \in onPage : a.users[Rank(onPage, i)] = items[i].uuid
    BY DEF mine, a, N, ShowsPage
<1>7. CASE size = 0
    <2>1. ~SlicePanics(V, page) /\ slicePage(V, page) = V
        BY <1>7 DEF SlicePanics, slicePage
    <2>2. a.total = N /\ a.users = Uuids(V)
        BY <1>3, <1>5, <2>1
    <2>3. onPage = mine
        BY <1>7 DEF PagePositions
    <2>4. Len(Uuids(V)) = N /\ \A n \in 1..N : Uuids(V)[n] = V[n].uuid
        BY <1>2, <1>3, Named
    <2>5. \A i \in mine : Uuids(V)[Rank(mine, i)] = items[i].uuid
        BY <1>3, <2>4
    <2>6. QED
        BY <2>2, <2>3, <2>4, <2>5 DEF N
<1>8. CASE size > 0 /\ from >= N
    <2>1. from \in Nat /\ page.start = from /\ page.size > 0
        BY <1>8
    <2>2. ~SlicePanics(V, page)
        BY <1>3, <1>4, <1>8, <2>1 DEF SlicePanics
    <2>3. slicePage(V, page) = <<>>
        BY <1>3, <1>8, <2>1 DEF slicePage
    <2>4. a.total = N /\ a.users = Uuids(<<>>)
        BY <1>3, <1>5, <2>2, <2>3
    <2>5. Len(Uuids(<<>>)) = 0
        <3>1. <<>> \in Items
            BY DEF Items
        <3>2. QED
            BY <3>1, Named
    <2>6. onPage = {}
        <3>1. \A i \in mine : ~(Rank(mine, i) > from)
            BY <1>3, <1>4, <1>8, <2>1
        <3>2. QED
            BY <1>8, <3>1 DEF PagePositions
    <2>7. QED
        BY <2>4, <2>5, <2>6, FS_EmptySet
<1>9. CASE size > 0 /\ from < N
    <2>1. from \in Nat /\ page.start = from /\ page.size = size /\ size > 0 /\ from + size <= MaxInt
        BY <1>9
    <2>2. PICK e \in Nat : /\ e = (IF from + size <= N THEN from + size ELSE N)
                           /\ from < e /\ e <= N /\ e <= from + size
                           /\ \A n \in 1..N : n <= from + size <=> n <= e
        <3> DEFINE e == IF from + size <= N THEN from + size ELSE N
        <3>1. e \in Nat /\ from < e /\ e <= N /\ e <= from + size
            BY <1>4, <1>9, <2>1
        <3>2. \A n \in 1..N : n <= from + size <=> n <= e
            BY <1>4, <1>9, <2>1
        <3> HIDE DEF e
        <3>3. QED
            BY <3>1, <3>2 DEF e
    <2>3. PageEnd(V, page) = e
        <3>1. PICK k \in Nat : k = from + size
            BY <2>1
        <3>2. -HalfInts <= k /\ k <= MaxInt
            BY <2>1, <3>1, Numbers
        <3>3. Wrap(k) = k
            BY <3>2, WrapFits
        <3>4. PageEnd(V, page) = Min({k, N})
            BY <1>3, <2>1, <3>1, <3>3 DEF PageEnd
        <3>5. QED
            BY <1>4, <2>2, <3>1, <3>4, MinOfTwo
    <2>4. ~SlicePanics(V, page)
        BY <2>1, <2>2, <2>3 DEF SlicePanics
    <2>5. slicePage(V, page) = SubSeq(V, from + 1, e)
        <3>1. page.size # 0 /\ ~(page.size > 0 /\ page.start >= Len(V))
            BY <1>3, <1>4, <1>9, <2>1
        <3>2. QED
            BY <2>1, <2>3, <3>1 DEF slicePage
    <2> DEFINE S == SubSeq(V, from + 1, e)
    <2>6. S \in Items /\ Len(S) = e - from /\ \A k \in 1..(e - from) : S[k] = V[from + k]
        <3>1. PICK m \in Nat : m = from + 1
            BY <2>1
        <3>2. m \in 1..(Len(V) + 1) /\ e \in (m - 1)..Len(V) /\ e - m + 1 = e - from
            BY <1>3, <1>4, <2>1, <2>2, <3>1
        <3>3. V \in Seq([uuid : Users, owned : BOOLEAN])
            BY <1>2 DEF Items
        <3>4. /\ SubSeq(V, m, e) \in Seq([uuid : Users, owned : BOOLEAN])
              /\ Len(SubSeq(V, m, e)) = e - m + 1
              /\ \A k \in 1..(e - m + 1) : SubSeq(V, m, e)[k] = V[m + k - 1]
            BY <3>2, <3>3, Cut
        <3>5. \A k \in 1..(e - from) : m + k - 1 = from + k
            BY <2>1, <3>1
        <3>6. QED
            BY <3>1, <3>2, <3>4, <3>5 DEF Items
    <2> HIDE DEF S
    <2>7. a.total = N /\ a.users = Uuids(S)
        BY <1>3, <1>5, <2>4, <2>5 DEF S
    <2>8. Len(Uuids(S)) = e - from /\ \A k \in 1..(e - from) : Uuids(S)[k] = V[from + k].uuid
        <3>1. DOMAIN S = 1..(e - from)
            BY <2>2, <2>6, Positions DEF Items
        <3>2. QED
            BY <2>6, <3>1, Named
    <2>9. onPage = {i \in mine : from < Rank(mine, i) /\ Rank(mine, i) <= e}
        <3>1. \A i \in mine : /\ Rank(mine, i) > from <=> from < Rank(mine, i)
                              /\ Rank(mine, i) <= from + size <=> Rank(mine, i) <= e
            BY <1>3, <1>4, <2>1, <2>2
        <3>2. QED
            BY <2>1, <3>1 DEF PagePositions
    <2>10. Cardinality(onPage) = e - from
        <3>1. from <= e /\ e <= Cardinality(mine)
            BY <2>1, <2>2 DEF N
        <3>2. Cardinality({i \in mine : from < Rank(mine, i) /\ Rank(mine, i) <= e}) = e - from
            BY <1>3, <1>4, <2>1, <3>1, Window
        <3>3. QED
            BY <2>9, <3>2
    <2> HIDE DEF onPage
    <2>11. ASSUME NEW i \in onPage
           PROVE  a.users[Rank(onPage, i)] = items[i].uuid
        <3>1. PICK n \in 1..N : n = Rank(mine, i) /\ from < n /\ n <= e /\ i \in mine
            BY <1>3, <2>9
        <3>2. {j \in onPage : j <= i} = {j \in mine : from < Rank(mine, j) /\ Rank(mine, j) <= n}
            <4>1. ASSUME NEW j \in mine PROVE j <= i <=> Rank(mine, j) <= n
                BY <1>3, <1>4, <3>1, RanksOrdered
            <4>2. \A j \in mine : Rank(mine, j) \in Nat /\ (Rank(mine, j) <= n => Rank(mine, j) <= e)
                BY <1>3, <1>4, <2>2, <3>1
            <4>3. QED
                BY <2>9, <4>1, <4>2
        <3>3. Rank(onPage, i) = n - from
            <4>1. n \in Nat /\ from <= n /\ n <= Cardinality(mine)
                BY <1>4, <2>1, <3>1 DEF N
            <4>2. Cardinality({j \in mine : from < Rank(mine, j) /\ Rank(mine, j) <= n}) = n - from
                BY <1>3, <1>4, <2>1, <4>1, Window
            <4>3. QED
                BY <3>2, <4>2 DEF Rank
        <3>4. n - from \in 1..(e - from) /\ from + (n - from) = n
            BY <1>4, <2>1, <2>2, <3>1
        <3>5. Uuids(S)[n - from] = V[n].uuid
            BY <2>8, <3>4
        <3>6. V[n] = items[i]
            BY <1>3, <3>1
        <3>7. QED
            BY <2>7, <3>3, <3>5, <3>6
    <2>12. QED
        BY <2>7, <2>8, <2>10, <2>11
<1>10. QED
    <2>1. size = 0 \/ (size > 0 /\ from >= N) \/ (size > 0 /\ from < N)
        BY <1>4
    <2>2. QED
        BY <1>7, <1>8, <1>9, <2>1

\* The page panelResponsePage computes and slicePage cuts out is the page the
\* browser asked for, user by user, with the total of the users it owned, for
\* every query whose numbers and end of page fit an int, whatever the list.
THEOREM PagesAreExact == Spec => []PageExact
<1>1. ListInv => PageExact
    <2> SUFFICES ASSUME ListInv, pc = "idle", answer.status \in {"ok", "aborted"}, Fits(query)
                 PROVE  LET mine   == {i \in DOMAIN combined : combined[i].owned}
                            onPage == {i \in mine : AskedSize(query) > 0 =>
                                         /\ Cardinality({j \in mine : j <= i}) > AskedStart(query)
                                         /\ Cardinality({j \in mine : j <= i}) <= AskedStart(query) + AskedSize(query)}
                        IN  /\ answer.total = Cardinality(mine)
                            /\ Len(answer.users) = Cardinality(onPage)
                            /\ \A i \in onPage :
                                  answer.users[Cardinality({j \in onPage : j <= i})] = combined[i].uuid
        BY DEF PageExact
    <2> DEFINE page == panelResponsePage(query)
               size == AskedSize(query)
               from == AskedStart(query)
               mine == {i \in DOMAIN combined : combined[i].owned}
               onPage == PagePositions(mine, from, size)
    <2>1. combined \in Items /\ query \in Asking /\ answer = filterJSONListPaged(combined, page)
        BY DEF ListInv, TypeOK, Answered, Asking
    <2>2. /\ size \in Nat /\ page.size = size
          /\ size > 0 => from \in Nat /\ page.start = from /\ from + size <= MaxInt
        BY <2>1, PageAsked
    <2> HIDE DEF page, size, from
    <2>3. /\ answer.total = Cardinality(mine) /\ Len(answer.users) = Cardinality(onPage)
          /\ \A i \in onPage : answer.users[Rank(onPage, i)] = combined[i].uuid
        <3>1. ShowsPage(answer, combined, from, size)
            BY <2>1, <2>2, PageShown
        <3>2. QED
            BY <3>1 DEF ShowsPage
    <2>4. QED
        BY <2>3 DEF Rank, PagePositions, size, from
<1>2. QED
    BY <1>1, ListInvariant, PTL


=============================================================================
