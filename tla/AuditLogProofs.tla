--------------------------- MODULE AuditLogProofs ---------------------------
(***************************************************************************)
(* Proofs about AuditLog, for every number of callers, of rows and of      *)
(* legacy rows, and whatever the clock does.  The query's ORDER BY is a    *)
(* permutation of the rows (NthRow).  While the rows are in order of time, *)
(* rowid order is chain order (RankInOrder), so that what a migration      *)
(* computes for a row does not depend on when it read the table: that is   *)
(* why a late migration is harmless and the log verifies.  Once they are   *)
(* not, they never are again.                                              *)
(***************************************************************************)
EXTENDS AuditLog, TLAPS, FiniteSetTheorems, SequenceTheorems,
        WellFoundedInduction

Places == {"idle", "migrate", "rebuild", "mark", "begin", "insert", "raised"}

------------------------------------------------------------------------------
(* ORDER BY created_at ASC, rowid ASC.                                     *)

LEMMA UpToCardinality ==
  ASSUME NEW n \in Nat PROVE IsFiniteSet(1..n) /\ Cardinality(1..n) = n
<1>1. Cardinality(1..n) = IF 1 > n THEN 0 ELSE n - 1 + 1
  BY FS_Interval
<1> QED
  BY <1>1, FS_Interval

\* ORDER BY is a strict total order on the rows, so that every row has a place of
\* its own and every place a row.
LEMMA BeforeIsOrder ==
  ASSUME NEW s \in Seq(Row)
  PROVE  \A i, j, k \in DOMAIN s :
           /\ ~Before(s, i, i)
           /\ i # k => Before(s, i, k) \/ Before(s, k, i)
           /\ Before(s, i, j) /\ Before(s, j, k) => Before(s, i, k)
<1>1. ASSUME NEW k \in DOMAIN s PROVE s[k].at \in Nat /\ k \in Nat
  <2>1. s[k] \in Row
    OBVIOUS
  <2> QED
    BY <2>1, BoundsAssumption DEF Row
<1> QED
  BY <1>1 DEF Before

LEMMA RankGrows ==
  ASSUME NEW s \in Seq(Row), NEW i \in DOMAIN s, NEW k \in DOMAIN s, Before(s, i, k)
  PROVE  Rank(s, i) < Rank(s, k)
<1> DEFINE below(j) == {m \in DOMAIN s : Before(s, m, j)}
<1>1. ASSUME NEW j \in DOMAIN s
      PROVE IsFiniteSet(below(j)) /\ Cardinality(below(j)) \in Nat
  <2>1. IsFiniteSet(1..Len(s)) /\ below(j) \in SUBSET (1..Len(s))
    BY FS_Interval
  <2> QED
    BY <2>1, FS_Subset, FS_CardinalityType
<1>2. i \notin below(i) /\ below(i) \cup {i} \in SUBSET below(k)
  BY BeforeIsOrder
<1>3. Cardinality(below(i) \cup {i}) = Cardinality(below(i)) + 1
  BY <1>1, <1>2, FS_AddElement
<1>4. Cardinality(below(i) \cup {i}) <= Cardinality(below(k))
  BY <1>1, <1>2, FS_Subset
<1>5. Rank(s, i) = 1 + Cardinality(below(i)) /\ Rank(s, k) = 1 + Cardinality(below(k))
  BY DEF Rank
<1> HIDE DEF below
<1> QED
  BY <1>1, <1>3, <1>4, <1>5

LEMMA RankType ==
  ASSUME NEW s \in Seq(Row), NEW i \in DOMAIN s
  PROVE  Rank(s, i) \in 1..Len(s)
<1> DEFINE below == {m \in DOMAIN s : Before(s, m, i)}
<1>0. Len(s) \in Nat /\ DOMAIN s = 1..Len(s) /\ i \in 1..Len(s)
  OBVIOUS
<1>1. /\ IsFiniteSet(1..Len(s)) /\ Cardinality(1..Len(s)) = Len(s)
      /\ below \in SUBSET (1..Len(s)) /\ i \notin below
  <2>1. IsFiniteSet(1..Len(s)) /\ Cardinality(1..Len(s)) = Len(s)
    BY <1>0, UpToCardinality
  <2>2. below \in SUBSET (1..Len(s)) /\ i \notin below
    BY <1>0, BeforeIsOrder
  <2> QED
    BY <2>1, <2>2
<1>2. below \cup {i} \in SUBSET (1..Len(s))
  BY <1>0, <1>1
<1>3. IsFiniteSet(below) /\ Cardinality(below) \in Nat
  BY <1>1, FS_Subset, FS_CardinalityType
<1>4. Cardinality(below \cup {i}) = Cardinality(below) + 1
  BY <1>1, <1>3, FS_AddElement
<1>5. Cardinality(below \cup {i}) <= Len(s)
  BY <1>1, <1>2, FS_Subset
<1>6. Rank(s, i) = 1 + Cardinality(below)
  BY DEF Rank
<1> HIDE DEF below
<1> QED
  BY <1>0, <1>3, <1>4, <1>5, <1>6

LEMMA RankIsInjective ==
  ASSUME NEW s \in Seq(Row), NEW i \in DOMAIN s, NEW k \in DOMAIN s, Rank(s, i) = Rank(s, k)
  PROVE  i = k
<1>1. Rank(s, i) \in Nat /\ Rank(s, k) \in Nat
  BY RankType
<1> QED
  BY <1>1, BeforeIsOrder, RankGrows

LEMMA NthRow ==
  ASSUME NEW s \in Seq(Row), NEW r \in 1..Len(s)
  PROVE  Nth(s, r) \in 1..Len(s) /\ Rank(s, Nth(s, r)) = r
<1> DEFINE n == Len(s)
           f == [i \in 1..n |-> Rank(s, i)]
<1>1. n \in Nat /\ DOMAIN s = 1..n /\ IsFiniteSet(1..n)
  BY FS_Interval
<1>2. f \in [1..n -> 1..n]
  BY <1>1, RankType
<1>3. \A i, k \in 1..n : f[i] = f[k] => i = k
  BY <1>1, RankIsInjective
<1>4. f \in Injection(1..n, 1..n)
  <2> HIDE DEF f
  <2> QED
    BY <1>2, <1>3 DEF Injection, IsInjective
<1>5. f \in Surjection(1..n, 1..n)
  <2> HIDE DEF f
  <2> QED
    BY <1>1, <1>4, FS_Injection
<1>6. \E i \in DOMAIN s : Rank(s, i) = r
  <2>1. PICK i \in 1..n : f[i] = r
    <3> HIDE DEF f
    <3> QED
      BY <1>5 DEF Surjection
  <2> QED
    BY <1>1, <2>1
<1> HIDE DEF f
<1>7. Nth(s, r) \in DOMAIN s /\ Rank(s, Nth(s, r)) = r
  BY <1>6 DEF Nth
<1> QED
  BY <1>1, <1>7

LEMMA NthOfRank ==
  ASSUME NEW s \in Seq(Row), NEW i \in DOMAIN s
  PROVE  Nth(s, Rank(s, i)) = i
<1>1. Rank(s, i) \in 1..Len(s) /\ DOMAIN s = 1..Len(s)
  BY RankType
<1> QED
  BY <1>1, NthRow, RankIsInjective

LEMMA ContentType ==
  ASSUME NEW row \in Row PROVE Content(row) \in Contents
  BY BoundsAssumption DEF Row, Content, Contents, Joined, Texts

LEMMA ChainType ==
  ASSUME NEW s \in Seq(Row), NEW n \in 0..Len(s)
  PROVE  Chain(s, n) \in Seq(Contents) /\ Len(Chain(s, n)) = n
<1>1. ASSUME NEW k \in 1..n PROVE Content(s[Nth(s, k)]) \in Contents
  <2>1. k \in 1..Len(s) /\ DOMAIN s = 1..Len(s)
    OBVIOUS
  <2>2. s[Nth(s, k)] \in Row
    BY <2>1, NthRow
  <2> QED
    BY <2>2, ContentType
<1> QED
  BY <1>1 DEF Chain

\* A migration writes links, and nothing else of a row.
LEMMA RechainedKeeps ==
  ASSUME NEW s \in Seq(Row), NEW old \in Seq(Row)
  PROVE  /\ Rechained(s, old) \in Seq(Row)
         /\ Len(Rechained(s, old)) = Len(s)
         /\ \A i \in DOMAIN s :
              /\ Rechained(s, old)[i].id = s[i].id
              /\ Rechained(s, old)[i].at = s[i].at
              /\ Content(Rechained(s, old)[i]) = Content(s[i])
<1> DEFINE t == Rechained(s, old)
<1>1. ASSUME NEW i \in DOMAIN s
      PROVE  /\ t[i] \in Row
             /\ t[i].id = s[i].id /\ t[i].at = s[i].at /\ t[i].text = s[i].text
  <2>0. s[i] \in Row
    OBVIOUS
  <2>1. CASE \E k \in DOMAIN old : old[k].id = s[i].id
    <3> DEFINE k == CHOOSE k \in DOMAIN old : old[k].id = s[i].id
    <3>1. k \in DOMAIN old
      BY <2>1
    <3>2. t[i] = [s[i] EXCEPT !.prev = Chain(old, Rank(old, k) - 1),
                              !.hash = Chain(old, Rank(old, k))]
      BY <2>1 DEF Rechained
    <3> HIDE DEF t, k
    <3>3. Rank(old, k) \in 1..Len(old) /\ Len(old) \in Nat
      BY <3>1, RankType
    <3>4. /\ Chain(old, Rank(old, k) - 1) \in Seq(Contents)
          /\ Chain(old, Rank(old, k)) \in Seq(Contents)
          /\ Len(Chain(old, Rank(old, k))) # 0
      BY <3>3, ChainType
    <3>5. Chain(old, Rank(old, k)) # Genesis
      BY <3>4 DEF Genesis
    <3> QED
      BY <2>0, <3>2, <3>4, <3>5 DEF Row
  <2>2. CASE ~\E k \in DOMAIN old : old[k].id = s[i].id
    <3>1. t[i] = s[i]
      BY <2>2 DEF Rechained
    <3> HIDE DEF t
    <3> QED
      BY <2>0, <3>1
  <2> QED
    BY <2>1, <2>2
<1>2. t = [i \in DOMAIN s |-> t[i]]
  BY DEF Rechained
<1> HIDE DEF t
<1>3. t \in Seq(Row) /\ Len(t) = Len(s)
  <2>1. DOMAIN s = 1..Len(s) /\ Len(s) \in Nat
    OBVIOUS
  <2>2. t \in [1..Len(s) -> Row]
    BY <1>1, <1>2, <2>1
  <2> QED
    BY <2>1, <2>2
<1>4. \A i \in DOMAIN s : Content(t[i]) = Content(s[i])
  BY <1>1 DEF Content
<1> QED
  BY <1>1, <1>3, <1>4 DEF t
------------------------------------------------------------------------------
(* Rows in order of time.                                                  *)

\* Exactly the rows with a smaller rowid come before a row.
LEMMA RankInOrder ==
  ASSUME NEW s \in Seq(Row), Ordered(s), NEW i \in DOMAIN s
  PROVE  Rank(s, i) = i
<1>1. {k \in DOMAIN s : Before(s, k, i)} = 1..(i - 1)
  <2>1. ASSUME NEW k \in DOMAIN s PROVE s[k].at \in Nat /\ s[i].at \in Nat
    <3>1. s[k] \in Row /\ s[i] \in Row
      OBVIOUS
    <3> QED BY <3>1, BoundsAssumption DEF Row
  <2>2. ASSUME NEW k \in DOMAIN s, Before(s, k, i) PROVE k < i
    BY <2>1, <2>2 DEF Before, Ordered
  <2>3. ASSUME NEW k \in DOMAIN s, k < i PROVE Before(s, k, i)
    BY <2>1, <2>3 DEF Before, Ordered
  <2> QED BY <2>2, <2>3
<1>2. Cardinality(1..(i - 1)) = i - 1
  BY FS_Interval
<1>3. Rank(s, i) = 1 + Cardinality(1..(i - 1))
  BY <1>1, Zenon DEF Rank
<1>4. i \in Nat
  OBVIOUS
<1> QED BY <1>2, <1>3, <1>4

LEMMA NthInOrder ==
  ASSUME NEW s \in Seq(Row), Ordered(s), NEW r \in 1..Len(s)
  PROVE  Nth(s, r) = r
<1>1. \A i \in DOMAIN s : Rank(s, i) = i
  BY RankInOrder
<1> QED BY <1>1 DEF Nth

LEMMA ChainInOrder ==
  ASSUME NEW s \in Seq(Row), Ordered(s), NEW n \in 0..Len(s)
  PROVE  Chain(s, n) = Prefix(s, n)
  BY NthInOrder DEF Chain, Prefix

LEMMA PrefixType ==
  ASSUME NEW s \in Seq(Row), NEW n \in 0..Len(s)
  PROVE  Prefix(s, n) \in Seq(Contents) /\ Len(Prefix(s, n)) = n
  BY ContentType DEF Prefix

\* A row hashes the prefix before it and itself.
LEMMA HashOfPrefix ==
  ASSUME NEW s \in Seq(Row), NEW i \in DOMAIN s
  PROVE  HashOf(Prefix(s, i - 1), s[i]) = Prefix(s, i)
<1>1. Prefix(s, i - 1) \in Seq(Contents) /\ Len(Prefix(s, i - 1)) = i - 1
  BY PrefixType
<1>2. Prefix(s, i) \in Seq(Contents) /\ Len(Prefix(s, i)) = i
  BY PrefixType
<1>3. Append(Prefix(s, i - 1), Content(s[i]))
        = [k \in 1..i |-> IF k = i THEN Content(s[i]) ELSE Prefix(s, i - 1)[k]]
  BY <1>1
<1> QED BY <1>3 DEF HashOf, Prefix

LEMMA LinkedIsIntact ==
  ASSUME NEW s \in Seq(Row), Ordered(s), Linked(s)
  PROVE  Intact(s)
<1> SUFFICES ASSUME NEW r \in 1..Len(s)
             PROVE  LET expected == IF r = 1 THEN Genesis ELSE s[Nth(s, r - 1)].hash
                    IN /\ s[Nth(s, r)].prev = expected
                       /\ s[Nth(s, r)].hash = HashOf(expected, s[Nth(s, r)])
  BY DEF Intact
<1>1. Nth(s, r) = r /\ (r # 1 => Nth(s, r - 1) = r - 1)
  BY NthInOrder
<1>2. Prefix(s, r - 1) = IF r = 1 THEN Genesis ELSE s[Nth(s, r - 1)].hash
  <2>1. CASE r = 1 BY <2>1 DEF Prefix, Genesis
  <2>2. CASE r # 1
    <3>1. r - 1 \in DOMAIN s BY <2>2
    <3> QED BY <2>2, <3>1, <1>1 DEF Linked
  <2> QED BY <2>1, <2>2
<1> QED BY <1>1, <1>2, HashOfPrefix DEF Linked

\* The hash record chains to is that of the whole log.
LEMMA LastHashInOrder ==
  ASSUME NEW s \in Seq(Row), Ordered(s), Linked(s),
         \A i \in DOMAIN s : s[i].id # 0
  PROVE  LastHash(s) = Prefix(s, Len(s))
<1>1. CASE s = <<>>
  BY <1>1 DEF LastHash, Prefix, Genesis
<1>2. CASE s # <<>>
  <2>1. Len(s) \in DOMAIN s /\ Nth(s, Len(s)) = Len(s)
    BY <1>2, NthInOrder
  <2>2. s[Len(s)].hash = Prefix(s, Len(s))
    BY <2>1 DEF Linked
  <2>3. Prefix(s, Len(s))[1] = Content(s[1]) /\ Content(s[1])[1] # 0
    BY <2>1 DEF Prefix, Content
  <2>4. Prefix(s, Len(s)) # Empty
    BY <2>3 DEF Empty
  <2> QED BY <1>2, <2>1, <2>2, <2>4 DEF LastHash
<1> QED BY <1>1, <1>2

------------------------------------------------------------------------------
(* What the writers do to a linked log.                                    *)

LEMMA PrefixAgrees ==
  ASSUME NEW s, NEW t, NEW n \in Nat, \A i \in 1..n : Content(s[i]) = Content(t[i])
  PROVE  Prefix(s, n) = Prefix(t, n)
  BY DEF Prefix

\* The first m rows with the links of rowid order.
Relinked(s, m) ==
  [i \in DOMAIN s |->
    IF i <= m THEN [s[i] EXCEPT !.prev = Prefix(s, i - 1), !.hash = Prefix(s, i)]
              ELSE s[i]]

\* A migration gives the rows it read the links they should have, whatever
\* was recorded since it read them.
LEMMA RechainedRows ==
  ASSUME NEW s \in Seq(Row), NEW old \in Seq(Row), Ordered(old),
         Len(old) <= Len(s),
         \A i \in DOMAIN s : s[i].id = i,
         \A i \in DOMAIN old : Content(old[i]) = Content(s[i])
  PROVE  Rechained(s, old) = Relinked(s, Len(old))
<1>1. \A i \in DOMAIN old : old[i].id = i
  <2> SUFFICES ASSUME NEW i \in DOMAIN old PROVE old[i].id = i
    OBVIOUS
  <2>1. i \in DOMAIN s OBVIOUS
  <2> QED BY <2>1 DEF Content
<1>2. ASSUME NEW i \in DOMAIN s, i <= Len(old)
      PROVE  /\ \E k \in DOMAIN old : old[k].id = s[i].id
             /\ (CHOOSE k \in DOMAIN old : old[k].id = s[i].id) = i
  BY <1>1, <1>2
<1>3. ASSUME NEW i \in DOMAIN s, ~(i <= Len(old))
      PROVE  ~\E k \in DOMAIN old : old[k].id = s[i].id
  BY <1>1, <1>3
<1>4. ASSUME NEW i \in DOMAIN s, i <= Len(old)
      PROVE  /\ Chain(old, Rank(old, i) - 1) = Prefix(s, i - 1)
             /\ Chain(old, Rank(old, i)) = Prefix(s, i)
  <2>1. i \in DOMAIN old /\ i \in 0..Len(old) /\ i - 1 \in 0..Len(old)
    BY <1>4
  <2>2. Rank(old, i) = i
    BY <2>1, RankInOrder
  <2>3. Chain(old, i) = Prefix(old, i) /\ Chain(old, i - 1) = Prefix(old, i - 1)
    BY <2>1, ChainInOrder
  <2>4. \A k \in 1..i : Content(old[k]) = Content(s[k])
    BY <2>1
  <2>5. Prefix(old, i) = Prefix(s, i) /\ Prefix(old, i - 1) = Prefix(s, i - 1)
    BY <2>1, <2>4, PrefixAgrees
  <2> QED BY <2>2, <2>3, <2>5
<1>5. ASSUME NEW i \in DOMAIN s
      PROVE  Rechained(s, old)[i]
               = IF i <= Len(old)
                   THEN [s[i] EXCEPT !.prev = Prefix(s, i - 1), !.hash = Prefix(s, i)]
                   ELSE s[i]
  <2>1. CASE i <= Len(old)
    BY <2>1, <1>2, <1>4 DEF Rechained
  <2>2. CASE ~(i <= Len(old))
    BY <2>2, <1>3 DEF Rechained
  <2> QED BY <2>1, <2>2
<1> QED BY <1>5 DEF Rechained, Relinked

\* Links are written over rows without touching what the rows say.
LEMMA RelinkedRow ==
  ASSUME NEW s \in Seq(Row), NEW i \in DOMAIN s, NEW row,
         row = [s[i] EXCEPT !.prev = Prefix(s, i - 1), !.hash = Prefix(s, i)]
  PROVE  /\ row \in Row
         /\ row.id = s[i].id /\ row.at = s[i].at /\ row.text = s[i].text
         /\ row.prev = Prefix(s, i - 1) /\ row.hash = Prefix(s, i)
<1>1. s[i] \in Row /\ i \in 1..Len(s)
  OBVIOUS
<1>2. /\ Prefix(s, i - 1) \in Seq(Contents)
      /\ Prefix(s, i) \in Seq(Contents) /\ Len(Prefix(s, i)) = i
  BY <1>1, PrefixType
<1>3. Prefix(s, i) # Genesis
  BY <1>1, <1>2 DEF Genesis
<1> QED BY <1>1, <1>2, <1>3 DEF Row

LEMMA RelinkedRows ==
  ASSUME NEW s \in Seq(Row), NEW m \in Nat
  PROVE  /\ Relinked(s, m) \in Seq(Row)
         /\ Len(Relinked(s, m)) = Len(s)
         /\ \A i \in DOMAIN s :
              /\ Relinked(s, m)[i].id = s[i].id
              /\ Relinked(s, m)[i].at = s[i].at
              /\ Content(Relinked(s, m)[i]) = Content(s[i])
         /\ m >= Len(s) => Linked(Relinked(s, m))
         /\ Linked(s) => Relinked(s, m) = s
<1> DEFINE t == Relinked(s, m)
<1>1. ASSUME NEW i \in DOMAIN s
      PROVE  /\ t[i] \in Row
             /\ t[i].id = s[i].id /\ t[i].at = s[i].at /\ t[i].text = s[i].text
             /\ i <= m => t[i].prev = Prefix(s, i - 1) /\ t[i].hash = Prefix(s, i)
             /\ ~(i <= m) \/ Linked(s) => t[i] = s[i]
  <2>1. CASE i <= m
    <3>1. t[i] = [s[i] EXCEPT !.prev = Prefix(s, i - 1), !.hash = Prefix(s, i)]
      BY <2>1 DEF Relinked
    <3> HIDE DEF t
    <3>2. /\ t[i] \in Row
          /\ t[i].id = s[i].id /\ t[i].at = s[i].at /\ t[i].text = s[i].text
          /\ t[i].prev = Prefix(s, i - 1) /\ t[i].hash = Prefix(s, i)
      BY <3>1, RelinkedRow
    <3>3. Linked(s) => t[i] = s[i]
      <4>1. ASSUME Linked(s) PROVE s[i].prev = Prefix(s, i - 1) /\ s[i].hash = Prefix(s, i)
        BY <4>1 DEF Linked
      <4>2. s[i] \in Row
        OBVIOUS
      <4> QED BY <3>1, <4>1, <4>2 DEF Row
    <3> QED BY <2>1, <3>2, <3>3
  <2>2. CASE ~(i <= m)
    <3>1. t[i] = s[i] /\ s[i] \in Row
      BY <2>2 DEF Relinked
    <3> QED BY <2>2, <3>1
  <2> QED BY <2>1, <2>2
<1>2. t = [i \in 1..Len(s) |-> t[i]]
  BY DEF Relinked
<1> HIDE DEF t
<1>3. t \in Seq(Row) /\ Len(t) = Len(s) /\ DOMAIN t = 1..Len(s)
  <2>1. DOMAIN s = 1..Len(s) /\ Len(s) \in Nat
    OBVIOUS
  <2>2. t \in [1..Len(s) -> Row]
    BY <1>1, <1>2, <2>1
  <2> QED BY <2>1, <2>2
<1>4. \A i \in DOMAIN s : Content(t[i]) = Content(s[i])
  BY <1>1 DEF Content
<1>5. ASSUME m >= Len(s) PROVE Linked(t)
  <2> SUFFICES ASSUME NEW i \in 1..Len(s)
               PROVE  t[i].prev = Prefix(t, i - 1) /\ t[i].hash = Prefix(t, i)
    BY <1>3 DEF Linked
  <2>1. t[i].prev = Prefix(s, i - 1) /\ t[i].hash = Prefix(s, i)
    BY <1>1, <1>5
  <2>2. \A k \in 1..i : Content(s[k]) = Content(t[k])
    BY <1>4
  <2>3. Prefix(s, i - 1) = Prefix(t, i - 1) /\ Prefix(s, i) = Prefix(t, i)
    BY <2>2, PrefixAgrees
  <2> QED BY <2>1, <2>3
<1>6. ASSUME Linked(s) PROVE t = s
  <2>1. ASSUME NEW i \in 1..Len(s) PROVE t[i] = s[i]
    BY <1>1, <1>6
  <2> QED BY <2>1, <1>3
<1> QED BY <1>1, <1>3, <1>4, <1>5, <1>6 DEF t

\* A row chained to the whole log keeps it linked.
LEMMA AppendedRow ==
  ASSUME NEW s \in Seq(Row), NEW row \in Row, Linked(s),
         row.prev = Prefix(s, Len(s)), row.hash = HashOf(row.prev, row)
  PROVE  Linked(Append(s, row))
<1> DEFINE t == Append(s, row)
<1>1. t \in Seq(Row) /\ Len(t) = Len(s) + 1 /\ t[Len(s) + 1] = row
        /\ \A i \in DOMAIN s : t[i] = s[i]
  OBVIOUS
<1>2. ASSUME NEW n \in 0..Len(s) PROVE Prefix(t, n) = Prefix(s, n)
  <2>1. \A i \in 1..n : Content(t[i]) = Content(s[i])
    BY <1>1
  <2> HIDE DEF t
  <2> QED BY <2>1, PrefixAgrees
<1>3. HashOf(Prefix(t, Len(s)), t[Len(s) + 1]) = Prefix(t, Len(s) + 1)
  <2>1. Len(s) + 1 \in DOMAIN t /\ Len(s) + 1 - 1 = Len(s)
    BY <1>1
  <2> HIDE DEF t
  <2> QED BY <1>1, <2>1, HashOfPrefix
<1>4. ASSUME NEW i \in DOMAIN t
      PROVE  t[i].prev = Prefix(t, i - 1) /\ t[i].hash = Prefix(t, i)
  <2> HIDE DEF t
  <2>1. CASE i \in DOMAIN s
    BY <2>1, <1>1, <1>2 DEF Linked
  <2>2. CASE i = Len(s) + 1
    BY <2>2, <1>1, <1>2, <1>3
  <2> QED BY <1>1, <2>1, <2>2
<1> QED BY <1>4 DEF Linked

\* Taking a row out leaves the others in their order.
LEMMA DeletedRow ==
  ASSUME NEW s \in Seq(Row), NEW i \in DOMAIN s, NEW t,
         t = SubSeq(s, 1, i - 1) \o SubSeq(s, i + 1, Len(s))
  PROVE  /\ t \in Seq(Row)
         /\ Len(t) = Len(s) - 1
         /\ \A k \in DOMAIN t : t[k] = IF k < i THEN s[k] ELSE s[k + 1]
<1> DEFINE a == SubSeq(s, 1, i - 1)
           b == SubSeq(s, i + 1, Len(s))
<1>1. i \in 1..Len(s) /\ Len(s) \in Nat
  OBVIOUS
<1>2. a \in Seq(Row) /\ Len(a) = i - 1 /\ \A k \in 1..(i - 1) : a[k] = s[k]
  BY <1>1
<1>3. b \in Seq(Row) /\ Len(b) = Len(s) - i /\ \A k \in 1..(Len(s) - i) : b[k] = s[i + k]
  BY <1>1
<1>4. t = a \o b
  OBVIOUS
<1> HIDE DEF a, b
<1>5. /\ a \o b \in Seq(Row)
      /\ Len(a \o b) = Len(a) + Len(b)
      /\ \A k \in 1..(Len(a) + Len(b)) :
           (a \o b)[k] = IF k <= Len(a) THEN a[k] ELSE b[k - Len(a)]
  BY <1>2, <1>3, ConcatProperties
<1>6. /\ t \in Seq(Row) /\ Len(t) = Len(s) - 1 /\ DOMAIN t = 1..(Len(s) - 1)
      /\ \A k \in 1..(Len(s) - 1) : t[k] = IF k <= i - 1 THEN a[k] ELSE b[k - (i - 1)]
  <2>1. Len(a) + Len(b) = Len(s) - 1
    BY <1>1, <1>2, <1>3
  <2>2. /\ t \in Seq(Row) /\ Len(t) = Len(s) - 1
        /\ \A k \in 1..(Len(s) - 1) : t[k] = IF k <= Len(a) THEN a[k] ELSE b[k - Len(a)]
    BY <1>4, <1>5, <2>1, Zenon
  <2>3. \A k \in 1..(Len(s) - 1) : t[k] = IF k <= i - 1 THEN a[k] ELSE b[k - (i - 1)]
    BY <1>2, <2>2, Zenon
  <2>4. DOMAIN t = 1..(Len(s) - 1)
    BY <2>2
  <2> QED BY <2>2, <2>3, <2>4, Zenon
<1>7. ASSUME NEW k \in 1..(Len(s) - 1) PROVE t[k] = IF k < i THEN s[k] ELSE s[k + 1]
  <2>1. CASE k < i
    BY <1>1, <1>2, <1>6, <2>1
  <2>2. CASE ~(k < i)
    <3>1. k - (i - 1) \in 1..(Len(s) - i) /\ i + (k - (i - 1)) = k + 1
      BY <1>1, <2>2
    <3>2. b[k - (i - 1)] = s[k + 1]
      BY <1>3, <3>1
    <3>3. ~(k <= i - 1) /\ k \in Nat
      BY <1>1, <2>2
    <3>4. t[k] = b[k - (i - 1)]
      BY <1>6, <3>3, Zenon
    <3> QED BY <2>2, <3>2, <3>4, Zenon
  <2> QED BY <2>1, <2>2
<1> QED BY <1>6, <1>7

------------------------------------------------------------------------------
(* IInv is inductive.                                                      *)

LEMMA InitInvariant == Init => IInv
<1> SUFFICES ASSUME Init PROVE IInv
  OBVIOUS
<1> PICK n \in 0..MaxLegacy : \E at \in [1..n -> {0, 1}] :
      rows = LegacyRows(at) /\ made = n
  BY DEF Init
<1> PICK at \in [1..n -> {0, 1}] : rows = LegacyRows(at) /\ made = n
  OBVIOUS
<1>1. Empty \in Seq(Contents) \ {Genesis}
  <2>1. <<0, 0, "recorded">> \in Contents
    BY BoundsAssumption DEF Contents, Texts
  <2> QED BY <2>1 DEF Empty, Genesis
<1>2. /\ rows \in Seq(Row) /\ Len(rows) = n
      /\ \A i \in 1..n : rows[i].id = i /\ rows[i].at = at[i]
  <2>1. rows = [i \in 1..n |-> [id |-> i, at |-> at[i], text |-> "recorded",
                                prev |-> Empty, hash |-> Empty]]
    BY DEF LegacyRows
  <2>2. \A i \in 1..n : [id |-> i, at |-> at[i], text |-> "recorded",
                          prev |-> Empty, hash |-> Empty] \in Row
    BY <1>1, BoundsAssumption DEF Row, Texts
  <2> QED BY <2>1, <2>2, BoundsAssumption
<1>0. /\ clock = 1 /\ marked = FALSE /\ lock = {} /\ tampered = FALSE
      /\ place = [c \in Callers |-> "idle"]
      /\ read = [c \in Callers |-> <<>>]
      /\ prev = [c \in Callers |-> <<>>]
  BY DEF Init, Genesis
<1>3. TypeOK
  <2>1. made \in 0..(MaxLegacy + MaxRows) /\ clock \in 0..MaxTime
    BY <1>0, BoundsAssumption
  <2>2. <<>> \in Seq(Row) /\ <<>> \in Seq(Contents)
    OBVIOUS
  <2>3. read \in [Callers -> Seq(Row)] /\ prev \in [Callers -> Seq(Contents)]
    BY <1>0, <2>2
  <2>4. lock \in SUBSET Callers /\ marked \in BOOLEAN /\ tampered \in BOOLEAN
    BY <1>0
  <2> QED BY <1>0, <1>2, <2>1, <2>3, <2>4 DEF TypeOK
<1>4. Coherent
  BY <1>0, <1>2
     DEF Coherent, Complete, LinkedOnceRebuilt, MarkedBeforeRecord, SelectedRows, HoldsLastHash
<1> QED BY <1>3, <1>4 DEF IInv

\* Steps that leave the rows and what was read of them alone.
LEMMA RowsUntouched ==
  ASSUME IInv,
         \/ \E c \in Callers : \/ Opens(c) \/ Marks(c) \/ OpenFails(c)
                               \/ CallerGoesOn(c) \/ RecordFails(c)
         \/ Tick
         \/ ClockSetBack
         \/ Restart
         \/ UNCHANGED vars
  PROVE  IInv'
<1> USE BoundsAssumption
    DEF IInv, TypeOK, Coherent, Untouched, Complete, LinkedOnceRebuilt,
        MarkedBeforeRecord, SelectedRows, HoldsLastHash, Moves, Genesis
<1>1. ASSUME NEW c \in Callers, Opens(c) PROVE IInv'
  BY <1>1 DEF Opens
<1>2. ASSUME NEW c \in Callers, Marks(c) PROVE IInv'
  BY <1>2 DEF Marks
<1>3. ASSUME NEW c \in Callers, OpenFails(c) PROVE IInv'
  BY <1>3 DEF OpenFails
<1>4. ASSUME NEW c \in Callers, CallerGoesOn(c) PROVE IInv'
  BY <1>4 DEF CallerGoesOn
<1>5. ASSUME NEW c \in Callers, RecordFails(c) PROVE IInv'
  BY <1>5 DEF RecordFails
<1>6. CASE Tick
  BY <1>6 DEF Tick
<1>7. CASE ClockSetBack
  BY <1>7 DEF ClockSetBack
<1>8. CASE Restart
  BY <1>8 DEF Restart
<1>9. CASE UNCHANGED vars
  BY <1>9 DEF vars
<1> QED BY <1>1, <1>2, <1>3, <1>4, <1>5, <1>6, <1>7, <1>8, <1>9

LEMMA SelectsPreserves ==
  ASSUME IInv, NEW c \in Callers, Selects(c)
  PROVE  IInv'
  BY DEF IInv, TypeOK, Coherent, Untouched, Complete, LinkedOnceRebuilt,
         MarkedBeforeRecord, SelectedRows, HoldsLastHash, Moves, Selects

\* The UPDATEs of a migration leave what the rows say.
LEMMA RebuildsKeeps ==
  ASSUME IInv, NEW c \in Callers, Rebuilds(c)
  PROVE  /\ ~tampered /\ tampered' = tampered /\ Len(rows') = Len(rows)
         /\ rows' \in Seq(Row) /\ DOMAIN rows' = DOMAIN rows
         /\ \A i \in DOMAIN rows : /\ rows'[i].id = rows[i].id
                                   /\ rows'[i].at = rows[i].at
                                   /\ Content(rows'[i]) = Content(rows[i])
         /\ Ordered(rows') => Ordered(rows)
<1>1. /\ rows \in Seq(Row) /\ read[c] \in Seq(Row) /\ place[c] = "rebuild"
      /\ rows' = Rechained(rows, read[c]) /\ tampered' = tampered
  BY DEF IInv, TypeOK, Rebuilds, Moves
<1>2. ~tampered
  BY <1>1 DEF IInv, Coherent, MarkedBeforeRecord
<1>3. /\ rows' \in Seq(Row) /\ Len(rows') = Len(rows)
      /\ \A i \in DOMAIN rows : /\ rows'[i].id = rows[i].id
                                /\ rows'[i].at = rows[i].at
                                /\ Content(rows'[i]) = Content(rows[i])
  BY <1>1, RechainedKeeps
<1>4. DOMAIN rows' = DOMAIN rows
  BY <1>1, <1>3
<1>5. Ordered(rows') => Ordered(rows)
  BY <1>3, <1>4 DEF Ordered
<1> QED BY <1>1, <1>2, <1>3, <1>4, <1>5

\* They link what it read, and change nothing if the log was linked already.
LEMMA RebuildsRows ==
  ASSUME IInv, NEW c \in Callers, Rebuilds(c), Ordered(rows)
  PROVE  /\ marked => rows' = rows
         /\ Linked(rows')
<1> USE DEF IInv, Coherent
<1>1. /\ rows \in Seq(Row) /\ read[c] \in Seq(Row)
      /\ place[c] = "rebuild" /\ rows' = Rechained(rows, read[c])
  BY DEF TypeOK, Rebuilds, Moves
<1>2. ~tampered /\ SelectedRows(c)
  BY <1>1 DEF MarkedBeforeRecord
<1>3. rows' = Relinked(rows, Len(read[c]))
  <2>1. \A i \in DOMAIN rows : rows[i].id = i
    BY <1>2 DEF Complete
  <2>2. /\ Len(read[c]) <= Len(rows)
        /\ \A i \in DOMAIN read[c] : Content(read[c][i]) = Content(rows[i])
    BY <1>1, <1>2 DEF SelectedRows
  <2>3. Ordered(read[c])
    <3>1. \A i \in DOMAIN read[c] : i \in DOMAIN rows /\ read[c][i].at = rows[i].at
      BY <1>1, <2>2 DEF Content
    <3> QED BY <3>1 DEF Ordered
  <2> QED BY <1>1, <2>1, <2>2, <2>3, RechainedRows
<1>4. Len(read[c]) \in Nat
  BY <1>1
<1>5. CASE marked
  <2>1. Linked(rows)
    BY <1>2, <1>5 DEF LinkedOnceRebuilt, Untouched
  <2>2. Relinked(rows, Len(read[c])) = rows
    BY <1>1, <1>4, <2>1, RelinkedRows
  <2> QED BY <1>3, <2>1, <2>2
<1>6. CASE ~marked
  <2>1. Len(read[c]) >= Len(rows)
    BY <1>1, <1>2, <1>6 DEF SelectedRows
  <2>2. Linked(Relinked(rows, Len(read[c])))
    BY <1>1, <1>4, <2>1, RelinkedRows
  <2> QED BY <1>3, <1>6, <2>2
<1> QED BY <1>5, <1>6

LEMMA RebuildsPreserves ==
  ASSUME IInv, NEW c \in Callers, Rebuilds(c)
  PROVE  IInv'
<1>0. /\ IInv /\ rows \in Seq(Row) /\ ~tampered
      /\ Ordered(rows') => Ordered(rows) /\ Linked(rows')
  BY RebuildsKeeps, RebuildsRows DEF IInv, TypeOK
<1>1. /\ rows' \in Seq(Row) /\ Len(rows') = Len(rows) /\ DOMAIN rows' = DOMAIN rows
      /\ \A i \in DOMAIN rows : /\ rows'[i].id = rows[i].id
                                /\ rows'[i].at = rows[i].at
                                /\ Content(rows'[i]) = Content(rows[i])
  BY RebuildsKeeps
<1>3. TypeOK'
  BY <1>0, <1>1 DEF IInv, TypeOK, Rebuilds, Moves
<1>5. Complete'
  BY <1>0, <1>1 DEF IInv, Coherent, Complete, Rebuilds
<1>6. LinkedOnceRebuilt'
  BY <1>0 DEF LinkedOnceRebuilt, Untouched
<1>7. MarkedBeforeRecord'
  BY <1>0 DEF IInv, TypeOK, Coherent, MarkedBeforeRecord, Rebuilds, Moves
<1>8. ASSUME NEW k \in Callers PROVE SelectedRows(k)' /\ HoldsLastHash(k)'
  <2>1. SelectedRows(k) /\ HoldsLastHash(k) /\ lock = {}
    BY <1>0 DEF IInv, Coherent, Rebuilds
  <2>2. place'[k] = "rebuild" => place[k] = "rebuild"
    BY <1>0 DEF IInv, TypeOK, Rebuilds, Moves
  <2>3. place'[k] # "insert"
    BY <1>0, <2>1 DEF IInv, TypeOK, HoldsLastHash, Rebuilds, Moves
  <2>4. SelectedRows(k)'
    <3> SUFFICES ASSUME place'[k] = "rebuild" PROVE SelectedRows(k)'
      BY DEF SelectedRows
    <3>1. /\ Len(read[k]) <= Len(rows) /\ (~marked => Len(read[k]) = Len(rows))
          /\ \A i \in DOMAIN read[k] : Content(read[k][i]) = Content(rows[i])
          /\ read[k] \in Seq(Row)
      BY <1>0, <2>1, <2>2 DEF IInv, TypeOK, SelectedRows
    <3>2. \A i \in DOMAIN read[k] : Content(read[k][i]) = Content(rows'[i])
      <4>1. \A i \in DOMAIN read[k] : i \in DOMAIN rows
        BY <1>0, <3>1
      <4> QED BY <1>1, <3>1, <4>1
    <3> QED BY <1>1, <3>1, <3>2 DEF SelectedRows, Rebuilds
  <2> QED BY <2>3, <2>4 DEF HoldsLastHash
<1> QED BY <1>3, <1>5, <1>6, <1>7, <1>8 DEF IInv, Coherent

LEMMA BeginsPreserves ==
  ASSUME IInv, NEW c \in Callers, RecordBegins(c)
  PROVE  IInv'
<1>1. rows \in Seq(Row) /\ marked /\ lock = {}
  BY DEF IInv, TypeOK, Coherent, MarkedBeforeRecord, RecordBegins, Moves
<1>2. /\ LastHash(rows) \in Seq(Contents)
      /\ Untouched => LastHash(rows) = Prefix(rows, Len(rows))
  <2>1. \A i \in DOMAIN rows : rows[i] \in Row
    BY <1>1
  <2>2. CASE rows = <<>>
    BY <2>2 DEF LastHash, Genesis, Prefix
  <2>3. CASE rows # <<>>
    <3> DEFINE last == Nth(rows, Len(rows))
    <3>1. last \in DOMAIN rows
      <4>1. Len(rows) \in 1..Len(rows) /\ DOMAIN rows = 1..Len(rows)
        BY <1>1, <2>3
      <4> QED BY <1>1, <4>1, NthRow
    <3>2. LastHash(rows) \in {Genesis, rows[last].hash}
      BY DEF LastHash
    <3> HIDE DEF last
    <3>3. LastHash(rows) \in Seq(Contents)
      <4>1. rows[last] \in Row
        BY <2>1, <3>1
      <4>2. rows[last].hash \in Seq(Contents)
        BY <4>1 DEF Row
      <4>3. Genesis \in Seq(Contents)
        BY DEF Genesis
      <4> QED BY <3>2, <4>2, <4>3
    <3>4. Untouched => Linked(rows)
      BY <1>1 DEF IInv, Coherent, LinkedOnceRebuilt
    <3>5. \A i \in DOMAIN rows : rows[i].id # 0
      BY <2>1, BoundsAssumption DEF Row
    <3> QED BY <1>1, <3>3, <3>4, <3>5, LastHashInOrder DEF Untouched
  <2> QED BY <2>2, <2>3
<1>3. \A k \in Callers : place[k] # "insert"
  BY <1>1 DEF IInv, Coherent, HoldsLastHash
<1>4. TypeOK'
  BY <1>2 DEF IInv, TypeOK, RecordBegins, Moves
<1>5. Coherent'
  BY <1>1, <1>2, <1>3
     DEF IInv, TypeOK, Coherent, Untouched, Complete, LinkedOnceRebuilt,
         MarkedBeforeRecord, SelectedRows, HoldsLastHash, RecordBegins, Moves
<1> QED BY <1>4, <1>5 DEF IInv

LEMMA InsertsPreserves ==
  ASSUME IInv, NEW c \in Callers, RecordInserts(c)
  PROVE  IInv'
<1> DEFINE row == NewRow(made + 1, prev[c])
<1>1. /\ rows \in Seq(Row) /\ prev[c] \in Seq(Contents) /\ marked
      /\ place[c] = "insert" /\ lock = {c} /\ rows' = Append(rows, row)
      /\ made' = made + 1 /\ made < MaxRows /\ made \in Nat /\ clock \in 0..MaxTime
  BY BoundsAssumption
     DEF IInv, TypeOK, Coherent, HoldsLastHash, MarkedBeforeRecord, RecordInserts, Moves
<1>2. /\ row \in Row /\ row.id = made + 1 /\ row.at = clock
      /\ row.prev = prev[c] /\ row.hash = HashOf(prev[c], row)
  <2>1. <<made + 1, clock, "recorded">> \in Contents
    BY <1>1, BoundsAssumption DEF Contents, Texts
  <2>2. /\ Append(prev[c], <<made + 1, clock, "recorded">>) \in Seq(Contents)
        /\ Append(prev[c], <<made + 1, clock, "recorded">>) # <<>>
    BY <1>1, <2>1
  <2>3. /\ row.id = made + 1 /\ row.at = clock /\ row.text = "recorded"
        /\ row.prev = prev[c] /\ row.hash = Append(prev[c], <<made + 1, clock, "recorded">>)
    BY DEF NewRow
  <2>4. made + 1 \in 1..(MaxLegacy + MaxRows)
    BY <1>1, BoundsAssumption
  <2>5. row \in Row
    BY <1>1, <2>2, <2>4 DEF NewRow, Row, Texts, Genesis
  <2> QED BY <2>3, <2>5 DEF HashOf, Content, Joined
<1> HIDE DEF row
<1>3. /\ rows' \in Seq(Row) /\ Len(rows') = Len(rows) + 1
      /\ rows'[Len(rows) + 1] = row /\ \A i \in DOMAIN rows : rows'[i] = rows[i]
      /\ DOMAIN rows' = 1..(Len(rows) + 1) /\ DOMAIN rows = 1..Len(rows)
  BY <1>1, <1>2
<1>4. TypeOK'
  <2>1. made' \in 0..(MaxLegacy + MaxRows)
    BY <1>1, BoundsAssumption
  <2>2. prev' \in [Callers -> Seq(Contents)]
    <3>1. Genesis \in Seq(Contents) BY DEF Genesis
    <3> QED BY <3>1 DEF IInv, TypeOK, RecordInserts
  <2> QED BY <1>3, <2>1, <2>2 DEF IInv, TypeOK, RecordInserts, Moves
<1>5. Ordered(rows') => Ordered(rows)
  <2>1. \A i \in DOMAIN rows : i \in DOMAIN rows' /\ rows'[i].at = rows[i].at
    BY <1>1, <1>3
  <2> QED BY <2>1 DEF Ordered
<1>6. Complete'
  <2> SUFFICES ASSUME ~tampered'
               PROVE  made' = Len(rows') /\ \A i \in DOMAIN rows' : rows'[i].id = i
    BY DEF Complete
  <2>1. made = Len(rows) /\ \A i \in DOMAIN rows : rows[i].id = i
    BY DEF IInv, Coherent, Complete, RecordInserts
  <2> QED BY <1>1, <1>2, <1>3, <2>1
<1>7. LinkedOnceRebuilt'
  <2> SUFFICES ASSUME Untouched PROVE Linked(rows')
    BY <1>5 DEF LinkedOnceRebuilt, Untouched, RecordInserts
  <2>1. Linked(rows) /\ prev[c] = Prefix(rows, Len(rows))
    BY <1>1 DEF IInv, Coherent, LinkedOnceRebuilt, HoldsLastHash
  <2> QED BY <1>1, <1>2, <2>1, AppendedRow
<1>8. MarkedBeforeRecord'
  BY <1>1 DEF IInv, TypeOK, Coherent, MarkedBeforeRecord, RecordInserts, Moves
<1>9. ASSUME NEW k \in Callers PROVE SelectedRows(k)' /\ HoldsLastHash(k)'
  <2>1. place'[k] # "insert"
    BY <1>1 DEF IInv, TypeOK, Coherent, HoldsLastHash, RecordInserts, Moves
  <2>2. SelectedRows(k)'
    <3> SUFFICES ASSUME place'[k] = "rebuild" PROVE SelectedRows(k)'
      BY DEF SelectedRows
    <3>1. place[k] = "rebuild"
      BY <1>1 DEF IInv, TypeOK, RecordInserts, Moves
    <3>2. /\ Len(read[k]) <= Len(rows) /\ read[k] \in Seq(Row)
          /\ \A i \in DOMAIN read[k] : Content(read[k][i]) = Content(rows[i])
      BY <3>1 DEF IInv, TypeOK, Coherent, SelectedRows
    <3>3. \A i \in DOMAIN read[k] : i \in DOMAIN rows
      BY <1>1, <3>2
    <3>4. \A i \in DOMAIN read[k] : Content(read[k][i]) = Content(rows'[i])
      BY <1>3, <3>2, <3>3
    <3>5. read' = read /\ marked' = marked
      BY DEF RecordInserts
    <3>6. Len(read[k]) <= Len(rows')
      BY <1>1, <1>3, <3>2
    <3> QED BY <1>1, <3>2, <3>4, <3>5, <3>6 DEF SelectedRows
  <2> QED BY <2>1, <2>2 DEF HoldsLastHash
<1> QED BY <1>4, <1>6, <1>7, <1>8, <1>9 DEF IInv, Coherent

\* Tampering meets no migration.
LEMMA TamperingPreserves ==
  ASSUME IInv, RowEdited \/ RowDeleted
  PROVE  IInv'
<1>1. rows \in Seq(Row) /\ \A i \in DOMAIN rows : rows[i] \in Row
  BY DEF IInv, TypeOK
<1>2. /\ Settled /\ tampered' = TRUE
      /\ UNCHANGED <<clock, made, marked, lock, place, read, prev>>
  BY DEF RowEdited, RowDeleted
<1>3. rows' \in Seq(Row)
  <2>1. CASE RowEdited
    <3>1. PICK i \in DOMAIN rows : rows' = [rows EXCEPT ![i].text = "edited"]
      BY <2>1 DEF RowEdited
    <3>2. \A k \in DOMAIN rows : rows'[k] \in Row
      BY <1>1, <3>1 DEF Row, Texts
    <3> QED BY <1>1, <3>1, <3>2
  <2>2. CASE RowDeleted
    <3>1. PICK i \in DOMAIN rows :
            rows' = SubSeq(rows, 1, i - 1) \o SubSeq(rows, i + 1, Len(rows))
      BY <2>2 DEF RowDeleted
    <3> QED BY <1>1, <3>1, DeletedRow
  <2> QED BY <2>1, <2>2
<1>4. TypeOK'
  BY <1>2, <1>3 DEF IInv, TypeOK
<1>5. Complete' /\ LinkedOnceRebuilt'
  BY <1>2 DEF Complete, LinkedOnceRebuilt, Untouched
<1>6. MarkedBeforeRecord'
  BY <1>2 DEF IInv, Coherent, MarkedBeforeRecord, Settled
<1>7. ASSUME NEW k \in Callers PROVE SelectedRows(k)' /\ HoldsLastHash(k)'
  BY <1>2 DEF IInv, Coherent, SelectedRows, HoldsLastHash, Settled
<1> QED BY <1>4, <1>5, <1>6, <1>7 DEF IInv, Coherent

\* Fields that join to the same text: nothing that is hashed changes.
LEMMA RejoinedKeeps ==
  ASSUME rows \in Seq(Row), RowRejoined
  PROVE  /\ rows' \in Seq(Row) /\ Len(rows') = Len(rows) /\ DOMAIN rows' = DOMAIN rows
         /\ \A i \in DOMAIN rows :
              /\ rows'[i].id = rows[i].id /\ rows'[i].at = rows[i].at
              /\ rows'[i].prev = rows[i].prev /\ rows'[i].hash = rows[i].hash
              /\ Joined(rows'[i].text) = Joined(rows[i].text)
              /\ Content(rows'[i]) = Content(rows[i])
<1>1. PICK i \in DOMAIN rows, text \in Texts :
        Joined(text) = Joined(rows[i].text) /\ rows' = [rows EXCEPT ![i].text = text]
  BY DEF RowRejoined
<1>2. \A k \in DOMAIN rows : rows[k] \in Row
  OBVIOUS
<1>3. \A k \in DOMAIN rows :
        /\ rows'[k] \in Row
        /\ rows'[k].id = rows[k].id /\ rows'[k].at = rows[k].at
        /\ rows'[k].prev = rows[k].prev /\ rows'[k].hash = rows[k].hash
        /\ Joined(rows'[k].text) = Joined(rows[k].text)
  BY <1>1, <1>2 DEF Row
<1>4. rows' \in Seq(Row) /\ Len(rows') = Len(rows) /\ DOMAIN rows' = DOMAIN rows
  BY <1>1, <1>3
<1>5. \A k \in DOMAIN rows : Content(rows'[k]) = Content(rows[k])
  BY <1>3 DEF Content
<1> QED BY <1>3, <1>4, <1>5

LEMMA RejoinPreserves ==
  ASSUME IInv, RowRejoined
  PROVE  IInv'
<1>1. rows \in Seq(Row)
  BY DEF IInv, TypeOK
<1>2. /\ rows' \in Seq(Row) /\ Len(rows') = Len(rows) /\ DOMAIN rows' = DOMAIN rows
      /\ \A i \in DOMAIN rows :
           /\ rows'[i].id = rows[i].id /\ rows'[i].at = rows[i].at
           /\ rows'[i].prev = rows[i].prev /\ rows'[i].hash = rows[i].hash
           /\ Content(rows'[i]) = Content(rows[i])
  BY <1>1, RejoinedKeeps
<1>3. lock = {} /\ UNCHANGED <<clock, made, marked, lock, place, read, prev, tampered>>
  BY DEF RowRejoined, Settled
<1>4. TypeOK'
  BY <1>2, <1>3 DEF IInv, TypeOK
<1>5. Complete' /\ MarkedBeforeRecord'
  BY <1>2, <1>3 DEF IInv, Coherent, Complete, MarkedBeforeRecord
<1>6. LinkedOnceRebuilt'
  <2> SUFFICES ASSUME Ordered(rows'), Linked(rows) PROVE Linked(rows')
    <3>1. Ordered(rows') => Ordered(rows)
      BY <1>2 DEF Ordered
    <3> QED BY <1>3, <3>1 DEF IInv, Coherent, LinkedOnceRebuilt, Untouched
  <2> SUFFICES ASSUME NEW i \in DOMAIN rows
               PROVE  rows'[i].prev = Prefix(rows', i - 1) /\ rows'[i].hash = Prefix(rows', i)
    BY <1>2 DEF Linked
  <2>1. \A k \in 1..i : Content(rows[k]) = Content(rows'[k])
    BY <1>1, <1>2
  <2>2. i \in Nat /\ i - 1 \in Nat
    BY <1>1
  <2>3. Prefix(rows, i) = Prefix(rows', i) /\ Prefix(rows, i - 1) = Prefix(rows', i - 1)
    BY <2>1, <2>2 DEF Prefix
  <2> QED BY <1>2, <2>3 DEF Linked
<1>7. ASSUME NEW k \in Callers PROVE SelectedRows(k)' /\ HoldsLastHash(k)'
  <2>1. place'[k] # "insert"
    BY <1>3 DEF IInv, Coherent, HoldsLastHash
  <2>2. SelectedRows(k)'
    <3> SUFFICES ASSUME place'[k] = "rebuild" PROVE SelectedRows(k)'
      BY DEF SelectedRows
    <3>1. /\ Len(read[k]) <= Len(rows) /\ (~marked => Len(read[k]) = Len(rows))
          /\ \A i \in DOMAIN read[k] : Content(read[k][i]) = Content(rows[i])
          /\ read[k] \in Seq(Row)
      BY <1>3 DEF IInv, TypeOK, Coherent, SelectedRows
    <3>2. \A i \in DOMAIN read[k] : i \in DOMAIN rows
      BY <1>1, <3>1
    <3>3. \A i \in DOMAIN read[k] : Content(read[k][i]) = Content(rows'[i])
      BY <1>2, <3>1, <3>2
    <3> QED BY <1>2, <1>3, <3>1, <3>3 DEF SelectedRows
  <2> QED BY <2>1, <2>2 DEF HoldsLastHash
<1> QED BY <1>4, <1>5, <1>6, <1>7 DEF IInv, Coherent

LEMMA StepPreserves == IInv /\ [Next]_vars => IInv'
<1> SUFFICES ASSUME IInv, [Next]_vars PROVE IInv'
  OBVIOUS
<1>1. CASE \E c \in Callers : CallStep(c)
  BY <1>1, RowsUntouched, SelectsPreserves, RebuildsPreserves, BeginsPreserves,
     InsertsPreserves DEF CallStep
<1>2. CASE Tick \/ ClockSetBack \/ Restart \/ UNCHANGED vars
  BY <1>2, RowsUntouched
<1>3. CASE RowEdited \/ RowDeleted
  BY <1>3, TamperingPreserves
<1> QED BY <1>1, <1>2, <1>3, RejoinPreserves DEF Next

------------------------------------------------------------------------------
(* The results.                                                            *)

THEOREM Invariance == Spec => []IInv
<1>1. Init => IInv
  BY InitInvariant
<1>2. IInv /\ [Next]_vars => IInv'
  BY StepPreserves
<1> QED BY <1>1, <1>2, PTL DEF Spec

\* Every variable keeps its type, for any number of callers and rows.
THEOREM TypeCorrect == Spec => []TypeOK
<1>1. IInv => TypeOK
  BY DEF IInv
<1> QED BY <1>1, Invariance, PTL

\* A log that nobody touched verifies once its migration is marked, as long as
\* its rows are in order of time: no interleaving of record, migrations and deaths
\* of the process breaks it.
THEOREM LogVerifies == Spec => []UntouchedVerifies
<1>1. IInv => UntouchedVerifies
  <2> SUFFICES ASSUME IInv, marked, ~tampered, Ordered(rows) PROVE Intact(rows)
    BY DEF UntouchedVerifies
  <2>1. rows \in Seq(Row) /\ Linked(rows)
    BY DEF IInv, TypeOK, Coherent, LinkedOnceRebuilt, Untouched
  <2> QED BY <2>1, LinkedIsIntact
<1> QED BY <1>1, Invariance, PTL

\* What the rows of an untouched log join to and their links never change, and no
\* row is lost, although a call may still be migrating with what it read long ago.
THEOREM LogOnlyGrows == Spec => RecordedRowsStay
<1> DEFINE Stays == marked /\ ~tampered' /\ Ordered(rows)
                      => /\ Len(rows') >= Len(rows)
                         /\ \A i \in DOMAIN rows :
                              /\ Content(rows'[i]) = Content(rows[i])
                              /\ rows'[i].prev = rows[i].prev /\ rows'[i].hash = rows[i].hash
<1>1. IInv /\ [Next]_vars => Stays
  <2> SUFFICES ASSUME IInv, [Next]_vars, marked, ~tampered', Ordered(rows) PROVE Stays
    OBVIOUS
  <2>0. rows \in Seq(Row) /\ Len(rows) \in Nat
    BY DEF IInv, TypeOK
  <2>1. ASSUME NEW c \in Callers, Rebuilds(c) PROVE rows' = rows
    BY <2>1, RebuildsRows
  <2>2. ASSUME NEW c \in Callers, RecordInserts(c)
        PROVE  Len(rows') = Len(rows) + 1 /\ \A i \in DOMAIN rows : rows'[i] = rows[i]
    BY <2>0, <2>2 DEF RecordInserts
  <2>3. ASSUME NEW c \in Callers, CallStep(c), ~Rebuilds(c), ~RecordInserts(c)
        PROVE  rows' = rows
    BY <2>3 DEF CallStep, Opens, Selects, Marks, OpenFails, CallerGoesOn,
                RecordBegins, RecordFails
  <2>4. ASSUME Tick \/ ClockSetBack \/ Restart \/ UNCHANGED vars PROVE rows' = rows
    BY <2>4 DEF Tick, ClockSetBack, Restart, vars
  <2>5. CASE RowEdited \/ RowDeleted
    BY <2>5 DEF RowEdited, RowDeleted
  <2>6. ASSUME RowRejoined PROVE Stays
    BY <2>0, <2>6, RejoinedKeeps
  <2> QED BY <2>0, <2>1, <2>2, <2>3, <2>4, <2>5, <2>6 DEF Next
<1>2. Spec => [][Stays]_vars
  BY <1>1, Invariance, PTL DEF Spec
<1> QED BY <1>2 DEF RecordedRowsStay
------------------------------------------------------------------------------
(* Tampering.  Hashes of untouched rows get longer by one from row to row, *)
(* and each ends with what its row recorded.  A row that is deleted leaves *)
(* a gap in the lengths, which no later deletion closes; one that is       *)
(* edited does not end its hash any more.  A row recorded after the clock  *)
(* was set back hides neither: its hash is longer than that of a row the   *)
(* chain should have after it.                                             *)

Length(s, i) == IF i = 0 THEN 0 ELSE Len(s[i].hash)

Growing(s) == \A i, k \in 0..Len(s) : i < k => Length(s, i) < Length(s, k)

Seal(row) == <<row.id, row.at, "recorded">>
Sealed(s) == \A i \in 1..Len(s) : s[i].hash[Len(s[i].hash)] = Seal(s[i])

Gap(s) == \E i \in 1..Len(s) : Length(s, i - 1) + 1 < Length(s, i)
Edited(s) == \E i \in 1..Len(s) : s[i].text = "edited"

Scarred(s) == Growing(s) /\ Sealed(s) /\ (Gap(s) \/ Edited(s))

Inverted(s) == \E i, k \in DOMAIN s : Before(s, i, k) /\ Length(s, k) <= Length(s, i)

TInv ==
  /\ ~tampered => \A i \in 1..Len(rows) : Joined(rows[i].text) = "recorded"
  /\ tampered => IF Ordered(rows) THEN Scarred(rows) ELSE Inverted(rows)
  /\ \A c \in Callers : tampered /\ place[c] = "insert" => prev[c] = LastHash(rows)

LEMMA RowFacts ==
  ASSUME NEW s \in Seq(Row)
  PROVE  /\ Len(s) \in Nat /\ DOMAIN s = 1..Len(s)
         /\ \A i \in 1..Len(s) :
              /\ s[i] \in Row /\ s[i].hash \in Seq(Contents)
              /\ Len(s[i].hash) \in Nat /\ Len(s[i].hash) > 0
              /\ s[i].id \in Nat /\ s[i].id > 0
         /\ \A i \in 0..Len(s) : Length(s, i) \in Nat
<1>1. Len(s) \in Nat /\ DOMAIN s = 1..Len(s)
  OBVIOUS
<1>2. ASSUME NEW i \in 1..Len(s)
      PROVE  /\ s[i] \in Row /\ s[i].hash \in Seq(Contents)
             /\ Len(s[i].hash) \in Nat /\ Len(s[i].hash) > 0
             /\ s[i].id \in Nat /\ s[i].id > 0
  <2>1. s[i] \in Row
    OBVIOUS
  <2>2. s[i].hash \in Seq(Contents) /\ s[i].hash # <<>> /\ s[i].id \in 1..(MaxLegacy + MaxRows)
    BY <2>1 DEF Row, Genesis
  <2>3. Len(s[i].hash) \in Nat /\ Len(s[i].hash) # 0
    BY <2>2
  <2> QED
    BY <2>1, <2>2, <2>3, BoundsAssumption
<1> QED
  BY <1>1, <1>2 DEF Length

\* The hashes of a linked log whose rows join to what was recorded.
LEMMA LinkedIsSealed ==
  ASSUME NEW s \in Seq(Row), Linked(s),
         \A i \in 1..Len(s) : Joined(s[i].text) = "recorded"
  PROVE  Growing(s) /\ Sealed(s)
<1>1. ASSUME NEW i \in 1..Len(s) PROVE Len(s[i].hash) = i /\ s[i].hash[i] = Seal(s[i])
  <2>1. s[i].hash = Prefix(s, i)
    BY DEF Linked
  <2> QED
    BY <2>1 DEF Prefix, Content, Seal
<1>2. \A i \in 0..Len(s) : Length(s, i) = i
  BY <1>1 DEF Length
<1> QED
  BY <1>1, <1>2, RowFacts DEF Growing, Sealed

\* Whether or not it is the first time: what is tampered with is growing and sealed.
LEMMA BeforeTampering ==
  ASSUME IInv, TInv, Settled
  PROVE  Growing(rows) /\ Sealed(rows)
<1>1. rows \in Seq(Row) /\ marked /\ Ordered(rows)
  BY DEF IInv, TypeOK, Settled
<1>2. CASE tampered
  BY <1>1, <1>2 DEF TInv, Scarred
<1>3. CASE ~tampered
  BY <1>1, <1>3, LinkedIsSealed DEF IInv, Coherent, LinkedOnceRebuilt, Untouched, TInv
<1> QED
  BY <1>2, <1>3

LEMMA EditScars ==
  ASSUME IInv, TInv, RowEdited
  PROVE  Scarred(rows)'
<1>1. rows \in Seq(Row) /\ Growing(rows) /\ Sealed(rows)
  BY BeforeTampering DEF IInv, TypeOK, RowEdited
<1>2. PICK i \in DOMAIN rows : rows' = [rows EXCEPT ![i].text = "edited"]
  BY DEF RowEdited
<1>3. /\ Len(rows') = Len(rows) /\ i \in 1..Len(rows) /\ rows'[i].text = "edited"
      /\ \A k \in 1..Len(rows) :
           rows'[k].hash = rows[k].hash /\ rows'[k].id = rows[k].id /\ rows'[k].at = rows[k].at
  <2>1. \A k \in DOMAIN rows : rows[k] \in Row
    BY <1>1
  <2>2. /\ rows'[i].text = "edited"
        /\ \A k \in DOMAIN rows :
             rows'[k].hash = rows[k].hash /\ rows'[k].id = rows[k].id /\ rows'[k].at = rows[k].at
    BY <1>2, <2>1 DEF Row
  <2>3. Len(rows') = Len(rows) /\ DOMAIN rows = 1..Len(rows)
    BY <1>1, <1>2
  <2> QED
    BY <2>2, <2>3
<1>4. \A k \in 0..Len(rows) : Length(rows', k) = Length(rows, k)
  BY <1>3 DEF Length
<1>5. Growing(rows')
  BY <1>1, <1>3, <1>4 DEF Growing
<1>6. Sealed(rows')
  BY <1>1, <1>3 DEF Sealed, Seal
<1>7. Edited(rows')
  BY <1>3 DEF Edited
<1> QED
  BY <1>5, <1>6, <1>7 DEF Scarred

LEMMA DeletionScars ==
  ASSUME IInv, TInv, RowDeleted
  PROVE  Scarred(rows)'
<1>1. rows \in Seq(Row) /\ Ordered(rows) /\ Growing(rows) /\ Sealed(rows)
  BY BeforeTampering DEF IInv, TypeOK, RowDeleted, Settled
<1>2. PICK i \in DOMAIN rows :
        /\ Rank(rows, i) < Len(rows)
        /\ rows' = SubSeq(rows, 1, i - 1) \o SubSeq(rows, i + 1, Len(rows))
  BY DEF RowDeleted
<1>3. i \in 1..(Len(rows) - 1) /\ Len(rows) \in Nat
  BY <1>1, <1>2, RankInOrder, RowFacts
<1>4. /\ rows' \in Seq(Row) /\ Len(rows') = Len(rows) - 1
      /\ \A k \in 1..Len(rows') : rows'[k] = IF k < i THEN rows[k] ELSE rows[k + 1]
  <2>1. /\ rows' \in Seq(Row) /\ Len(rows') = Len(rows) - 1
        /\ \A k \in DOMAIN rows' : rows'[k] = IF k < i THEN rows[k] ELSE rows[k + 1]
    <3>1. rows' = SubSeq(rows, 1, i - 1) \o SubSeq(rows, i + 1, Len(rows))
      BY <1>2
    <3> QED
      BY <1>1, <3>1, DeletedRow
  <2> QED
    BY <2>1, RowFacts
<1>5. \A k \in 0..Len(rows') :
        Length(rows', k) = IF k < i THEN Length(rows, k) ELSE Length(rows, k + 1)
  BY <1>3, <1>4 DEF Length
<1>6. \A k \in 0..Len(rows) : Length(rows, k) \in Nat
  BY <1>1, RowFacts
<1>7. \A j, k \in 0..Len(rows) : j < k => Length(rows, j) < Length(rows, k)
  BY <1>1 DEF Growing
<1>8. Length(rows, i - 1) < Length(rows, i) /\ Length(rows, i) < Length(rows, i + 1)
  <2>1. /\ i - 1 \in 0..Len(rows) /\ i \in 0..Len(rows) /\ i + 1 \in 0..Len(rows)
        /\ i - 1 < i /\ i < i + 1
    BY <1>3
  <2> QED
    BY <1>7, <2>1
<1>9. Gap(rows')
  <2>1. /\ i \in 1..Len(rows') /\ i - 1 \in 0..Len(rows') /\ i - 1 < i
        /\ i \in 0..Len(rows') /\ ~(i < i)
        /\ i - 1 \in 0..Len(rows) /\ i \in 0..Len(rows) /\ i + 1 \in 0..Len(rows)
    BY <1>3, <1>4
  <2>2. Length(rows', i - 1) = Length(rows, i - 1) /\ Length(rows', i) = Length(rows, i + 1)
    BY <1>5, <2>1
  <2>3. /\ Length(rows, i - 1) \in Nat /\ Length(rows, i) \in Nat
        /\ Length(rows, i + 1) \in Nat
    BY <1>6, <2>1
  <2>4. Length(rows', i - 1) + 1 < Length(rows', i)
    BY <1>8, <2>2, <2>3
  <2> QED
    BY <2>1, <2>4 DEF Gap
<1>10. Growing(rows')
  <2> DEFINE old(k) == IF k < i THEN k ELSE k + 1
  <2> SUFFICES ASSUME NEW j \in 0..Len(rows'), NEW k \in 0..Len(rows'), j < k
               PROVE  Length(rows', j) < Length(rows', k)
    BY DEF Growing
  <2>1. old(j) \in 0..Len(rows) /\ old(k) \in 0..Len(rows) /\ old(j) < old(k)
    BY <1>3, <1>4
  <2>2. Length(rows', j) = Length(rows, old(j)) /\ Length(rows', k) = Length(rows, old(k))
    BY <1>5
  <2> HIDE DEF old
  <2> QED
    BY <1>7, <2>1, <2>2
<1>11. Sealed(rows')
  <2> SUFFICES ASSUME NEW k \in 1..Len(rows')
               PROVE  rows'[k].hash[Len(rows'[k].hash)] = Seal(rows'[k])
    BY DEF Sealed
  <2>1. PICK m \in 1..Len(rows) : rows'[k] = rows[m]
    BY <1>3, <1>4
  <2> QED
    BY <1>1, <2>1 DEF Sealed
<1> QED
  BY <1>9, <1>10, <1>11 DEF Scarred

\* A new row hides nothing: it is linked to the last one.
LEMMA InsertKeepsScars ==
  ASSUME IInv, TInv, tampered, NEW c \in Callers, RecordInserts(c), Ordered(rows)
  PROVE  /\ Scarred(rows)'
         /\ ~Ordered(rows)' => Inverted(rows)'
<1> DEFINE row == NewRow(made + 1, prev[c])
           n == Len(rows)
<1>1. /\ rows \in Seq(Row) /\ prev[c] = LastHash(rows) /\ prev[c] \in Seq(Contents)
      /\ Scarred(rows) /\ rows' = Append(rows, row)
  BY DEF IInv, TypeOK, TInv, RecordInserts, Moves
<1>2. n \in Nat /\ Len(rows') = n + 1 /\ rows'[n + 1] = row
      /\ \A k \in 1..n : rows'[k] = rows[k]
  BY <1>1
<1>3. Len(prev[c]) \in Nat /\ Len(prev[c]) = Length(rows, n)
  <2>1. CASE rows = <<>>
    BY <1>1, <2>1 DEF LastHash, Genesis, Length
  <2>2. CASE rows # <<>>
    <3>1. n \in 1..n /\ n # 0
      BY <1>1, <1>2, <2>2
    <3>2. Nth(rows, n) = n
      BY <1>1, <3>1, NthInOrder
    <3>3. rows[n].hash # Empty
      <4>1. rows[n].hash[Len(rows[n].hash)] = <<rows[n].id, rows[n].at, "recorded">>
        BY <1>1, <3>1 DEF Scarred, Sealed, Seal
      <4>2. rows[n].id # 0
        BY <1>1, <3>1, RowFacts
      <4> SUFFICES ASSUME rows[n].hash = <<<<0, 0, "recorded">>>> PROVE FALSE
        BY DEF Empty
      <4>3. rows[n].hash[Len(rows[n].hash)] = <<0, 0, "recorded">>
        OBVIOUS
      <4> QED
        BY <4>1, <4>2, <4>3
    <3> QED
      BY <1>1, <2>2, <3>1, <3>2, <3>3 DEF LastHash, Length
  <2> QED
    BY <2>1, <2>2
<1>4. /\ Len(row.hash) = Length(rows, n) + 1
      /\ row.hash[Len(row.hash)] = Seal(row)
  <2>1. row.hash = Append(prev[c], <<made + 1, clock, "recorded">>)
        /\ row.id = made + 1 /\ row.at = clock
    BY DEF NewRow
  <2> QED
    BY <1>1, <1>3, <2>1 DEF Seal
<1>5. /\ \A k \in 0..n : Length(rows', k) = Length(rows, k)
      /\ Length(rows', n + 1) = Length(rows, n) + 1
  BY <1>2, <1>4 DEF Length
<1>6. \A k \in 0..n : Length(rows, k) \in Nat
  BY <1>1, RowFacts
<1>7. Growing(rows')
  <2> SUFFICES ASSUME NEW j \in 0..(n + 1), NEW k \in 0..(n + 1), j < k
               PROVE  Length(rows', j) < Length(rows', k)
    BY <1>2 DEF Growing
  <2>1. j \in 0..n /\ n \in 0..n
    BY <1>2
  <2>2. CASE k \in 0..n
    BY <1>1, <1>5, <2>1, <2>2 DEF Scarred, Growing
  <2>3. CASE k = n + 1
    <3>1. Length(rows, j) <= Length(rows, n)
      <4>1. j = n \/ j < n
        BY <1>2, <2>1
      <4>2. j < n => Length(rows, j) < Length(rows, n)
        BY <1>1, <2>1 DEF Scarred, Growing
      <4> QED
        BY <1>6, <2>1, <4>1, <4>2
    <3> QED
      BY <1>5, <1>6, <2>1, <2>3, <3>1
  <2> QED
    BY <1>2, <2>2, <2>3
<1>8. Sealed(rows')
  <2> SUFFICES ASSUME NEW k \in 1..(n + 1)
               PROVE  rows'[k].hash[Len(rows'[k].hash)] = Seal(rows'[k])
    BY <1>2 DEF Sealed
  <2>1. CASE k \in 1..n
    BY <1>1, <1>2, <2>1 DEF Scarred, Sealed
  <2>2. CASE k = n + 1
    BY <1>2, <1>4, <2>2
  <2> QED
    BY <1>2, <2>1, <2>2
<1>9. Gap(rows') \/ Edited(rows')
  <2>1. CASE Edited(rows)
    BY <1>2, <2>1 DEF Edited
  <2>2. CASE Gap(rows)
    <3>1. PICK k \in 1..n : Length(rows, k - 1) + 1 < Length(rows, k)
      BY <2>2 DEF Gap
    <3>2. k - 1 \in 0..n /\ k \in 0..n /\ k \in 1..(n + 1)
      BY <1>2
    <3> QED
      BY <1>2, <1>5, <3>1, <3>2 DEF Gap
  <2> QED
    BY <1>1, <2>1, <2>2 DEF Scarred
<1>10. ASSUME ~Ordered(rows') PROVE Inverted(rows')
  <2> DOMAIN rows' = 1..(n + 1) /\ DOMAIN rows = 1..n
    BY <1>1, <1>2
  <2>1. PICK i, k \in 1..(n + 1) : i < k /\ ~(rows'[i].at <= rows'[k].at)
    BY <1>10 DEF Ordered
  <2>2. i \in 1..n /\ k = n + 1
    <3>1. i \in 1..n /\ (k \in 1..n \/ k = n + 1)
      BY <1>2, <2>1
    <3>2. \A h \in 1..n : i < h => rows[i].at <= rows[h].at
      BY <3>1 DEF Ordered
    <3>3. k \notin 1..n
      <4>1. SUFFICES ASSUME k \in 1..n PROVE FALSE
        OBVIOUS
      <4>2. rows'[i] = rows[i] /\ rows'[k] = rows[k]
        BY <1>2, <3>1, <4>1
      <4> QED
        BY <2>1, <3>2, <4>1, <4>2
    <3> QED
      BY <3>1, <3>3
  <2>3. rows'[i].at \in Nat /\ rows'[k].at \in Nat
    <3>1. rows'[i] \in Row /\ row.at = clock /\ rows'[k] = row
      BY <1>1, <1>2, <2>2 DEF NewRow
    <3> QED
      BY <3>1, BoundsAssumption DEF Row, IInv, TypeOK
  <2>4. Before(rows', k, i)
    BY <2>1, <2>3 DEF Before
  <2>5. Length(rows', i) <= Length(rows', k)
    <3>1. i \in 0..Len(rows') /\ k \in 0..Len(rows') /\ i < k
      BY <1>2, <2>1, <2>2
    <3>2. Length(rows', i) \in Nat /\ Length(rows', k) \in Nat
      BY <1>2, <1>5, <1>6, <2>2
    <3> QED
      BY <1>7, <3>1, <3>2 DEF Growing
  <2> QED
    BY <2>1, <2>4, <2>5 DEF Inverted
<1> QED
  BY <1>7, <1>8, <1>9, <1>10 DEF Scarred

\* Two rows in the wrong order stay so.
LEMMA InsertKeepsInversion ==
  ASSUME IInv, NEW c \in Callers, RecordInserts(c), Inverted(rows)
  PROVE  Inverted(rows)' /\ (Ordered(rows') => Ordered(rows))
<1>1. rows \in Seq(Row) /\ rows' = Append(rows, NewRow(made + 1, prev[c]))
  BY DEF IInv, TypeOK, RecordInserts
<1>2. \A i \in DOMAIN rows : i \in DOMAIN rows' /\ rows'[i] = rows[i]
  BY <1>1
<1>3. PICK i, k \in DOMAIN rows : Before(rows, i, k) /\ Length(rows, k) <= Length(rows, i)
  BY DEF Inverted
<1>4. Before(rows', i, k) /\ Length(rows', k) <= Length(rows', i)
  BY <1>2, <1>3 DEF Before, Length
<1> QED
  BY <1>2, <1>3, <1>4 DEF Inverted, Ordered

\* Tampering leaves the rows in order of time.
LEMMA TamperingKeepsOrder ==
  ASSUME rows \in Seq(Row), RowEdited \/ RowDeleted
  PROVE  /\ Ordered(rows')
         /\ \A k \in DOMAIN rows' : \E m \in DOMAIN rows : rows'[k].at = rows[m].at
<1>1. Ordered(rows) /\ \A i \in DOMAIN rows : rows[i] \in Row
  BY DEF RowEdited, RowDeleted, Settled
<1>2. CASE RowEdited
  <2>1. PICK i \in DOMAIN rows : rows' = [rows EXCEPT ![i].text = "edited"]
    BY <1>2 DEF RowEdited
  <2>2. DOMAIN rows' = DOMAIN rows /\ \A k \in DOMAIN rows : rows'[k].at = rows[k].at
    BY <1>1, <2>1 DEF Row
  <2> QED
    BY <1>1, <2>2 DEF Ordered
<1>3. CASE RowDeleted
  <2>1. PICK i \in DOMAIN rows :
          rows' = SubSeq(rows, 1, i - 1) \o SubSeq(rows, i + 1, Len(rows))
    BY <1>3 DEF RowDeleted
  <2>2. /\ rows' \in Seq(Row) /\ Len(rows') = Len(rows) - 1
        /\ \A k \in DOMAIN rows' : rows'[k] = IF k < i THEN rows[k] ELSE rows[k + 1]
    BY <2>1, DeletedRow
  <2>3. DOMAIN rows' = 1..(Len(rows) - 1) /\ DOMAIN rows = 1..Len(rows) /\ Len(rows) \in Nat
    BY <2>2
  <2> DEFINE old(n) == IF n < i THEN n ELSE n + 1
  <2>4. ASSUME NEW k \in DOMAIN rows'
        PROVE  old(k) \in DOMAIN rows /\ rows'[k] = rows[old(k)]
    BY <2>2, <2>3
  <2>5. ASSUME NEW j \in DOMAIN rows', NEW k \in DOMAIN rows', j < k
        PROVE  old(j) < old(k)
    BY <2>3, <2>5
  <2> HIDE DEF old
  <2> QED
    BY <1>1, <2>4, <2>5 DEF Ordered
<1> QED
  BY <1>2, <1>3

LEMMA TInvInit ==
  ASSUME Init PROVE TInv
<1>1. PICK n \in 0..MaxLegacy : \E at \in [1..n -> {0, 1}] : rows = LegacyRows(at)
  BY DEF Init
<1>2. PICK at \in [1..n -> {0, 1}] : rows = LegacyRows(at)
  BY <1>1
<1>3. \A i \in 1..Len(rows) : Joined(rows[i].text) = "recorded"
  BY <1>2, BoundsAssumption DEF LegacyRows, Joined
<1> QED
  BY <1>3 DEF Init, TInv

LEMMA TInvStep ==
  ASSUME IInv, TInv, [Next]_vars
  PROVE  TInv'
<1>0. rows \in Seq(Row) /\ place \in [Callers -> {"idle", "migrate", "rebuild", "mark",
                                                "begin", "insert", "raised"}]
      /\ prev \in [Callers -> Seq(Contents)]
  BY DEF IInv, TypeOK
<1>1. CASE /\ UNCHANGED <<rows, tampered>>
           /\ \A k \in Callers : place'[k] = "insert" => place[k] = "insert" /\ prev'[k] = prev[k]
  <2>1. /\ Scarred(rows)' <=> Scarred(rows)
        /\ Inverted(rows)' <=> Inverted(rows)
        /\ Ordered(rows)' <=> Ordered(rows)
    BY <1>1 DEF Scarred, Growing, Sealed, Gap, Edited, Length, Inverted, Before, Ordered
  <2>2. LastHash(rows)' = LastHash(rows)
    BY <1>1 DEF LastHash, Nth, Rank, Before
  <2> QED
    BY <1>1, <2>1, <2>2 DEF TInv
<1>2. ASSUME NEW c \in Callers,
             \/ Opens(c) \/ Selects(c) \/ Marks(c) \/ OpenFails(c) \/ CallerGoesOn(c)
             \/ RecordFails(c)
      PROVE  TInv'
  <2>1. UNCHANGED <<rows, tampered>>
    BY <1>2 DEF Opens, Selects, Marks, OpenFails, CallerGoesOn, RecordFails
  <2>2. \A k \in Callers : place'[k] = "insert" => place[k] = "insert" /\ prev'[k] = prev[k]
    BY <1>0, <1>2 DEF Opens, Selects, Marks, OpenFails, CallerGoesOn, RecordFails, Moves
  <2> QED
    BY <1>1, <2>1, <2>2
<1>3. CASE Tick \/ ClockSetBack \/ Restart \/ UNCHANGED vars
  BY <1>1, <1>3 DEF Tick, ClockSetBack, Restart, vars
<1>4. ASSUME NEW c \in Callers, Rebuilds(c) PROVE TInv'
  <2>1. /\ ~tampered /\ tampered' = tampered /\ Len(rows') = Len(rows)
        /\ \A i \in DOMAIN rows : Content(rows'[i]) = Content(rows[i])
    BY <1>4, RebuildsKeeps
  <2>2. \A i \in 1..Len(rows) : Joined(rows'[i].text) = Joined(rows[i].text)
    BY <1>0, <2>1 DEF Content
  <2> QED
    BY <2>1, <2>2 DEF TInv
<1>5. ASSUME NEW c \in Callers, RecordBegins(c) PROVE TInv'
  <2>1. UNCHANGED <<rows, tampered>> /\ prev'[c] = LastHash(rows) /\ lock = {}
    BY <1>0, <1>5 DEF RecordBegins
  <2>2. \A k \in Callers \ {c} : place'[k] # "insert"
    BY <1>0, <1>5, <2>1 DEF RecordBegins, Moves, IInv, Coherent, HoldsLastHash
  <2>3. LastHash(rows) = LastHash(rows)'
    BY <2>1 DEF LastHash, Nth, Rank, Before
  <2> QED
    BY <1>1, <2>1, <2>2, <2>3 DEF TInv
<1>6. ASSUME NEW c \in Callers, RecordInserts(c) PROVE TInv'
  <2>1. \A k \in Callers : place'[k] # "insert"
    BY <1>0, <1>6 DEF RecordInserts, Moves, IInv, Coherent, HoldsLastHash
  <2>2. tampered' = tampered /\ rows' = Append(rows, NewRow(made + 1, prev[c]))
    BY <1>6 DEF RecordInserts
  <2>3. tampered => IF Ordered(rows') THEN Scarred(rows') ELSE Inverted(rows')
    BY <1>6, InsertKeepsScars, InsertKeepsInversion DEF TInv
  <2>4. ~tampered => \A i \in 1..Len(rows') : Joined(rows'[i].text) = "recorded"
    BY <1>0, <2>2 DEF TInv, NewRow, Joined
  <2> QED
    BY <2>1, <2>2, <2>3, <2>4 DEF TInv
<1>7. CASE RowEdited \/ RowDeleted
  <2>1. tampered' /\ lock = {} /\ place' = place
    BY <1>7 DEF RowEdited, RowDeleted, Settled
  <2>2. \A k \in Callers : place'[k] # "insert"
    BY <2>1 DEF IInv, Coherent, HoldsLastHash
  <2>3. Ordered(rows')
    BY <1>7, TamperingKeepsOrder DEF IInv, TypeOK
  <2> QED
    BY <1>7, <2>1, <2>2, <2>3, EditScars, DeletionScars DEF TInv
<1>8. CASE RowRejoined
  <2>1. /\ lock = {} /\ UNCHANGED <<place, prev, tampered>>
        /\ Len(rows') = Len(rows) /\ DOMAIN rows' = DOMAIN rows
        /\ DOMAIN rows = 1..Len(rows)
        /\ \A i \in DOMAIN rows :
             /\ rows'[i].id = rows[i].id /\ rows'[i].at = rows[i].at
             /\ rows'[i].hash = rows[i].hash
             /\ Joined(rows'[i].text) = Joined(rows[i].text)
    BY <1>0, <1>8, RejoinedKeeps, RowFacts DEF RowRejoined, Settled
  <2>2. \A k \in Callers : place'[k] # "insert"
    BY <2>1 DEF IInv, Coherent, HoldsLastHash
  <2>3. \A i \in 0..Len(rows) : Length(rows', i) = Length(rows, i)
    BY <2>1 DEF Length
  <2>4. Ordered(rows') <=> Ordered(rows)
    BY <2>1 DEF Ordered
  <2>5. Scarred(rows) => Scarred(rows')
    <3>1. Growing(rows) => Growing(rows')
      BY <2>1, <2>3 DEF Growing
    <3>2. Sealed(rows) => Sealed(rows')
      BY <2>1 DEF Sealed, Seal
    <3>3. Gap(rows) => Gap(rows')
      <4> SUFFICES ASSUME NEW k \in 1..Len(rows), Length(rows, k - 1) + 1 < Length(rows, k)
                   PROVE  Gap(rows')
        BY DEF Gap
      <4>1. k - 1 \in 0..Len(rows) /\ k \in 0..Len(rows)
        OBVIOUS
      <4> QED
        BY <2>1, <2>3, <4>1 DEF Gap
    <3>4. Edited(rows) => Edited(rows')
      <4>1. \A i \in 1..Len(rows) : rows[i].text = "edited" => rows'[i].text = "edited"
        BY <2>1 DEF Joined
      <4> QED
        BY <2>1, <4>1 DEF Edited
    <3> QED
      BY <3>1, <3>2, <3>3, <3>4 DEF Scarred
  <2>6. Inverted(rows) => Inverted(rows')
    <3> SUFFICES ASSUME NEW i \in DOMAIN rows, NEW k \in DOMAIN rows,
                        Before(rows, i, k), Length(rows, k) <= Length(rows, i)
                 PROVE  Inverted(rows')
      BY DEF Inverted
    <3>1. Before(rows', i, k)
      BY <2>1 DEF Before
    <3>2. i \in 0..Len(rows) /\ k \in 0..Len(rows)
      BY <1>0
    <3> QED
      BY <2>1, <2>3, <3>1, <3>2 DEF Inverted
  <2> QED
    BY <2>1, <2>2, <2>4, <2>5, <2>6 DEF TInv
<1> QED
  BY <1>2, <1>3, <1>4, <1>5, <1>6, <1>7, <1>8 DEF Next, CallStep

\* A log with a scar does not verify: the row at the scar is not what follows the
\* one before it.
LEMMA ScarShows ==
  ASSUME NEW s \in Seq(Row), Ordered(s), Scarred(s)
  PROVE  ~Intact(s)
<1> SUFFICES ASSUME Intact(s) PROVE FALSE
  OBVIOUS
<1>1. ASSUME NEW r \in 1..Len(s)
      PROVE  /\ Length(s, r) = Length(s, r - 1) + 1
             /\ s[r].hash[Len(s[r].hash)] = Content(s[r])
  <2> DEFINE e == IF r = 1 THEN Genesis ELSE s[r - 1].hash
  <2>1. Nth(s, r) = r /\ (r # 1 => Nth(s, r - 1) = r - 1)
    BY NthInOrder
  <2>2. s[r].hash = Append(e, Content(s[r]))
    BY <2>1 DEF Intact, HashOf
  <2>3. e \in Seq(Contents) /\ Len(e) = Length(s, r - 1) /\ Len(e) \in Nat
    BY RowFacts DEF Genesis, Length
  <2> QED
    BY <2>2, <2>3 DEF Length
<1>2. ~Gap(s)
  BY <1>1, RowFacts DEF Gap
<1>3. ~Edited(s)
  BY <1>1 DEF Edited, Scarred, Sealed, Seal, Content, Joined
<1> QED
  BY <1>2, <1>3 DEF Scarred

\* In a log that verifies, the hash of a row is as long as its place in the chain.
LEMMA IntactLengths ==
  ASSUME NEW s \in Seq(Row), Intact(s), NEW i \in DOMAIN s
  PROVE  Length(s, i) = Rank(s, i)
<1> DEFINE long(r) == Length(s, Nth(s, r))
           T == {r \in 1..Len(s) : long(r) # r}
<1>1. ASSUME NEW r \in 1..Len(s)
      PROVE  long(r) = IF r = 1 THEN 1 ELSE long(r - 1) + 1
  <2> DEFINE e == IF r = 1 THEN Genesis ELSE s[Nth(s, r - 1)].hash
  <2>1. Nth(s, r) \in 1..Len(s) /\ (r # 1 => Nth(s, r - 1) \in 1..Len(s))
    BY NthRow
  <2>2. s[Nth(s, r)].hash = Append(e, Content(s[Nth(s, r)]))
    BY DEF Intact, HashOf
  <2>3. /\ e \in Seq(Contents) /\ Len(e) \in Nat
        /\ Len(e) = IF r = 1 THEN 0 ELSE long(r - 1)
    BY <2>1, RowFacts DEF Genesis, Length
  <2>4. Len(s[Nth(s, r)].hash) = Len(e) + 1
    BY <2>2, <2>3
  <2>5. long(r) = Len(e) + 1
    BY <2>1, <2>4 DEF Length
  <2> QED
    BY <2>3, <2>5
<1>2. T = {}
  <2> SUFFICES ASSUME T # {} PROVE FALSE
    OBVIOUS
  <2>1. T \subseteq Nat
    OBVIOUS
  <2>2. PICK r \in T : \A m \in T : <<m, r>> \notin OpToRel(<, Nat)
    BY <2>1, NatLessThanWellFounded, WFMin, Zenon
  <2>3. r \in 1..Len(s) /\ long(r) # r /\ \A m \in T : ~(m < r)
    BY <2>1, <2>2 DEF OpToRel
  <2>4. r # 1 => r - 1 \in 1..Len(s) /\ r - 1 \notin T
    BY <2>3
  <2>5. r # 1 => long(r - 1) = r - 1
    BY <2>4
  <2> HIDE DEF T, long
  <2> QED
    BY <1>1, <2>3, <2>5
<1>3. Rank(s, i) \in 1..Len(s) /\ Nth(s, Rank(s, i)) = i
  BY RankType, NthOfRank
<1>4. long(Rank(s, i)) = Rank(s, i)
  BY <1>2, <1>3
<1> QED
  BY <1>3, <1>4

\* Nor does one in which the chain would have a shorter hash after a longer one.
LEMMA InversionShows ==
  ASSUME NEW s \in Seq(Row), Inverted(s)
  PROVE  ~Intact(s)
<1> SUFFICES ASSUME Intact(s) PROVE FALSE
  OBVIOUS
<1>1. PICK i, k \in DOMAIN s : Before(s, i, k) /\ Length(s, k) <= Length(s, i)
  BY DEF Inverted
<1>2. Rank(s, i) < Rank(s, k)
  BY <1>1, RankGrows
<1>3. Rank(s, i) \in Nat /\ Rank(s, k) \in Nat
  BY RankType
<1> QED
  BY <1>1, <1>2, <1>3, IntactLengths

\* A row whose joined text was edited, or that was deleted from before the end, is
\* seen by every later verification, whatever is recorded, edited and deleted after
\* it, and however the clock is set.
THEOREM TamperingIsSeen == Spec => []TamperingShows
<1>1. Init => TInv
  BY TInvInit
<1>2. IInv /\ TInv /\ [Next]_vars => TInv'
  BY TInvStep
<1>3. IInv /\ TInv => TamperingShows
  BY ScarShows, InversionShows DEF TamperingShows, TInv, IInv, TypeOK
<1> QED
  BY <1>1, <1>2, <1>3, Invariance, PTL DEF Spec

------------------------------------------------------------------------------
(* A clock that is not set back.                                           *)

LEMMA InOrderInit ==
  ASSUME StepsBack = FALSE, Init
  PROVE  InOrder
<1>1. PICK n \in 0..MaxLegacy : \E at \in [1..n -> {0, 1}] :
        (\A i, k \in 1..n : i < k => at[i] <= at[k]) /\ rows = LegacyRows(at)
  BY DEF Init
<1>2. PICK at \in [1..n -> {0, 1}] :
        (\A i, k \in 1..n : i < k => at[i] <= at[k]) /\ rows = LegacyRows(at)
  BY <1>1
<1>3. DOMAIN rows = 1..n /\ \A i \in 1..n : rows[i].at = at[i] /\ at[i] <= 1
  BY <1>2 DEF LegacyRows
<1> QED
  BY <1>2, <1>3 DEF Init, InOrder, Ordered

LEMMA InOrderStep ==
  ASSUME StepsBack = FALSE, IInv, InOrder, [Next]_vars
  PROVE  InOrder'
<1>1. /\ rows \in Seq(Row) /\ Ordered(rows) /\ clock \in Nat
      /\ \A i \in DOMAIN rows : rows[i].at \in Nat /\ rows[i].at <= clock
  <2>1. rows \in Seq(Row) /\ \A i \in DOMAIN rows : rows[i] \in Row
    BY DEF IInv, TypeOK
  <2> QED
    BY <2>1, BoundsAssumption DEF IInv, TypeOK, InOrder, Row
<1>2. CASE rows' = rows /\ (clock' = clock \/ clock' = clock + 1)
  BY <1>1, <1>2 DEF InOrder
<1>3. ASSUME NEW c \in Callers, Rebuilds(c) PROVE InOrder'
  <2>1. /\ DOMAIN rows' = DOMAIN rows /\ clock' = clock
        /\ \A i \in DOMAIN rows : rows'[i].at = rows[i].at
    BY <1>3, RebuildsKeeps DEF Rebuilds
  <2> QED
    BY <1>1, <2>1 DEF InOrder, Ordered
<1>4. ASSUME NEW c \in Callers, RecordInserts(c) PROVE InOrder'
  <2> DEFINE n == Len(rows)
  <2>1. rows' = Append(rows, NewRow(made + 1, prev[c])) /\ clock' = clock
    BY <1>4 DEF RecordInserts
  <2>2. /\ n \in Nat /\ DOMAIN rows = 1..n /\ DOMAIN rows' = 1..(n + 1)
        /\ rows'[n + 1].at = clock /\ \A i \in 1..n : rows'[i] = rows[i]
    BY <1>1, <2>1 DEF NewRow
  <2>3. \A i \in 1..(n + 1) : i \in 1..n \/ i = n + 1
    BY <2>2
  <2> HIDE DEF n
  <2> QED
    BY <1>1, <2>1, <2>2, <2>3 DEF InOrder, Ordered
<1>5. CASE RowEdited \/ RowDeleted
  <2>1. clock' = clock
    BY <1>5 DEF RowEdited, RowDeleted
  <2> QED
    BY <1>1, <1>5, <2>1, TamperingKeepsOrder DEF InOrder
<1>8. CASE RowRejoined
  <2>1. DOMAIN rows' = DOMAIN rows /\ \A i \in DOMAIN rows : rows'[i].at = rows[i].at
    BY <1>1, <1>8, RejoinedKeeps
  <2>2. clock' = clock
    BY <1>8 DEF RowRejoined
  <2> QED
    BY <1>1, <2>1, <2>2 DEF InOrder, Ordered
<1>6. ASSUME NEW c \in Callers, CallStep(c), ~Rebuilds(c), ~RecordInserts(c)
      PROVE  InOrder'
  BY <1>2, <1>6 DEF CallStep, Opens, Selects, Marks, OpenFails, CallerGoesOn,
                    RecordBegins, RecordFails
<1>7. CASE Tick \/ ClockSetBack \/ Restart \/ UNCHANGED vars
  BY <1>2, <1>7 DEF Tick, ClockSetBack, Restart, vars
<1> QED
  BY <1>3, <1>4, <1>5, <1>6, <1>7, <1>8 DEF Next

\* With a clock that is not set back, verify_chain does what it says: only
\* tampering makes a log not verify, whoever records or migrates in between.
THEOREM OnlyTamperingIsSeen ==
  ASSUME StepsBack = FALSE
  PROVE  Spec => []OnlyTamperingShows
<1>1. Init => InOrder
  BY InOrderInit
<1>2. IInv /\ InOrder /\ [Next]_vars => InOrder'
  BY InOrderStep
<1>3. InOrder /\ UntouchedVerifies => OnlyTamperingShows
  BY DEF InOrder, UntouchedVerifies, OnlyTamperingShows
<1> QED
  BY <1>1, <1>2, <1>3, Invariance, LogVerifies, PTL DEF Spec
=============================================================================
