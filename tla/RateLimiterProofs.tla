------------------------- MODULE RateLimiterProofs -------------------------
(***************************************************************************)
(* The sliding window holds for every limit and every window.  What was    *)
(* admitted in the last window is what the deque keeps once its old        *)
(* entries are popped: that is the inductive invariant.  It holds because  *)
(* popping the old entries before time passes makes no difference to what  *)
(* is kept afterwards; nothing is assumed about the order of the ages.     *)
(***************************************************************************)
EXTENDS RateLimiter, TLAPS, WellFoundedInduction, SequenceTheorems

\* The queue of the admitted requests is the deque without its old entries, and
\* never longer than the limit.
LInv ==
  /\ LimiterTypeOK
  /\ admitted = Kept(hits)
  /\ Len(hits) <= MaxRequests
  /\ answer = "refused" => Len(admitted) = MaxRequests

------------------------------------------------------------------------------
\* The place from which a queue is kept.
StartsAt(s, w, n) ==
  /\ n \in 1..(Len(s) + 1)
  /\ \A i \in 1..(n - 1) : s[i] > w
  /\ n <= Len(s) => s[n] <= w

\* There is one such place: the first young entry, or the end.
LEMMA StartExists ==
  ASSUME NEW s \in Seq(Nat), NEW w \in Nat
  PROVE  \E n \in 1..(Len(s) + 1) : StartsAt(s, w, n)
<1> DEFINE T == {n \in 1..(Len(s) + 1) : n <= Len(s) => s[n] <= w}
<1>1. Len(s) \in Nat
  OBVIOUS
<1>2. Len(s) + 1 \in T /\ T \subseteq Nat
  BY <1>1
<1>3. IsWellFoundedOn(OpToRel(<, Nat), Nat)
  BY NatLessThanWellFounded
<1>4. PICK n \in T : \A m \in T : <<m, n>> \notin OpToRel(<, Nat)
  BY <1>2, <1>3, WFMin, Zenon
<1>5. \A m \in T : ~(m < n)
  BY <1>2, <1>4 DEF OpToRel
<1> HIDE DEF T
<1>6. n \in 1..(Len(s) + 1) /\ (n <= Len(s) => s[n] <= w)
  BY <1>4 DEF T
<1>7. ASSUME NEW i \in 1..(n - 1) PROVE s[i] > w
  <2>1. i \in 1..Len(s) /\ i < n
    BY <1>1, <1>6
  <2>2. i \notin T
    BY <1>5, <2>1
  <2>3. s[i] \in Nat
    BY <2>1
  <2> QED
    BY <1>1, <2>1, <2>2, <2>3 DEF T
<1> QED
  BY <1>6, <1>7 DEF StartsAt

LEMMA StartIsThere ==
  ASSUME NEW s \in Seq(Nat), NEW w \in Nat
  PROVE  StartsAt(s, w, Start(s, w))
BY StartExists DEF StartsAt, Start

LEMMA StartIsUnique ==
  ASSUME NEW s \in Seq(Nat), NEW w \in Nat,
         NEW m, NEW n, StartsAt(s, w, m), StartsAt(s, w, n)
  PROVE  m = n
<1>1. Len(s) \in Nat /\ m \in Nat /\ n \in Nat
  BY DEF StartsAt
<1>2. \A i \in 1..Len(s) : s[i] \in Nat
  OBVIOUS
<1>3. ~(m < n)
  BY <1>1, <1>2 DEF StartsAt
<1>4. ~(n < m)
  BY <1>1, <1>2 DEF StartsAt
<1> QED
  BY <1>1, <1>3, <1>4

------------------------------------------------------------------------------
\* What From returns: the end of the queue, beginning with a young entry.
LEMMA FromProperties ==
  ASSUME NEW A \in SUBSET Nat, NEW s \in Seq(A), NEW w \in Nat
  PROVE  /\ From(s, w) \in Seq(A)
         /\ Start(s, w) \in 1..(Len(s) + 1)
         /\ Len(From(s, w)) = Len(s) + 1 - Start(s, w)
         /\ \A i \in 1..Len(From(s, w)) : From(s, w)[i] = s[Start(s, w) + i - 1]
         /\ From(s, w) # <<>> => From(s, w)[1] <= w
<1>1. s \in Seq(Nat) /\ Len(s) \in Nat
  BY SeqMonotonic, LenProperties
<1>2. PICK n : n = Start(s, w)
  OBVIOUS
<1>3. StartsAt(s, w, n) /\ n \in 1..(Len(s) + 1)
  BY <1>1, <1>2, StartIsThere DEF StartsAt
<1>4. From(s, w) = SubSeq(s, n, Len(s))
  BY <1>2 DEF From
<1>5. /\ From(s, w) \in Seq(A)
      /\ Len(From(s, w)) = Len(s) + 1 - n
      /\ \A i \in 1..(Len(s) + 1 - n) : From(s, w)[i] = s[n + i - 1]
  <2>1. CASE n <= Len(s)
    <3>1. /\ SubSeq(s, n, Len(s)) \in Seq(A)
          /\ Len(SubSeq(s, n, Len(s))) = Len(s) - n + 1
          /\ \A i \in 1..(Len(s) - n + 1) : SubSeq(s, n, Len(s))[i] = s[n + i - 1]
      BY <1>1, <1>3, <2>1, SubSeqProperties
    <3>2. Len(s) - n + 1 = Len(s) + 1 - n
      BY <1>1, <1>3
    <3> QED
      BY <1>4, <3>1, <3>2
  <2>2. CASE n = Len(s) + 1
    <3>1. From(s, w) = <<>>
      BY <1>1, <1>4, <2>2, SubSeqEmpty
    <3>2. Len(s) + 1 - n = 0
      BY <1>1, <2>2
    <3>3. From(s, w) \in Seq(A) /\ Len(From(s, w)) = 0
      BY <3>1, EmptySeq
    <3>4. Len(From(s, w)) = Len(s) + 1 - n
      BY <3>2, <3>3
    <3>5. \A i \in 1..(Len(s) + 1 - n) : From(s, w)[i] = s[n + i - 1]
      BY <3>2
    <3> QED
      BY <3>3, <3>4, <3>5
  <2>3. n <= Len(s) \/ n = Len(s) + 1
    BY <1>1, <1>3
  <2> QED
    BY <2>1, <2>2, <2>3, Zenon
<1>6. ASSUME From(s, w) # <<>> PROVE From(s, w)[1] <= w
  <2>1. Len(From(s, w)) # 0 /\ Len(From(s, w)) \in Nat
    BY <1>5, <1>6, LenProperties, EmptySeq
  <2>2. n <= Len(s) /\ n + 1 - 1 = n /\ 1 \in 1..(Len(s) + 1 - n)
    BY <1>1, <1>3, <1>5, <2>1
  <2>3. From(s, w)[1] = s[n]
    BY <1>5, <2>2
  <2> QED
    BY <1>3, <2>2, <2>3 DEF StartsAt
<1> QED
  BY <1>2, <1>3, <1>5, <1>6

\* A queue that begins with a young entry, or has none, is kept as it is.
LEMMA YoungIsKept ==
  ASSUME NEW s \in Seq(Nat), NEW w \in Nat, s # <<>> => s[1] <= w
  PROVE  From(s, w) = s
<1>1. Len(s) \in Nat /\ (s # <<>> => Len(s) # 0)
  BY LenProperties, EmptySeq
<1>2. StartsAt(s, w, 1)
  BY <1>1 DEF StartsAt
<1>3. Start(s, w) = 1
  BY <1>2, StartIsThere, StartIsUnique
<1> QED
  BY <1>3, SubSeqFull DEF From

\* The window as a set of ages.
LEMMA AgesAreNaturals == Ages \subseteq Nat /\ 0 \in Ages /\ Window \in Nat
BY WindowAssumption DEF Ages

\* Growing older entry by entry.
LEMMA AgedProperties ==
  ASSUME NEW s \in Seq(Ages)
  PROVE  /\ Aged(s) \in Seq(Ages)
         /\ Len(Aged(s)) = Len(s)
         /\ \A i \in 1..Len(s) : Aged(s)[i] = IF s[i] > Window THEN s[i] ELSE s[i] + 1
<1>1. Len(s) \in Nat /\ DOMAIN s = 1..Len(s) /\ \A i \in 1..Len(s) : s[i] \in Ages
  BY LenProperties, ElementOfSeq
<1>2. \A i \in 1..Len(s) : (IF s[i] > Window THEN s[i] ELSE s[i] + 1) \in Ages
  BY <1>1, WindowAssumption DEF Ages
<1>3. Aged(s) = [i \in 1..Len(s) |-> IF s[i] > Window THEN s[i] ELSE s[i] + 1]
  BY <1>1 DEF Aged
<1> QED
  BY <1>1, <1>2, <1>3

\* Popping the old entries before time passes makes no difference.
LEMMA AgedFromFront ==
  ASSUME NEW s \in Seq(Ages)
  PROVE  Kept(Aged(Kept(s))) = Kept(Aged(s))
<1>1. PICK n : n = Start(s, Window)
  OBVIOUS
<1>2. PICK m : m = Start(Aged(s), Window)
  OBVIOUS
<1>3. Len(s) \in Nat /\ \A i \in 1..Len(s) : s[i] \in Nat
  BY AgesAreNaturals, LenProperties, ElementOfSeq
<1>4. StartsAt(s, Window, n) /\ n \in 1..(Len(s) + 1)
  BY <1>1, AgesAreNaturals, SeqMonotonic, StartIsThere DEF StartsAt
<1>5. /\ Aged(s) \in Seq(Ages) /\ Len(Aged(s)) = Len(s)
      /\ \A i \in 1..Len(s) : Aged(s)[i] = IF s[i] > Window THEN s[i] ELSE s[i] + 1
  BY AgedProperties
<1>6. StartsAt(Aged(s), Window, m) /\ m \in 1..(Len(s) + 1)
  BY <1>2, <1>5, AgesAreNaturals, SeqMonotonic, StartIsThere DEF StartsAt
<1>7. n <= m
  <2>1. SUFFICES ASSUME m < n PROVE FALSE
    BY <1>4, <1>6
  <2>2. m \in 1..(n - 1) /\ m \in 1..Len(s)
    BY <1>3, <1>4, <1>6, <2>1
  <2>3. s[m] > Window /\ Aged(s)[m] <= Window /\ s[m] \in Nat
    BY <1>3, <1>4, <1>6, <1>5, <2>2 DEF StartsAt
  <2> QED
    BY <1>5, <2>2, <2>3, WindowAssumption
<1>8. /\ Kept(s) \in Seq(Ages)
      /\ Len(Kept(s)) = Len(s) + 1 - n
      /\ \A i \in 1..Len(Kept(s)) : Kept(s)[i] = s[n + i - 1]
  BY <1>1, AgesAreNaturals, FromProperties DEF Kept
<1>9. /\ Aged(Kept(s)) \in Seq(Ages)
      /\ Len(Aged(Kept(s))) = Len(s) + 1 - n
      /\ \A i \in 1..(Len(s) + 1 - n) : Aged(Kept(s))[i] = Aged(s)[n + i - 1]
  <2>1. /\ Aged(Kept(s)) \in Seq(Ages)
        /\ Len(Aged(Kept(s))) = Len(Kept(s))
        /\ \A i \in 1..Len(Kept(s)) :
             Aged(Kept(s))[i] = IF Kept(s)[i] > Window THEN Kept(s)[i] ELSE Kept(s)[i] + 1
    BY <1>8, AgedProperties
  <2>2. ASSUME NEW i \in 1..(Len(s) + 1 - n)
        PROVE  Aged(Kept(s))[i] = Aged(s)[n + i - 1]
    <3>1. n + i - 1 \in 1..Len(s)
      BY <1>3, <1>4
    <3> QED
      BY <1>5, <1>8, <2>1, <3>1
  <2> QED
    BY <1>8, <2>1, <2>2
<1> DEFINE k == m - n + 1
<1>10. k \in 1..(Len(Aged(Kept(s))) + 1) /\ k \in Nat
  BY <1>3, <1>4, <1>6, <1>7, <1>9
<1>11. StartsAt(Aged(Kept(s)), Window, k)
  <2>1. ASSUME NEW i \in 1..(k - 1) PROVE Aged(Kept(s))[i] > Window
    <3>1. /\ i \in 1..(Len(s) + 1 - n)
          /\ n + i - 1 \in 1..(m - 1)
      BY <1>3, <1>4, <1>6, <1>7
    <3> QED
      BY <1>6, <1>9, <3>1 DEF StartsAt
  <2>2. ASSUME k <= Len(Aged(Kept(s))) PROVE Aged(Kept(s))[k] <= Window
    <3>1. k \in 1..(Len(s) + 1 - n) /\ n + k - 1 = m /\ m <= Len(s)
      BY <1>3, <1>4, <1>6, <1>7, <1>9, <2>2
    <3>2. Aged(Kept(s))[k] = Aged(s)[n + k - 1]
      BY <1>9, <3>1
    <3> QED
      BY <1>5, <1>6, <3>1, <3>2 DEF StartsAt
  <2> QED
    BY <1>10, <2>1, <2>2 DEF StartsAt
<1> HIDE DEF k
<1>12. k = Start(Aged(Kept(s)), Window)
  <2>1. Aged(Kept(s)) \in Seq(Nat)
    BY <1>9, AgesAreNaturals, SeqMonotonic
  <2> QED
    BY <1>11, <2>1, AgesAreNaturals, StartIsThere, StartIsUnique
<1>13. /\ Kept(Aged(s)) \in Seq(Ages)
       /\ Len(Kept(Aged(s))) = Len(s) + 1 - m
       /\ \A i \in 1..Len(Kept(Aged(s))) : Kept(Aged(s))[i] = Aged(s)[m + i - 1]
  BY <1>2, <1>5, AgesAreNaturals, FromProperties DEF Kept
<1>14. /\ Kept(Aged(Kept(s))) \in Seq(Ages)
       /\ Len(Kept(Aged(Kept(s)))) = Len(s) + 1 - n + 1 - k
       /\ \A i \in 1..Len(Kept(Aged(Kept(s)))) :
            Kept(Aged(Kept(s)))[i] = Aged(Kept(s))[k + i - 1]
  BY <1>9, <1>12, AgesAreNaturals, FromProperties DEF Kept
<1>15. Len(Kept(Aged(Kept(s)))) = Len(Kept(Aged(s)))
  BY <1>3, <1>4, <1>6, <1>13, <1>14 DEF k
<1>16. ASSUME NEW i \in 1..Len(Kept(Aged(s)))
       PROVE  Kept(Aged(Kept(s)))[i] = Kept(Aged(s))[i]
  <2>1. k + i - 1 \in 1..(Len(s) + 1 - n) /\ n + (k + i - 1) - 1 = m + i - 1
    BY <1>3, <1>4, <1>6, <1>7, <1>13 DEF k
  <2> QED
    BY <1>9, <1>13, <1>14, <1>15, <2>1
<1> QED
  BY <1>13, <1>14, <1>15, <1>16, SeqEqual

------------------------------------------------------------------------------
\* What is kept is a queue of ages that begins with a young one, no longer than
\* the deque; and keeping it once more changes nothing.
LEMMA KeptProperties ==
  ASSUME NEW s \in Seq(Ages)
  PROVE  /\ Kept(s) \in Seq(Ages)
         /\ Len(Kept(s)) \in Nat /\ Len(Kept(s)) <= Len(s)
         /\ Kept(s) # <<>> => Kept(s)[1] <= Window
         /\ Kept(Kept(s)) = Kept(s)
<1>1. /\ Kept(s) \in Seq(Ages)
      /\ Start(s, Window) \in 1..(Len(s) + 1)
      /\ Len(Kept(s)) = Len(s) + 1 - Start(s, Window)
      /\ Kept(s) # <<>> => Kept(s)[1] <= Window
  BY AgesAreNaturals, FromProperties DEF Kept
<1>2. Len(s) \in Nat /\ Len(Kept(s)) \in Nat /\ Len(Kept(s)) <= Len(s)
  BY <1>1, LenProperties
<1>3. Kept(s) \in Seq(Nat)
  BY <1>1, AgesAreNaturals, SeqMonotonic
<1>4. From(Kept(s), Window) = Kept(s)
  BY <1>1, <1>3, AgesAreNaturals, YoungIsKept
<1> QED
  BY <1>1, <1>2, <1>4 DEF Kept

\* A request that is admitted joins what is kept.
LEMMA AdmittedIsKept ==
  ASSUME NEW s \in Seq(Ages)
  PROVE  /\ Append(Kept(s), 0) \in Seq(Ages)
         /\ Len(Append(Kept(s), 0)) = Len(Kept(s)) + 1
         /\ Kept(Append(Kept(s), 0)) = Append(Kept(s), 0)
<1> DEFINE t == Append(Kept(s), 0)
<1>1. Kept(s) \in Seq(Ages) /\ Len(Kept(s)) \in Nat
  BY KeptProperties
<1>2. /\ t \in Seq(Ages) /\ Len(t) = Len(Kept(s)) + 1
      /\ \A i \in 1..Len(Kept(s)) : t[i] = Kept(s)[i]
      /\ t[Len(Kept(s)) + 1] = 0
  BY <1>1, AgesAreNaturals, AppendProperties
<1>3. t[1] <= Window
  <2>1. CASE Kept(s) = <<>>
    <3>1. Len(Kept(s)) = 0
      BY <2>1, EmptySeq
    <3> QED
      BY <1>2, <3>1, AgesAreNaturals
  <2>2. CASE Kept(s) # <<>>
    <3>1. Len(Kept(s)) # 0
      BY <1>1, <2>2, EmptySeq
    <3>2. 1 \in 1..Len(Kept(s))
      BY <1>1, <3>1
    <3> QED
      BY <1>2, <2>2, <3>2, KeptProperties
  <2> QED
    BY <2>1, <2>2
<1>4. t \in Seq(Nat)
  BY <1>2, AgesAreNaturals, SeqMonotonic
<1> HIDE DEF t
<1>5. Kept(t) = t
  BY <1>3, <1>4, AgesAreNaturals, YoungIsKept DEF Kept
<1> QED
  BY <1>2, <1>5 DEF t

------------------------------------------------------------------------------
LEMMA LInvInit == LimiterInit => LInv
<1> SUFFICES ASSUME LimiterInit PROVE LInv
  OBVIOUS
<1>1. <<>> \in Seq(Ages) /\ <<>> \in Seq(Nat) /\ Len(<<>>) = 0
  BY EmptySeq
<1>2. Kept(<<>>) = <<>>
  BY <1>1, AgesAreNaturals, YoungIsKept DEF Kept
<1> QED
  BY <1>1, <1>2, MaxRequestsAssumption DEF LimiterInit, LInv, LimiterTypeOK

LEMMA LInvNext == LInv /\ [LimiterNext]_limiter => LInv'
<1> SUFFICES ASSUME LInv, [LimiterNext]_limiter PROVE LInv'
  OBVIOUS
<1>1. hits \in Seq(Ages) /\ admitted \in Seq(Ages) /\ admitted = Kept(hits)
  BY DEF LInv, LimiterTypeOK
<1>2. Len(hits) \in Nat /\ Len(Kept(hits)) \in Nat /\ Len(Kept(hits)) <= Len(hits)
  BY <1>1, KeptProperties, LenProperties
<1>3. CASE Allow
  <2>1. hits' = Append(Kept(hits), 0) /\ admitted' = hits'
    BY <1>1, <1>3 DEF Allow
  <2>2. hits' \in Seq(Ages) /\ Len(hits') = Len(Kept(hits)) + 1 /\ Kept(hits)' = hits'
    <3>1. Kept(Append(Kept(hits), 0)) = Append(Kept(hits), 0)
      BY <1>1, AdmittedIsKept
    <3>2. Kept(hits)' = Kept(hits')
      BY DEF Kept, From, Start
    <3> QED
      BY <1>1, <2>1, <3>1, <3>2, AdmittedIsKept
  <2>3. Len(hits') <= MaxRequests
    BY <1>2, <1>3, <2>2, MaxRequestsAssumption DEF Allow
  <2> QED
    BY <1>3, <2>1, <2>2, <2>3 DEF Allow, LInv, LimiterTypeOK
<1>4. CASE Refuse
  <2>1. hits' = Kept(hits) /\ admitted' = admitted /\ answer' = "refused"
    BY <1>4 DEF Refuse
  <2>2. hits' \in Seq(Ages) /\ Kept(hits)' = admitted'
    <3>1. Kept(Kept(hits)) = Kept(hits)
      BY <1>1, KeptProperties
    <3>2. Kept(hits)' = Kept(hits')
      BY DEF Kept, From, Start
    <3> QED
      BY <1>1, <2>1, <3>1, <3>2, KeptProperties
  <2>3. Len(hits') <= MaxRequests /\ Len(admitted') = MaxRequests
    BY <1>1, <1>2, <1>4, <2>1, MaxRequestsAssumption DEF Refuse, LInv
  <2> QED
    BY <1>1, <2>1, <2>2, <2>3 DEF LInv, LimiterTypeOK
<1>5. CASE TimePasses
  <2>1. hits' = Aged(hits) /\ admitted' = Kept(Aged(admitted)) /\ answer' = "none"
    BY <1>5 DEF TimePasses, Kept
  <2>2. hits' \in Seq(Ages) /\ Len(hits') = Len(hits)
    BY <1>1, <2>1, AgedProperties
  <2>3. Kept(hits)' = admitted'
    <3>1. Kept(Aged(Kept(hits))) = Kept(Aged(hits))
      BY <1>1, AgedFromFront
    <3>2. Kept(hits)' = Kept(hits')
      BY DEF Kept, From, Start
    <3> QED
      BY <1>1, <2>1, <3>1, <3>2
  <2>4. admitted' \in Seq(Ages)
    BY <1>1, <2>1, AgedProperties, KeptProperties
  <2> QED
    BY <2>1, <2>2, <2>3, <2>4 DEF LInv, LimiterTypeOK
<1>6. CASE UNCHANGED limiter
  BY <1>6 DEF limiter, LInv, LimiterTypeOK, Kept, From, Start
<1> QED
  BY <1>3, <1>4, <1>5, <1>6 DEF LimiterNext

\* The deque never outgrows the limit and keeps exactly what was admitted.
THEOREM LimiterInvariant == LimiterSpec => []LInv
<1>1. LimiterInit => LInv
  BY LInvInit
<1>2. LInv /\ [LimiterNext]_limiter => LInv'
  BY LInvNext
<1> QED
  BY <1>1, <1>2, PTL DEF LimiterSpec

\* The window of ratelimit.py: however requests and time interleave, no window
\* holds more admitted requests than max_requests, and none is refused while
\* there is room.
THEOREM WindowHolds == LimiterSpec => []WindowRespected
<1>1. LInv => WindowRespected
  <2> SUFFICES ASSUME LInv PROVE WindowRespected
    OBVIOUS
  <2>1. Len(admitted) <= Len(hits) /\ Len(admitted) \in Nat /\ Len(hits) \in Nat
    BY KeptProperties, LenProperties DEF LInv, LimiterTypeOK
  <2> QED
    BY <2>1, MaxRequestsAssumption DEF LInv, WindowRespected
<1> QED
  BY <1>1, LimiterInvariant, PTL
=============================================================================
