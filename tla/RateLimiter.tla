---------------------------- MODULE RateLimiter ----------------------------
(***************************************************************************)
(* SlidingWindowRateLimiter (app/core/ratelimit.py) for one key: the       *)
(* requests of one address or, at the login, of one account.  Keys share   *)
(* nothing.  Times are kept as ages, as far as `now - hits[0] > window'    *)
(* can tell them apart: one more than the window stands for all that is    *)
(* older.  allow is called on the event loop and does not await.           *)
(***************************************************************************)
EXTENDS Naturals, Sequences

CONSTANTS
  MaxRequests,  \* max_requests
  Window        \* window_seconds

ASSUME MaxRequestsAssumption == MaxRequests \in Nat
ASSUME WindowAssumption == Window \in Nat

VARIABLES
  hits,      \* ages of the entries of the deque, the oldest first
  admitted,  \* history: ages of the requests admitted in the last window
  answer     \* what allow has just returned

limiter == <<hits, admitted, answer>>

------------------------------------------------------------------------------
Ages == 0..(Window + 1)

Aged(s) == [i \in DOMAIN s |-> IF s[i] > Window THEN s[i] ELSE s[i] + 1]

\* What is left of a queue when everything older than w is popped from its front.
Start(s, w) ==
  CHOOSE n \in 1..(Len(s) + 1) :
    /\ \A i \in 1..(n - 1) : s[i] > w
    /\ n <= Len(s) => s[n] <= w

From(s, w) == SubSeq(s, Start(s, w), Len(s))

\* Fault: an entry that is exactly one window old is popped as well.
FaultPopsOnTime(s) == From(s, Window - 1)

Kept(s) == From(s, Window)

LimiterInit ==
  /\ hits = <<>>
  /\ admitted = <<>>
  /\ answer = "none"

Allow ==
  /\ Len(Kept(hits)) < MaxRequests
  /\ hits' = Append(Kept(hits), 0)
  /\ admitted' = Append(admitted, 0)
  /\ answer' = "allowed"

Refuse ==
  /\ Len(Kept(hits)) >= MaxRequests
  /\ hits' = Kept(hits)
  /\ answer' = "refused"
  /\ UNCHANGED admitted

TimePasses ==
  /\ hits' = Aged(hits)
  /\ admitted' = From(Aged(admitted), Window)
  /\ answer' = "none"

LimiterNext == Allow \/ Refuse \/ TimePasses

LimiterSpec == LimiterInit /\ [][LimiterNext]_limiter

------------------------------------------------------------------------------
LimiterTypeOK ==
  /\ hits \in Seq(Ages)
  /\ admitted \in Seq(Ages)
  /\ answer \in {"none", "allowed", "refused"}

\* In no window, both its ends included, more than MaxRequests are admitted, and
\* a request is refused only when as many were: refusals do not count, and who
\* keeps asking is let in again.
WindowRespected ==
  /\ Len(admitted) <= MaxRequests
  /\ answer = "refused" => Len(admitted) = MaxRequests
=============================================================================
