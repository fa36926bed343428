------------------------------ MODULE FeedProofs ------------------------------
(****************************************************************************)
(* Proofs about Breaker and about Feed, which extends it: first what holds  *)
(* of the breaker alone, then what the feed makes of it, and last the       *)
(* median that outvotes a wrong member, also through the caches.            *)
(****************************************************************************)
EXTENDS Feed, SequenceTheorems, Sums

-----------------------------------------------------------------------------
(****************************************************************************)
(* Proofs about Breaker.  Nothing in _record_failure makes a failed probe   *)
(* re-open the breaker: it asks for a cause as if it were closed.  What     *)
(* makes it re-open is CauseStands, an invariant, which rests on a fact     *)
(* about the window: one more failure, with the oldest result dropped when  *)
(* the window is full, cannot bring the failure rate below its threshold.   *)
(****************************************************************************)

\* The positions that Failures counts.
FailedAt(window) == {i \in DOMAIN window : ~window[i]}

\* What the assumption says of the numbers, one fact each.
LEMMA ConstantTypes ==
  /\ FailureThreshold \in Nat /\ FailureThreshold > 0
  /\ WindowSize \in Nat /\ WindowSize > 0
  /\ RateNum \in Nat /\ RateDen \in Nat /\ RateNum <= RateDen
  /\ OpenSeconds \in Nat
BY BreakerAssumption DEF BreakerAssumption

-----------------------------------------------------------------------------
(* The window *)

\* The failures in a window are finitely many, not more than its results.
LEMMA FailuresBound ==
  ASSUME NEW w \in Seq(BOOLEAN)
  PROVE  /\ IsFiniteSet(FailedAt(w))
         /\ Failures(w) = Cardinality(FailedAt(w))
         /\ Failures(w) \in Nat
         /\ Failures(w) <= Len(w)
<1>1. Len(w) \in Nat /\ DOMAIN w = 1..Len(w)
  BY LenProperties
<1>2. IsFiniteSet(1..Len(w)) /\ Cardinality(1..Len(w)) = Len(w)
  BY <1>1, FS_Interval
<1>3. FailedAt(w) \in SUBSET (1..Len(w))
  BY <1>1 DEF FailedAt
<1>4. IsFiniteSet(FailedAt(w)) /\ Cardinality(FailedAt(w)) <= Len(w)
  BY <1>2, <1>3, FS_Subset
<1> QED  BY <1>4, FS_CardinalityType DEF Failures, FailedAt

\* A failure appended is one failure more.
LEMMA AppendFailure ==
  ASSUME NEW w \in Seq(BOOLEAN)
  PROVE  /\ Append(w, FALSE) \in Seq(BOOLEAN)
         /\ Len(Append(w, FALSE)) = Len(w) + 1
         /\ Failures(Append(w, FALSE)) = Failures(w) + 1
<1> DEFINE v == Append(w, FALSE)
<1>1. /\ v \in Seq(BOOLEAN) /\ Len(v) = Len(w) + 1
      /\ \A i \in 1..Len(w) : v[i] = w[i]
      /\ v[Len(w) + 1] = FALSE
  BY AppendProperties
<1>2. Len(w) \in Nat /\ DOMAIN w = 1..Len(w) /\ DOMAIN v = 1..Len(w) + 1
  BY <1>1, LenProperties
<1>3. FailedAt(v) = FailedAt(w) \cup {Len(w) + 1}
  BY <1>1, <1>2 DEF FailedAt
<1>4. Len(w) + 1 \notin FailedAt(w)
  BY <1>2 DEF FailedAt
<1>5. IsFiniteSet(FailedAt(w)) /\ Failures(w) = Cardinality(FailedAt(w))
  BY FailuresBound
<1>6. Failures(v) = Cardinality(FailedAt(v))
  BY <1>1, FailuresBound
<1>7. Cardinality(FailedAt(w) \cup {Len(w) + 1}) = Cardinality(FailedAt(w)) + 1
  BY <1>4, <1>5, FS_AddElement
<1> QED  BY <1>1, <1>3, <1>5, <1>6, <1>7

\* Dropping the oldest result drops one failure at most.
LEMMA TailFailures ==
  ASSUME NEW w \in Seq(BOOLEAN), w # <<>>
  PROVE  /\ Tail(w) \in Seq(BOOLEAN)
         /\ Len(Tail(w)) = Len(w) - 1
         /\ Failures(Tail(w)) >= Failures(w) - 1
<1> DEFINE v == Tail(w)
           later == FailedAt(w) \ {1}
           shift == [i \in later |-> i - 1]
<1>1. /\ v \in Seq(BOOLEAN) /\ Len(v) = Len(w) - 1
      /\ \A i \in 1..Len(v) : v[i] = w[i + 1]
  BY HeadTailProperties
<1>2. Len(w) \in Nat /\ DOMAIN w = 1..Len(w) /\ DOMAIN v = 1..Len(v)
  BY <1>1, LenProperties
<1>3. ASSUME NEW i \in later
      PROVE  i \in Int /\ i - 1 \in FailedAt(v)
  <2>1. i \in 2..Len(w) /\ ~w[i]
    BY <1>2 DEF FailedAt
  <2>2. i - 1 \in 1..Len(v) /\ (i - 1) + 1 = i
    BY <2>1, <1>1, <1>2
  <2>3. v[i - 1] = w[i]
    BY <2>2, <1>1
  <2> QED  BY <2>1, <2>2, <2>3, <1>2 DEF FailedAt
<1>4. shift \in Injection(later, FailedAt(v))
  <2>1. shift \in [later -> FailedAt(v)]
    BY <1>3
  <2>2. \A i, j \in later : shift[i] = shift[j] => i = j
    BY <1>3
  <2> QED  BY <2>1, <2>2 DEF Injection, IsInjective
<1>5. /\ IsFiniteSet(FailedAt(v)) /\ Failures(v) = Cardinality(FailedAt(v))
      /\ Failures(v) \in Nat
  BY <1>1, FailuresBound
<1>6. Cardinality(later) <= Cardinality(FailedAt(v))
  BY <1>4, <1>5, FS_Injection
<1>7. /\ IsFiniteSet(FailedAt(w)) /\ Failures(w) = Cardinality(FailedAt(w))
      /\ Failures(w) \in Nat
  BY FailuresBound
<1>8. Cardinality(later) = IF 1 \in FailedAt(w) THEN Cardinality(FailedAt(w)) - 1
                           ELSE Cardinality(FailedAt(w))
  BY <1>7, FS_RemoveElement
<1> QED  BY <1>1, <1>5, <1>6, <1>7, <1>8

\* Products with a natural number: one more factor, and monotonicity.
LEMMA Products ==
  ASSUME NEW a \in Nat, NEW b \in Nat, NEW k \in Nat
  PROVE  /\ a * k \in Nat
         /\ (a + 1) * k = a * k + k
         /\ b >= a => b * k >= a * k
<1>1. a * k \in Nat
  OBVIOUS
<1>2. (a + 1) * k = a * k + k
  OBVIOUS
<1>3. ASSUME b >= a
      PROVE  b * k >= a * k
  <2>1. PICK more \in Nat : b = a + more
    <3>1. b - a \in Nat /\ b = a + (b - a)
      BY <1>3
    <3> QED  BY <3>1
  <2>2. (a + more) * k = a * k + more * k
    OBVIOUS
  <2>3. more * k \in Nat
    OBVIOUS
  <2> QED  BY <1>1, <2>1, <2>2, <2>3
<1> QED  BY <1>1, <1>2, <1>3

\* Remembering a failure keeps the window in bounds, and a failure rate that
\* is over its threshold stays over it.
LEMMA RememberFailure ==
  ASSUME NEW w \in Seq(BOOLEAN), Len(w) <= WindowSize
  PROVE  /\ Remember(w, FALSE) \in Seq(BOOLEAN)
         /\ Len(Remember(w, FALSE)) <= WindowSize
         /\ Failures(w) * RateDen > Len(w) * RateNum =>
              Failures(Remember(w, FALSE)) * RateDen
                > Len(Remember(w, FALSE)) * RateNum
<1> DEFINE u == Remember(w, FALSE)
<1>1. Len(w) \in Nat /\ Failures(w) \in Nat
  BY LenProperties, FailuresBound
<1>2. /\ WindowSize \in Nat /\ WindowSize > 0
      /\ RateNum \in Nat /\ RateDen \in Nat /\ RateNum <= RateDen
  BY ConstantTypes
<1>3. CASE Len(w) < WindowSize
  <2>1. u = Append(w, FALSE)
    BY <1>3 DEF Remember
  <2>2. /\ u \in Seq(BOOLEAN)
        /\ Len(u) = Len(w) + 1 /\ Failures(u) = Failures(w) + 1
    BY <2>1, AppendFailure
  <2> HIDE DEF u
  <2>3. /\ Failures(u) * RateDen = Failures(w) * RateDen + RateDen
        /\ Failures(w) * RateDen \in Nat
    BY <1>1, <1>2, <2>2, Products
  <2>4. /\ Len(u) * RateNum = Len(w) * RateNum + RateNum
        /\ Len(w) * RateNum \in Nat
    BY <1>1, <1>2, <2>2, Products
  <2>5. Len(u) <= WindowSize
    <3>1. Len(u) = Len(w) + 1
      BY <2>2
    <3> QED  BY <1>1, <1>2, <1>3, <3>1
  <2>6. Failures(w) * RateDen > Len(w) * RateNum =>
          Failures(u) * RateDen > Len(u) * RateNum
    BY <1>2, <2>3, <2>4
  <2> QED  BY <2>2, <2>5, <2>6 DEF u
<1>4. CASE ~(Len(w) < WindowSize)
  <2>1. w # <<>> /\ Len(w) = WindowSize
    BY <1>1, <1>2, <1>4, EmptySeq
  <2> DEFINE v == Tail(w)
  <2>2. u = Append(v, FALSE)
    BY <1>4 DEF Remember
  <2>3. /\ v \in Seq(BOOLEAN) /\ Len(v) = Len(w) - 1
        /\ Failures(v) >= Failures(w) - 1
    BY <2>1, TailFailures
  <2>4. Failures(v) \in Nat
    BY <2>3, FailuresBound
  <2>5. u \in Seq(BOOLEAN) /\ Len(u) = Len(v) + 1 /\ Failures(u) = Failures(v) + 1
    BY <2>2, <2>3, AppendFailure
  <2> HIDE DEF u, v
  <2>6. Len(u) = Len(w) /\ Failures(u) \in Nat /\ Failures(u) >= Failures(w)
    BY <1>1, <2>3, <2>4, <2>5
  <2>7. Failures(u) * RateDen >= Failures(w) * RateDen
    BY <1>1, <1>2, <2>6, Products
  <2>8. /\ Failures(w) * RateDen \in Nat /\ Len(w) * RateNum \in Nat
        /\ Failures(u) * RateDen \in Nat
    BY <1>1, <1>2, <2>6, Products
  <2>9. Failures(w) * RateDen > Len(w) * RateNum =>
          Failures(u) * RateDen > Len(u) * RateNum
    BY <2>6, <2>7, <2>8
  <2> QED  BY <2>1, <2>5, <2>6, <2>9 DEF u
<1> QED  BY <1>3, <1>4

\* Remembering a success keeps the window in bounds.
LEMMA RememberSuccess ==
  ASSUME NEW w \in Seq(BOOLEAN), Len(w) <= WindowSize
  PROVE  /\ Remember(w, TRUE) \in Seq(BOOLEAN)
         /\ Len(Remember(w, TRUE)) <= WindowSize
<1> DEFINE u == Remember(w, TRUE)
<1>1. Len(w) \in Nat
  BY LenProperties
<1>2. WindowSize \in Nat /\ WindowSize > 0
  BY ConstantTypes
<1>3. CASE Len(w) < WindowSize
  <2>1. u = Append(w, TRUE)
    BY <1>3 DEF Remember
  <2>2. u \in Seq(BOOLEAN) /\ Len(u) = Len(w) + 1
    <3>1. /\ Append(w, TRUE) \in Seq(BOOLEAN)
          /\ Len(Append(w, TRUE)) = Len(w) + 1
      BY AppendProperties
    <3> QED  BY <2>1, <3>1
  <2> HIDE DEF u
  <2>3. Len(u) = Len(w) + 1
    BY <2>2
  <2>4. Len(u) <= WindowSize
    BY <1>1, <1>2, <1>3, <2>3
  <2> QED  BY <2>2, <2>4 DEF u
<1>4. CASE ~(Len(w) < WindowSize)
  <2>1. w # <<>>
    BY <1>1, <1>2, <1>4, EmptySeq
  <2> DEFINE v == Tail(w)
  <2>2. u = Append(v, TRUE)
    BY <1>4 DEF Remember
  <2>3. v \in Seq(BOOLEAN) /\ Len(v) = Len(w) - 1
    BY <2>1, HeadTailProperties
  <2>4. u \in Seq(BOOLEAN) /\ Len(u) = Len(v) + 1
    <3>1. /\ Append(v, TRUE) \in Seq(BOOLEAN)
          /\ Len(Append(v, TRUE)) = Len(v) + 1
      BY <2>3, AppendProperties
    <3> QED  BY <2>2, <3>1
  <2> HIDE DEF u, v
  <2>5. Len(u) = Len(v) + 1 /\ Len(v) = Len(w) - 1
    BY <2>3, <2>4
  <2>6. Len(u) <= WindowSize
    BY <1>1, <2>5
  <2> QED  BY <2>4, <2>6 DEF u
<1> QED  BY <1>3, <1>4

-----------------------------------------------------------------------------
(* Types *)

\* The initial state is well typed.
LEMMA InitTypeOK == Init => TypeOK
BY ConstantTypes, EmptySeq DEF Init, TypeOK

\* Every step keeps the types and the bound of the window.
LEMMA NextTypeOK == TypeOK /\ [Next]_vars => TypeOK'
<1> SUFFICES ASSUME TypeOK, [Next]_vars PROVE TypeOK'
  OBVIOUS
<1> USE ConstantTypes
<1>1. ASSUME NEW t \in Threads, Call(t)
      PROVE  TypeOK'
  BY <1>1 DEF TypeOK, Call
<1>2. ASSUME NEW t \in Threads, Succeed(t)
      PROVE  TypeOK'
  <2>1. recent' \in Seq(BOOLEAN) /\ Len(recent') <= WindowSize
    BY <1>2, RememberSuccess DEF TypeOK, Succeed
  <2>2. state' = "closed" /\ consecutive' = 0 /\ waited' = 0
    BY <1>2 DEF Succeed
  <2>3. calling' \subseteq Threads /\ probing' \subseteq calling'
    BY <1>2 DEF TypeOK, Succeed, Leave
  <2> QED  BY <2>1, <2>2, <2>3 DEF TypeOK
<1>3. ASSUME NEW t \in Threads, Fail(t)
      PROVE  TypeOK'
  <2>1. recent' \in Seq(BOOLEAN) /\ Len(recent') <= WindowSize
    BY <1>3, RememberFailure DEF TypeOK, Fail
  <2>2. consecutive' \in 0..FailureThreshold
    <3>1. consecutive \in 0..FailureThreshold
      BY DEF TypeOK
    <3>2. consecutive' = IF consecutive < FailureThreshold THEN consecutive + 1
                         ELSE consecutive
      BY <1>3 DEF Fail
    <3> QED  BY <3>1, <3>2
  <2>3. \/ state' = "open" /\ waited' = 0
        \/ state' = state /\ waited' = waited
    BY <1>3 DEF Fail
  <2>4. state' \in {"closed", "open", "half_open"} /\ waited' \in 0..OpenSeconds
    BY <2>3 DEF TypeOK
  <2>5. calling' \subseteq Threads /\ probing' \subseteq calling'
    BY <1>3 DEF TypeOK, Fail, Leave
  <2> QED  BY <2>1, <2>2, <2>4, <2>5 DEF TypeOK
<1>4. ASSUME NEW t \in Threads, AnswerNothing(t)
      PROVE  TypeOK'
  BY <1>4 DEF TypeOK, AnswerNothing, Leave
<1>5. CASE Reset
  BY <1>5, EmptySeq DEF TypeOK, Reset
<1>6. CASE Wait
  BY <1>6 DEF TypeOK, Wait
<1>7. CASE UNCHANGED vars
  BY <1>7 DEF TypeOK, vars
<1> QED
  BY <1>1, <1>2, <1>3, <1>4, <1>5, <1>6, <1>7 DEF Next, Return

\* The window never holds more than WindowSize results, probing threads are
\* calling, and the time since opening is counted within OpenSeconds.
THEOREM BreakerTypeOK == Spec => []TypeOK
BY InitTypeOK, NextTypeOK, PTL DEF Spec

-----------------------------------------------------------------------------
(* The cause of opening stands *)

\* A failure cannot take away a cause that was there.
LEMMA FailureKeepsCause ==
  ASSUME TypeOK, Cause(consecutive, recent), NEW t \in Threads, Fail(t)
  PROVE  Cause(consecutive', recent')
<1> USE ConstantTypes
<1>1. recent' = Remember(recent, FALSE)
  BY DEF Fail
<1>2. CASE consecutive >= FailureThreshold
  <2>1. consecutive \in 0..FailureThreshold
    BY DEF TypeOK
  <2>2. consecutive' = IF consecutive < FailureThreshold THEN consecutive + 1
                       ELSE consecutive
    BY DEF Fail
  <2>3. consecutive' >= FailureThreshold
    BY <1>2, <2>1, <2>2
  <2> QED  BY <2>3 DEF Cause
<1>3. CASE Failures(recent) * RateDen > Len(recent) * RateNum
  BY <1>1, <1>3, RememberFailure DEF TypeOK, Cause
<1> QED  BY <1>2, <1>3 DEF Cause

\* CauseStands is inductive, given the types.
LEMMA NextCauseStands == TypeOK /\ CauseStands /\ [Next]_vars => CauseStands'
<1> SUFFICES ASSUME TypeOK, CauseStands, [Next]_vars PROVE CauseStands'
  OBVIOUS
<1>1. ASSUME NEW t \in Threads, Call(t)
      PROVE  CauseStands'
  BY <1>1 DEF CauseStands, Cause, Call
<1>2. ASSUME NEW t \in Threads, Succeed(t)
      PROVE  CauseStands'
  BY <1>2 DEF CauseStands, Succeed
<1>3. ASSUME NEW t \in Threads, Fail(t)
      PROVE  CauseStands'
  <2>1. CASE state = "closed"
    <3>1. Cause(consecutive', recent') \/ state' = "closed"
      BY <1>3, <2>1 DEF Fail
    <3> QED  BY <3>1 DEF CauseStands, Cause
  <2>2. CASE state # "closed"
    <3>1. Cause(consecutive', recent')
      BY <1>3, <2>2, FailureKeepsCause DEF CauseStands
    <3> QED  BY <3>1 DEF CauseStands, Cause
  <2> QED  BY <2>1, <2>2
<1>4. ASSUME NEW t \in Threads, AnswerNothing(t)
      PROVE  CauseStands'
  BY <1>4 DEF CauseStands, Cause, AnswerNothing
<1>5. CASE Reset
  BY <1>5 DEF CauseStands, Reset
<1>6. CASE Wait
  BY <1>6 DEF CauseStands, Cause, Wait
<1>7. CASE UNCHANGED vars
  BY <1>7 DEF CauseStands, Cause, vars
<1> QED
  BY <1>1, <1>2, <1>3, <1>4, <1>5, <1>6, <1>7 DEF Next, Return

\* Whatever opened the breaker still stands when its probe returns, however
\* many calls that began earlier have returned in the meantime.
THEOREM BreakerCauseStands == Spec => []CauseStands
<1>1. Init => CauseStands
  BY DEF Init, CauseStands
<1> QED  BY <1>1, NextCauseStands, BreakerTypeOK, PTL DEF Spec

\* Therefore a failed probe re-opens the breaker for a whole period.
THEOREM BreakerFailedProbeReopens == Spec => FailedProbeReopens
<1>1. ASSUME TypeOK, CauseStands, NEW t \in Threads, Fail(t),
             state = "half_open"
      PROVE  state' = "open" /\ waited' = 0
  <2>1. Cause(consecutive', recent')
    BY <1>1, FailureKeepsCause DEF CauseStands
  <2> QED  BY <1>1, <2>1 DEF Fail
<1>2. TypeOK /\ CauseStands /\ [Next]_vars =>
        [\A t \in Threads : Fail(t) /\ state = "half_open" =>
           state' = "open" /\ waited' = 0]_vars
  BY <1>1
<1> QED
  BY <1>2, BreakerTypeOK, BreakerCauseStands, PTL DEF Spec, FailedProbeReopens

-----------------------------------------------------------------------------
(****************************************************************************)
(* Proofs about Feed, for every chain of sources, any composite, any caches *)
(* and any number of threads: the feed drives the breaker as Breaker says,  *)
(* delayed prices never pass for real-time ones, and stale prices fill      *)
(* nothing that wants fresh ones.                                           *)
(*                                                                          *)
(* The last two need one strengthening: what a thread holds depends on what *)
(* it is for.  A quote on its way to the caches is never stale, and the     *)
(* anchor of a thread that must fill at fresh prices is fresh already.      *)
(****************************************************************************)

-----------------------------------------------------------------------------
(* The breaker inside the feed *)

\* Every step of the feed is a step of its breaker or none.
LEMMA FeedStepIsBreakerStep ==
  ASSUME [FeedNext]_feedVars
  PROVE  [Next]_vars
<1>1. ASSUME NEW t \in Threads, Start(t) \/ Prime(t)
      PROVE  UNCHANGED vars
  BY <1>1 DEF Start, Prime, GetQuote, GetMarketQuote
<1>2. ASSUME NEW t \in Threads, Step(t)
      PROVE  [Next]_vars
  <2>1. CASE Enter(t)
    BY <2>1 DEF Enter, Next
  <2>2. CASE GuardedAnswers(t) \/ GuardedFails(t)
    BY <2>2 DEF GuardedAnswers, GuardedFails, Next, Return
  <2>3. CASE \/ Refuse(t) \/ Answer(t) \/ Miss(t) \/ LastResort(t)
             \/ UpdateLong(t) \/ PutShort(t) \/ Execute(t)
    BY <2>3 DEF Refuse, Answer, Miss, LastResort, UpdateLong, PutShort, Execute
  <2> QED  BY <1>2, <2>1, <2>2, <2>3 DEF Step
<1>3. CASE Tick
  BY <1>3 DEF Tick, Next, Wait, vars
<1>4. CASE Restart
  BY <1>4 DEF Restart, Next
<1>5. CASE UNCHANGED feedVars
  BY <1>5 DEF feedVars
<1> QED
  BY <1>1, <1>2, <1>3, <1>4, <1>5 DEF FeedNext

\* The feed implements its breaker: whatever is proved of Breaker holds of
\* the breaker that guards a source of the chain.
THEOREM FeedRespectsBreaker == FeedSpec => BreakerRespected
<1>1. FeedInit => Init
  BY DEF FeedInit
<1> QED
  BY <1>1, FeedStepIsBreakerStep, PTL DEF FeedSpec, Spec, BreakerRespected

\* Inside the feed, too, whatever opened the breaker still stands while it is
\* not CLOSED, however lookups overlap.
THEOREM FeedCauseStands == FeedSpec => []CauseStands
BY FeedRespectsBreaker, BreakerCauseStands, PTL DEF BreakerRespected

-----------------------------------------------------------------------------
(* The median of a composite source *)

\* The members ps whose price is below v, and at most v.
Under(lasts, ps, v) == {p \in ps : lasts[p] < v}
UpTo(lasts, ps, v) == {p \in ps : lasts[p] <= v}

\* A finite set with two elements or more has another one than x.
LEMMA AnotherOne ==
  ASSUME NEW S, IsFiniteSet(S), Cardinality(S) >= 2, NEW x
  PROVE  \E y \in S : y # x
<1>1. SUFFICES ASSUME S \subseteq {x} PROVE FALSE
  OBVIOUS
<1>2. IsFiniteSet({x}) /\ Cardinality({x}) = 1
  BY FS_Singleton
<1>3. Cardinality(S) <= 1
  BY <1>1, <1>2, FS_Subset
<1>4. Cardinality(S) \in Nat
  BY FS_CardinalityType
<1> QED
  BY <1>3, <1>4

\* One of finitely many prices is the highest: the one above which there are
\* the fewest.
LEMMA HighestLast ==
  ASSUME NEW ps, IsFiniteSet(ps), ps # {}, NEW lasts, \A p \in ps : lasts[p] \in Nat
  PROVE  \E p \in ps : UpTo(lasts, ps, lasts[p]) = ps
<1> DEFINE Over(p) == {q \in ps : lasts[q] > lasts[p]}
           T == {Over(p) : p \in ps}
<1>1. IsWellFoundedOn(StrictSubsetOrdering(ps), SUBSET ps)
  BY FS_StrictSubsetOrderingWellFounded, FS_FiniteSubsetsOfFinite
<1>2. T \subseteq SUBSET ps /\ T # {}
  OBVIOUS
<1>3. PICK U \in T : \A V \in T : <<V, U>> \notin StrictSubsetOrdering(ps)
  <2> HIDE DEF T
  <2> QED
    BY <1>1, <1>2, WFMin
<1>4. PICK p \in ps : U = Over(p)
  OBVIOUS
<1>5. ASSUME NEW q \in Over(p)
      PROVE  FALSE
  <2>1. q \in ps /\ Over(q) \in T
    OBVIOUS
  <2>2. q \notin Over(q) /\ \A r \in Over(q) : r \in Over(p)
    BY <2>1
  <2>3. <<Over(q), Over(p)>> \in StrictSubsetOrdering(ps)
    BY <2>2 DEF StrictSubsetOrdering
  <2> QED
    BY <1>3, <1>4, <2>1, <2>3
<1>6. \A q \in ps : lasts[q] <= lasts[p]
  BY <1>5
<1> QED
  BY <1>6 DEF UpTo

\* The k-th price is one of the prices, with at most k below it and more than
\* k not above it.
LEMMA KthLastFacts ==
  ASSUME NEW ps, IsFiniteSet(ps), NEW lasts, \A p \in ps : lasts[p] \in Nat,
         NEW k \in Nat, k < Cardinality(ps)
  PROVE  /\ KthLast(lasts, ps, k) \in Nat
         /\ Cardinality(Under(lasts, ps, KthLast(lasts, ps, k))) <= k
         /\ Cardinality(UpTo(lasts, ps, KthLast(lasts, ps, k))) > k
<1> DEFINE W == {v \in Nat : Cardinality(UpTo(lasts, ps, v)) > k}
           Is(v) == /\ Cardinality(Under(lasts, ps, v)) <= k
                    /\ Cardinality(UpTo(lasts, ps, v)) > k
<1>1. \A v : /\ IsFiniteSet(Under(lasts, ps, v)) /\ IsFiniteSet(UpTo(lasts, ps, v))
             /\ Cardinality(Under(lasts, ps, v)) \in Nat
             /\ Cardinality(UpTo(lasts, ps, v)) \in Nat
  <2> SUFFICES ASSUME NEW v
               PROVE  /\ IsFiniteSet(Under(lasts, ps, v))
                      /\ IsFiniteSet(UpTo(lasts, ps, v))
                      /\ Cardinality(Under(lasts, ps, v)) \in Nat
                      /\ Cardinality(UpTo(lasts, ps, v)) \in Nat
    OBVIOUS
  <2>1. Under(lasts, ps, v) \in SUBSET ps /\ UpTo(lasts, ps, v) \in SUBSET ps
    BY DEF Under, UpTo
  <2> QED
    BY <2>1, FS_Subset, FS_CardinalityType
<1>2. W # {}
  <2>1. ps # {}
    BY FS_EmptySet
  <2>2. PICK p \in ps : UpTo(lasts, ps, lasts[p]) = ps
    BY <2>1, HighestLast
  <2>3. lasts[p] \in W
    BY <2>2
  <2> QED
    BY <2>3
<1>3. PICK m \in W : \A n \in W : m <= n
  <2>1. W \in SUBSET Nat
    OBVIOUS
  <2> HIDE DEF W
  <2> QED
    BY <1>2, <2>1, LeastNat
<1>4. Cardinality(Under(lasts, ps, m)) <= k
  <2>1. CASE m = 0
    <3>1. Under(lasts, ps, m) = {}
      BY <2>1 DEF Under
    <3> QED
      BY <3>1, FS_EmptySet
  <2>2. CASE m # 0
    <3>1. m - 1 \in Nat /\ m - 1 \notin W
      BY <1>3, <2>2
    <3>2. Under(lasts, ps, m) = UpTo(lasts, ps, m - 1)
      BY <2>2 DEF Under, UpTo
    <3> QED
      BY <1>1, <3>1, <3>2
  <2> QED
    BY <2>1, <2>2
<1>5. m \in {lasts[p] : p \in ps}
  <2>1. Under(lasts, ps, m) # UpTo(lasts, ps, m)
    BY <1>1, <1>4
  <2>2. PICK p \in ps : lasts[p] <= m /\ ~(lasts[p] < m)
    BY <2>1 DEF Under, UpTo
  <2> QED
    BY <2>2
<1>6. \E v \in {lasts[p] : p \in ps} : Is(v)
  BY <1>4, <1>5
<1>7. KthLast(lasts, ps, k) = CHOOSE v \in {lasts[p] : p \in ps} : Is(v)
  BY DEF KthLast, Under, UpTo
<1> HIDE DEF Is
<1>8. KthLast(lasts, ps, k) \in {lasts[p] : p \in ps} /\ Is(KthLast(lasts, ps, k))
  BY <1>6, <1>7
<1> QED
  BY <1>8 DEF Is

\* The k-th of three prices or more, when it is not an extreme one, has an
\* honest price on either side.
LEMMA BetweenHonest ==
  ASSUME NEW ps, IsFiniteSet(ps), NEW lasts, \A p \in ps : lasts[p] \in Nat,
         NEW k \in Nat, 1 <= k, k + 2 <= Cardinality(ps)
  PROVE  /\ \E p \in ps \ {Bad} : lasts[p] <= KthLast(lasts, ps, k)
         /\ \E p \in ps \ {Bad} : lasts[p] >= KthLast(lasts, ps, k)
<1> DEFINE v == KthLast(lasts, ps, k)
           low == UpTo(lasts, ps, v)
           under == Under(lasts, ps, v)
           high == ps \ under
<1>1. Cardinality(ps) \in Nat /\ k < Cardinality(ps)
  BY FS_CardinalityType
<1>2. v \in Nat /\ Cardinality(under) <= k /\ Cardinality(low) > k
  BY <1>1, KthLastFacts
<1>3. low \in SUBSET ps /\ under \in SUBSET ps /\ ps \cap under = under
  BY DEF UpTo, Under
<1>4. IsFiniteSet(low) /\ Cardinality(low) \in Nat /\ Cardinality(under) \in Nat
  BY <1>3, FS_Subset, FS_CardinalityType
<1>5. IsFiniteSet(high) /\ Cardinality(high) = Cardinality(ps) - Cardinality(under)
  BY <1>3, FS_Difference
<1> HIDE DEF v, low, high, under
<1>6. Cardinality(low) >= 2 /\ Cardinality(high) >= 2
  BY <1>1, <1>2, <1>4, <1>5
<1>7. PICK p \in low : p # Bad
  BY <1>4, <1>6, AnotherOne
<1>8. PICK q \in high : q # Bad
  BY <1>5, <1>6, AnotherOne
<1>9. p \in ps \ {Bad} /\ lasts[p] <= v
  BY <1>3, <1>7 DEF low, UpTo
<1>10. q \in ps \ {Bad} /\ lasts[q] >= v
  BY <1>2, <1>8 DEF high, under, Under
<1> QED
  BY <1>9, <1>10 DEF v

\* "one outlier can't drag a fill price" (composite.py 9-11): the median of
\* three prices or more lies between honest ones, whatever one member answers.
LEMMA MedianStaysInRange ==
  ASSUME NEW ps \in SUBSET Members, IsFiniteSet(ps), Cardinality(ps) >= 3,
         NEW lasts \in [Members -> Nat]
  PROVE  ~OutOfRange(TwiceMedian(lasts, ps), lasts)
<1> DEFINE n == Cardinality(ps)
           i == (n - 1) \div 2
           j == n \div 2
           u == KthLast(lasts, ps, i)
           v == KthLast(lasts, ps, j)
<1>1. n \in Nat /\ n >= 3
  BY FS_CardinalityType
<1>2. i \in Nat /\ 1 <= i /\ i + 2 <= n /\ j \in Nat /\ 1 <= j /\ j + 2 <= n
      /\ i <= j
  BY <1>1
<1>3. \A p \in ps : lasts[p] \in Nat
  OBVIOUS
<1>4. i < n /\ j < n
  BY <1>1, <1>2
<1>5. TwiceMedian(lasts, ps) = u + v
  BY DEF TwiceMedian
<1> HIDE DEF i, j
<1>6. u \in Nat /\ v \in Nat
  BY <1>2, <1>3, <1>4, KthLastFacts
<1>7. PICK p1, q1 \in ps \ {Bad} : lasts[p1] <= u /\ lasts[q1] >= u
  BY <1>2, <1>3, BetweenHonest
<1>8. PICK p2, q2 \in ps \ {Bad} : lasts[p2] <= v /\ lasts[q2] >= v
  BY <1>2, <1>3, BetweenHonest
<1> HIDE DEF n, u, v
<1>9. \A p \in {p1, q1, p2, q2} : p \in Members \ {Bad} /\ lasts[p] \in Nat
  BY <1>3, <1>7, <1>8
<1>10. 2 * lasts[p1] <= u + v \/ 2 * lasts[p2] <= u + v
  BY <1>6, <1>7, <1>8, <1>9
<1>11. 2 * lasts[q1] >= u + v \/ 2 * lasts[q2] >= u + v
  BY <1>6, <1>7, <1>8, <1>9
<1>12. \E p \in Members \ {Bad} : ~(u + v < 2 * lasts[p])
  BY <1>6, <1>9, <1>10
<1>13. \E p \in Members \ {Bad} : ~(u + v > 2 * lasts[p])
  BY <1>6, <1>9, <1>11
<1> QED
  BY <1>5, <1>12, <1>13 DEF OutOfRange

-----------------------------------------------------------------------------
(* What a thread may hold *)

\* The median needs three answers of finitely many members, all of them
\* prices.
Outvotes ==
  /\ IsFiniteSet(Members) /\ MinProviders >= 3
  /\ Last \in [Members -> Nat] /\ BadLasts \subseteq Nat

\* A price, or an entry of a cache, that is not wild then.
Tame(e) == Outvotes => ~e.wild

\* A quote that says the truth about its feed.
Honest(q) == (q.realTime => q.origin # "delayed") /\ Tame(q)

\* The quotes thread t may fill at, and those on their way to the caches.
Fillable(t) == {q \in Quote : Honest(q) /\ (t \in EnforceFresh => ~q.stale)}
Carried == {q \in Quote : Honest(q) /\ ~q.stale}

\* What a lookup is for, with the quote that a fill has already.
Plain == {"read", "fill", "watch"}
Purpose(t, op, a) ==
  \/ op \in Plain \cup {"prime"} /\ a = NoQuote
  \/ op = "book" /\ a \in Fillable(t) \cup {NoQuote}

\* The states of a thread.
Asks(t, r) ==
  /\ r = Ask(r.op, r.anchor, r.turn)
  /\ Purpose(t, r.op, r.anchor) /\ r.op # "prime"
  /\ r.turn \in 1..(Len(Chain) + 1)
Carries(t, r) ==
  /\ r \in {Hold(r.op, r.anchor, r.quote), Half(r.op, r.anchor, r.quote)}
  /\ Purpose(t, r.op, r.anchor) /\ r.quote \in Carried
Fills(t, r) == r = Priced(r.quote) /\ r.quote \in Fillable(t)
Proper(t, r) == r = Idle \/ Asks(t, r) \/ Carries(t, r) \/ Fills(t, r)

ShortEntries == [origin : {"live", "delayed", "primed"}, realTime : BOOLEAN,
                 wild : BOOLEAN, age : 0..ShortTTL]
ShortOK == short \in {NoEntry} \cup {e \in ShortEntries : Honest(e)}
LongEntries == [wild : BOOLEAN, age : 0..LongTTL + 1]
LongOK == long \in {NoEntry} \cup {e \in LongEntries : Tame(e)}

\* The inductive invariant.
FeedInv ==
  /\ call = [t \in Threads |-> call[t]]
  /\ \A t \in Threads : Proper(t, call[t])
  /\ ShortOK /\ LongOK /\ primes \in 0..MaxPrimes
  /\ \A t \in calling : t \in Threads /\ Asking(t) /\ SourceOf(t) = Guarded

\* Whatever a source answers is fresh and says the truth about its feed, also
\* when it is a median over several.
LEMMA AnswersAreCarried ==
  ASSUME NEW s, NEW q \in Answers(s)
  PROVE  q \in Carried
<1>1. CASE s = Composite
  <2>1. PICK b \in BadLasts, ps \in {qs \in SUBSET Members : Quorate(qs)} :
          q = Merge([Last EXCEPT ![Bad] = b], ps)
    BY <1>1 DEF Answers, CompositeAnswers
  <2>2. (\A p \in ps : p \in RealTime) => OriginOf(ps) = "live"
    BY DEF OriginOf
  <2>3. OriginOf(ps) \in {"live", "delayed"}
    BY DEF OriginOf
  <2> DEFINE lasts == [Last EXCEPT ![Bad] = b]
             wild == OutOfRange(TwiceMedian(lasts, ps), lasts)
  <2>4. Outvotes => ~wild
    <3> SUFFICES ASSUME Outvotes PROVE ~wild
      OBVIOUS
    <3>1. ps \in SUBSET Members /\ IsFiniteSet(ps) /\ lasts \in [Members -> Nat]
      BY <2>1, FS_Subset DEF Outvotes
    <3>2. Cardinality(ps) >= 3
      <4>1. Cardinality(ps) \in Nat /\ Cardinality(ps) >= MinProviders
        BY <2>1, <3>1, FS_CardinalityType DEF Quorate
      <4> QED
        BY <4>1, FeedAssumption DEF Outvotes, FeedAssumption
    <3> HIDE DEF lasts
    <3> QED
      BY <3>1, <3>2, MedianStaysInRange
  <2>5. wild \in BOOLEAN
    BY DEF OutOfRange
  <2>6. q = [origin |-> OriginOf(ps), realTime |-> \A p \in ps : p \in RealTime,
             rich |-> \E p \in ps : p \in Rich, wild |-> wild, stale |-> FALSE]
    BY <2>1 DEF Merge
  <2> HIDE DEF wild
  <2>7. q \in Quote /\ ~q.stale
    BY <2>3, <2>5, <2>6 DEF Quote
  <2>8. Honest(q)
    BY <2>2, <2>4, <2>6 DEF Honest, Tame
  <2> QED
    BY <2>7, <2>8 DEF Carried
<1>2. CASE s # Composite
  <2>1. PICK r \in BOOLEAN :
          q = [origin |-> OriginOf({s}), realTime |-> s \in RealTime,
               rich |-> r, wild |-> FALSE, stale |-> FALSE]
    BY <1>2 DEF Answers, PlainAnswers
  <2>2. CASE s \in RealTime
    <3>1. OriginOf({s}) = "live"
      BY <2>2 DEF OriginOf
    <3>2. q = [origin |-> "live", realTime |-> TRUE,
               rich |-> r, wild |-> FALSE, stale |-> FALSE]
      BY <2>1, <2>2, <3>1, Zenon
    <3> QED  BY <3>2 DEF Carried, Quote, Honest, Tame
  <2>3. CASE s \notin RealTime
    <3>1. OriginOf({s}) = "delayed"
      BY <2>3 DEF OriginOf
    <3>2. (s \in RealTime) = FALSE
      BY <2>3
    <3>3. q = [origin |-> "delayed", realTime |-> FALSE,
               rich |-> r, wild |-> FALSE, stale |-> FALSE]
      BY <2>1, <3>1, <3>2, Zenon
    <3> QED  BY <3>3 DEF Carried, Quote, Honest, Tame
  <2> QED  BY <2>2, <2>3
<1> QED  BY <1>1, <1>2

\* Where a thread goes with a quote is proper when the quote is honest, and
\* fresh if it has bid and ask: the guards of _get_fill_quote and of the
\* watcher keep stale ones out, and the second lookup falls back to the first.
LEMMA WentProper ==
  ASSUME NEW t \in Threads, NEW op, NEW a, NEW q \in Quote,
         Purpose(t, op, a), Honest(q), q.rich => ~q.stale
  PROVE  Proper(t, Went(t, op, a, q))
<1>1. CASE op = "fill" /\ Admits(t, q)
  <2>1. q \in Fillable(t)
    BY <1>1 DEF Admits, Fillable
  <2>2. 1 \in 1..(Len(Chain) + 1)
    BY FeedAssumption DEF FeedAssumption
  <2>3. Asks(t, Ask("book", q, 1))
    BY <2>1, <2>2 DEF Asks, Ask, Purpose
  <2> QED  BY <1>1, <2>3 DEF Went, Proper
<1>2. CASE op = "watch" /\ Watches(t, q)
  <2>1. Fills(t, Priced(q))
    BY <1>2 DEF Watches, Fillable, Fills, Priced
  <2> QED  BY <1>2, <2>1 DEF Went, Proper
<1>3. CASE op = "book" /\ a # NoQuote
  <2>1. FillPrice(q, a) \in Fillable(t)
    BY <1>3 DEF Purpose, FillPrice, Fillable, Plain
  <2>2. Fills(t, Priced(FillPrice(q, a)))
    BY <2>1 DEF Fills, Priced
  <2> QED  BY <1>3, <2>2 DEF Went, Proper
<1>4. CASE /\ ~(op = "fill" /\ Admits(t, q))
           /\ ~(op = "watch" /\ Watches(t, q))
           /\ ~(op = "book" /\ a # NoQuote)
  BY <1>4 DEF Went, Proper
<1> QED  BY <1>1, <1>2, <1>3, <1>4

\* Where a thread goes without a quote is proper: a fill keeps the price that
\* its guards let pass.
LEMMA WithoutProper ==
  ASSUME NEW t \in Threads, NEW op, NEW a, Purpose(t, op, a)
  PROVE  Proper(t, WentWithout(op, a))
<1>1. CASE op = "book" /\ a # NoQuote
  <2>1. Fills(t, Priced(a))
    BY <1>1 DEF Purpose, Fillable, Plain, Fills, Priced
  <2> QED  BY <1>1, <2>1 DEF WentWithout, Proper
<1>2. CASE ~(op = "book" /\ a # NoQuote)
  BY <1>2 DEF WentWithout, Proper
<1> QED  BY <1>1, <1>2

\* The states of a thread by where it is.
LEMMA StatesApart ==
  ASSUME NEW t, NEW r, Proper(t, r)
  PROVE  /\ r.at = "ask" => Asks(t, r)
         /\ r.at \in {"hold", "half"} => Carries(t, r)
         /\ r.at = "priced" => Fills(t, r)
BY DEF Proper, Idle, Asks, Ask, Carries, Hold, Half, Fills, Priced

\* What the two caches answer may be passed on, and is fresh if it has bid
\* and ask.
LEMMA CachedQuotes ==
  /\ ShortOK /\ short # NoEntry =>
       /\ ShortQuote \in Quote /\ Honest(ShortQuote)
       /\ ShortQuote.rich => ~ShortQuote.stale
  /\ LongOK /\ long # NoEntry =>
       /\ StaleQuote \in Quote /\ Honest(StaleQuote)
       /\ StaleQuote.rich => ~StaleQuote.stale
<1>1. ASSUME ShortOK, short # NoEntry
      PROVE  /\ ShortQuote \in Quote /\ Honest(ShortQuote)
             /\ ShortQuote.rich => ~ShortQuote.stale
  BY <1>1 DEF ShortOK, ShortEntries, ShortQuote, Quote, Honest, Tame
<1>2. ASSUME LongOK, long # NoEntry
      PROVE  /\ StaleQuote \in Quote /\ Honest(StaleQuote)
             /\ StaleQuote.rich => ~StaleQuote.stale
  BY <1>2 DEF LongOK, LongEntries, StaleQuote, Quote, Honest, Tame
<1> QED  BY <1>1, <1>2

-----------------------------------------------------------------------------
(* The steps of the feed *)

\* Initially no thread asks and nothing is cached.
LEMMA InitFeedInv == FeedInit => FeedInv
<1> SUFFICES ASSUME FeedInit PROVE FeedInv
  OBVIOUS
<1>1. \A t \in Threads : Proper(t, call[t])
  BY DEF FeedInit, Proper
<1>2. ShortOK /\ LongOK /\ primes \in 0..MaxPrimes
  BY FeedAssumption DEF FeedAssumption, FeedInit, ShortOK, LongOK
<1>3. calling = {}
  BY DEF FeedInit, Init
<1> QED  BY <1>1, <1>2, <1>3 DEF FeedInv, FeedInit

\* One thread moves to a proper state, outside the breaker: the others stay.
LEMMA OneMoves ==
  ASSUME FeedInv, NEW t \in Threads, NEW r, Proper(t, r),
         call' = [call EXCEPT ![t] = r],
         calling' \subseteq calling \ {t}
  PROVE  /\ call' = [u \in Threads |-> call'[u]]
         /\ \A u \in Threads : Proper(u, call'[u])
         /\ \A u \in calling' :
              u \in Threads /\ Asking(u)' /\ (SourceOf(u) = Guarded)'
<1>1. call' = [u \in Threads |-> IF u = t THEN r ELSE call[u]]
  BY DEF FeedInv
<1>2. \A u \in Threads : Proper(u, call'[u])
  BY <1>1 DEF FeedInv
<1>3. ASSUME NEW u \in calling'
      PROVE  u \in Threads /\ Asking(u)' /\ (SourceOf(u) = Guarded)'
  <2>1. u \in calling /\ u # t /\ u \in Threads
    BY DEF FeedInv
  <2>2. call'[u] = call[u]
    BY <1>1, <2>1
  <2> QED  BY <2>1, <2>2 DEF FeedInv, Asking, SourceOf
<1> QED  BY <1>1, <1>2, <1>3

\* A thread that has not begun, or holds an answer, is not in the breaker.
LEMMA OutsideBreaker ==
  ASSUME FeedInv, NEW t \in Threads,
         call[t].at # "ask" \/ call[t].turn > Len(Chain) \/ SourceOf(t) # Guarded
  PROVE  t \notin calling
<1> SUFFICES ASSUME t \in calling PROVE FALSE
  OBVIOUS
<1>1. Asking(t) /\ SourceOf(t) = Guarded
  BY DEF FeedInv
<1>2. PICK r : r = call[t] /\ Proper(t, r)
  BY DEF FeedInv
<1>3. r.turn \in 1..(Len(Chain) + 1)
  BY <1>1, <1>2, StatesApart DEF Asks, Asking
<1> QED  BY <1>1, <1>2, <1>3, FeedAssumption DEF Asking, FeedAssumption

\* The next source is asked, for the same purpose.
LEMMA NextTurnProper ==
  ASSUME FeedInv, NEW t \in Threads, Asking(t)
  PROVE  Proper(t, Ask(call[t].op, call[t].anchor, call[t].turn + 1))
<1>1. Asks(t, call[t])
  BY StatesApart DEF FeedInv, Asking
<1>2. call[t].turn + 1 \in 1..(Len(Chain) + 1)
  BY <1>1, FeedAssumption DEF Asks, Asking, FeedAssumption
<1>3. Asks(t, Ask(call[t].op, call[t].anchor, call[t].turn + 1))
  BY <1>1, <1>2 DEF Asks, Ask
<1> QED  BY <1>3 DEF Proper

\* What a source answers is carried to the caches, for the same purpose.
LEMMA HoldsProper ==
  ASSUME FeedInv, NEW t \in Threads, Asking(t), NEW s, NEW q \in Answers(s)
  PROVE  Proper(t, Hold(call[t].op, call[t].anchor, q))
<1>1. Asks(t, call[t])
  BY StatesApart DEF FeedInv, Asking
<1>2. q \in Carried
  BY AnswersAreCarried
<1>3. Carries(t, Hold(call[t].op, call[t].anchor, q))
  BY <1>1, <1>2 DEF Asks, Carries, Hold
<1> QED  BY <1>3 DEF Proper

\* Each step of a thread leads it to a proper state.
LEMMA StartMoves ==
  ASSUME FeedInv, NEW t \in Threads, Start(t) \/ Prime(t)
  PROVE  FeedInv'
<1>1. call[t] = Idle /\ t \notin calling
  BY OutsideBreaker DEF Start, GetQuote, GetMarketQuote, Prime, Idle
<1>2. 1 \in 1..(Len(Chain) + 1)
  BY FeedAssumption DEF FeedAssumption
<1>3. CASE Start(t)
  <2>1. ASSUME NEW op \in {"read", "fill", "watch"}, GetQuote(t, op)
        PROVE  \E r : Proper(t, r) /\ call' = [call EXCEPT ![t] = r]
    <3>1. Purpose(t, op, NoQuote)
      BY DEF Purpose, Plain
    <3>2. Proper(t, Ask(op, NoQuote, 1))
      BY <1>2, <3>1 DEF Proper, Asks, Ask
    <3>3. CASE ShortHit
      <4>1. Proper(t, Went(t, op, NoQuote, ShortQuote))
        BY <3>1, <3>3, WentProper, CachedQuotes DEF ShortHit, FeedInv
      <4> QED  BY <2>1, <3>3, <4>1 DEF GetQuote
    <3> QED  BY <2>1, <3>2, <3>3 DEF GetQuote
  <2>2. ASSUME GetMarketQuote(t)
        PROVE  \E r : Proper(t, r) /\ call' = [call EXCEPT ![t] = r]
    <3>1. Proper(t, Ask("book", NoQuote, 1))
      BY <1>2 DEF Proper, Asks, Ask, Purpose
    <3> QED  BY <2>2, <3>1 DEF GetMarketQuote
  <2>3. PICK r : Proper(t, r) /\ call' = [call EXCEPT ![t] = r]
    BY <1>3, <2>1, <2>2 DEF Start
  <2>4. UNCHANGED <<calling, short, long, primes>>
    BY <1>3 DEF Start, GetQuote, GetMarketQuote, vars
  <2> QED
    BY <1>1, <2>3, <2>4, OneMoves DEF FeedInv, ShortOK, LongOK
<1>4. CASE Prime(t)
  <2> DEFINE q == [origin |-> "primed", realTime |-> TRUE, rich |-> FALSE,
                   wild |-> FALSE, stale |-> FALSE]
  <2>1. Proper(t, Hold("prime", NoQuote, q))
    BY DEF Proper, Carries, Hold, Purpose, Carried, Quote, Honest, Tame
  <2>2. call' = [call EXCEPT ![t] = Hold("prime", NoQuote, q)]
    BY <1>4 DEF Prime
  <2>3. UNCHANGED <<calling, short, long>> /\ primes' \in 0..MaxPrimes
    BY <1>4, FeedAssumption DEF Prime, vars, FeedInv, FeedAssumption
  <2> QED
    BY <1>1, <2>1, <2>2, <2>3, OneMoves DEF FeedInv, ShortOK, LongOK
<1> QED  BY <1>3, <1>4

\* The steps of a lookup among the sources: the breaker is left with the
\* answer, and a refusal was no call.
LEMMA LookupMoves ==
  ASSUME FeedInv, NEW t \in Threads,
         Refuse(t) \/ GuardedAnswers(t) \/ GuardedFails(t) \/ Answer(t) \/ Miss(t)
  PROVE  FeedInv'
<1>1. Asking(t)
  BY DEF Refuse, GuardedAnswers, GuardedFails, Answer, Miss
<1>2. UNCHANGED <<short, long, primes>>
  BY DEF Refuse, GuardedAnswers, GuardedFails, Answer, Miss
<1>3. calling' \subseteq calling \ {t}
  <2>1. CASE Refuse(t)
    BY <2>1 DEF Refuse, vars
  <2>2. CASE GuardedAnswers(t) \/ GuardedFails(t)
    BY <2>2 DEF GuardedAnswers, GuardedFails, Succeed, Fail, AnswerNothing, Leave
  <2>3. CASE Answer(t) \/ Miss(t)
    BY <2>3, OutsideBreaker DEF Answer, Miss, vars
  <2> QED  BY <2>1, <2>2, <2>3
<1>4. \E r : Proper(t, r) /\ call' = [call EXCEPT ![t] = r]
  <2>1. CASE NextTurn(t)
    BY <1>1, <2>1, NextTurnProper DEF NextTurn
  <2>2. ASSUME NEW s, NEW q \in Answers(s), Holds(t, q)
        PROVE  \E r : Proper(t, r) /\ call' = [call EXCEPT ![t] = r]
    BY <1>1, <2>2, HoldsProper DEF Holds
  <2> QED
    BY <2>1, <2>2 DEF Refuse, GuardedAnswers, GuardedFails, Answer, Miss
<1>5. PICK r : Proper(t, r) /\ call' = [call EXCEPT ![t] = r]
  BY <1>4
<1> QED
  BY <1>2, <1>3, <1>5, OneMoves DEF FeedInv, ShortOK, LongOK

\* A thread enters the breaker at the source it guards.
LEMMA EnterMoves ==
  ASSUME FeedInv, NEW t \in Threads, Enter(t)
  PROVE  FeedInv'
<1>1. UNCHANGED <<call, short, long, primes>> /\ calling' = calling \cup {t}
  BY DEF Enter, Call
<1>2. Asking(t) /\ SourceOf(t) = Guarded
  BY DEF Enter
<1>3. \A u \in calling' : u \in Threads /\ Asking(u)' /\ (SourceOf(u) = Guarded)'
  BY <1>1, <1>2 DEF FeedInv, Asking, SourceOf
<1> QED
  BY <1>1, <1>3 DEF FeedInv, ShortOK, LongOK

\* Without a source, the long cache answers or the lookup ends.
LEMMA LastResortMoves ==
  ASSUME FeedInv, NEW t \in Threads, LastResort(t)
  PROVE  FeedInv'
<1> DEFINE op == call[t].op
           a == call[t].anchor
<1>1. /\ call[t].at = "ask" /\ call[t].turn > Len(Chain)
      /\ UNCHANGED <<calling, short, long, primes>>
  BY DEF LastResort, vars
<1>2. t \notin calling
  BY <1>1, OutsideBreaker
<1>3. Purpose(t, op, a)
  BY <1>1, StatesApart DEF FeedInv, Asks
<1>4. CASE LongHit
  <2>1. Proper(t, Went(t, op, a, StaleQuote))
    BY <1>3, <1>4, WentProper, CachedQuotes DEF LongHit, FeedInv
  <2>2. call' = [call EXCEPT ![t] = Went(t, op, a, StaleQuote)]
    BY <1>4 DEF LastResort
  <2> QED
    BY <1>1, <1>2, <2>1, <2>2, OneMoves DEF FeedInv, ShortOK, LongOK
<1>5. CASE ~LongHit
  <2>1. Proper(t, WentWithout(op, a))
    BY <1>3, WithoutProper
  <2>2. call' = [call EXCEPT ![t] = WentWithout(op, a)]
    BY <1>5 DEF LastResort
  <2> QED
    BY <1>1, <1>2, <2>1, <2>2, OneMoves DEF FeedInv, ShortOK, LongOK
<1> QED  BY <1>4, <1>5

\* Both caches are written with what was carried; then the thread goes on.
LEMMA WritesMove ==
  ASSUME FeedInv, NEW t \in Threads, UpdateLong(t) \/ PutShort(t)
  PROVE  FeedInv'
<1> DEFINE op == call[t].op
           a == call[t].anchor
           q == call[t].quote
<1>1. call[t].at \in {"hold", "half"} /\ UNCHANGED <<calling, primes>>
  BY DEF UpdateLong, PutShort, vars
<1>2. t \notin calling
  BY <1>1, OutsideBreaker
<1>3. Purpose(t, op, a) /\ q \in Carried
  BY <1>1, StatesApart DEF FeedInv, Carries
<1>4. q \in Quote /\ Honest(q) /\ ~q.stale
  BY <1>3 DEF Carried
<1>5. CASE UpdateLong(t)
  <2>1. Proper(t, Half(op, a, q))
    BY <1>3 DEF Proper, Carries, Half
  <2>2. call' = [call EXCEPT ![t] = Half(op, a, q)]
    BY <1>5 DEF UpdateLong
  <2>3. LongOK' /\ short' = short
    <3>1. long' = [wild |-> q.wild, age |-> 0] /\ short' = short
      BY <1>5 DEF UpdateLong
    <3>2. q.wild \in BOOLEAN /\ 0 \in 0..LongTTL + 1 /\ Tame(q)
      BY <1>4, FeedAssumption DEF Quote, Honest, FeedAssumption
    <3> QED  BY <3>1, <3>2 DEF LongOK, LongEntries, Tame
  <2> QED
    BY <1>1, <1>2, <2>1, <2>2, <2>3, OneMoves DEF FeedInv, ShortOK
<1>6. CASE PutShort(t)
  <2>1. Proper(t, Went(t, op, a, q))
    BY <1>3, <1>4, WentProper
  <2>2. call' = [call EXCEPT ![t] = Went(t, op, a, q)]
    BY <1>6 DEF PutShort
  <2>3. ShortOK' /\ long' = long
    <3>1. short' = ShortEntry(q) /\ long' = long
      BY <1>6 DEF PutShort
    <3>2. 0 \in 0..ShortTTL
      BY FeedAssumption DEF FeedAssumption
    <3>3. ShortEntry(q) \in ShortEntries /\ Honest(ShortEntry(q))
      BY <1>4, <3>2 DEF ShortEntry, ShortEntries, Quote, Honest, Tame
    <3> QED  BY <3>1, <3>3 DEF ShortOK
  <2> QED
    BY <1>1, <1>2, <2>1, <2>2, <2>3, OneMoves DEF FeedInv, LongOK
<1> QED  BY <1>5, <1>6

\* A fill is made, time passes, or an operator resets the breaker.
LEMMA OthersMove ==
  ASSUME FeedInv
  PROVE  /\ \A t \in Threads : Execute(t) => FeedInv'
         /\ Tick => FeedInv'
         /\ Restart => FeedInv'
         /\ UNCHANGED feedVars => FeedInv'
<1>1. ASSUME NEW t \in Threads, Execute(t)
      PROVE  FeedInv'
  <2>1. /\ call[t].at = "priced" /\ call' = [call EXCEPT ![t] = Idle]
        /\ UNCHANGED <<calling, short, long, primes>>
    BY <1>1 DEF Execute, vars
  <2>2. t \notin calling /\ Proper(t, Idle)
    BY <2>1, OutsideBreaker DEF Proper
  <2> QED
    BY <2>1, <2>2, OneMoves DEF FeedInv, ShortOK, LongOK
<1>2. ASSUME UNCHANGED <<call, calling, short, long, primes>>
      PROVE  FeedInv'
  BY <1>2 DEF FeedInv, ShortOK, LongOK, Asking, SourceOf
<1>3. CASE Tick
  <2>1. UNCHANGED <<call, calling, primes>>
    BY <1>3 DEF Tick
  <2>2. ShortOK'
    <3>1. short' = Older(short, ShortTTL)
      BY <1>3 DEF Tick
    <3>2. ShortTTL \in Nat
      BY FeedAssumption DEF FeedAssumption
    <3> QED
      BY <3>1, <3>2 DEF FeedInv, ShortOK, ShortEntries, Older, Honest, Tame
  <2>3. LongOK'
    <3>1. long' = Older(long, LongTTL + 1)
      BY <1>3 DEF Tick
    <3>2. LongTTL \in Nat
      BY FeedAssumption DEF FeedAssumption
    <3> QED
      BY <3>1, <3>2 DEF FeedInv, LongOK, LongEntries, Older, Tame
  <2> QED
    BY <2>1, <2>2, <2>3 DEF FeedInv, Asking, SourceOf
<1>4. CASE Restart
  BY <1>2, <1>4 DEF Restart, Reset
<1>5. CASE UNCHANGED feedVars
  BY <1>2, <1>5 DEF feedVars, vars
<1> QED  BY <1>1, <1>3, <1>4, <1>5

\* The invariant holds throughout.
LEMMA FeedKeepsInv == FeedSpec => []FeedInv
<1>1. FeedInv /\ [FeedNext]_feedVars => FeedInv'
  <2> SUFFICES ASSUME FeedInv, [FeedNext]_feedVars PROVE FeedInv'
    OBVIOUS
  <2>1. ASSUME NEW t \in Threads, Start(t) \/ Prime(t) \/ Step(t)
        PROVE  FeedInv'
    BY <2>1, StartMoves, LookupMoves, EnterMoves, LastResortMoves, WritesMove,
       OthersMove DEF Step
  <2> QED  BY <2>1, OthersMove DEF FeedNext
<1> QED  BY InitFeedInv, <1>1, PTL DEF FeedSpec

-----------------------------------------------------------------------------
(* What follows *)

\* A proper state is a state of a thread.
LEMMA ProperIsThread ==
  ASSUME NEW t \in Threads, NEW r, Proper(t, r)
  PROVE  r \in Thread
<1> DEFINE Anchors == Quote \cup {NoQuote}
<1>1. \A a : a \in Fillable(t) \cup {NoQuote} => a \in Anchors
  BY DEF Fillable
<1>2. CASE r = Idle
  BY <1>2 DEF Thread
<1>3. CASE Asks(t, r)
  <2>1. \/ r.op \in Plain /\ r.anchor = NoQuote
        \/ r.op = "book" /\ r.anchor \in Anchors
    BY <1>1, <1>3 DEF Asks, Purpose
  <2> QED
    BY <1>3, <2>1 DEF Asks, Ask, Thread, Plain
<1>4. CASE Carries(t, r)
  <2>1. \/ r.op \in Plain \cup {"prime"} /\ r.anchor = NoQuote
        \/ r.op = "book" /\ r.anchor \in Anchors
    BY <1>1, <1>4 DEF Carries, Purpose
  <2>2. r.quote \in Quote
    BY <1>4 DEF Carries, Carried
  <2> QED
    BY <1>4, <2>1, <2>2 DEF Carries, Hold, Half, Thread, Plain
<1>5. CASE Fills(t, r)
  BY <1>5 DEF Fills, Fillable, Priced, Thread
<1> QED  BY <1>2, <1>3, <1>4, <1>5 DEF Proper

\* Types: every lookup is somewhere the code can be, an entry of a cache ages
\* to its cap only, and whoever is inside the breaker is asking a source.
THEOREM FeedTypes == FeedSpec => []FeedTypeOK
<1>1. FeedInv => FeedTypeOK
  <2> SUFFICES ASSUME FeedInv PROVE FeedTypeOK
    OBVIOUS
  <2>1. call \in [Threads -> Thread]
    BY ProperIsThread DEF FeedInv
  <2>2. calling \subseteq {t \in Threads : Asking(t)}
    BY DEF FeedInv
  <2>3. /\ short \in {NoEntry} \cup [origin : {"live", "delayed", "primed"},
             realTime : BOOLEAN, wild : BOOLEAN, age : 0..ShortTTL]
        /\ long \in {NoEntry} \cup [wild : BOOLEAN, age : 0..LongTTL + 1]
        /\ primes \in 0..MaxPrimes
    BY DEF FeedInv, ShortOK, ShortEntries, LongOK, LongEntries
  <2> QED  BY <2>1, <2>2, <2>3 DEF FeedTypeOK
<1> QED  BY <1>1, FeedKeepsInv, PTL

\* What a thread has in hand is what its state allows.
LEMMA HandIsHonest ==
  ASSUME FeedInv, NEW t \in Threads, NEW q \in InHand(t)
  PROVE  Honest(q)
<1>1. CASE q = call[t].quote /\ call[t].at \in {"hold", "half"}
  BY <1>1, StatesApart DEF FeedInv, Carries, Carried
<1>2. CASE q = call[t].quote /\ call[t].at = "priced"
  BY <1>2, StatesApart DEF FeedInv, Fills, Fillable
<1>3. CASE q = call[t].anchor /\ q # NoQuote /\ call[t].at \in {"ask", "hold", "half"}
  BY <1>3, StatesApart DEF FeedInv, Asks, Carries, Purpose, Fillable
<1> QED  BY <1>1, <1>2, <1>3 DEF InHand

\* A delayed feed cannot be laundered into a real-time one (price_feed.py
\* 145-147), by any number of threads, sources, members and cached answers.
THEOREM FeedNoLaundering == FeedSpec => []NoLaundering
<1>1. FeedInv => NoLaundering
  BY HandIsHonest DEF NoLaundering, FeedInv, ShortOK, Honest
<1> QED  BY <1>1, FeedKeepsInv, PTL

\* A thread that wants fresh prices fills at no other (price_feed.py 62-65),
\* although it looks the price up twice and guards the first lookup only.
THEOREM FeedFreshFills == FeedSpec => []FreshFills
<1>1. ASSUME FeedInv, NEW t \in EnforceFresh, call[t].at = "priced"
      PROVE  ~call[t].quote.stale
  <2>1. t \in Threads
    BY FeedAssumption DEF FeedAssumption
  <2> QED  BY <1>1, <2>1, StatesApart DEF FeedInv, Fills, Fillable
<1>2. FeedInv => FreshFills
  BY <1>1 DEF FreshFills
<1> QED  BY <1>2, FeedKeepsInv, PTL

\* "one outlier can't drag a fill price" (composite.py 9-11), through any
\* chain of sources, the caches and any number of threads, when the median
\* needs three answers.
THEOREM FeedOutlierOutvoted ==
  ASSUME IsFiniteSet(Members), MinProviders >= 3,
         Last \in [Members -> Nat], BadLasts \subseteq Nat
  PROVE  FeedSpec => []OutlierOutvoted
<1>1. Outvotes
  BY DEF Outvotes
<1>2. FeedInv => OutlierOutvoted
  BY <1>1, HandIsHonest
  DEF OutlierOutvoted, FeedInv, ShortOK, LongOK, Honest, Tame
<1> QED  BY <1>2, FeedKeepsInv, PTL
===============================================================================
