-------------------------------- MODULE Feed --------------------------------
(****************************************************************************)
(* PriceFeed: the chain of market data sources, the two caches around it,   *)
(* and the threads that read prices and fill market orders through it.      *)
(*                                                                          *)
(* Abstractions.                                                            *)
(*  - One symbol: the caches keep symbols apart.  The breaker of a source   *)
(*    is shared by all symbols: an unknown one is an empty answer.          *)
(*  - A quote is what the guards and the fills tell apart: where its price  *)
(*    comes from, the flag is_real_time, whether it has bid and ask, whether *)
(*    it is stale, and whether its price is wild, outside the range of the  *)
(*    honest members of a composite source.                                 *)
(*  - One source of the chain is wrapped by a CircuitBreakerProvider, the   *)
(*    module Breaker.  Another may be a CompositeProvider with the median.  *)
(*  - Time is counted in ticks, and only as far as anything depends on it.  *)
(****************************************************************************)
EXTENDS Breaker

CONSTANTS
  Chain,                \* PriceFeed.providers, in order
  Guarded,              \* the source behind the breaker
  Composite,            \* the source that is a CompositeProvider
  Members,              \* its providers
  MinProviders,         \* MedianAggregation.min_providers
  Last,                 \* what the honest members answer: [Members -> Nat]
  Bad, BadLasts,        \* the member that may be wrong, and what it answers
  RealTime,             \* sources and members whose quotes are real-time
  Rich,                 \* those that can answer bid and ask
  ShortTTL, LongTTL,    \* of the two caches, in ticks
  EnforceFresh,         \* threads of brokers with enforce_fresh_prices
  EnforceRealTime,      \* threads of brokers with enforce_real_time
  MaxPrimes             \* bound on calls of prime

VARIABLES
  call,                 \* what each thread is doing
  short,                \* the entry of InMemoryShortCache
  long,                 \* the entry of CachedLastKnownProvider
  primes                \* calls of prime so far

feedVars == <<vars, call, short, long, primes>>

Sources == {Chain[i] : i \in DOMAIN Chain}

ASSUME FeedAssumption ==
  /\ Len(Chain) \in Nat
  /\ Guarded # Composite /\ Composite \notin Members
  /\ Bad \in Members /\ MinProviders \in Nat \ {0}
  /\ ShortTTL \in Nat \ {0} /\ LongTTL \in Nat \ {0} /\ MaxPrimes \in Nat
  /\ EnforceFresh \subseteq Threads /\ EnforceRealTime \subseteq Threads

-----------------------------------------------------------------------------
(* Quotes and what the sources answer *)

Quote == [origin : {"live", "delayed", "primed"}, realTime : BOOLEAN,
          rich : BOOLEAN, wild : BOOLEAN, stale : BOOLEAN]
NoQuote == [origin |-> "none"]
NoEntry == [age |-> -1]

OriginOf(ps) == IF ps \subseteq RealTime THEN "live" ELSE "delayed"

PlainAnswers(s) ==
  { [origin |-> OriginOf({s}), realTime |-> s \in RealTime, rich |-> r,
     wild |-> FALSE, stale |-> FALSE] : r \in {b \in BOOLEAN : b => s \in Rich} }

\* sorted(...)[k], counting from 0.
KthLast(lasts, ps, k) ==
  CHOOSE v \in {lasts[p] : p \in ps} :
    /\ Cardinality({p \in ps : lasts[p] < v}) <= k
    /\ Cardinality({p \in ps : lasts[p] <= v}) > k

\* _median, doubled to stay among the integers.
TwiceMedian(lasts, ps) ==
  LET n == Cardinality(ps)
  IN  KthLast(lasts, ps, (n - 1) \div 2) + KthLast(lasts, ps, n \div 2)

\* Whether the merged price leaves the range of the honest members' prices.
OutOfRange(twice, lasts) ==
  \/ \A p \in Members \ {Bad} : twice < 2 * lasts[p]
  \/ \A p \in Members \ {Bad} : twice > 2 * lasts[p]

\* MedianAggregation.__call__ on the quotes of the members ps.
Merge(lasts, ps) ==
  [origin |-> OriginOf(ps), realTime |-> \A p \in ps : p \in RealTime,
   rich |-> \E p \in ps : p \in Rich,
   wild |-> OutOfRange(TwiceMedian(lasts, ps), lasts), stale |-> FALSE]

\* Mutant of Quorate: min_providers is forgotten.
AnyAnswered(ps) == ps # {}

\* len(quotes) < min_providers: no consensus.
Quorate(ps) == Cardinality(ps) >= MinProviders

\* CompositeProvider.get_quote: any of the members may fail to answer.
CompositeAnswers ==
  { Merge([Last EXCEPT ![Bad] = b], ps) :
      b \in BadLasts, ps \in {qs \in SUBSET Members : Quorate(qs)} }

\* What a source may answer, other than None.
Answers(s) == IF s = Composite THEN CompositeAnswers ELSE PlainAnswers(s)

-----------------------------------------------------------------------------
(* Where a thread is.  A lookup asks the sources in turn, holds the answer,  *)
(* writes it to the two caches and goes on to what it was for:               *)
(*   read   get_quote, by a read or a worker                                 *)
(*   fill   get_quote of market._get_fill_quote, then the guards             *)
(*   watch  get_quote of the watcher's tick, then its limit and stop fills   *)
(*   book   get_market_quote for maybe_apply_book_impact, with the guarded   *)
(*          quote in anchor, or for maybe_join_book_queue, with none         *)
(*   prime  the writes of prime                                              *)

Idle == [at |-> "idle"]
Ask(op, anchor, turn) ==
  [at |-> "ask", op |-> op, anchor |-> anchor, turn |-> turn]
Hold(op, anchor, q) ==
  [at |-> "hold", op |-> op, anchor |-> anchor, quote |-> q]
Half(op, anchor, q) ==
  [at |-> "half", op |-> op, anchor |-> anchor, quote |-> q]
Priced(q) == [at |-> "priced", quote |-> q]

FeedInit ==
  /\ Init
  /\ call = [t \in Threads |-> Idle]
  /\ short = NoEntry /\ long = NoEntry /\ primes = 0

\* The guards of _get_fill_quote.
Admits(t, q) ==
  /\ (t \in EnforceFresh) => ~q.stale
  /\ t \in EnforceRealTime => q.realTime

\* Mutant of FillPrice: the second lookup prices the fill whatever it has.
FillPriceFromLast(q, anchor) == q

\* maybe_apply_book_impact: bid and ask of the second quote price the fill,
\* the guarded quote does when there are none.
FillPrice(q, anchor) == IF q.rich THEN q ELSE anchor

\* The guard of the watcher's tick knows enforce_fresh_prices only.
Watches(t, q) == (t \in EnforceFresh) => ~q.stale

\* Where a thread goes with the quote its lookup returned.
Went(t, op, anchor, q) ==
  IF op = "fill" /\ Admits(t, q) THEN Ask("book", q, 1)
  ELSE IF op = "watch" /\ Watches(t, q) THEN Priced(q)
  ELSE IF op = "book" /\ anchor # NoQuote THEN Priced(FillPrice(q, anchor))
  ELSE Idle

\* Where it goes when the lookup raises PriceUnavailableError.
WentWithout(op, anchor) ==
  IF op = "book" /\ anchor # NoQuote THEN Priced(anchor) ELSE Idle

ShortHit == short # NoEntry /\ short.age < ShortTTL

ShortQuote == [origin |-> short.origin, realTime |-> short.realTime,
               rich |-> FALSE, wild |-> short.wild, stale |-> FALSE]

\* get_quote begins: the short cache answers, or the chain is asked.
GetQuote(t, op) ==
  /\ call[t] = Idle
  /\ call' = [call EXCEPT ![t] =
                IF ShortHit THEN Went(t, op, NoQuote, ShortQuote)
                ELSE Ask(op, NoQuote, 1)]
  /\ UNCHANGED <<vars, short, long, primes>>

\* get_market_quote begins; it does not look in the short cache.
GetMarketQuote(t) ==
  /\ call[t] = Idle
  /\ call' = [call EXCEPT ![t] = Ask("book", NoQuote, 1)]
  /\ UNCHANGED <<vars, short, long, primes>>

Asking(t) == call[t].at = "ask" /\ call[t].turn <= Len(Chain)
SourceOf(t) == Chain[call[t].turn]

NextTurn(t) == call' = [call EXCEPT ![t] = Ask(@.op, @.anchor, @.turn + 1)]
Holds(t, q) == call' = [call EXCEPT ![t] = Hold(@.op, @.anchor, q)]

\* _allow_call lets the thread into the guarded source.
Enter(t) ==
  /\ Asking(t) /\ SourceOf(t) = Guarded
  /\ Call(t)
  /\ UNCHANGED <<call, short, long, primes>>

\* _allow_call refuses, and the next source is asked.
Refuse(t) ==
  /\ Asking(t) /\ SourceOf(t) = Guarded /\ t \notin calling
  /\ state = "half_open" \/ (state = "open" /\ waited < OpenSeconds)
  /\ NextTurn(t)
  /\ UNCHANGED <<vars, short, long, primes>>

\* The guarded source returns from the call.
GuardedAnswers(t) ==
  /\ Asking(t) /\ SourceOf(t) = Guarded
  /\ Succeed(t)
  /\ \E q \in Answers(Guarded) : Holds(t, q)
  /\ UNCHANGED <<short, long, primes>>

GuardedFails(t) ==
  /\ Asking(t) /\ SourceOf(t) = Guarded
  /\ Fail(t) \/ AnswerNothing(t)
  /\ NextTurn(t)
  /\ UNCHANGED <<short, long, primes>>

\* A source without a breaker answers, or answers None or raises.
Answer(t) ==
  /\ Asking(t) /\ SourceOf(t) # Guarded
  /\ \E q \in Answers(SourceOf(t)) : Holds(t, q)
  /\ UNCHANGED <<vars, short, long, primes>>

Miss(t) ==
  /\ Asking(t) /\ SourceOf(t) # Guarded
  /\ NextTurn(t)
  /\ UNCHANGED <<vars, short, long, primes>>

LongHit == long # NoEntry /\ long.age <= LongTTL

StaleQuote == [origin |-> "delayed", realTime |-> FALSE, rich |-> FALSE,
               wild |-> long.wild, stale |-> TRUE]

\* Every source failed: the long cache answers, or the lookup raises.
LastResort(t) ==
  /\ call[t].at = "ask" /\ call[t].turn > Len(Chain)
  /\ call' = [call EXCEPT ![t] =
                IF LongHit THEN Went(t, @.op, @.anchor, StaleQuote)
                ELSE WentWithout(@.op, @.anchor)]
  /\ UNCHANGED <<vars, short, long, primes>>

\* cache.update with the answer.
UpdateLong(t) ==
  /\ call[t].at = "hold"
  /\ long' = [wild |-> call[t].quote.wild, age |-> 0]
  /\ call' = [call EXCEPT ![t] = Half(@.op, @.anchor, @.quote)]
  /\ UNCHANGED <<vars, short, primes>>

\* Mutant of ShortEntry: put is called without the flag and takes its default.
ShortEntryByDefault(q) ==
  [origin |-> q.origin, realTime |-> TRUE, wild |-> q.wild, age |-> 0]

ShortEntry(q) ==
  [origin |-> q.origin, realTime |-> q.realTime, wild |-> q.wild, age |-> 0]

\* _short_cache.put with the answer, which is then returned.
PutShort(t) ==
  /\ call[t].at = "half"
  /\ short' = ShortEntry(call[t].quote)
  /\ call' = [call EXCEPT ![t] = Went(t, @.op, @.anchor, @.quote)]
  /\ UNCHANGED <<vars, long, primes>>

\* prime: a price from outside is written to both caches, in the short one
\* with the default is_real_time = True.
Prime(t) ==
  /\ call[t] = Idle /\ primes < MaxPrimes
  /\ primes' = primes + 1
  /\ call' = [call EXCEPT ![t] = Hold("prime", NoQuote,
       [origin |-> "primed", realTime |-> TRUE, rich |-> FALSE,
        wild |-> FALSE, stale |-> FALSE])]
  /\ UNCHANGED <<vars, short, long>>

\* The fill is committed at the price found.
Execute(t) ==
  /\ call[t].at = "priced"
  /\ call' = [call EXCEPT ![t] = Idle]
  /\ UNCHANGED <<vars, short, long, primes>>

\* CircuitBreakerProvider.reset, by an operator.
Restart == Reset /\ UNCHANGED <<call, short, long, primes>>

Older(entry, cap) ==
  IF entry = NoEntry \/ entry.age = cap THEN entry
  ELSE [entry EXCEPT !.age = @ + 1]

\* Time passes: the entries age and the breaker waits.  An age stops being
\* counted where its cache stops answering.
Tick ==
  /\ short' = Older(short, ShortTTL)
  /\ long' = Older(long, LongTTL + 1)
  /\ waited' = IF state = "open" /\ waited < OpenSeconds THEN waited + 1
               ELSE waited
  /\ <<short, long, waited>> # <<short, long, waited>>'
  /\ UNCHANGED <<state, consecutive, recent, calling, probing, call, primes>>

\* The steps of a lookup that has begun: every source has a timeout.
Step(t) ==
  \/ Enter(t) \/ Refuse(t) \/ GuardedAnswers(t) \/ GuardedFails(t)
  \/ Answer(t) \/ Miss(t) \/ LastResort(t)
  \/ UpdateLong(t) \/ PutShort(t) \/ Execute(t)

Start(t) ==
  \/ \E op \in {"read", "fill", "watch"} : GetQuote(t, op)
  \/ GetMarketQuote(t)

FeedNext ==
  \/ Tick \/ Restart
  \/ \E t \in Threads : Start(t) \/ Prime(t) \/ Step(t)

FeedSpec == FeedInit /\ [][FeedNext]_feedVars

\* Time passes, lookups end, and some read of the portfolio or poll of a
\* worker always comes again.
FairFeedSpec ==
  /\ FeedSpec
  /\ WF_feedVars(Tick)
  /\ \A t \in Threads : WF_feedVars(Step(t))
  /\ WF_feedVars(\E t \in Threads : GetQuote(t, "read"))

-----------------------------------------------------------------------------
(* Properties *)

Thread ==
  {Idle} \cup
  [at : {"ask"}, op : {"read", "fill", "watch"}, anchor : {NoQuote},
   turn : 1..Len(Chain) + 1] \cup
  [at : {"ask"}, op : {"book"}, anchor : Quote \cup {NoQuote},
   turn : 1..Len(Chain) + 1] \cup
  [at : {"hold", "half"}, op : {"read", "fill", "watch", "prime"},
   anchor : {NoQuote}, quote : Quote] \cup
  [at : {"hold", "half"}, op : {"book"}, anchor : Quote \cup {NoQuote},
   quote : Quote] \cup
  [at : {"priced"}, quote : Quote]

FeedTypeOK ==
  /\ call \in [Threads -> Thread]
  /\ short \in {NoEntry} \cup [origin : {"live", "delayed", "primed"},
       realTime : BOOLEAN, wild : BOOLEAN, age : 0..ShortTTL]
  /\ long \in {NoEntry} \cup [wild : BOOLEAN, age : 0..LongTTL + 1]
  /\ primes \in 0..MaxPrimes
  /\ calling \subseteq {t \in Threads : Asking(t)}

\* The feed drives the breaker as the breaker is specified, so that what is
\* proved of Breaker holds of the breaker inside the feed.
BreakerRespected == Spec

\* The quotes a thread has in hand.
InHand(t) ==
  (IF call[t].at \in {"hold", "half", "priced"} THEN {call[t].quote} ELSE {})
    \cup (IF call[t].at \in {"ask", "hold", "half"} THEN {call[t].anchor} \ {NoQuote}
                                                     ELSE {})

\* "so a delayed feed can't be laundered into a real-time hit" (price_feed.py
\* 145-147): nothing a thread holds and nothing in the short cache passes for
\* real-time when a delayed source had a part in it, whatever was cached,
\* merged or written by another thread meanwhile.
NoLaundering ==
  /\ \A t \in Threads : \A q \in InHand(t) : q.realTime => q.origin # "delayed"
  /\ short # NoEntry /\ short.realTime => short.origin # "delayed"

\* enforce_fresh_prices (price_feed.py 62-65): no fill is priced from the long
\* cache, although the price is looked up a second time after the guard, and
\* although another thread may write the caches in between.
FreshFills ==
  \A t \in EnforceFresh : call[t].at = "priced" => ~call[t].quote.stale

\* "one outlier can't drag a fill price" (composite.py 9-11), from the answer
\* through the caches to the fills, when three members are required.
OutlierOutvoted ==
  /\ \A t \in Threads : \A q \in InHand(t) : ~q.wild
  /\ short # NoEntry => ~short.wild
  /\ long # NoEntry => ~long.wild

\* "enforce_real_time mode rejects fills on delayed feeds" (price_feed.py
\* 69-72), said of the price the fill is made at.
FillsAreRealTime ==
  \A t \in EnforceRealTime :
    call[t].at = "priced" => call[t].quote.origin # "delayed"

\* The caches only repeat live sources: prime breaks this for the flag.
PrimedIsNotRealTime ==
  short # NoEntry /\ short.realTime => short.origin = "live"
=============================================================================
