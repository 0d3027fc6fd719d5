--------------------------- MODULE EvidenceProofs ---------------------------
(***************************************************************************)
(* What the pipeline says of a token is what the chain did, for any        *)
(* numbers of swaps, answers, malformed rows and retries, any page size    *)
(* and any lag of the provider.                                            *)
(*                                                                         *)
(* An answer is judged by what it could have shown: AnswerReal relates its *)
(* rows to the swaps of the chain, and stays true while the chain grows,   *)
(* because a claim ends Lag before the answer came.  The properties follow *)
(* from it and from how the records of several answers are put together.   *)
(* The last part is about the wallet graph: what its clusters keep while   *)
(* one link after the other is taken.                                      *)
(***************************************************************************)
EXTENDS Evidence, FiniteSums, FunctionTheorems

-----------------------------------------------------------------------------
(* Least and greatest numbers.                                             *)

LEMMA LeastOf ==
    ASSUME NEW S, S \subseteq Nat, S # {}
    PROVE  Least(S) \in S /\ \A y \in S : Least(S) <= y
<1> DEFINE T == {n \in Nat : \A m \in S : m > n}
<1>1. \E x \in S : \A y \in S : x <= y
  <2> SUFFICES ASSUME ~ \E x \in S : \A y \in S : x <= y PROVE FALSE
    OBVIOUS
  <2>1. 0 \in T
    <3>1. 0 \notin S
      OBVIOUS
    <3> QED
      BY <3>1
  <2>2. ASSUME NEW n \in Nat, n \in T PROVE n + 1 \in T
    <3>1. n + 1 \notin S
      <4> SUFFICES ASSUME n + 1 \in S PROVE FALSE
        OBVIOUS
      <4>1. \A y \in S : n + 1 <= y
        BY <2>2
      <4> QED
        BY <4>1
    <3> QED
      BY <2>2, <3>1
  <2> HIDE DEF T
  <2>3. Nat \subseteq T
    BY <2>1, <2>2, NumberInduction
  <2>4. PICK x \in S : TRUE
    OBVIOUS
  <2> QED
    BY <2>3, <2>4 DEF T
<1> QED
  BY <1>1 DEF Least

LEMMA GreatestOf ==
    ASSUME NEW S, S \subseteq Nat, S # {}, NEW n \in Nat, \A x \in S : x <= n
    PROVE  Greatest(S) \in S /\ \A y \in S : y <= Greatest(S)
<1> DEFINE R == {n - x : x \in S}
<1>1. R \subseteq Nat /\ R # {}
  <2>1. \A x \in S : x \in Nat /\ x <= n /\ n - x \in Nat
    OBVIOUS
  <2>2. PICK x \in S : TRUE
    OBVIOUS
  <2>3. n - x \in R
    BY <2>2
  <2> QED
    BY <2>1, <2>3
<1>2. Least(R) \in R /\ \A y \in R : Least(R) <= y
  BY <1>1, LeastOf
<1>3. PICK x \in S : Least(R) = n - x
  BY <1>2
<1>4. \A y \in S : y <= x
  <2> SUFFICES ASSUME NEW y \in S PROVE y <= x
    OBVIOUS
  <2>1. n - x <= n - y
    BY <1>2, <1>3
  <2> QED
    BY <2>1
<1> QED
  BY <1>4 DEF Greatest

-----------------------------------------------------------------------------
(* Minutes.                                                                *)

\* A number is so many whole minutes and a rest.
LEMMA WholeMinutes ==
    ASSUME NEW t \in Int
    PROVE  /\ t \div Minute \in Int /\ t % Minute \in 0 .. Minute - 1
           /\ t = Minute * (t \div Minute) + (t % Minute)
BY ProviderConstants

LEMMA Multiples ==
    /\ \A q \in Int : (Minute * q) % Minute = 0
    /\ \A m \in Int : m % Minute = 0 => m = Minute * (m \div Minute) /\ m \div Minute \in Int
<1>1. ASSUME NEW q \in Int PROVE (Minute * q) % Minute = 0
  BY ProviderConstants
<1>2. ASSUME NEW m \in Int, m % Minute = 0 PROVE m = Minute * (m \div Minute) /\ m \div Minute \in Int
  <2> DEFINE q == m \div Minute
  <2>1. q \in Int /\ m = Minute * q + 0
    BY <1>2, WholeMinutes
  <2> HIDE DEF q
  <2>2. m = Minute * q
    BY <2>1, ProviderConstants
  <2> QED
    BY <2>1, <2>2 DEF q
<1> QED
  BY <1>1, <1>2

LEMMA MinutesOrdered ==
    ASSUME NEW p \in Int, NEW q \in Int, Minute * p < Minute * q
    PROVE  Minute * p + Minute <= Minute * q
<1>1. p < q
  BY ProviderConstants
<1>2. q = p + 1 + (q - p - 1) /\ q - p - 1 \in Nat
  BY <1>1
<1>3. Minute * q = Minute * p + Minute + Minute * (q - p - 1)
  BY ProviderConstants
<1>4. Minute * (q - p - 1) \in Nat
  BY <1>2, ProviderConstants
<1> QED
  BY <1>3, <1>4, ProviderConstants

\* A minute is a multiple of its length and holds the ticks up to the next.
LEMMA MinuteBounds ==
    ASSUME NEW t \in Int
    PROVE  /\ MinuteOf(t) \in Int /\ MinuteOf(t) % Minute = 0
           /\ MinuteOf(t) <= t /\ t < MinuteOf(t) + Minute
           /\ t \in Nat => MinuteOf(t) \in Nat
<1> DEFINE q == t \div Minute
           r == t % Minute
<1>1. q \in Int /\ r \in 0 .. Minute - 1 /\ t = Minute * q + r
  BY WholeMinutes
<1>2. MinuteOf(t) = t - r
  BY DEF MinuteOf
<1>3. (Minute * q) % Minute = 0
  BY <1>1, Multiples
<1>4. t \in Nat => q \in Nat
  BY ProviderConstants
<1> HIDE DEF q, r
<1>5. Minute * q \in Int /\ (q \in Nat => Minute * q \in Nat)
  BY <1>1, ProviderConstants
<1> QED
  BY <1>1, <1>2, <1>3, <1>4, <1>5, ProviderConstants

\* Two multiples of a minute are a minute apart.
LEMMA OneMinute ==
    ASSUME NEW m \in Int, NEW k \in Int, m % Minute = 0, k % Minute = 0, m < k
    PROVE  m + Minute <= k
<1>1. m = Minute * (m \div Minute) /\ k = Minute * (k \div Minute)
  BY Multiples
<1>2. m \div Minute \in Int /\ k \div Minute \in Int
  BY Multiples
<1> QED
  BY <1>1, <1>2, MinutesOrdered

\* A tick between two multiples is in the minute of the first.
LEMMA InMinute ==
    ASSUME NEW m \in Int, m % Minute = 0, NEW t \in Int, m <= t, t < m + Minute
    PROVE  MinuteOf(t) = m
<1>1. /\ MinuteOf(t) \in Int /\ MinuteOf(t) % Minute = 0
      /\ MinuteOf(t) <= t /\ t < MinuteOf(t) + Minute
  BY MinuteBounds
<1>2. ~ MinuteOf(t) < m
  <2>1. MinuteOf(t) < m => MinuteOf(t) + Minute <= m
    BY <1>1, OneMinute
  <2> QED
    BY <1>1, <2>1, ProviderConstants
<1>3. ~ m < MinuteOf(t)
  <2>1. m < MinuteOf(t) => m + Minute <= MinuteOf(t)
    BY <1>1, OneMinute
  <2> QED
    BY <1>1, <2>1, ProviderConstants
<1> QED
  BY <1>1, <1>2, <1>3

\* A multiple of a minute and another one differ by a multiple.
LEMMA MinuteGrid ==
    ASSUME NEW m \in Int, NEW k \in Int, k % Minute = 0, (m - k) % Minute = 0
    PROVE  m % Minute = 0
<1>1. m - k = Minute * ((m - k) \div Minute) /\ k = Minute * (k \div Minute)
  BY Multiples
<1>2. (m - k) \div Minute \in Int /\ k \div Minute \in Int
  BY Multiples
<1> DEFINE p == (m - k) \div Minute
           q == k \div Minute
<1> HIDE DEF p, q
<1>3. m = Minute * (p + q)
  BY <1>1, <1>2, ProviderConstants DEF p, q
<1>4. (Minute * (p + q)) % Minute = 0
  BY <1>2, Multiples DEF p, q
<1> QED
  BY <1>3, <1>4

-----------------------------------------------------------------------------
(* The invariant.                                                          *)

SwapKey(s) == <<s.token, s.ts, s.n>>

\* A swap is numbered within its tick, and is indexed within Lag.
ChainOK ==
    /\ now \in 0 .. Horizon /\ plan \in Plans
    /\ drained = Horizon + 1 \/ drained \in 0 .. now
    /\ IsFiniteSet(chain)
    /\ \A s \in chain :
        /\ s.ts \in 0 .. now /\ s.n \in Nat
        /\ s.n < Cardinality({x \in chain : x.token = s.token /\ x.ts = s.ts})
    /\ \A s, x \in chain : SwapKey(s) = SwapKey(x) => s = x
    /\ pending \subseteq chain /\ \A s \in pending : now <= s.ts + Lag

\* An answer to gt.trades, against the swaps of its token: each row is a swap
\* of the last day, and a swap of the stretch it may claim is a row or older
\* than a full page.
TradesReal(e, swaps) ==
    /\ IsFiniteSet(e.rows) /\ Cardinality(e.rows) <= Page
    /\ \A r \in e.rows : e.seen - Day <= r.ts
    /\ \A r \in e.rows : \E s \in swaps : r.ts = s.ts /\ r.n = s.n /\ r.wallet = s.wallet /\ r.side = s.side
    /\ \A s \in swaps :
        e.seen - Day <= s.ts /\ s.ts < e.seen - Lag =>
            \/ \E r \in e.rows : r.ts = s.ts /\ r.n = s.n
            \/ Cardinality(e.rows) = Page /\ \A r \in e.rows : s.ts <= r.ts

\* An answer to gt.ohlcv: the volume of a closed minute is final, and no minute
\* with a swap is left out after the first one that is returned.
BarsReal(e, swaps) ==
    /\ \A r \in e.rows : r.ts \in Nat /\ r.ts % Minute = 0
    /\ \A r \in e.rows : r.ts + Minute <= e.seen - Lag =>
        r.volume \in {NoVolume, Cardinality({s \in swaps : MinuteOf(s.ts) = r.ts})}
    /\ \A s \in swaps :
        (MinuteOf(s.ts) + Minute <= e.seen - Lag /\ \E r \in e.rows : r.ts <= MinuteOf(s.ts)) =>
            \E r \in e.rows : r.ts = MinuteOf(s.ts)

Endpoints == {"gt.trades", "gt.ohlcv", "gt.pools_multi", "gt.token_info", "ds.pairs"}

AnswerReal(e) ==
    /\ e.seen \in 0 .. now /\ e.endpoint \in Endpoints
    /\ e.fate = "ok" =>
        /\ e.endpoint = "gt.trades" => TradesReal(e, OnChain(e.token))
        /\ e.endpoint = "gt.ohlcv" => BarsReal(e, OnChain(e.token))
        /\ e.endpoint = "gt.pools_multi" => \A r \in e.rows : r.level = LevelAt(e.seen)
        /\ e.endpoint = "ds.pairs" => \A r \in e.rows : r.level = 2 * LevelAt(e.seen)

EvidenceInv ==
    /\ ChainOK
    /\ archive # {} => plan.loaded = {}
    /\ \A e \in archive : AnswerReal(e)

-----------------------------------------------------------------------------
(* The chain grows, and answers stay true.                                 *)

\* What an answer says ends Lag before it: a later swap does not touch it.
LEMMA TradesStayReal ==
    ASSUME NEW e, e.seen \in Int, NEW C, NEW D, C \subseteq D,
           \A s \in D : s.ts \in Nat, \A s \in D \ C : e.seen <= s.ts, TradesReal(e, C)
    PROVE  TradesReal(e, D)
<1>1. ASSUME NEW s \in D, s.ts < e.seen - Lag PROVE s \in C
  BY <1>1, ProviderConstants
<1> QED
  BY <1>1 DEF TradesReal

LEMMA BarsStayReal ==
    ASSUME NEW e, e.seen \in Int, NEW C, NEW D, C \subseteq D,
           \A s \in D : s.ts \in Nat, \A s \in D \ C : e.seen <= s.ts, BarsReal(e, C)
    PROVE  BarsReal(e, D)
<1>1. ASSUME NEW s \in D, MinuteOf(s.ts) + Minute <= e.seen - Lag PROVE s \in C
  <2>1. s.ts \in Int /\ MinuteOf(s.ts) \in Int /\ s.ts < MinuteOf(s.ts) + Minute
    BY MinuteBounds
  <2> QED
    BY <1>1, <2>1, ProviderConstants
<1>2. ASSUME NEW r \in e.rows, r.ts + Minute <= e.seen - Lag
      PROVE  {s \in D : MinuteOf(s.ts) = r.ts} = {s \in C : MinuteOf(s.ts) = r.ts}
  BY <1>1, <1>2
<1> QED
  BY <1>1, <1>2 DEF BarsReal

\* An answer stays true when time passes and the chain grows from now on.
LEMMA AnswerStaysReal ==
    ASSUME NEW e, AnswerReal(e), now \in Nat, now' \in Nat, now <= now',
           chain \subseteq chain', \A s \in chain' : s.ts \in Nat, \A s \in chain' \ chain : now <= s.ts,
           \A u \in 0 .. now : LevelAt(u)' = LevelAt(u)
    PROVE  AnswerReal(e)'
<1>1. e.seen \in 0 .. now /\ e.endpoint \in Endpoints
  BY DEF AnswerReal
<1>2. e.seen \in 0 .. now' /\ e.seen \in Int /\ LevelAt(e.seen)' = LevelAt(e.seen)
  BY <1>1
<1> DEFINE C == OnChain(e.token)
           D == {s \in chain' : s.token = e.token}
<1>3. OnChain(e.token)' = D
  BY DEF OnChain
<1>4. /\ C \subseteq D /\ \A s \in D : s.ts \in Nat
      /\ \A s \in D \ C : e.seen <= s.ts
  <2>1. C \subseteq D /\ \A s \in D : s.ts \in Nat
    BY DEF OnChain
  <2>2. \A s \in D \ C : s \in chain' \ chain
    BY DEF OnChain
  <2>3. \A s \in D \ C : now <= s.ts /\ s.ts \in Nat
    BY <2>1, <2>2
  <2> HIDE DEF C, D
  <2> QED
    BY <1>1, <2>1, <2>3
<1> HIDE DEF C, D
<1>5. TradesReal(e, C) => TradesReal(e, D)
  BY <1>2, <1>4, TradesStayReal
<1>6. BarsReal(e, C) => BarsReal(e, D)
  BY <1>2, <1>4, BarsStayReal
<1>7. /\ e.fate = "ok" /\ e.endpoint = "gt.trades" => TradesReal(e, OnChain(e.token)')
      /\ e.fate = "ok" /\ e.endpoint = "gt.ohlcv" => BarsReal(e, OnChain(e.token)')
  BY <1>3, <1>5, <1>6 DEF AnswerReal, C
<1>8. /\ e.fate = "ok" /\ e.endpoint = "gt.pools_multi" => \A r \in e.rows : r.level = LevelAt(e.seen)'
      /\ e.fate = "ok" /\ e.endpoint = "ds.pairs" => \A r \in e.rows : r.level = 2 * LevelAt(e.seen)'
  BY <1>2 DEF AnswerReal
<1> QED
  BY <1>1, <1>2, <1>7, <1>8 DEF AnswerReal

LEMMA ChainTypes ==
    ASSUME ChainOK
    PROVE  now \in Nat /\ \A s \in chain : s.ts \in Nat /\ s.ts <= now
<1>1. now \in Nat
  BY EvidenceConstants DEF ChainOK
<1>2. \A s \in chain : s.ts \in 0 .. now
  BY DEF ChainOK
<1> QED
  BY <1>1, <1>2

LEMMA InitEvidence == Init => EvidenceInv
<1> SUFFICES ASSUME Init PROVE EvidenceInv
  OBVIOUS
<1>1. IsFiniteSet({})
  BY FS_EmptySet
<1> QED
  BY <1>1, EvidenceConstants DEF Init, EvidenceInv, ChainOK

\* Every step leaves the answers there were as true as they were.
LEMMA TickKeeps == ASSUME EvidenceInv, Tick PROVE EvidenceInv'
<1>1. /\ now \in Nat /\ now' = now + 1 /\ now' \in 0 .. Horizon
      /\ chain' = chain /\ pending' = pending /\ drained' = drained /\ archive' = archive /\ plan' = plan
      /\ \A s \in pending : now' <= s.ts + Lag
  BY EvidenceConstants DEF Tick, EvidenceInv, ChainOK
<1>2. ChainOK'
  <2>1. \A s \in chain : s.ts \in 0 .. now'
    <3>1. \A s \in chain : s.ts \in 0 .. now
      BY DEF EvidenceInv, ChainOK
    <3>2. \A n \in 0 .. now : n \in 0 .. now'
      BY <1>1
    <3> QED
      BY <3>1, <3>2
  <2>2. drained' = Horizon + 1 \/ drained' \in 0 .. now'
    BY <1>1 DEF EvidenceInv, ChainOK
  <2>3. \A s \in chain : s.n \in Nat /\ s.n < Cardinality({x \in chain : x.token = s.token /\ x.ts = s.ts})
    BY DEF EvidenceInv, ChainOK
  <2>4. /\ plan \in Plans /\ IsFiniteSet(chain) /\ pending \subseteq chain
        /\ \A s, x \in chain : SwapKey(s) = SwapKey(x) => s = x
    BY DEF EvidenceInv, ChainOK
  <2> QED
    BY <1>1, <2>1, <2>2, <2>3, <2>4 DEF ChainOK
<1>3. \A u \in 0 .. now : LevelAt(u)' = LevelAt(u)
  BY <1>1 DEF LevelAt
<1>4. ASSUME NEW e \in archive PROVE AnswerReal(e)'
  <2>1. \A x \in chain' : x.ts \in Nat
    BY <1>1, ChainTypes DEF EvidenceInv
  <2>2. AnswerReal(e) /\ now <= now' /\ now' \in Nat /\ chain' \ chain = {} /\ chain \subseteq chain'
    BY <1>1 DEF EvidenceInv
  <2> QED
    BY <1>1, <1>3, <2>1, <2>2, AnswerStaysReal
<1> QED
  BY <1>1, <1>2, <1>4 DEF EvidenceInv

LEMMA DrainKeeps == ASSUME EvidenceInv, Drain PROVE EvidenceInv'
<1>1. /\ now \in Nat /\ now' = now /\ now \in 0 .. Horizon /\ drained = Horizon + 1 /\ drained' = now
      /\ chain' = chain /\ pending' = pending /\ archive' = archive /\ plan' = plan
  BY EvidenceConstants DEF Drain, EvidenceInv, ChainOK
<1>2. ChainOK'
  BY <1>1 DEF EvidenceInv, ChainOK
<1>3. \A u \in 0 .. now : LevelAt(u)' = LevelAt(u)
  BY <1>1, EvidenceConstants DEF LevelAt
<1>4. ASSUME NEW e \in archive PROVE AnswerReal(e)'
  <2>1. \A x \in chain' : x.ts \in Nat
    BY <1>1, ChainTypes DEF EvidenceInv
  <2>2. AnswerReal(e) /\ now <= now' /\ now' \in Nat /\ chain' \ chain = {} /\ chain \subseteq chain'
    BY <1>1 DEF EvidenceInv
  <2> QED
    BY <1>1, <1>3, <2>1, <2>2, AnswerStaysReal
<1> QED
  BY <1>1, <1>2, <1>4 DEF EvidenceInv

LEMMA IndexKeeps == ASSUME EvidenceInv, NEW s \in pending, Index(s) PROVE EvidenceInv'
<1>1. /\ pending' \subseteq pending /\ now' = now /\ drained' = drained
      /\ chain' = chain /\ archive' = archive /\ plan' = plan /\ now \in Nat
  BY EvidenceConstants DEF Index, EvidenceInv, ChainOK
<1>2. ChainOK'
  BY <1>1 DEF EvidenceInv, ChainOK
<1>3. \A u \in 0 .. now : LevelAt(u)' = LevelAt(u)
  BY <1>1 DEF LevelAt
<1>4. ASSUME NEW e \in archive PROVE AnswerReal(e)'
  <2>1. \A x \in chain' : x.ts \in Nat
    BY <1>1, ChainTypes DEF EvidenceInv
  <2>2. AnswerReal(e) /\ now <= now' /\ now' \in Nat /\ chain' \ chain = {} /\ chain \subseteq chain'
    BY <1>1 DEF EvidenceInv
  <2> QED
    BY <1>1, <1>3, <2>1, <2>2, AnswerStaysReal
<1> QED
  BY <1>1, <1>2, <1>4 DEF EvidenceInv

LEMMA TradeKeeps ==
    ASSUME EvidenceInv, NEW token, NEW wallet, NEW side, Trade(token, wallet, side)
    PROVE  EvidenceInv'
<1> DEFINE here == {s \in chain : s.token = token /\ s.ts = now}
           swap == [token |-> token, ts |-> now, n |-> Cardinality(here), wallet |-> wallet, side |-> side]
<1>1. /\ chain' = chain \union {swap} /\ pending' = pending \union {swap}
      /\ now' = now /\ drained' = drained /\ archive' = archive /\ plan' = plan
      /\ now \in Nat /\ now \in 0 .. Horizon
  BY EvidenceConstants DEF Trade, EvidenceInv, ChainOK
<1>2. swap.token = token /\ swap.ts = now /\ swap.n = Cardinality(here)
  OBVIOUS
<1>3. IsFiniteSet(chain) /\ IsFiniteSet(here) /\ Cardinality(here) \in Nat
  BY FS_Subset, FS_CardinalityType DEF EvidenceInv, ChainOK
<1>4. \A s \in here : s \in chain /\ s.n < Cardinality(here) /\ s.n \in Nat
  BY DEF EvidenceInv, ChainOK
<1> DEFINE Tick1(C, s) == {x \in C : x.token = s.token /\ x.ts = s.ts}
<1> HIDE DEF swap
<1>5. ASSUME NEW s \in chain PROVE SwapKey(s) # SwapKey(swap)
  <2>1. SwapKey(s) = SwapKey(swap) => s \in here /\ s.n = Cardinality(here)
    BY <1>2 DEF SwapKey
  <2> QED
    BY <1>3, <1>4, <2>1
<1>6. swap \notin chain
  BY <1>5
<1>7. IsFiniteSet(chain')
  BY <1>1, <1>3, FS_AddElement
<1>8. ASSUME NEW s \in chain' PROVE s.ts \in 0 .. now /\ s.n \in Nat
  <2>1. CASE s \in chain
    BY <2>1 DEF EvidenceInv, ChainOK
  <2>2. CASE s = swap
    BY <1>1, <1>2, <1>3, <2>2
  <2> QED
    BY <1>1, <1>8, <2>1, <2>2
<1>9. ASSUME NEW s \in chain' PROVE s.n < Cardinality(Tick1(chain', s))
  <2>1. CASE s \in chain
    <3>1. s.n < Cardinality(Tick1(chain, s)) /\ s.n \in Nat
      BY <2>1 DEF EvidenceInv, ChainOK
    <3>2. Tick1(chain, s) \subseteq Tick1(chain', s) /\ IsFiniteSet(Tick1(chain', s))
      BY <1>1, <1>7, FS_Subset
    <3>3. /\ Cardinality(Tick1(chain, s)) \in Nat /\ Cardinality(Tick1(chain', s)) \in Nat
          /\ Cardinality(Tick1(chain, s)) <= Cardinality(Tick1(chain', s))
      BY <3>2, FS_Subset, FS_CardinalityType
    <3> HIDE DEF Tick1
    <3> QED
      BY <3>1, <3>3
  <2>2. CASE s = swap
    <3>1. Tick1(chain', swap) = here \union {swap} /\ swap \notin here
      BY <1>1, <1>2, <1>6
    <3>2. Cardinality(here \union {swap}) = Cardinality(here) + 1
      BY <1>3, <3>1, FS_AddElement
    <3> HIDE DEF Tick1, here
    <3> QED
      BY <1>2, <1>3, <2>2, <3>1, <3>2
  <2> QED
    BY <1>1, <2>1, <2>2
<1>10. ASSUME NEW s \in chain', NEW x \in chain', SwapKey(s) = SwapKey(x) PROVE s = x
  BY <1>1, <1>5, <1>10 DEF EvidenceInv, ChainOK
<1>11. pending' \subseteq chain' /\ \A s \in pending' : now <= s.ts + Lag
  BY <1>1, <1>2, ProviderConstants DEF EvidenceInv, ChainOK
<1>12. ChainOK'
  <2>1. now' \in 0 .. Horizon /\ plan' \in Plans /\ (drained' = Horizon + 1 \/ drained' \in 0 .. now')
    BY <1>1 DEF EvidenceInv, ChainOK
  <2> QED
    BY <1>1, <1>7, <1>8, <1>9, <1>10, <1>11, <2>1 DEF ChainOK
<1>13. \A u \in 0 .. now : LevelAt(u)' = LevelAt(u)
  BY <1>1 DEF LevelAt
<1>14. ASSUME NEW e \in archive PROVE AnswerReal(e)'
  <2>1. \A s \in chain' \ chain : now <= s.ts
    BY <1>1, <1>2
  <2>2. \A s \in chain' : s.ts \in Nat
    BY <1>8
  <2> QED
    BY <1>1, <1>13, <2>1, <2>2, AnswerStaysReal DEF EvidenceInv
<1> QED
  BY <1>1, <1>12, <1>14 DEF EvidenceInv

-----------------------------------------------------------------------------
(* An answer is true when it is received.                                  *)

\* A set that is listed one to one has as many elements as its list.
LEMMA ImageCounts ==
    ASSUME NEW S, IsFiniteSet(S), NEW f, f = [x \in S |-> f[x]],
           \A x, y \in S : f[x] = f[y] => x = y
    PROVE  IsFiniteSet({f[x] : x \in S}) /\ Cardinality({f[x] : x \in S}) = Cardinality(S)
<1> DEFINE T == {f[x] : x \in S}
<1>1. f \in [S -> T]
  OBVIOUS
<1>2. f \in Bijection(S, T)
  <2>1. \A t \in T : \E x \in S : f[x] = t
    OBVIOUS
  <2> HIDE DEF T
  <2> QED
    BY <1>1, <2>1, Fun_IsBij
<1>3. ExistsBijection(S, T)
  BY <1>2 DEF ExistsBijection
<1> QED
  BY <1>3, FS_Bijection

\* What the provider has not indexed is younger than Lag.
LEMMA OldIsIndexed ==
    ASSUME ChainOK, NEW token, NEW s \in OnChain(token), s.ts < now - Lag
    PROVE  s \in Indexed(token)
<1>1. s \in chain /\ s.token = token /\ s.ts \in Nat /\ now \in Nat
  BY ChainTypes DEF OnChain
<1>2. s \notin pending
  BY <1>1, ProviderConstants DEF ChainOK
<1> QED
  BY <1>1, <1>2 DEF Indexed

LEMMA IndexedOnChain ==
    ASSUME ChainOK, NEW token
    PROVE  /\ Indexed(token) \subseteq OnChain(token) /\ IsFiniteSet(OnChain(token))
           /\ \A s \in OnChain(token) : s \in chain /\ s.token = token /\ s.ts \in Nat /\ s.ts <= now
<1>1. OnChain(token) \subseteq chain /\ Indexed(token) \subseteq OnChain(token)
  BY DEF OnChain, Indexed
<1>2. IsFiniteSet(OnChain(token))
  BY <1>1, FS_Subset DEF ChainOK
<1> QED
  BY <1>1, <1>2, ChainTypes DEF OnChain

LEMMA PageIsReal ==
    ASSUME ChainOK, NEW token, NEW page \in TradePages(Indexed(token), now), NEW bad,
           NEW e, e.seen = now,
           e.rows = {[ts |-> s.ts, n |-> s.n, wallet |-> s.wallet, side |-> s.side, well |-> s \notin bad] : s \in page}
    PROVE  TradesReal(e, OnChain(token))
<1> DEFINE C == OnChain(token)
           I == Indexed(token)
           recent == {s \in I : s.ts >= now - Day}
           f == [s \in page |-> [ts |-> s.ts, n |-> s.n, wallet |-> s.wallet, side |-> s.side, well |-> s \notin bad]]
<1>1. /\ I \subseteq C /\ IsFiniteSet(C)
      /\ \A s \in C : s \in chain /\ s.token = token /\ s.ts \in Nat /\ s.ts <= now
  BY IndexedOnChain
<1>2. /\ page \subseteq recent
      /\ Cardinality(page) = IF Cardinality(recent) < Page THEN Cardinality(recent) ELSE Page
      /\ \A s \in recent \ page, p \in page : s.ts <= p.ts
  BY DEF TradePages
<1>3. IsFiniteSet(recent) /\ IsFiniteSet(page) /\ Cardinality(recent) \in Nat /\ Cardinality(page) \in Nat
  <2>1. recent \subseteq C
    BY <1>1
  <2> HIDE DEF recent, C
  <2> QED
    BY <1>1, <1>2, <2>1, FS_Subset, FS_CardinalityType
<1>4. ASSUME NEW s \in page PROVE s \in C /\ s \in chain /\ s.token = token
  BY <1>1, <1>2
<1>5. ASSUME NEW s \in page
      PROVE  /\ f[s] \in e.rows /\ f[s].ts = s.ts /\ f[s].n = s.n
             /\ f[s].wallet = s.wallet /\ f[s].side = s.side
  OBVIOUS
<1>6. \A s, x \in page : f[s] = f[x] => s = x
  <2> SUFFICES ASSUME NEW s \in page, NEW x \in page, f[s] = f[x] PROVE s = x
    OBVIOUS
  <2>1. s.ts = x.ts /\ s.n = x.n
    BY <1>5
  <2>2. SwapKey(s) = SwapKey(x)
    BY <1>4, <2>1 DEF SwapKey
  <2> QED
    BY <1>4, <2>2 DEF ChainOK
<1>7. e.rows = {f[s] : s \in page} /\ f = [s \in page |-> f[s]]
  OBVIOUS
<1> HIDE DEF f
<1>8. IsFiniteSet(e.rows) /\ Cardinality(e.rows) = Cardinality(page)
  BY <1>3, <1>6, <1>7, ImageCounts
<1>9. ASSUME NEW r \in e.rows
      PROVE \E s \in page : r.ts = s.ts /\ r.n = s.n /\ r.wallet = s.wallet /\ r.side = s.side
  BY <1>5, <1>7
<1>10. ASSUME NEW s \in C, now - Day <= s.ts, s.ts < now - Lag
       PROVE  \/ \E r \in e.rows : r.ts = s.ts /\ r.n = s.n
              \/ Cardinality(e.rows) = Page /\ \A r \in e.rows : s.ts <= r.ts
  <2>1. s \in I
    BY <1>10, OldIsIndexed
  <2>2. now \in Nat /\ s.ts \in Nat
    BY <1>1, ChainTypes
  <2>3. s \in recent
    BY <1>10, <2>1, <2>2, ProviderConstants
  <2>4. CASE s \in page
    BY <1>5, <2>4
  <2>5. CASE s \notin page
    <3>1. page # recent
      BY <2>3, <2>5
    <3>2. Cardinality(page) # Cardinality(recent)
      <4> HIDE DEF recent
      <4> QED
        BY <1>2, <1>3, <3>1, FS_Subset
    <3>3. Cardinality(page) = Page
      BY <1>2, <3>2
    <3>4. \A r \in e.rows : s.ts <= r.ts
      BY <1>2, <1>9, <2>3, <2>5
    <3> QED
      BY <1>8, <3>3, <3>4
  <2> QED
    BY <2>4, <2>5
<1>11. Cardinality(e.rows) <= Page
  BY <1>2, <1>3, <1>8, ProviderConstants
<1>12. \A r \in e.rows : \E s \in C : r.ts = s.ts /\ r.n = s.n /\ r.wallet = s.wallet /\ r.side = s.side
  BY <1>4, <1>9
<1>13. \A r \in e.rows : now - Day <= r.ts
  <2>1. \A s \in page : now - Day <= s.ts
    <3>1. \A s \in recent : now - Day <= s.ts
      <4>1. \A s \in recent : s.ts >= now - Day /\ s.ts \in Nat /\ now \in Nat
        BY <1>1, ChainTypes
      <4> HIDE DEF recent
      <4> QED
        BY <4>1, ProviderConstants
    <3> HIDE DEF recent
    <3> QED
      BY <1>2, <3>1
  <2> QED
    BY <1>9, <2>1
<1> QED
  BY <1>8, <1>10, <1>11, <1>12, <1>13 DEF TradesReal

LEMMA BarsAreRealWhenReceived ==
    ASSUME ChainOK, NEW token, NEW bad, NEW void, NEW e, e.seen = now,
           e.rows = {[ts |-> r.ts, volume |-> IF r \in void THEN NoVolume ELSE r.volume, well |-> r \notin bad] :
                        r \in BarRows(Indexed(token))}
    PROVE  BarsReal(e, OnChain(token))
<1> DEFINE C == OnChain(token)
           I == Indexed(token)
           minutes == {MinuteOf(s.ts) : s \in I}
           after(m) == {y \in minutes : y > m}
           volume(m) == Cardinality({s \in I : MinuteOf(s.ts) = m})
<1>1. /\ I \subseteq C
      /\ \A s \in C : s.ts \in Nat /\ s.ts <= now
      /\ now \in Nat
  BY IndexedOnChain, ChainTypes
<1>2. ASSUME NEW s \in C
      PROVE  /\ MinuteOf(s.ts) \in Nat /\ MinuteOf(s.ts) % Minute = 0 /\ MinuteOf(s.ts) <= now
             /\ s.ts < MinuteOf(s.ts) + Minute
  <2>1. s.ts \in Nat /\ s.ts <= now /\ s.ts \in Int
    BY <1>1
  <2>2. MinuteOf(s.ts) \in Nat /\ MinuteOf(s.ts) % Minute = 0 /\ MinuteOf(s.ts) <= s.ts /\ s.ts < MinuteOf(s.ts) + Minute
    BY <2>1, MinuteBounds
  <2> QED
    BY <1>1, <2>1, <2>2
<1>3. minutes \subseteq Nat /\ \A m \in minutes : m <= now /\ m % Minute = 0
  BY <1>1, <1>2
<1>4. \A m \in Nat : IsFiniteSet(after(m)) /\ Cardinality(after(m)) \in Nat
  <2> SUFFICES ASSUME NEW m \in Nat PROVE IsFiniteSet(after(m)) /\ Cardinality(after(m)) \in Nat
    OBVIOUS
  <2>1. after(m) \in SUBSET Nat /\ \A y \in after(m) : y <= now
    BY <1>3
  <2> HIDE DEF after
  <2> QED
    BY <1>1, <2>1, FS_BoundedSetOfNaturals, FS_CardinalityType
<1>5. BarRows(I) = {[ts |-> m, volume |-> volume(m)] : m \in {x \in minutes : Cardinality(after(x)) < BarLimit}}
  BY DEF BarRows
<1>6. ASSUME NEW r \in e.rows
      PROVE  /\ r.ts \in minutes /\ Cardinality(after(r.ts)) < BarLimit
             /\ r.volume \in {NoVolume, volume(r.ts)}
  <2> HIDE DEF minutes, after, volume
  <2>1. PICK b \in BarRows(I) : r.ts = b.ts /\ r.volume = IF b \in void THEN NoVolume ELSE b.volume
    BY <1>6
  <2>2. PICK m \in minutes : Cardinality(after(m)) < BarLimit /\ b.ts = m /\ b.volume = volume(m)
    BY <1>5, <2>1
  <2> QED
    BY <2>1, <2>2
<1>7. ASSUME NEW m \in minutes, Cardinality(after(m)) < BarLimit
      PROVE  \E r \in e.rows : r.ts = m
  <2> HIDE DEF minutes, after, volume
  <2> DEFINE b == [ts |-> m, volume |-> volume(m)]
  <2>1. b \in BarRows(I) /\ b.ts = m
    BY <1>5, <1>7
  <2> HIDE DEF b
  <2>2. [ts |-> b.ts, volume |-> IF b \in void THEN NoVolume ELSE b.volume, well |-> b \notin bad] \in e.rows
    BY <2>1
  <2> QED
    BY <2>1, <2>2
<1>8. \A r \in e.rows : r.ts \in Nat /\ r.ts % Minute = 0
  BY <1>3, <1>6
<1>9. ASSUME NEW r \in e.rows, r.ts + Minute <= now - Lag
      PROVE  r.volume \in {NoVolume, Cardinality({s \in C : MinuteOf(s.ts) = r.ts})}
  <2>1. ASSUME NEW s \in C, MinuteOf(s.ts) = r.ts PROVE s \in I
    <3>1. s.ts < r.ts + Minute /\ s.ts \in Nat /\ r.ts \in Nat
      BY <1>1, <1>2, <1>8, <2>1
    <3>2. s.ts < now - Lag
      BY <1>1, <1>9, <3>1, ProviderConstants
    <3> QED
      BY <3>2, OldIsIndexed
  <2>2. {s \in C : MinuteOf(s.ts) = r.ts} = {s \in I : MinuteOf(s.ts) = r.ts}
    BY <1>1, <2>1
  <2> QED
    BY <1>6, <2>2
<1>10. ASSUME NEW s \in C, MinuteOf(s.ts) + Minute <= now - Lag, NEW r \in e.rows, r.ts <= MinuteOf(s.ts)
       PROVE  \E x \in e.rows : x.ts = MinuteOf(s.ts)
  <2> DEFINE m == MinuteOf(s.ts)
  <2>1. m \in Nat /\ r.ts \in Nat /\ r.ts <= m /\ s.ts < m + Minute /\ s.ts \in Nat
    BY <1>1, <1>2, <1>8, <1>10
  <2>2. s.ts < now - Lag
    BY <1>1, <1>10, <2>1, ProviderConstants
  <2>3. m \in minutes
    BY <2>2, OldIsIndexed
  <2>4. after(m) \subseteq after(r.ts)
    BY <1>3, <2>1
  <2>5. Cardinality(after(m)) < BarLimit
    <3> HIDE DEF after, m
    <3>1. Cardinality(after(m)) <= Cardinality(after(r.ts))
      BY <1>4, <2>1, <2>4, FS_Subset
    <3>2. Cardinality(after(m)) \in Nat /\ Cardinality(after(r.ts)) \in Nat
      BY <1>4, <2>1
    <3>3. Cardinality(after(r.ts)) < BarLimit
      BY <1>6, <1>10
    <3> QED
      BY <3>1, <3>2, <3>3, ProviderConstants
  <2> QED
    BY <1>7, <2>3, <2>5
<1> QED
  BY <1>8, <1>9, <1>10 DEF BarsReal

\* What every poll does with its answer.
LEMMA ReceiveKeeps ==
    ASSUME EvidenceInv, NEW endpoint, NEW token, NEW fate, NEW rows,
           Receive(endpoint, token, fate, rows),
           AnswerReal([endpoint |-> endpoint, token |-> token, seen |-> now, fate |-> fate, rows |-> rows])
    PROVE  EvidenceInv'
<1> DEFINE e == [endpoint |-> endpoint, token |-> token, seen |-> now, fate |-> fate, rows |-> rows]
<1>1. /\ now' = now /\ chain' = chain /\ pending' = pending /\ drained' = drained /\ plan' = plan
      /\ archive' = archive \union {e} /\ Cardinality(archive) < plan.answers
  BY DEF Receive
<1> HIDE DEF e
<1>2. ChainOK'
  BY <1>1 DEF EvidenceInv, ChainOK
<1>3. ASSUME NEW x, AnswerReal(x) PROVE AnswerReal(x)'
  BY <1>1, <1>3 DEF AnswerReal, OnChain, LevelAt
<1>4. \A x \in archive' : AnswerReal(x)'
  BY <1>1, <1>3 DEF EvidenceInv, e
<1>5. plan.loaded = {}
  <2>1. archive = {} => plan.answers # 0
    <3>1. Cardinality({}) = 0 /\ ~ (0 < 0)
      BY FS_EmptySet
    <3> QED
      BY <1>1, <3>1
  <2>2. archive = {} => plan.loaded = {}
    BY <2>1, EvidenceConstants DEF EvidenceInv, ChainOK
  <2> QED
    BY <2>2 DEF EvidenceInv
<1> QED
  BY <1>1, <1>2, <1>4, <1>5 DEF EvidenceInv

LEMMA SeenNow == ASSUME ChainOK PROVE now \in 0 .. now
BY EvidenceConstants DEF ChainOK

LEMMA PollKeeps ==
    ASSUME EvidenceInv, NEW token,
           \/ PollTrades(token) \/ PollBars(token) \/ PollPools(token) \/ PollPairs(token) \/ PollInfo(token)
           \/ PollFails(token, "gt.trades")
    PROVE  EvidenceInv'
<1>0. ChainOK /\ now \in 0 .. now
  BY SeenNow DEF EvidenceInv
<1>1. CASE PollTrades(token)
  <2>1. PICK page \in TradePages(Indexed(token), now) : \E bad \in SUBSET page :
          Receive("gt.trades", token, "ok",
            {[ts |-> s.ts, n |-> s.n, wallet |-> s.wallet, side |-> s.side, well |-> s \notin bad] : s \in page})
    BY <1>1 DEF PollTrades
  <2>2. PICK bad \in SUBSET page :
          Receive("gt.trades", token, "ok",
            {[ts |-> s.ts, n |-> s.n, wallet |-> s.wallet, side |-> s.side, well |-> s \notin bad] : s \in page})
    BY <2>1
  <2> DEFINE rows == {[ts |-> s.ts, n |-> s.n, wallet |-> s.wallet, side |-> s.side, well |-> s \notin bad] : s \in page}
             e == [endpoint |-> "gt.trades", token |-> token, seen |-> now, fate |-> "ok", rows |-> rows]
  <2>3. TradesReal(e, OnChain(token))
    <3>1. e.seen = now /\ e.rows = rows
      OBVIOUS
    <3> HIDE DEF e
    <3> QED
      BY <1>0, <3>1, PageIsReal
  <2>4. AnswerReal(e)
    <3> HIDE DEF rows
    <3> QED
      BY <1>0, <2>3 DEF AnswerReal, Endpoints
  <2> QED
    BY <2>2, <2>4, ReceiveKeeps
<1>2. CASE PollBars(token)
  <2> DEFINE bars == BarRows(Indexed(token))
  <2>1. PICK bad \in SUBSET bars : \E void \in SUBSET (bars \ bad) :
          Receive("gt.ohlcv", token, "ok",
            {[ts |-> r.ts, volume |-> IF r \in void THEN NoVolume ELSE r.volume, well |-> r \notin bad] : r \in bars})
    BY <1>2 DEF PollBars
  <2>2. PICK void \in SUBSET (bars \ bad) :
          Receive("gt.ohlcv", token, "ok",
            {[ts |-> r.ts, volume |-> IF r \in void THEN NoVolume ELSE r.volume, well |-> r \notin bad] : r \in bars})
    BY <2>1
  <2> DEFINE rows == {[ts |-> r.ts, volume |-> IF r \in void THEN NoVolume ELSE r.volume, well |-> r \notin bad] : r \in bars}
             e == [endpoint |-> "gt.ohlcv", token |-> token, seen |-> now, fate |-> "ok", rows |-> rows]
  <2>3. BarsReal(e, OnChain(token))
    <3>1. e.seen = now /\ e.rows = rows
      OBVIOUS
    <3> HIDE DEF e
    <3> QED
      BY <1>0, <3>1, BarsAreRealWhenReceived
  <2>4. AnswerReal(e)
    <3> HIDE DEF rows
    <3> QED
      BY <1>0, <2>3 DEF AnswerReal, Endpoints
  <2> QED
    BY <2>2, <2>4, ReceiveKeeps
<1>3. CASE PollPools(token)
  <2>1. PICK priced \in BOOLEAN :
          Receive("gt.pools_multi", token, "ok",
            {[created |-> 0, level |-> LevelAt(now), price |-> Least(Prices), priced |-> priced, well |-> TRUE]})
    BY <1>3 DEF PollPools
  <2> DEFINE rows == {[created |-> 0, level |-> LevelAt(now), price |-> Least(Prices), priced |-> priced, well |-> TRUE]}
             e == [endpoint |-> "gt.pools_multi", token |-> token, seen |-> now, fate |-> "ok", rows |-> rows]
  <2>2. \A r \in rows : r.level = LevelAt(now)
    OBVIOUS
  <2>3. AnswerReal(e)
    <3> HIDE DEF rows
    <3> QED
      BY <1>0, <2>2 DEF AnswerReal, Endpoints
  <2> QED
    BY <2>1, <2>3, ReceiveKeeps
<1>4. CASE PollPairs(token)
  <2>1. PICK price \in Prices :
          Receive("ds.pairs", token, "ok", {[level |-> 2 * LevelAt(now), price |-> price, well |-> TRUE]})
    BY <1>4 DEF PollPairs
  <2> DEFINE rows == {[level |-> 2 * LevelAt(now), price |-> price, well |-> TRUE]}
             e == [endpoint |-> "ds.pairs", token |-> token, seen |-> now, fate |-> "ok", rows |-> rows]
  <2>2. \A r \in rows : r.level = 2 * LevelAt(now)
    OBVIOUS
  <2>3. AnswerReal(e)
    <3> HIDE DEF rows
    <3> QED
      BY <1>0, <2>2 DEF AnswerReal, Endpoints
  <2> QED
    BY <2>1, <2>3, ReceiveKeeps
<1>5. CASE PollInfo(token)
  <2>1. PICK developer \in {Creator, NoCreator} :
          Receive("gt.token_info", token, "ok",
            {[developer |-> developer, updated |-> now, count |-> 0, well |-> TRUE]})
    BY <1>5 DEF PollInfo
  <2> DEFINE rows == {[developer |-> developer, updated |-> now, count |-> 0, well |-> TRUE]}
             e == [endpoint |-> "gt.token_info", token |-> token, seen |-> now, fate |-> "ok", rows |-> rows]
  <2>2. AnswerReal(e)
    <3> HIDE DEF rows
    <3> QED
      BY <1>0 DEF AnswerReal, Endpoints
  <2> QED
    BY <2>1, <2>2, ReceiveKeeps
<1>6. CASE PollFails(token, "gt.trades")
  <2> DEFINE e == [endpoint |-> "gt.trades", token |-> token, seen |-> now, fate |-> "failed", rows |-> {}]
  <2>1. AnswerReal(e)
    BY <1>0 DEF AnswerReal, Endpoints
  <2>2. Receive("gt.trades", token, "failed", {})
    BY <1>6 DEF PollFails
  <2> QED
    BY <2>1, <2>2, ReceiveKeeps
<1> QED
  BY <1>1, <1>2, <1>3, <1>4, <1>5, <1>6

LEMMA EvidenceKeeps == EvidenceInv /\ [Next]_vars => EvidenceInv'
<1> SUFFICES ASSUME EvidenceInv, [Next]_vars PROVE EvidenceInv'
  OBVIOUS
<1>1. ASSUME NEW t, NEW w, NEW side, Trade(t, w, side) PROVE EvidenceInv'
  BY <1>1, TradeKeeps
<1>2. ASSUME NEW s \in pending, Index(s) PROVE EvidenceInv'
  BY <1>2, IndexKeeps
<1>3. CASE UNCHANGED vars
  <2>1. ASSUME NEW x, AnswerReal(x) PROVE AnswerReal(x)'
    BY <1>3, <2>1 DEF vars, AnswerReal, OnChain, LevelAt
  <2>2. ChainOK'
    BY <1>3 DEF vars, EvidenceInv, ChainOK
  <2> QED
    BY <1>3, <2>1, <2>2 DEF vars, EvidenceInv
<1> QED
  BY <1>1, <1>2, <1>3, TickKeeps, DrainKeeps, PollKeeps DEF Next

LEMMA EvidenceHolds == Spec => []EvidenceInv
BY InitEvidence, EvidenceKeeps, PTL DEF Spec

-----------------------------------------------------------------------------
(* What was said stays said.                                               *)

\* A record carries the token of its answer and the moment it was received.
LEMMA ParsedSeen ==
    ASSUME NEW e, e.endpoint \in Endpoints, NEW x \in Parse(e)
    PROVE  x.seen = e.seen /\ x.token = e.token
<1>1. CASE e.endpoint = "gt.trades"
  <2>1. x \in ParseTrades(e)
    BY <1>1 DEF Parse
  <2> QED
    BY <2>1 DEF ParseTrades, TradeClaims, Claim
<1>2. CASE e.endpoint = "gt.ohlcv"
  <2>1. x \in ParseOhlcv(e)
    BY <1>2 DEF Parse
  <2> QED
    BY <2>1 DEF ParseOhlcv, BarClaims, Claim
<1>3. CASE e.endpoint = "gt.pools_multi"
  <2>1. x \in ParsePools(e)
    BY <1>3 DEF Parse
  <2> QED
    BY <2>1 DEF ParsePools
<1>4. CASE e.endpoint = "gt.token_info"
  <2>1. x \in ParseInfo(e)
    BY <1>4 DEF Parse
  <2> QED
    BY <2>1 DEF ParseInfo
<1>5. CASE e.endpoint = "ds.pairs"
  <2>1. x \in ParsePairs(e)
    BY <1>5 DEF Parse
  <2> QED
    BY <2>1 DEF ParsePairs
<1> QED
  BY <1>1, <1>2, <1>3, <1>4, <1>5 DEF Endpoints

\* A step adds at most one answer, and that is of this moment.
LEMMA ArchiveGrows ==
    ASSUME [Next]_vars
    PROVE  /\ plan' = plan
           /\ \/ archive' = archive
              \/ \E e : e.seen = now /\ e.endpoint \in Endpoints /\ archive' = archive \union {e}
<1>1. ASSUME NEW endpoint \in Endpoints, NEW token, NEW fate, NEW rows, Receive(endpoint, token, fate, rows)
      PROVE  plan' = plan /\ \E e : e.seen = now /\ e.endpoint \in Endpoints /\ archive' = archive \union {e}
  <2> DEFINE e == [endpoint |-> endpoint, token |-> token, seen |-> now, fate |-> fate, rows |-> rows]
  <2>1. e.seen = now /\ e.endpoint \in Endpoints
    OBVIOUS
  <2>2. archive' = archive \union {e} /\ plan' = plan
    BY <1>1 DEF Receive
  <2> HIDE DEF e
  <2> QED
    BY <2>1, <2>2
<1>2. ASSUME NEW t, PollTrades(t) \/ PollBars(t)
      PROVE  plan' = plan /\ \E e : e.seen = now /\ e.endpoint \in Endpoints /\ archive' = archive \union {e}
  <2>1. \E endpoint \in Endpoints : \E token, fate, rows : Receive(endpoint, token, fate, rows)
    BY <1>2, Zenon DEF PollTrades, PollBars, Endpoints
  <2> QED
    BY <1>1, <2>1
<1>3. ASSUME NEW t, PollPools(t) \/ PollPairs(t) \/ PollInfo(t) \/ PollFails(t, "gt.trades")
      PROVE  plan' = plan /\ \E e : e.seen = now /\ e.endpoint \in Endpoints /\ archive' = archive \union {e}
  <2>1. \E endpoint \in Endpoints : \E token, fate, rows : Receive(endpoint, token, fate, rows)
    BY <1>3, Zenon DEF PollPools, PollPairs, PollInfo, PollFails, Endpoints
  <2> QED
    BY <1>1, <2>1
<1> QED
  BY <1>2, <1>3 DEF Next, vars, Tick, Drain, Trade, Index

\* What is said as of a moment rests on what had been received by then.
LEMMA JudgedByView ==
    ASSUME NEW R, NEW Q, NEW token, NEW asOf, View(R, asOf) = View(Q, asOf)
    PROVE  Judgement(R, token, asOf) = Judgement(Q, token, asOf)
<1>1. Assess(R, token, asOf) = Assess(Q, token, asOf)
  BY DEF Assess
<1> QED
  BY <1>1 DEF Judgement

LEMMA PastViewKept ==
    ASSUME [Next]_vars, ChainOK
    PROVE  View(Store', now - 1) = View(Store, now - 1)
<1>1. CASE archive' = archive
  <2>1. Store' = Store
    BY <1>1, ArchiveGrows DEF Store, Records
  <2> QED
    BY <2>1
<1>2. CASE \E e : e.seen = now /\ e.endpoint \in Endpoints /\ archive' = archive \union {e}
  <2>1. PICK e : e.seen = now /\ e.endpoint \in Endpoints /\ archive' = archive \union {e}
    BY <1>2
  <2>2. PICK new : new = IF e.fate = "ok" THEN Parse(e) ELSE {}
    OBVIOUS
  <2>3. Store' = Store \union new
    BY <2>1, <2>2, ArchiveGrows DEF Store, Records
  <2>4. \A x \in new : x.seen = now
    BY <2>1, <2>2, ParsedSeen
  <2>5. now \in Nat
    BY ChainTypes
  <2> QED
    BY <2>3, <2>4, <2>5 DEF View
<1> QED
  BY <1>1, <1>2, ArchiveGrows

\* What was said as of an earlier moment is never said otherwise: the next
\* judgement of it reads the same records, whatever is received later.
THEOREM ViewsAreFrozen == Spec => PastViewsAreFrozen
<1>1. ASSUME [Next]_vars, EvidenceInv, NEW t \in Tokens
      PROVE  Judgement(Store', t, now - 1) = Judgement(Store, t, now - 1)
  <2>1. View(Store', now - 1) = View(Store, now - 1)
    BY <1>1, PastViewKept DEF EvidenceInv
  <2> QED
    BY <2>1, JudgedByView
<1>2. EvidenceInv /\ [Next]_vars =>
        [\A t \in Tokens : now > 0 => Judgement(Store', t, now - 1) = Judgement(Store, t, now - 1)]_archive
  BY <1>1
<1> QED
  BY <1>2, EvidenceHolds, PTL DEF Spec, PastViewsAreFrozen

-----------------------------------------------------------------------------
(* Liquidity.                                                              *)

\* The level of the pool at that moment, in the units of the source.
SnapshotReal(x) ==
    /\ x.ts \in 0 .. now
    /\ \/ x.source = "geckoterminal" /\ x.level = LevelAt(x.ts)
       \/ x.source = "dexscreener" /\ x.level = 2 * LevelAt(x.ts)

LEMMA ParsedSnapshot ==
    ASSUME NEW e, AnswerReal(e), e.fate = "ok", NEW x \in Parse(e), x.kind = "snapshot"
    PROVE  SnapshotReal(x)
<1>1. e.seen \in 0 .. now /\ e.endpoint \in Endpoints
  BY DEF AnswerReal
<1>2. CASE e.endpoint = "gt.trades"
  <2>1. x \in ParseTrades(e)
    BY <1>2 DEF Parse
  <2> QED
    BY <2>1 DEF ParseTrades, TradeClaims, Claim
<1>3. CASE e.endpoint = "gt.ohlcv"
  <2>1. x \in ParseOhlcv(e)
    BY <1>3 DEF Parse
  <2> QED
    BY <2>1 DEF ParseOhlcv, BarClaims, Claim
<1>4. CASE e.endpoint = "gt.pools_multi"
  <2>1. x \in ParsePools(e)
    BY <1>4 DEF Parse
  <2>2. PICK r \in e.rows : x.ts = e.seen /\ x.source = "geckoterminal" /\ x.level = r.level
    BY <2>1 DEF ParsePools, Well
  <2> QED
    BY <1>1, <1>4, <2>2 DEF AnswerReal, SnapshotReal
<1>5. CASE e.endpoint = "gt.token_info"
  <2>1. x \in ParseInfo(e)
    BY <1>5 DEF Parse
  <2> QED
    BY <2>1 DEF ParseInfo
<1>6. CASE e.endpoint = "ds.pairs"
  <2>1. x \in ParsePairs(e)
    BY <1>6 DEF Parse
  <2>2. PICK r \in e.rows : x.ts = e.seen /\ x.source = "dexscreener" /\ x.level = r.level
    BY <2>1 DEF ParsePairs, Well
  <2> QED
    BY <1>1, <1>6, <2>2 DEF AnswerReal, SnapshotReal
<1> QED
  BY <1>1, <1>2, <1>3, <1>4, <1>5, <1>6 DEF Endpoints

\* Where a record comes from.
LEMMA Recorded ==
    ASSUME EvidenceInv, NEW x \in View(Store, now)
    PROVE  \/ x \in plan.loaded /\ x.kind = "swap" /\ archive = {}
           \/ \E e \in archive : e.fate = "ok" /\ AnswerReal(e) /\ x \in Parse(e)
BY EvidenceConstants DEF View, Store, Records, EvidenceInv, ChainOK

\* The latest snapshots of a set of real ones is one of them.
LEMMA LatestOf ==
    ASSUME now \in Nat, NEW S, S # {}, \A x \in S : x.ts \in 0 .. now
    PROVE  Latest(S) \in S
<1> DEFINE T == {x.ts : x \in S}
<1>1. T \subseteq Nat /\ T # {} /\ \A t \in T : t <= now
  BY DEF T
<1> HIDE DEF T
<1>2. Greatest(T) \in T /\ \A t \in T : t <= Greatest(T)
  BY <1>1, GreatestOf
<1>3. PICK s \in S : s.ts = Greatest(T)
  BY <1>2 DEF T
<1>4. \A x \in S : x.ts <= s.ts
  BY <1>2, <1>3 DEF T
<1> QED
  BY <1>4 DEF Latest

\* What is read is of one source: both are in the list of priorities.
LEMMA PreferredOf ==
    ASSUME NEW S, \A x \in S : SnapshotReal(x)
    PROVE  /\ Preferred(S) \subseteq S
           /\ \A x, y \in Preferred(S) : x.source = y.source
<1> DEFINE present == {i \in DOMAIN Sources : \E s \in S : s.source = Sources[i]}
<1>1. CASE S = {}
  BY <1>1 DEF Preferred
<1>2. CASE S # {}
  <2>1. PICK s \in S : s.source \in {"geckoterminal", "dexscreener"}
    BY <1>2 DEF SnapshotReal
  <2>2. PICK i \in DOMAIN Sources : Sources[i] = s.source
    BY <2>1, FeatureConstants
  <2>3. present # {}
    BY <2>1, <2>2
  <2>4. Preferred(S) = {x \in S : x.source = Sources[Least(present)]}
    BY <2>3 DEF Preferred
  <2> QED
    BY <2>4
<1> QED
  BY <1>1, <1>2

\* A level that is reported as good was the pool's within MaxAge, and a change
\* was one between two moments of one source, on either side of the window's
\* start.
THEOREM LiquidityHolds == Spec => []LiquidityIsReal
<1>1. ASSUME EvidenceInv, NEW t \in Tokens
      PROVE  LET liq == Assess(Store, t, now).liquidity
             IN  /\ IsOk(liq.level) =>
                        \E u \in (now - MaxAge)..now : liq.level.value \in {LevelAt(u), 2 * LevelAt(u)}
                 /\ IsOk(liq.change) =>
                        \E u \in 0..(now - LevelWindow), v \in (now - LevelWindow + 1)..now :
                            liq.change.value[1] * LevelAt(v) = liq.change.value[2] * LevelAt(u)
  <2> DEFINE all == OfKind(View(Store, now), t, "snapshot")
             liq == Liquidity(all, now)
             start == now - LevelWindow
             S == {s \in all : s.ts < now}
             snaps == Preferred(S)
             atStart == {s \in snaps : s.ts <= start}
             stale == snaps # {} /\ now - Latest(snaps).ts > MaxAge
             fresh == snaps # {} /\ Latest(snaps).ts > start
  <2>1. Assess(Store, t, now).liquidity = liq
    BY DEF Assess
  <2>2. now \in Nat /\ MaxAge \in Nat /\ LevelWindow \in Nat /\ \A u : LevelAt(u) \in Nat
    BY <1>1, ChainTypes, FeatureConstants, EvidenceConstants DEF EvidenceInv, LevelAt
  <2>3. \A x \in S : SnapshotReal(x)
    <3>1. ASSUME NEW x \in all PROVE SnapshotReal(x)
      <4>1. x \in View(Store, now) /\ x.kind = "snapshot"
        BY DEF OfKind
      <4> QED
        BY <1>1, <4>1, Recorded, ParsedSnapshot
    <3> QED
      BY <3>1
  <2>4. liq.level = IF snaps = {} THEN Missing
                    ELSE [value |-> Latest(snaps).level, status |-> IF stale THEN "STALE" ELSE "OK"]
    BY DEF Liquidity
  <2>5. liq.change = IF atStart = {} \/ ~fresh \/ stale THEN Missing
                     ELSE IF Latest(atStart).level = 0 THEN Missing
                     ELSE Ok(<<Latest(atStart).level, Latest(snaps).level>>)
    BY DEF Liquidity
  <2> HIDE DEF liq, S
  <2>6. snaps \subseteq S /\ \A x, y \in snaps : x.source = y.source
    BY <2>3, PreferredOf
  <2> HIDE DEF snaps
  <2>7. ASSUME NEW x \in snaps PROVE SnapshotReal(x) /\ x.ts \in 0 .. now
    BY <2>3, <2>6 DEF SnapshotReal
  <2>8. ASSUME IsOk(liq.level)
        PROVE  \E u \in (now - MaxAge)..now : liq.level.value \in {LevelAt(u), 2 * LevelAt(u)}
    <3>1. snaps # {} /\ ~stale /\ liq.level.value = Latest(snaps).level
      BY <2>4, <2>8 DEF IsOk, Missing
    <3>2. Latest(snaps) \in snaps
      BY <2>2, <2>7, <3>1, LatestOf
    <3> DEFINE x == Latest(snaps)
    <3>3. SnapshotReal(x) /\ x.ts \in 0 .. now
      BY <2>7, <3>2
    <3>4. x.ts \in (now - MaxAge) .. now
      BY <2>2, <3>1, <3>3
    <3> QED
      BY <3>1, <3>3, <3>4 DEF SnapshotReal
  <2>9. ASSUME IsOk(liq.change)
        PROVE  \E u \in 0..(now - LevelWindow), v \in (now - LevelWindow + 1)..now :
                   liq.change.value[1] * LevelAt(v) = liq.change.value[2] * LevelAt(u)
    <3>1. /\ atStart # {} /\ fresh
          /\ liq.change = Ok(<<Latest(atStart).level, Latest(snaps).level>>)
      BY <2>5, <2>9 DEF IsOk, Missing
    <3>2. Latest(snaps) \in snaps /\ Latest(snaps).ts > start
      BY <2>2, <2>7, <3>1, LatestOf
    <3>3. atStart \subseteq snaps /\ \A y \in atStart : y.ts \in 0 .. now
      BY <2>7
    <3>4. Latest(atStart) \in atStart
      <4> HIDE DEF atStart
      <4> QED
        BY <2>2, <3>1, <3>3, LatestOf
    <3>5. PICK x \in snaps, y \in snaps :
            /\ x = Latest(snaps) /\ y = Latest(atStart) /\ x.ts > start /\ y.ts <= start
      BY <3>2, <3>3, <3>4
    <3>6. liq.change.value[1] = y.level /\ liq.change.value[2] = x.level
      BY <3>1, <3>5 DEF Ok
    <3>7. SnapshotReal(x) /\ SnapshotReal(y) /\ x.source = y.source /\ x.ts \in 0 .. now /\ y.ts \in 0 .. now
      BY <2>6, <2>7
    <3>8. PICK a \in Nat, b \in Nat : a = LevelAt(x.ts) /\ b = LevelAt(y.ts)
      BY <2>2
    <3>9. (x.level = a /\ y.level = b) \/ (x.level = 2 * a /\ y.level = 2 * b)
      BY <3>7, <3>8 DEF SnapshotReal
    <3>10. y.level * a = x.level * b
      BY <3>9
    <3>11. y.ts \in 0 .. (now - LevelWindow) /\ x.ts \in (now - LevelWindow + 1) .. now
      BY <2>2, <3>5, <3>7
    <3> QED
      BY <3>6, <3>8, <3>10, <3>11
  <2> HIDE DEF all
  <2> QED
    BY <2>1, <2>8, <2>9
<1>2. EvidenceInv => LiquidityIsReal
  BY <1>1 DEF LiquidityIsReal
<1> QED
  BY <1>2, EvidenceHolds, PTL

-----------------------------------------------------------------------------
(* Bars.                                                                   *)

LEMMA BoundOf ==
    ASSUME NEW S, S \subseteq Nat, IsFiniteSet(S)
    PROVE  \E n \in Nat : \A x \in S : x <= n
<1> DEFINE T == {s \in SUBSET S : \E n \in Nat : \A x \in s : x <= n}
<1>1. {} \in T
  <2>1. 0 \in Nat
    OBVIOUS
  <2> QED
    BY <2>1
<1>2. ASSUME NEW s \in SUBSET S, NEW y \in S \ s, s \in T PROVE s \union {y} \in T
  <2>1. PICK n \in Nat : \A x \in s : x <= n
    BY <1>2
  <2>2. PICK k \in Nat : n <= k /\ y <= k
    <3>1. n <= n /\ y <= y /\ (n <= y \/ y <= n) /\ y \in Nat
      OBVIOUS
    <3> QED
      BY <3>1
  <2>3. \A x \in s \union {y} : x <= k
    BY <2>1, <2>2
  <2> QED
    BY <2>3
<1> HIDE DEF T
<1>3. S \in T
  BY <1>1, <1>2, SubsetInduction
<1> QED
  BY <1>3 DEF T

LEMMA LookbackInt == Lookback \in Int
<1>1. PICK n \in Nat : \A x \in Windows : x <= n
  BY FeatureConstants, BoundOf
<1>2. Greatest(Windows) \in Nat
  BY <1>1, FeatureConstants, GreatestOf
<1> DEFINE k == BaselineBars + Greatest(Windows) + 1
<1>3. k \in Int /\ Minute \in Int
  BY <1>2, FeatureConstants, ProviderConstants
<1> HIDE DEF k
<1>4. k * Minute \in Int
  BY <1>3
<1> QED
  BY <1>4 DEF Lookback, k

\* What the records of gt.ohlcv are: bars that were closed in time, and one
\* claim from the first of them to the last minute that was.
LEMMA ParsedBar ==
    ASSUME NEW e, e.endpoint \in Endpoints, NEW x \in Parse(e), x.kind = "bar"
    PROVE  /\ e.endpoint = "gt.ohlcv"
           /\ \E r \in Closed(e) : x.ts = r.ts /\ x.volume = r.volume
<1>1. CASE e.endpoint = "gt.trades"
  <2>1. x \in ParseTrades(e)
    BY <1>1 DEF Parse
  <2> QED
    BY <2>1 DEF ParseTrades, TradeClaims, Claim
<1>2. CASE e.endpoint = "gt.ohlcv"
  <2>1. x \in ParseOhlcv(e)
    BY <1>2 DEF Parse
  <2> QED
    BY <1>2, <2>1 DEF ParseOhlcv, BarClaims, Claim
<1>3. CASE e.endpoint = "gt.pools_multi"
  <2>1. x \in ParsePools(e)
    BY <1>3 DEF Parse
  <2> QED
    BY <2>1 DEF ParsePools
<1>4. CASE e.endpoint = "gt.token_info"
  <2>1. x \in ParseInfo(e)
    BY <1>4 DEF Parse
  <2> QED
    BY <2>1 DEF ParseInfo
<1>5. CASE e.endpoint = "ds.pairs"
  <2>1. x \in ParsePairs(e)
    BY <1>5 DEF Parse
  <2> QED
    BY <2>1 DEF ParsePairs
<1> QED
  BY <1>1, <1>2, <1>3, <1>4, <1>5 DEF Endpoints

LEMMA ParsedClaim ==
    ASSUME NEW e, e.endpoint \in Endpoints, NEW x \in Parse(e), x.kind \in {"bars", "trades"}
    PROVE  \/ x.kind = "bars" /\ e.endpoint = "gt.ohlcv" /\ x \in BarClaims(e)
           \/ x.kind = "trades" /\ e.endpoint = "gt.trades" /\ x \in TradeClaims(e)
<1>1. CASE e.endpoint = "gt.trades"
  <2>1. x \in ParseTrades(e)
    BY <1>1 DEF Parse
  <2>2. x \in TradeClaims(e)
    BY <2>1 DEF ParseTrades
  <2>3. x.kind = "trades"
    BY <2>2 DEF TradeClaims, Claim
  <2> QED
    BY <1>1, <2>2, <2>3
<1>2. CASE e.endpoint = "gt.ohlcv"
  <2>1. x \in ParseOhlcv(e)
    BY <1>2 DEF Parse
  <2>2. x \in BarClaims(e)
    BY <2>1 DEF ParseOhlcv
  <2>3. x.kind = "bars"
    BY <2>2 DEF BarClaims, Claim
  <2> QED
    BY <1>2, <2>2, <2>3
<1>3. CASE e.endpoint = "gt.pools_multi"
  <2>1. x \in ParsePools(e)
    BY <1>3 DEF Parse
  <2> QED
    BY <2>1 DEF ParsePools
<1>4. CASE e.endpoint = "gt.token_info"
  <2>1. x \in ParseInfo(e)
    BY <1>4 DEF Parse
  <2> QED
    BY <2>1 DEF ParseInfo
<1>5. CASE e.endpoint = "ds.pairs"
  <2>1. x \in ParsePairs(e)
    BY <1>5 DEF Parse
  <2> QED
    BY <2>1 DEF ParsePairs
<1> QED
  BY <1>1, <1>2, <1>3, <1>4, <1>5 DEF Endpoints

\* An answer whose parts are visible now.
From(e, t) == e \in archive /\ e.fate = "ok" /\ e.token = t /\ AnswerReal(e) /\ e.seen \in 0 .. now

LEMMA RecordOf ==
    ASSUME EvidenceInv, NEW t, NEW kind, kind # "swap", NEW x \in OfKind(View(Store, now), t, kind)
    PROVE  \E e : From(e, t) /\ e.endpoint \in Endpoints /\ x \in Parse(e) /\ x.kind = kind /\ x.seen = e.seen
<1>1. x \in View(Store, now) /\ x.kind = kind /\ x.token = t
  BY DEF OfKind
<1>2. PICK e \in archive : e.fate = "ok" /\ AnswerReal(e) /\ x \in Parse(e)
  BY <1>1, Recorded
<1>3. e.endpoint \in Endpoints /\ e.seen \in 0 .. now
  BY <1>2 DEF AnswerReal
<1>4. x.seen = e.seen /\ x.token = e.token
  BY <1>2, <1>3, ParsedSeen
<1> QED
  BY <1>1, <1>2, <1>3, <1>4 DEF From

\* What an answer gives is in the view.
LEMMA InView ==
    ASSUME EvidenceInv, NEW t, NEW e, From(e, t), NEW x \in Parse(e)
    PROVE  x \in OfKind(View(Store, now), t, x.kind) /\ x.seen = e.seen
<1>1. e.endpoint \in Endpoints /\ e.seen \in 0 .. now /\ e \in archive /\ e.fate = "ok" /\ e.token = t
  BY DEF From, AnswerReal
<1>2. x.seen = e.seen /\ x.token = t
  BY <1>1, ParsedSeen
<1>3. x \in Store
  BY <1>1 DEF Store, Records
<1> QED
  BY <1>1, <1>2, <1>3 DEF OfKind, View

\* A bar that is read is a row of an answer that was closed Lag before it.
LEMMA BarOf ==
    ASSUME EvidenceInv, NEW t, NEW b \in OfKind(View(Store, now), t, "bar")
    PROVE  \E e : /\ From(e, t) /\ e.endpoint = "gt.ohlcv" /\ b.seen = e.seen
                  /\ \E r \in Closed(e) : b.ts = r.ts /\ b.volume = r.volume
<1>1. PICK e : From(e, t) /\ e.endpoint \in Endpoints /\ b \in Parse(e) /\ b.kind = "bar" /\ b.seen = e.seen
  BY RecordOf
<1> QED
  BY <1>1, ParsedBar

\* Of the versions of a bar there is one that was seen last.
LEMMA LatestBar ==
    ASSUME EvidenceInv, NEW t, NEW b \in OfKind(View(Store, now), t, "bar")
    PROVE  \E x \in ProviderBars(View(Store, now), t) : x.ts = b.ts
<1> DEFINE all == OfKind(View(Store, now), t, "bar")
           S == {x.seen : x \in {y \in all : y.ts = b.ts}}
<1>1. now \in Nat
  BY ChainTypes DEF EvidenceInv
<1>2. \A x \in all : x.seen \in 0 .. now
  <2> SUFFICES ASSUME NEW x \in all PROVE x.seen \in 0 .. now
    OBVIOUS
  <2>1. PICK e : From(e, t) /\ x.seen = e.seen
    BY BarOf
  <2> QED
    BY <2>1 DEF From
<1> HIDE DEF all
<1>3. S \subseteq Nat /\ \A x \in S : x <= now
  BY <1>1, <1>2
<1>4. S # {}
  BY DEF all
<1>5. Greatest(S) \in S /\ \A y \in S : y <= Greatest(S)
  <2> HIDE DEF S
  <2> QED
    BY <1>1, <1>3, <1>4, GreatestOf
<1>6. PICK x \in all : x.ts = b.ts /\ x.seen = Greatest(S)
  BY <1>5
<1>7. \A y \in all : y.ts = x.ts => y.seen <= x.seen
  BY <1>5, <1>6
<1> QED
  BY <1>6, <1>7 DEF ProviderBars, all

\* A claim of the bars: from the first closed row to a whole minute, Lag before
\* the answer.
LEMMA BarClaimOf ==
    ASSUME EvidenceInv, NEW t, NEW c \in Claims(View(Store, now), t, "bars")
    PROVE  \E e : /\ From(e, t) /\ e.endpoint = "gt.ohlcv"
                  /\ \E r \in Closed(e) : c.start = r.ts /\ r.ts \in Nat /\ r.ts + Minute <= e.seen - Lag
                  /\ c.end = MinuteOf(e.seen - Lag) /\ e.seen - Lag \in Nat
                  /\ c.end \in Nat /\ c.end % Minute = 0 /\ c.end <= e.seen - Lag /\ c.end <= now
<1>1. PICK e : From(e, t) /\ e.endpoint \in Endpoints /\ c \in Parse(e) /\ c.kind = "bars"
  BY RecordOf DEF Claims
<1>2. e.endpoint = "gt.ohlcv" /\ c \in BarClaims(e)
  BY <1>1, ParsedClaim
<1>3. BarsReal(e, OnChain(e.token)) /\ e.seen \in 0 .. now
  BY <1>1, <1>2 DEF From, AnswerReal
<1> DEFINE S == {r.ts : r \in Closed(e)}
<1>4. S # {} /\ c.start = Least(S) /\ c.end = MinuteOf(e.seen - Lag)
  BY <1>2 DEF BarClaims, Claim
<1>5. \A r \in Closed(e) : r \in e.rows /\ r.ts \in Nat /\ r.ts + Minute <= e.seen - Lag
  BY <1>3 DEF Closed, Well, BarsReal
<1>6. Least(S) \in S
  <2>1. S \subseteq Nat
    BY <1>5
  <2> HIDE DEF S
  <2> QED
    BY <1>4, <2>1, LeastOf
<1>7. PICK r \in Closed(e) : c.start = r.ts
  BY <1>4, <1>6
<1>8. e.seen - Lag \in Nat /\ e.seen - Lag <= now /\ now \in Nat
  <2>1. now \in Nat /\ e.seen \in Nat /\ e.seen <= now
    BY <1>3, ChainTypes DEF EvidenceInv
  <2> QED
    BY <1>5, <1>7, <2>1, ProviderConstants
<1> DEFINE k == e.seen - Lag
<1> HIDE DEF k
<1>9. MinuteOf(k) \in Nat /\ MinuteOf(k) % Minute = 0 /\ MinuteOf(k) <= k
  BY <1>8, MinuteBounds DEF k
<1>10. MinuteOf(k) <= now
  BY <1>8, <1>9 DEF k
<1> QED
  BY <1>1, <1>2, <1>4, <1>5, <1>7, <1>8, <1>9, <1>10 DEF k

\* Where the bars are read to and from is a number.
LEMMA BarsEnd ==
    ASSUME EvidenceInv, NEW t, Claims(View(Store, now), t, "bars") # {}
    PROVE  MinuteOf(Before(now, EndOf(Claims(View(Store, now), t, "bars")))) \in Int
<1> DEFINE bcov == Claims(View(Store, now), t, "bars")
           S == {c.end : c \in bcov}
<1>1. now \in Nat
  BY ChainTypes DEF EvidenceInv
<1>2. ASSUME NEW c \in bcov PROVE c.end \in Nat /\ c.end <= now
  BY BarClaimOf
<1>3. S \subseteq Nat /\ S # {} /\ \A x \in S : x <= now
  <2> HIDE DEF bcov
  <2>1. S \subseteq Nat /\ \A x \in S : x <= now
    BY <1>2
  <2>2. S # {}
    BY DEF bcov
  <2> QED
    BY <2>1, <2>2
<1>4. Greatest(S) \in Nat
  <2> HIDE DEF S
  <2> QED
    BY <1>1, <1>3, GreatestOf
<1>5. Before(now, EndOf(bcov)) \in Int
  BY <1>1, <1>4 DEF Before, EndOf
<1> QED
  BY <1>5, MinuteBounds

LEMMA BarsStart ==
    ASSUME EvidenceInv, NEW t, ProviderBars(View(Store, now), t) # {}
    PROVE  Least({b.ts : b \in ProviderBars(View(Store, now), t)}) \in Int
<1> DEFINE pbars == ProviderBars(View(Store, now), t)
           S == {b.ts : b \in pbars}
<1>1. ASSUME NEW b \in pbars PROVE b.ts \in Nat
  <2>1. b \in OfKind(View(Store, now), t, "bar")
    BY DEF ProviderBars
  <2>2. PICK e : From(e, t) /\ e.endpoint = "gt.ohlcv" /\ \E r \in Closed(e) : b.ts = r.ts
    BY <2>1, BarOf
  <2>3. BarsReal(e, OnChain(t))
    BY <2>2 DEF From, AnswerReal
  <2> QED
    BY <2>2, <2>3 DEF BarsReal, Closed, Well
<1>2. S \subseteq Nat /\ S # {}
  <2> HIDE DEF pbars
  <2>1. S \subseteq Nat
    BY <1>1
  <2>2. S # {}
    BY DEF pbars
  <2> QED
    BY <2>1, <2>2
<1> HIDE DEF S
<1>3. Least(S) \in S
  BY <1>2, LeastOf
<1> QED
  BY <1>2, <1>3 DEF S

\* The minutes a token is assessed on, and what is said of each.
LEMMA BarsOfToken ==
    ASSUME EvidenceInv, NEW t, ProviderBars(View(Store, now), t) # {},
           NEW m \in DOMAIN TokenBars(View(Store, now), t, now)
    PROVE  /\ m \in Int /\ m % Minute = 0
           /\ \E first : TokenBars(View(Store, now), t, now)[m] =
                 BarAt(m, first, ProviderBars(View(Store, now), t), Swaps(View(Store, now), t),
                       Claims(View(Store, now), t, "bars"), Claims(View(Store, now), t, "trades"))
<1> DEFINE view == View(Store, now)
           bars == TokenBars(view, t, now)
           pbars == ProviderBars(view, t)
           bcov == Claims(view, t, "bars")
           tcov == Claims(view, t, "trades")
           swaps == Swaps(view, t)
           end == MinuteOf(Before(now, EndOf(bcov)))
           first == Later(end - Lookback, Least({b.ts : b \in pbars}))
<1>1. bars = IF bcov = {} THEN <<>> ELSE BarsFromProvider(pbars, swaps, bcov, tcov, first, end)
  BY DEF TokenBars
<1>2. bcov # {}
  <2>1. DOMAIN << >> = {}
    OBVIOUS
  <2> QED
    BY <1>1, <2>1
<1>3. end \in Int /\ Least({b.ts : b \in pbars}) \in Int /\ Lookback \in Int
  BY <1>2, BarsEnd, BarsStart, LookbackInt
<1>4. first \in Int
  <2> HIDE DEF end
  <2> QED
    BY <1>3 DEF Later
<1> HIDE DEF first, end, view, bars, pbars, bcov, tcov, swaps
<1>5. bars = [x \in Minutes(first, end) |-> BarAt(x, MinuteOf(first), pbars, swaps, bcov, tcov)]
  BY <1>1, <1>2 DEF BarsFromProvider
<1>6. m \in Minutes(first, end)
  BY <1>5 DEF bars, view
<1>7. bars[m] = BarAt(m, MinuteOf(first), pbars, swaps, bcov, tcov)
  BY <1>5, <1>6
<1>8. m \in Int /\ (m - MinuteOf(first)) % Minute = 0
  BY <1>4, <1>3, <1>6 DEF Minutes
<1>9. MinuteOf(first) \in Int /\ MinuteOf(first) % Minute = 0
  BY <1>4, MinuteBounds
<1>10. m % Minute = 0
  BY <1>8, <1>9, MinuteGrid
<1> QED
  BY <1>7, <1>8, <1>10 DEF view, bars, pbars, bcov, tcov, swaps

\* A minute that no bar is of, inside a claim of the bars: the provider has
\* answered without a row of it, or the row was dropped.
LEMMA QuietMinute ==
    ASSUME EvidenceInv, NEW t, NEW m \in Int, m % Minute = 0,
           \A b \in ProviderBars(View(Store, now), t) : b.ts # m,
           NEW c \in Claims(View(Store, now), t, "bars"), m \in c.start .. c.end - 1,
           NEW s \in OnChain(t), MinuteOf(s.ts) = m
    PROVE  \E e \in archive : e.endpoint = "gt.ohlcv" /\ \E r \in Dropped(e) : r.ts = m
<1>1. PICK e : /\ From(e, t) /\ e.endpoint = "gt.ohlcv"
               /\ \E r \in Closed(e) : c.start = r.ts /\ r.ts \in Nat /\ r.ts + Minute <= e.seen - Lag
               /\ e.seen - Lag \in Nat
               /\ c.end \in Nat /\ c.end % Minute = 0 /\ c.end <= e.seen - Lag
  BY BarClaimOf
<1>2. PICK r \in Closed(e) : c.start = r.ts /\ r.ts \in Nat
  BY <1>1
<1>3. r.ts <= m /\ m < c.end
  BY <1>1, <1>2
<1>4. m + Minute <= e.seen - Lag
  <2>1. m + Minute <= c.end
    BY <1>1, <1>3, OneMinute
  <2> DEFINE k == e.seen - Lag
  <2> HIDE DEF k
  <2>2. k \in Nat /\ c.end \in Nat /\ c.end <= k
    BY <1>1 DEF k
  <2>3. m + Minute <= k
    BY <2>1, <2>2, ProviderConstants
  <2> QED
    BY <2>3 DEF k
<1>5. BarsReal(e, OnChain(t))
  BY <1>1 DEF From, AnswerReal
<1>6. r \in e.rows
  BY DEF Closed, Well
<1>7. PICK x \in e.rows : x.ts = m
  BY <1>3, <1>4, <1>5, <1>6 DEF BarsReal
<1>8. ~ x.well
  <2> SUFFICES ASSUME x.well PROVE FALSE
    OBVIOUS
  <2>1. x \in Closed(e)
    BY <1>4, <1>7 DEF Closed, Well
  <2> DEFINE b == [kind |-> "bar", token |-> e.token, ts |-> x.ts, volume |-> x.volume, seen |-> e.seen]
  <2>2. b \in Parse(e)
    BY <1>1, <2>1 DEF Parse, ParseOhlcv
  <2>3. b.kind = "bar" /\ b.ts = m
    BY <1>7
  <2> HIDE DEF b
  <2>4. b \in OfKind(View(Store, now), t, "bar")
    BY <1>1, <2>2, <2>3, InView
  <2> QED
    BY <2>3, <2>4, LatestBar
<1> QED
  BY <1>1, <1>7, <1>8 DEF Dropped, Well, From

\* A minute bar that is called complete has the volume of the chain, also where
\* the provider left the minute out, unless a row of it was dropped and
\* reported.
THEOREM BarsHold == Spec => []BarsAreReal
<1>1. ASSUME EvidenceInv, NEW t \in Tokens, ProviderBars(View(Store, now), t) # {},
             NEW m \in DOMAIN TokenBars(View(Store, now), t, now),
             TokenBars(View(Store, now), t, now)[m].complete,
             ~ \E e \in archive : e.endpoint = "gt.ohlcv" /\ \E r \in Dropped(e) : r.ts = m
      PROVE  TokenBars(View(Store, now), t, now)[m].volume =
                 Cardinality({s \in OnChain(t) : MinuteOf(s.ts) = m})
  <2> DEFINE view == View(Store, now)
             bar == TokenBars(view, t, now)[m]
             pbars == ProviderBars(view, t)
             bcov == Claims(view, t, "bars")
             tcov == Claims(view, t, "trades")
             own == {b \in pbars : b.ts = m}
             real == {s \in OnChain(t) : MinuteOf(s.ts) = m}
  <2>1. /\ m \in Int /\ m % Minute = 0
        /\ \E first : bar = BarAt(m, first, pbars, Swaps(view, t), bcov, tcov)
    BY <1>1, BarsOfToken
  <2>2. PICK first : bar = BarAt(m, first, pbars, Swaps(view, t), bcov, tcov)
    BY <2>1
  <2>3. /\ bar.volume = IF own = {} THEN 0
                        ELSE IF (CHOOSE x \in own : TRUE).volume = NoVolume THEN 0
                        ELSE (CHOOSE x \in own : TRUE).volume
        /\ own # {} => \A b \in own : b.volume # NoVolume
        /\ own = {} => Inside(bcov, m, m + Minute)
    <3>1. bar.complete
      BY <1>1
    <3> HIDE DEF bar, pbars, bcov, tcov, view
    <3>2. bar.volume = IF own = {} THEN 0
                       ELSE IF (CHOOSE x \in own : TRUE).volume = NoVolume THEN 0
                       ELSE (CHOOSE x \in own : TRUE).volume
      BY <2>2 DEF BarAt
    <3>3. bar.complete = IF own # {} THEN \A b \in own : b.volume # NoVolume
                         ELSE /\ {b \in pbars : first <= b.ts /\ b.ts <= m} # {}
                              /\ Inside(bcov, m, m + Minute)
      BY <2>2, Zenon DEF BarAt
    <3> QED
      BY <3>1, <3>2, <3>3
  <2>4. CASE own # {}
    <3>1. PICK b \in own : b = CHOOSE x \in own : TRUE
      BY <2>4
    <3>2. bar.volume = b.volume /\ b.volume # NoVolume
      BY <2>3, <2>4, <3>1
    <3>3. b \in OfKind(view, t, "bar") /\ b.ts = m
      BY DEF ProviderBars
    <3>4. PICK e : /\ From(e, t) /\ e.endpoint = "gt.ohlcv"
                   /\ \E r \in Closed(e) : b.ts = r.ts /\ b.volume = r.volume
      BY <1>1, <3>3, BarOf
    <3>5. PICK r \in Closed(e) : r.ts = m /\ b.volume = r.volume
      BY <3>3, <3>4
    <3>6. BarsReal(e, OnChain(t))
      BY <3>4 DEF From, AnswerReal
    <3>7. r \in e.rows /\ r.ts + Minute <= e.seen - Lag
      BY DEF Closed, Well
    <3>8. r.volume \in {NoVolume, Cardinality({s \in OnChain(t) : MinuteOf(s.ts) = r.ts})}
      BY <3>6, <3>7 DEF BarsReal
    <3> QED
      BY <3>2, <3>5, <3>8
  <2>5. CASE own = {}
    <3>1. real = {}
      <4> SUFFICES ASSUME NEW s \in OnChain(t), MinuteOf(s.ts) = m PROVE FALSE
        OBVIOUS
      <4>1. m \in m .. (m + Minute) - 1
        BY <2>1, ProviderConstants
      <4>2. PICK c \in bcov : m \in c.start .. c.end - 1
        BY <2>3, <2>5, <4>1 DEF Inside, Covered
      <4> QED
        BY <1>1, <2>1, <2>5, <4>2, QuietMinute
    <3>2. Cardinality({}) = 0
      BY FS_EmptySet
    <3> QED
      BY <2>3, <2>5, <3>1, <3>2
  <2> QED
    BY <2>4, <2>5
<1>2. EvidenceInv => BarsAreReal
  BY <1>1 DEF BarsAreReal
<1> QED
  BY <1>2, EvidenceHolds, PTL

-----------------------------------------------------------------------------
(* The order flow.                                                         *)

LEMMA LeastInt ==
    ASSUME NEW S, S \subseteq Int, S # {}, NEW k \in Int, \A x \in S : k <= x
    PROVE  Least(S) \in S /\ \A y \in S : Least(S) <= y
<1> DEFINE R == {x - k : x \in S}
<1>1. R \subseteq Nat /\ R # {}
  <2>1. \A x \in S : x - k \in Nat
    OBVIOUS
  <2>2. PICK x \in S : TRUE
    OBVIOUS
  <2>3. x - k \in R
    BY <2>2
  <2> QED
    BY <2>1, <2>3
<1>2. Least(R) \in R /\ \A y \in R : Least(R) <= y
  BY <1>1, LeastOf
<1>3. PICK x \in S : Least(R) = x - k
  BY <1>2
<1>4. \A y \in S : x <= y
  <2> SUFFICES ASSUME NEW y \in S PROVE x <= y
    OBVIOUS
  <2>1. x - k <= y - k
    BY <1>2, <1>3
  <2> QED
    BY <2>1
<1> QED
  BY <1>4 DEF Least

\* A swap that is read is a row that was usable.
LEMMA ParsedSwap ==
    ASSUME NEW e, e.endpoint \in Endpoints, NEW x \in Parse(e), x.kind = "swap"
    PROVE  /\ e.endpoint = "gt.trades"
           /\ \E r \in Well(e) : x.ts = r.ts /\ x.n = r.n /\ x.wallet = r.wallet /\ x.side = r.side
<1>1. CASE e.endpoint = "gt.trades"
  <2>1. x \in ParseTrades(e)
    BY <1>1 DEF Parse
  <2> QED
    BY <1>1, <2>1 DEF ParseTrades, TradeClaims, Claim
<1>2. CASE e.endpoint = "gt.ohlcv"
  <2>1. x \in ParseOhlcv(e)
    BY <1>2 DEF Parse
  <2> QED
    BY <2>1 DEF ParseOhlcv, BarClaims, Claim
<1>3. CASE e.endpoint = "gt.pools_multi"
  <2>1. x \in ParsePools(e)
    BY <1>3 DEF Parse
  <2> QED
    BY <2>1 DEF ParsePools
<1>4. CASE e.endpoint = "gt.token_info"
  <2>1. x \in ParseInfo(e)
    BY <1>4 DEF Parse
  <2> QED
    BY <2>1 DEF ParseInfo
<1>5. CASE e.endpoint = "ds.pairs"
  <2>1. x \in ParsePairs(e)
    BY <1>5 DEF Parse
  <2> QED
    BY <2>1 DEF ParsePairs
<1> QED
  BY <1>1, <1>2, <1>3, <1>4, <1>5 DEF Endpoints

SameSwap(x, s) == x.ts = s.ts /\ x.n = s.n /\ x.wallet = s.wallet /\ x.side = s.side

\* A swap of the archive is one of the chain.
LEMMA SwapOf ==
    ASSUME EvidenceInv, archive # {}, NEW t, NEW x \in OfKind(View(Store, now), t, "swap")
    PROVE  x.seen \in 0 .. now /\ \E s \in OnChain(t) : SameSwap(x, s)
<1>1. x \in View(Store, now) /\ x.kind = "swap" /\ x.token = t
  BY DEF OfKind
<1>2. PICK e \in archive : e.fate = "ok" /\ AnswerReal(e) /\ x \in Parse(e)
  BY <1>1, Recorded
<1>3. e.endpoint \in Endpoints /\ e.seen \in 0 .. now
  BY <1>2 DEF AnswerReal
<1>4. x.seen = e.seen /\ e.token = t
  BY <1>1, <1>2, <1>3, ParsedSeen
<1>5. PICK r \in Well(e) : x.ts = r.ts /\ x.n = r.n /\ x.wallet = r.wallet /\ x.side = r.side
  BY <1>1, <1>2, <1>3, ParsedSwap
<1>6. TradesReal(e, OnChain(t)) /\ r \in e.rows
  BY <1>1, <1>2, <1>3, <1>4, ParsedSwap DEF AnswerReal, Well
<1> QED
  BY <1>3, <1>4, <1>5, <1>6 DEF TradesReal, SameSwap

\* Of the copies of a swap there is one that was seen first.
LEMMA FirstSwap ==
    ASSUME EvidenceInv, archive # {}, NEW t, NEW x \in OfKind(View(Store, now), t, "swap")
    PROVE  \E y \in Swaps(View(Store, now), t) : y.ts = x.ts /\ y.n = x.n
<1> DEFINE all == OfKind(View(Store, now), t, "swap")
           S == {y.seen : y \in {z \in all : z.ts = x.ts /\ z.n = x.n}}
<1>1. now \in Nat
  BY ChainTypes DEF EvidenceInv
<1>2. \A y \in all : y.seen \in 0 .. now
  BY SwapOf
<1> HIDE DEF all
<1>3. S \subseteq Nat
  BY <1>1, <1>2
<1>4. S # {}
  BY DEF all
<1>5. Least(S) \in S /\ \A y \in S : Least(S) <= y
  <2> HIDE DEF S
  <2> QED
    BY <1>3, <1>4, LeastOf
<1>6. PICK y \in all : y.ts = x.ts /\ y.n = x.n /\ y.seen = Least(S)
  BY <1>5
<1>7. \A z \in all : (z.ts = y.ts /\ z.n = y.n) => y.seen <= z.seen
  BY <1>5, <1>6
<1> QED
  BY <1>6, <1>7 DEF Swaps, all

\* A claim of the trades: it ends Lag before the answer, and begins where the
\* page does, or a day ago.
LEMMA TradeClaimOf ==
    ASSUME EvidenceInv, NEW t, NEW c \in Claims(View(Store, now), t, "trades")
    PROVE  \E e : /\ From(e, t) /\ e.endpoint = "gt.trades" /\ TradesReal(e, OnChain(t))
                  /\ c.end = e.seen - Lag /\ c.start < c.end
                  /\ c.start = IF Cardinality(e.rows) < Page THEN e.seen - Day
                               ELSE IF Well(e) = {} THEN c.end
                               ELSE Least({r.ts : r \in Well(e)})
<1>1. PICK e : From(e, t) /\ e.endpoint \in Endpoints /\ c \in Parse(e) /\ c.kind = "trades"
  BY RecordOf DEF Claims
<1>2. e.endpoint = "gt.trades" /\ c \in TradeClaims(e)
  BY <1>1, ParsedClaim
<1>3. TradesReal(e, OnChain(t))
  BY <1>1, <1>2 DEF From, AnswerReal
<1> DEFINE kept == {r.ts : r \in Well(e)}
           start == IF Cardinality(e.rows) < Page THEN e.seen - Day
                    ELSE IF kept = {} THEN e.seen - Lag ELSE Least(kept)
<1>4. c \in IF start < e.seen - Lag THEN {Claim(e, "trades", start, e.seen - Lag)} ELSE {}
  BY <1>2 DEF TradeClaims
<1>5. start < e.seen - Lag /\ c = Claim(e, "trades", start, e.seen - Lag)
  <2> HIDE DEF start
  <2> QED
    BY <1>4
<1>6. c.start = start /\ c.end = e.seen - Lag
  <2> HIDE DEF start
  <2> QED
    BY <1>5 DEF Claim
<1>7. kept = {} <=> Well(e) = {}
  OBVIOUS
<1> HIDE DEF kept
<1>8. c.start = IF Cardinality(e.rows) < Page THEN e.seen - Day
                ELSE IF Well(e) = {} THEN c.end ELSE Least(kept)
  BY <1>6, <1>7
<1> QED
  BY <1>1, <1>2, <1>3, <1>5, <1>6, <1>8 DEF kept

\* The start of a claim is a number, not long before the chain began.
LEMMA ClaimBounds ==
    ASSUME EvidenceInv, NEW t, NEW c \in Claims(View(Store, now), t, "trades")
    PROVE  /\ c.start \in Int /\ c.end \in Int /\ c.end <= now /\ - Day <= c.start
           /\ c.start < c.end /\ 0 <= c.end + Lag
<1>1. PICK e : /\ From(e, t) /\ TradesReal(e, OnChain(t))
               /\ c.end = e.seen - Lag /\ c.start < c.end
               /\ c.start = IF Cardinality(e.rows) < Page THEN e.seen - Day
                            ELSE IF Well(e) = {} THEN c.end
                            ELSE Least({r.ts : r \in Well(e)})
  BY TradeClaimOf
<1>2. e.seen \in Nat /\ e.seen <= now /\ now \in Nat /\ Lag \in Nat /\ Day \in Nat
  BY <1>1, ChainTypes, ProviderConstants DEF From, EvidenceInv
<1> DEFINE kept == {r.ts : r \in Well(e)}
<1>3. kept \subseteq Nat
  <2>1. ASSUME NEW r \in Well(e) PROVE r.ts \in Nat
    <3>1. PICK s \in OnChain(t) : r.ts = s.ts
      BY <1>1 DEF TradesReal, Well
    <3> QED
      BY <3>1, ChainTypes DEF EvidenceInv, OnChain
  <2> QED
    BY <2>1
<1>4. Well(e) # {} => kept # {}
  OBVIOUS
<1>5. c.start = IF Cardinality(e.rows) < Page THEN e.seen - Day
                ELSE IF Well(e) = {} THEN c.end ELSE Least(kept)
  BY <1>1
<1> HIDE DEF kept
<1>6. Well(e) # {} => Least(kept) \in Nat
  BY <1>3, <1>4, LeastOf
<1>7. c.start \in Int /\ c.start >= - Day
  <2>1. Cardinality(e.rows) < Page => c.start = e.seen - Day
    BY <1>5
  <2>2. ~ (Cardinality(e.rows) < Page) => Well(e) # {} /\ c.start = Least(kept)
    <3>1. c.end \in Int /\ c.start < c.end
      BY <1>1, <1>2
    <3> QED
      BY <1>5, <3>1
  <2> QED
    BY <1>2, <1>6, <2>1, <2>2
<1> QED
  BY <1>1, <1>2, <1>7

\* A swap whose moment is covered is in the store, unless its row was dropped
\* or it fell off a full page within the page's last second.
LEMMA CoveredSwap ==
    ASSUME EvidenceInv, NEW t, NEW s \in OnChain(t), s \notin Excused(t),
           s.ts \in Covered(Claims(View(Store, now), t, "trades"))
    PROVE  \E x \in Swaps(View(Store, now), t) : x.ts = s.ts /\ x.n = s.n
<1>1. PICK c \in Claims(View(Store, now), t, "trades") : s.ts \in c.start .. (c.end - 1)
  BY DEF Covered
<1>2. PICK e : /\ From(e, t) /\ e.endpoint = "gt.trades" /\ TradesReal(e, OnChain(t))
               /\ c.end = e.seen - Lag /\ c.start < c.end
               /\ c.start = IF Cardinality(e.rows) < Page THEN e.seen - Day
                            ELSE IF Well(e) = {} THEN c.end
                            ELSE Least({r.ts : r \in Well(e)})
  BY TradeClaimOf
<1> DEFINE kept == {r.ts : r \in Well(e)}
           full == ~ (Cardinality(e.rows) < Page)
<1>3. c.start \in Int /\ c.end \in Int
  BY ClaimBounds
<1>4. /\ e.seen \in Nat /\ now \in Nat /\ s.ts \in Nat /\ Lag \in Nat /\ Day \in Nat
      /\ c.start <= s.ts /\ s.ts < c.end
  BY <1>1, <1>2, <1>3, ChainTypes, ProviderConstants DEF From, EvidenceInv, OnChain
<1>5. full => Well(e) # {} /\ c.start = Least(kept)
  BY <1>2, <1>3
<1>6. \A r \in Well(e) : r \in e.rows /\ r.ts \in Nat /\ e.seen - Day <= r.ts
  <2>1. ASSUME NEW r \in e.rows PROVE r.ts \in Nat /\ e.seen - Day <= r.ts
    <3>1. PICK x \in OnChain(t) : r.ts = x.ts
      BY <1>2 DEF TradesReal
    <3> QED
      BY <1>2, <3>1, ChainTypes DEF EvidenceInv, OnChain, TradesReal
  <2> QED
    BY <2>1 DEF Well
<1>7. full => Least(kept) \in kept /\ \A y \in kept : Least(kept) <= y
  <2>1. kept \subseteq Nat /\ (Well(e) # {} => kept # {})
    BY <1>6
  <2> HIDE DEF kept
  <2> QED
    BY <1>5, <2>1, LeastOf
<1>8. e.seen - Day <= s.ts
  <2>1. CASE ~ full
    BY <1>2, <1>4, <2>1
  <2>2. CASE full
    <3>1. PICK r \in Well(e) : Least(kept) = r.ts
      BY <1>7, <2>2
    <3>2. e.seen - Day <= r.ts /\ r.ts <= s.ts /\ r.ts \in Nat
      BY <1>4, <1>5, <1>6, <2>2, <3>1
    <3> QED
      BY <1>4, <3>2
  <2> QED
    BY <2>1, <2>2
<1>9. \/ \E r \in e.rows : r.ts = s.ts /\ r.n = s.n
      \/ Cardinality(e.rows) = Page /\ \A r \in e.rows : s.ts <= r.ts
  BY <1>2, <1>4, <1>8 DEF TradesReal
<1>10. ~ (Cardinality(e.rows) = Page /\ \A r \in e.rows : s.ts <= r.ts)
  <2> SUFFICES ASSUME Cardinality(e.rows) = Page, \A r \in e.rows : s.ts <= r.ts PROVE FALSE
    OBVIOUS
  <2>1. full
    BY ProviderConstants
  <2>2. Well(e) # {} /\ c.start = Least(kept) /\ Least(kept) \in kept
    BY <1>5, <1>7, <2>1
  <2>3. s.ts = Least(kept)
    <3>1. PICK r \in Well(e) : Least(kept) = r.ts
      BY <2>2
    <3>2. s.ts <= r.ts /\ r.ts <= s.ts /\ r.ts \in Nat
      BY <1>4, <1>6, <2>2, <3>1
    <3> QED
      BY <1>4, <3>1, <3>2
  <2> QED
    BY <1>2, <2>2, <2>3 DEF Excused, From
<1>11. PICK r \in e.rows : r.ts = s.ts /\ r.n = s.n
  BY <1>9, <1>10
<1>12. r \in Well(e)
  BY <1>2, <1>11 DEF Excused, From, Dropped
<1> DEFINE x == [kind |-> "swap", token |-> e.token, ts |-> r.ts, n |-> r.n, wallet |-> r.wallet,
                 side |-> r.side, seen |-> e.seen]
<1>13. x \in Parse(e)
  BY <1>2, <1>12 DEF Parse, ParseTrades
<1>14. x.kind = "swap" /\ x.ts = s.ts /\ x.n = s.n
  BY <1>11
<1> HIDE DEF x
<1>15. x \in OfKind(View(Store, now), t, "swap") /\ archive # {}
  BY <1>2, <1>13, <1>14, InView DEF From
<1> QED
  BY <1>14, <1>15, FirstSwap

\* The order flow is read up to where it is covered, and is called known only
\* when the window it is counted in is covered.
LEMMA ObservedWindow ==
    ASSUME EvidenceInv, NEW t, ProviderBars(View(Store, now), t) # {},
           IsOk(Assess(Store, t, now).participation.buyers)
    PROVE  LET view == View(Store, now)
               end  == FlowEnd(view, t, now)
           IN  /\ end \in Int
               /\ Inside(Claims(view, t, "trades"), end - Window, end)
               /\ Assess(Store, t, now).participation.buyers.value =
                    Cardinality(Buyers({s \in Swaps(view, t) : s.ts < end}, end - Window, end))
<1> DEFINE view == View(Store, now)
           tcov == Claims(view, t, "trades")
           end == FlowEnd(view, t, now)
           from == FlowFrom(view, t, now)
           swaps == {s \in Swaps(view, t) : s.ts < end}
           buyers == Assess(Store, t, now).participation.buyers
<1>1. buyers = Participation(swaps, end, from).buyers
  BY DEF Assess
<1>2. end = IF tcov = {} THEN now ELSE Before(now, EndOf(tcov))
  BY DEF FlowEnd
<1>3. from = IF tcov = {} THEN now ELSE ContiguousFrom(tcov, end)
  BY DEF FlowFrom
<1>4. IsOk(buyers)
  OBVIOUS
<1> HIDE DEF buyers, end, from, swaps
<1>5. /\ from <= end - Window
      /\ buyers.value = Cardinality(Buyers(swaps, end - Window, end))
  <2>1. Participation(swaps, end, from).buyers =
            IF ~ (from <= end - Window) THEN Missing
            ELSE Ok(Cardinality(Buyers(swaps, end - Window, end)))
    BY DEF Participation
  <2> QED
    BY <1>1, <1>4, <2>1 DEF IsOk, Missing, Ok
<1>6. now \in Nat /\ Window \in Nat /\ Window # 0
  BY ChainTypes, FeatureConstants DEF EvidenceInv
<1>7. tcov # {}
  <2> HIDE DEF tcov
  <2> QED
    BY <1>2, <1>3, <1>5, <1>6
<1>8. ASSUME NEW c \in tcov
      PROVE  c.start \in Int /\ c.end \in Int /\ c.end <= now /\ - Day <= c.start /\ c.start < c.end /\ 0 <= c.end + Lag
  BY ClaimBounds
<1> HIDE DEF tcov
<1> DEFINE ends == {c.end + Lag : c \in tcov}
<1>9. PICK last \in tcov : \A c \in tcov : c.end <= last.end
  <2>1. Lag \in Nat
    BY ProviderConstants
  <2>2. \A c \in tcov : c.end + Lag \in Nat /\ c.end + Lag <= now + Lag
    BY <1>6, <1>8, <2>1
  <2>3. ends \subseteq Nat /\ ends # {} /\ \A x \in ends : x <= now + Lag
    BY <1>7, <2>2
  <2>4. Greatest(ends) \in ends /\ \A x \in ends : x <= Greatest(ends)
    <3> HIDE DEF ends
    <3>1. now + Lag \in Nat
      BY <1>6, <2>1
    <3> QED
      BY <2>3, <3>1, GreatestOf
  <2>5. PICK last \in tcov : Greatest(ends) = last.end + Lag
    BY <2>4
  <2>6. ASSUME NEW c \in tcov PROVE c.end <= last.end
    <3>1. c.end + Lag <= last.end + Lag
      BY <2>4, <2>5
    <3> QED
      BY <1>8, <2>1, <3>1
  <2> QED
    BY <2>6
<1>10. EndOf(tcov) = last.end
  <2> DEFINE S == {c.end : c \in tcov}
  <2>1. last.end \in S /\ \A y \in S : y <= last.end /\ y \in Int
    BY <1>8, <1>9
  <2> HIDE DEF S
  <2>2. Greatest(S) \in S /\ \A y \in S : y <= Greatest(S)
    BY <2>1 DEF Greatest
  <2>3. Greatest(S) = last.end
    BY <2>1, <2>2
  <2> QED
    BY <2>3 DEF EndOf, S
<1>11. end = last.end /\ end \in Int
  BY <1>2, <1>6, <1>7, <1>8, <1>10 DEF Before
<1> DEFINE starts == {lo \in {c.start : c \in tcov} : Inside(tcov, lo, end)}
<1>12. last.start \in starts
  <2>1. last.start .. (end - 1) \subseteq Covered(tcov)
    BY <1>9, <1>11 DEF Covered
  <2> QED
    BY <2>1 DEF Inside
<1>13. starts \subseteq Int /\ (\A x \in starts : - Day <= x) /\ - Day \in Int
  BY <1>8, ProviderConstants
<1>14. from \in starts
  <2>1. from = Least(starts)
    BY <1>3, <1>7 DEF ContiguousFrom
  <2> HIDE DEF starts
  <2> QED
    BY <1>12, <1>13, <2>1, LeastInt
<1>15. Inside(tcov, from, end) /\ from \in Int
  BY <1>13, <1>14
<1>16. (end - Window) .. (end - 1) \subseteq from .. (end - 1)
  BY <1>5, <1>6, <1>11, <1>15
<1>17. Inside(tcov, end - Window, end)
  BY <1>15, <1>16 DEF Inside
<1> QED
  BY <1>5, <1>11, <1>17 DEF tcov, buyers, end, swaps

LEMMA TickCovered ==
    ASSUME NEW C, NEW m \in Int, NEW u \in m .. (m + Minute - 1), Inside(C, m, m + Minute)
    PROVE  u \in Covered(C)
BY ProviderConstants DEF Inside

\* The trades of a minute are known where the claims of the trades have it.
LEMMA BarFlow ==
    ASSUME NEW m, NEW first, NEW bars, NEW swaps, NEW bcov, NEW tcov
    PROVE  LET bar == BarAt(m, first, bars, swaps, bcov, tcov)
           IN  /\ bar.flow = Inside(tcov, m, m + Minute)
               /\ Inside(tcov, m, m + Minute) => bar.trades = {s \in swaps : MinuteOf(s.ts) = m}
<1>1. BarAt(m, first, bars, swaps, bcov, tcov).flow = Inside(tcov, m, m + Minute)
  BY Zenon DEF BarAt
<1>2. BarAt(m, first, bars, swaps, bcov, tcov).trades =
        IF Inside(tcov, m, m + Minute) THEN {s \in swaps : MinuteOf(s.ts) = m} ELSE {}
  BY Zenon DEF BarAt
<1> QED
  BY <1>1, <1>2

\* Who bought, of the swaps in the store: of the chain, all that are not
\* excused and not in the store.
LEMMA SameBuyers ==
    ASSUME EvidenceInv, archive # {}, NEW t, NEW lo \in Int, NEW hi \in Int,
           Inside(Claims(View(Store, now), t, "trades"), lo, hi)
    PROVE  \E X \in SUBSET Excused(t) :
                Buyers({s \in Swaps(View(Store, now), t) : s.ts < hi}, lo, hi) = Buyers(OnChain(t) \ X, lo, hi)
<1> DEFINE swaps == Swaps(View(Store, now), t)
           stored(s) == \E x \in swaps : x.ts = s.ts /\ x.n = s.n
           X == {s \in Excused(t) : ~ stored(s)}
           ours == {s \in swaps : s.ts < hi}
           theirs == OnChain(t) \ X
           buy(x) == lo <= x.ts /\ x.ts < hi /\ x.side = "buy"
<1>1. ASSUME NEW x \in swaps PROVE \E s \in OnChain(t) : SameSwap(x, s)
  <2>1. x \in OfKind(View(Store, now), t, "swap")
    BY DEF Swaps
  <2> QED
    BY <2>1, SwapOf
<1>2. ASSUME NEW s \in OnChain(t), NEW x \in swaps, x.ts = s.ts, x.n = s.n PROVE SameSwap(x, s)
  <2>1. PICK y \in OnChain(t) : SameSwap(x, y)
    BY <1>1
  <2>2. SwapKey(y) = SwapKey(s) /\ y \in chain /\ s \in chain
    BY <1>2, <2>1 DEF SwapKey, OnChain, SameSwap
  <2>3. y = s
    BY <2>2 DEF EvidenceInv, ChainOK
  <2> QED
    BY <2>1, <2>3
<1>3. ASSUME NEW s \in theirs, buy(s) PROVE \E x \in ours : buy(x) /\ x.wallet = s.wallet
  <2>1. s \in OnChain(t) /\ s.ts \in Nat
    BY ChainTypes DEF EvidenceInv, OnChain
  <2>2. stored(s)
    <3>1. s.ts \in lo .. (hi - 1)
      BY <1>3, <2>1
    <3>2. s \notin Excused(t) => stored(s)
      BY <2>1, <3>1, CoveredSwap DEF Inside
    <3>3. s \in Excused(t) => stored(s)
      BY <1>3
    <3> QED
      BY <3>2, <3>3
  <2>3. PICK x \in swaps : x.ts = s.ts /\ x.n = s.n
    BY <2>2
  <2>4. SameSwap(x, s)
    BY <1>2, <2>1, <2>3
  <2> QED
    BY <1>3, <2>3, <2>4 DEF SameSwap
<1>4. ASSUME NEW x \in ours, buy(x) PROVE \E s \in theirs : buy(s) /\ s.wallet = x.wallet
  <2>1. PICK s \in OnChain(t) : SameSwap(x, s)
    BY <1>1
  <2>2. stored(s)
    BY <2>1 DEF SameSwap
  <2> QED
    BY <1>4, <2>1, <2>2 DEF SameSwap
<1>5. Buyers(ours, lo, hi) = {s.wallet : s \in {x \in ours : buy(x)}}
  BY DEF Buyers
<1>6. Buyers(theirs, lo, hi) = {s.wallet : s \in {x \in theirs : buy(x)}}
  BY DEF Buyers
<1>7. X \in SUBSET Excused(t)
  OBVIOUS
<1>8. Buyers(ours, lo, hi) = Buyers(theirs, lo, hi)
  <2> HIDE DEF ours, theirs, buy
  <2> QED
    BY <1>3, <1>4, <1>5, <1>6
<1> HIDE DEF X
<1> QED
  BY <1>7, <1>8

\* The number of buyers, when it is given, is that of the chain, and the trades
\* of a minute whose flow is known are the chain's, up to rows that were
\* dropped and the last second of a full page.
THEOREM FlowHolds == Spec => []FlowIsReal
<1>1. ASSUME EvidenceInv, NEW t \in Tokens, ProviderBars(View(Store, now), t) # {} PROVE FlowOf(t)
  <2> DEFINE view == View(Store, now)
             bars == TokenBars(view, t, now)
             tcov == Claims(view, t, "trades")
             end == FlowEnd(view, t, now)
             count == Assess(Store, t, now).participation.buyers
  <2>1. ASSUME NEW m \in DOMAIN bars, bars[m].flow, NEW s \in OnChain(t) \ Excused(t), MinuteOf(s.ts) = m
        PROVE  \E x \in bars[m].trades : x.ts = s.ts /\ x.n = s.n
    <3>1. /\ m \in Int
          /\ \E first : bars[m] = BarAt(m, first, ProviderBars(view, t), Swaps(view, t), Claims(view, t, "bars"), tcov)
      BY <1>1, BarsOfToken
    <3>2. PICK first : bars[m] = BarAt(m, first, ProviderBars(view, t), Swaps(view, t), Claims(view, t, "bars"), tcov)
      BY <3>1
    <3>3. Inside(tcov, m, m + Minute)
      BY <2>1, <3>2, BarFlow
    <3>4. bars[m].trades = {x \in Swaps(view, t) : MinuteOf(x.ts) = m}
      BY <3>2, <3>3, BarFlow
    <3>5. s.ts \in m .. (m + Minute - 1)
      <4>1. s.ts \in Nat
        BY <1>1, ChainTypes DEF EvidenceInv, OnChain
      <4>2. m <= s.ts /\ s.ts < m + Minute
        BY <2>1, <4>1, MinuteBounds
      <4> QED
        BY <3>1, <4>1, <4>2, ProviderConstants
    <3>6. \E x \in Swaps(view, t) : x.ts = s.ts /\ x.n = s.n
      <4>1. s.ts \in Covered(tcov)
        BY <3>1, <3>3, <3>5, TickCovered
      <4> QED
        BY <1>1, <4>1, CoveredSwap
    <3> HIDE DEF bars, view
    <3> QED
      BY <2>1, <3>4, <3>6
  <2>2. ASSUME IsOk(count)
        PROVE  \E X \in SUBSET Excused(t) : count.value = Cardinality(Buyers(OnChain(t) \ X, end - Window, end))
    <3>1. /\ end \in Int
          /\ Inside(tcov, end - Window, end)
          /\ count.value = Cardinality(Buyers({s \in Swaps(view, t) : s.ts < end}, end - Window, end))
      BY <1>1, <2>2, ObservedWindow
    <3>2. archive # {}
      <4>1. PICK b \in OfKind(View(Store, now), t, "bar") : TRUE
        BY <1>1 DEF ProviderBars
      <4>2. \E e : From(e, t)
        BY <1>1, <4>1, BarOf
      <4> QED
        BY <4>2 DEF From
    <3>3. end - Window \in Int
      BY <3>1, FeatureConstants
    <3>4. \E X \in SUBSET Excused(t) :
            Buyers({s \in Swaps(view, t) : s.ts < end}, end - Window, end) = Buyers(OnChain(t) \ X, end - Window, end)
      <4> HIDE DEF end
      <4> QED
        BY <1>1, <3>1, <3>2, <3>3, SameBuyers
    <3> HIDE DEF count, end, view
    <3> QED
      BY <3>1, <3>4
  <2> HIDE DEF bars
  <2> QED
    BY <2>1, <2>2 DEF FlowOf, bars
<1>2. EvidenceInv => FlowIsReal
  BY <1>1 DEF FlowIsReal
<1> QED
  BY <1>2, EvidenceHolds, PTL

-----------------------------------------------------------------------------
(* The union-find of the wallet clusters.                                  *)

\* A set of numbers that has each of N whose smaller ones it has, has all of N.
LEMMA FromBelow ==
    ASSUME NEW N \in SUBSET Nat, NEW T, \A x \in N : (\A y \in N : y < x => y \in T) => x \in T
    PROVE  N \subseteq T
<1> DEFINE U == {n \in Nat : \A x \in N : x <= n => x \in T}
<1>1. 0 \in U
  OBVIOUS
<1>2. ASSUME NEW n \in Nat, n \in U PROVE n + 1 \in U
  <2> SUFFICES ASSUME NEW x \in N, x <= n + 1 PROVE x \in T
    OBVIOUS
  <2>1. \A y \in N : y < x => y <= n
    OBVIOUS
  <2> QED
    BY <1>2, <2>1
<1> HIDE DEF U
<1>3. Nat \subseteq U
  BY <1>1, <1>2, NumberInduction
<1> QED
  BY <1>3 DEF U

\* Each wallet points to one that is no greater.
Forest(p, N) == p \in [N -> N] /\ \A x \in N : p[x] <= x

\* What Find computes is the last line of this recursion.
RootTable(g, p) == g = [x \in DOMAIN p |-> IF p[x] = x THEN x ELSE g[p[x]]]

LEMMA RootTableExists ==
    ASSUME NEW N \in SUBSET Nat, NEW b \in Nat, \A x \in N : x <= b, NEW p, Forest(p, N)
    PROVE  \E g : RootTable(g, p)
<1> DEFINE D(n) == {x \in N : x <= n}
           R(g, n) == g = [x \in D(n) |-> IF p[x] = x THEN x ELSE g[p[x]]]
           U == {n \in Nat : \E g : R(g, n)}
<1>1. \A x \in N : p[x] \in N /\ p[x] \in Nat /\ x \in Nat /\ p[x] <= x
  BY DEF Forest
<1>2. 0 \in U
  <2> DEFINE g == [x \in D(0) |-> x]
  <2>1. \A x \in D(0) : p[x] = x
    BY <1>1
  <2>2. R(g, 0)
    BY <2>1
  <2> QED
    BY <2>2
<1>3. ASSUME NEW n \in Nat, n \in U PROVE n + 1 \in U
  <2>1. PICK g : R(g, n)
    BY <1>3
  <2> DEFINE h == [x \in D(n + 1) |-> IF p[x] = x THEN x ELSE g[p[x]]]
  <2>2. ASSUME NEW x \in D(n + 1), p[x] # x PROVE p[x] \in D(n)
    BY <1>1, <2>2
  <2>3. ASSUME NEW x \in D(n) PROVE h[x] = g[x]
    <3>1. x \in D(n + 1)
      OBVIOUS
    <3>2. g[x] = IF p[x] = x THEN x ELSE g[p[x]]
      BY <2>1
    <3> QED
      BY <3>1, <3>2
  <2> HIDE DEF D
  <2>4. \A x \in D(n + 1) : p[x] # x => h[p[x]] = g[p[x]]
    BY <2>2, <2>3
  <2>5. R(h, n + 1)
    BY <2>4
  <2> HIDE DEF h, R
  <2> QED
    BY <2>5
<1>4. b \in U
  <2> HIDE DEF U
  <2> QED
    BY <1>2, <1>3, NumberInduction
<1>5. PICK g : R(g, b)
  BY <1>4
<1>6. D(b) = N /\ DOMAIN p = N
  BY DEF Forest
<1> HIDE DEF D
<1> QED
  BY <1>5, <1>6 DEF RootTable

\* Finding a root, one wallet after the other.
LEMMA FindStep ==
    ASSUME NEW N \in SUBSET Nat, NEW b \in Nat, \A x \in N : x <= b, NEW p, Forest(p, N)
    PROVE  \A x \in N : Find(p, x) = IF p[x] = x THEN x ELSE Find(p, p[x])
<1> DEFINE table == CHOOSE g : RootTable(g, p)
<1>1. RootTable(table, p)
  BY RootTableExists
<1>2. \A x : Find(p, x) = table[x]
  BY Zenon DEF Find, RootTable
<1>3. DOMAIN p = N
  BY DEF Forest
<1> HIDE DEF table
<1>4. \A x \in N : table[x] = IF p[x] = x THEN x ELSE table[p[x]]
  BY <1>1, <1>3 DEF RootTable
<1> QED
  BY <1>2, <1>4

\* A root is a wallet that points to itself.
LEMMA FindIsRoot ==
    ASSUME NEW N \in SUBSET Nat, NEW b \in Nat, \A x \in N : x <= b, NEW p, Forest(p, N)
    PROVE  \A x \in N : Find(p, x) \in N /\ p[Find(p, x)] = Find(p, x)
<1> DEFINE T == {x \in N : Find(p, x) \in N /\ p[Find(p, x)] = Find(p, x)}
<1>1. ASSUME NEW x \in N, \A y \in N : y < x => y \in T PROVE x \in T
  <2>1. p[x] \in N /\ p[x] <= x /\ (p[x] # x => p[x] < x)
    <3>1. p[x] \in N /\ p[x] <= x
      BY DEF Forest
    <3>2. p[x] \in Nat /\ x \in Nat
      BY <3>1
    <3> QED
      BY <3>1, <3>2
  <2>2. Find(p, x) = IF p[x] = x THEN x ELSE Find(p, p[x])
    BY FindStep
  <2> QED
    BY <1>1, <2>1, <2>2
<1> HIDE DEF T
<1>2. N \subseteq T
  BY <1>1, FromBelow
<1> QED
  BY <1>2 DEF T

\* A function that follows the pointers gives the roots.
LEMMA FindUnique ==
    ASSUME NEW N \in SUBSET Nat, NEW b \in Nat, \A x \in N : x <= b, NEW p, Forest(p, N),
           NEW F, \A x \in N : F[x] = IF p[x] = x THEN x ELSE F[p[x]]
    PROVE  \A x \in N : Find(p, x) = F[x]
<1> DEFINE T == {x \in N : Find(p, x) = F[x]}
<1>1. ASSUME NEW x \in N, \A y \in N : y < x => y \in T PROVE x \in T
  <2>1. p[x] \in N /\ p[x] <= x /\ (p[x] # x => p[x] < x)
    <3>1. p[x] \in N /\ p[x] <= x
      BY DEF Forest
    <3>2. p[x] \in Nat /\ x \in Nat
      BY <3>1
    <3> QED
      BY <3>1, <3>2
  <2>2. Find(p, x) = IF p[x] = x THEN x ELSE Find(p, p[x])
    BY FindStep
  <2>3. CASE p[x] = x
    BY <2>2, <2>3
  <2>4. CASE p[x] # x
    <3>1. F[x] = F[p[x]]
      BY <2>4
    <3>2. Find(p, p[x]) = F[p[x]]
      BY <1>1, <2>1, <2>4
    <3> QED
      BY <2>2, <2>4, <3>1, <3>2
  <2> QED
    BY <2>3, <2>4
<1> HIDE DEF T
<1>2. N \subseteq T
  BY <1>1, FromBelow
<1> QED
  BY <1>2 DEF T

\* What the trees of p are after the edges E: the ends of an edge have one
\* root, and a set no edge leaves has a wallet exactly when it has its root.
Joins(p, N, E) ==
    /\ \A e \in E : Find(p, e.a) = Find(p, e.b)
    /\ \A S \in SUBSET N :
        (\A e \in E : e.a \in S <=> e.b \in S) => \A x \in N : x \in S <=> Find(p, x) \in S

\* At first every wallet is its own root.
LEMMA AloneJoins ==
    ASSUME NEW N \in SUBSET Nat, NEW b \in Nat, \A x \in N : x <= b
    PROVE  Forest([w \in N |-> w], N) /\ Joins([w \in N |-> w], N, {})
<1> DEFINE p == [w \in N |-> w]
<1>1. p \in [N -> N] /\ \A x \in N : p[x] = x
  OBVIOUS
<1> HIDE DEF p
<1>2. Forest(p, N)
  BY <1>1 DEF Forest
<1>3. \A x \in N : Find(p, x) = x
  BY <1>1, <1>2, FindStep
<1>4. Joins(p, N, {})
  BY <1>3 DEF Joins
<1> QED
  BY <1>2, <1>4 DEF p

\* Linking the two roots of an edge gives the trees of one edge more.
LEMMA UniteJoins ==
    ASSUME NEW N \in SUBSET Nat, NEW b \in Nat, \A x \in N : x <= b,
           NEW p, Forest(p, N), NEW E, \A f \in E : f.a \in N /\ f.b \in N, Joins(p, N, E),
           NEW e, e.a \in N, e.b \in N
    PROVE  Forest(Unite(p, e), N) /\ Joins(Unite(p, e), N, E \union {e})
<1> DEFINE ra == Find(p, e.a)
           rb == Find(p, e.b)
           hi == IF ra < rb THEN rb ELSE ra
           lo == IF ra < rb THEN ra ELSE rb
           q == [p EXCEPT ![hi] = lo]
           F == [x \in N |-> IF Find(p, x) = hi THEN lo ELSE Find(p, x)]
<1>1. \A x \in N : Find(p, x) \in N /\ p[Find(p, x)] = Find(p, x)
  BY FindIsRoot
<1>2. CASE ra = rb
  <2>1. Unite(p, e) = p
    BY <1>2 DEF Unite
  <2>2. Joins(p, N, E \union {e})
    BY <1>2 DEF Joins
  <2> QED
    BY <2>1, <2>2
<1>3. CASE ra # rb
  <2>1. Unite(p, e) = q
    BY <1>3 DEF Unite
  <2>2. ra \in N /\ rb \in N /\ ra \in Nat /\ rb \in Nat
    BY <1>1
  <2>3. hi \in N /\ lo \in N /\ lo < hi /\ {hi, lo} = {ra, rb} /\ p[hi] = hi /\ p[lo] = lo
    <3>1. p[ra] = ra /\ p[rb] = rb
      BY <1>1
    <3>2. ra < rb \/ rb < ra
      BY <1>3, <2>2
    <3> HIDE DEF ra, rb
    <3>3. CASE ra < rb
      <4>1. hi = rb /\ lo = ra
        BY <3>3
      <4> HIDE DEF hi, lo
      <4> QED
        BY <2>2, <3>1, <3>3, <4>1
    <3>4. CASE rb < ra
      <4>1. hi = ra /\ lo = rb
        BY <2>2, <3>4
      <4> HIDE DEF hi, lo
      <4> QED
        BY <2>2, <3>1, <3>4, <4>1
    <3> QED
      BY <3>2, <3>3, <3>4
  <2> HIDE DEF hi, lo
  <2>4. q \in [N -> N] /\ q[hi] = lo /\ \A x \in N : x # hi => q[x] = p[x]
    BY <2>3 DEF Forest
  <2> HIDE DEF q
  <2>5. Forest(q, N)
    <3>1. \A x \in N : p[x] <= x
      BY DEF Forest
    <3>2. lo <= hi
      BY <2>2, <2>3
    <3> QED
      BY <2>4, <3>1, <3>2 DEF Forest
  <2>6. \A x \in N : Find(p, x) = IF p[x] = x THEN x ELSE Find(p, p[x])
    BY FindStep
  <2>7. ASSUME NEW x \in N PROVE F[x] = IF q[x] = x THEN x ELSE F[q[x]]
    <3>1. p[x] \in N /\ Find(p, hi) = hi /\ Find(p, lo) = lo /\ lo # hi
      BY <2>3, <2>6 DEF Forest
    <3>2. F[lo] = lo /\ F[hi] = lo
      BY <2>3, <3>1
    <3>3. CASE x = hi
      BY <2>4, <3>1, <3>2, <3>3
    <3>4. CASE x # hi /\ p[x] = x
      BY <2>4, <2>6, <3>4
    <3>5. CASE x # hi /\ p[x] # x
      BY <2>4, <2>6, <3>1, <3>5
    <3> QED
      BY <3>3, <3>4, <3>5
  <2>8. \A x \in N : Find(q, x) = F[x]
    <3> HIDE DEF F
    <3> QED
      BY <2>5, <2>7, FindUnique
  <2>9. \A x \in N : Find(q, x) = IF Find(p, x) = hi THEN lo ELSE Find(p, x)
    BY <2>8
  <2>10. ASSUME NEW f \in E \union {e} PROVE Find(q, f.a) = Find(q, f.b)
    <3>1. CASE f \in E
      <4>1. Find(p, f.a) = Find(p, f.b) /\ f.a \in N /\ f.b \in N
        BY <3>1 DEF Joins
      <4> QED
        BY <2>9, <4>1
    <3>2. CASE f = e
      <4>1. Find(p, e.a) \in {hi, lo} /\ Find(p, e.b) \in {hi, lo}
        BY <2>3
      <4> QED
        BY <2>9, <3>2, <4>1
    <3> QED
      BY <3>1, <3>2
  <2>11. ASSUME NEW S \in SUBSET N, \A f \in E \union {e} : f.a \in S <=> f.b \in S, NEW x \in N
         PROVE  x \in S <=> Find(q, x) \in S
    <3>1. \A y \in N : y \in S <=> Find(p, y) \in S
      BY <2>11 DEF Joins
    <3>2. ra \in S <=> rb \in S
      BY <2>11, <3>1
    <3>3. hi \in S <=> lo \in S
      BY <2>3, <3>2
    <3> QED
      BY <2>9, <3>1, <3>3
  <2> QED
    BY <2>1, <2>5, <2>10, <2>11 DEF Joins
<1> QED
  BY <1>2, <1>3

\* it lists the trees after the edges of every subset of S with at most n.
SmallForests(it, base, S, n) ==
    it = [s \in {r \in SUBSET S : Cardinality(r) <= n} |->
            IF s = {} THEN base ELSE Unite(it[s \ {Some(s)}], Some(s))]

ForestTable(it, base, S) ==
    it = [s \in SUBSET S |-> IF s = {} THEN base ELSE Unite(it[s \ {Some(s)}], Some(s))]

LEMMA ForestTableExists ==
    ASSUME NEW base, NEW S, IsFiniteSet(S)
    PROVE  \E it : ForestTable(it, base, S)
<1> DEFINE D(m) == {r \in SUBSET S : Cardinality(r) <= m}
           N == {m \in Nat : \E it : SmallForests(it, base, S, m)}
<1>1. \A s \in SUBSET S : IsFiniteSet(s) /\ Cardinality(s) \in Nat
  BY FS_Subset, FS_CardinalityType
<1>2. 0 \in N
  <2>1. D(0) = {{}}
    BY <1>1, FS_EmptySet
  <2>2. SmallForests([s \in D(0) |-> base], base, S, 0)
    BY <2>1 DEF SmallForests
  <2> QED
    BY <2>2
<1>3. ASSUME NEW m \in Nat, m \in N PROVE m + 1 \in N
  <2>1. PICK it : SmallForests(it, base, S, m)
    BY <1>3
  <2> DEFINE next == [s \in D(m + 1) |-> IF s = {} THEN base ELSE Unite(it[s \ {Some(s)}], Some(s))]
  <2>2. ASSUME NEW s \in D(m + 1), s # {} PROVE s \ {Some(s)} \in D(m)
    BY <1>1, <2>2, SomeRemoved
  <2>3. ASSUME NEW s \in D(m) PROVE next[s] = it[s]
    <3>1. s \in D(m + 1)
      BY <1>1
    <3>2. next[s] = IF s = {} THEN base ELSE Unite(it[s \ {Some(s)}], Some(s))
      BY <3>1
    <3>3. it[s] = IF s = {} THEN base ELSE Unite(it[s \ {Some(s)}], Some(s))
      BY <2>1 DEF SmallForests
    <3> QED
      BY <3>2, <3>3
  <2> HIDE DEF D
  <2>4. \A s \in D(m + 1) : s # {} => next[s \ {Some(s)}] = it[s \ {Some(s)}]
    BY <2>2, <2>3
  <2>5. next = [s \in D(m + 1) |-> IF s = {} THEN base ELSE Unite(next[s \ {Some(s)}], Some(s))]
    BY <2>4
  <2>6. SmallForests(next, base, S, m + 1)
    BY <2>5 DEF SmallForests, D
  <2> QED
    BY <2>6
<1> HIDE DEF N
<1>4. Cardinality(S) \in N
  BY <1>1, <1>2, <1>3, NumberInduction
<1>5. PICK it : SmallForests(it, base, S, Cardinality(S))
  BY <1>4 DEF N
<1>6. {r \in SUBSET S : Cardinality(r) <= Cardinality(S)} = SUBSET S
  BY FS_Subset
<1>7. ForestTable(it, base, S)
  BY <1>5, <1>6 DEF SmallForests, ForestTable
<1> QED
  BY <1>7

\* What uniting all edges, in whatever order they are chosen, leaves.
LEMMA TableJoins ==
    ASSUME NEW N \in SUBSET Nat, NEW b \in Nat, \A x \in N : x <= b,
           NEW E, IsFiniteSet(E), \A e \in E : e.a \in N /\ e.b \in N,
           NEW table, ForestTable(table, [w \in N |-> w], E)
    PROVE  Forest(table[E], N) /\ Joins(table[E], N, E)
<1> DEFINE base == [w \in N |-> w]
           T == {n \in Nat : \A s \in SUBSET E : Cardinality(s) = n =>
                    Forest(table[s], N) /\ Joins(table[s], N, s)}
<1>1. ASSUME NEW s \in SUBSET E
      PROVE  table[s] = IF s = {} THEN base ELSE Unite(table[s \ {Some(s)}], Some(s))
  BY DEF ForestTable
<1>2. Forest(base, N) /\ Joins(base, N, {})
  BY AloneJoins
<1> HIDE DEF base
<1>3. \A s \in SUBSET E : IsFiniteSet(s) /\ Cardinality(s) \in Nat
  BY FS_Subset, FS_CardinalityType
<1>4. 0 \in T
  <2>1. \A s \in SUBSET E : Cardinality(s) = 0 => s = {}
    BY <1>3, FS_EmptySet
  <2> QED
    BY <1>1, <1>2, <2>1
<1>5. ASSUME NEW n \in Nat, n \in T PROVE n + 1 \in T
  <2> SUFFICES ASSUME NEW s \in SUBSET E, Cardinality(s) = n + 1
               PROVE  Forest(table[s], N) /\ Joins(table[s], N, s)
    OBVIOUS
  <2> DEFINE e == Some(s)
             r == s \ {e}
  <2>1. s # {}
    BY FS_EmptySet
  <2>2. e \in s /\ r \in SUBSET E /\ Cardinality(r) = n /\ r \union {e} = s
    <3>1. e \in s /\ Cardinality(r) = Cardinality(s) - 1
      BY <1>3, <2>1, SomeRemoved
    <3> QED
      BY <3>1
  <2>3. table[s] = Unite(table[r], e)
    BY <1>1, <2>1
  <2> HIDE DEF e, r
  <2>4. Forest(table[r], N) /\ Joins(table[r], N, r)
    BY <1>5, <2>2
  <2>5. e.a \in N /\ e.b \in N /\ \A f \in r : f.a \in N /\ f.b \in N
    BY <2>2
  <2>6. Forest(Unite(table[r], e), N) /\ Joins(Unite(table[r], e), N, r \union {e})
    BY <2>4, <2>5, UniteJoins
  <2> QED
    BY <2>2, <2>3, <2>6
<1> HIDE DEF T
<1>6. Cardinality(E) \in T
  BY <1>3, <1>4, <1>5, NumberInduction
<1> QED
  BY <1>6 DEF T

LEMMA FoldJoins ==
    ASSUME NEW N \in SUBSET Nat, NEW b \in Nat, \A x \in N : x <= b,
           NEW E, IsFiniteSet(E), \A e \in E : e.a \in N /\ e.b \in N
    PROVE  \E p : /\ p = FoldSet(LAMBDA e, f : Unite(f, e), [w \in N |-> w], E)
                  /\ Forest(p, N) /\ Joins(p, N, E)
<1> DEFINE base == [w \in N |-> w]
           table == CHOOSE it : ForestTable(it, base, E)
<1>1. ForestTable(table, base, E)
  <2> HIDE DEF base
  <2> QED
    BY ForestTableExists
<1>2. table[E] = FoldSet(LAMBDA e, f : Unite(f, e), [w \in N |-> w], E)
  BY Zenon DEF FoldSet, MapThenFoldSet, ForestTable, Some
<1> HIDE DEF table
<1>3. Forest(table[E], N) /\ Joins(table[E], N, E)
  BY <1>1, TableJoins
<1> QED
  BY <1>2, <1>3, Zenon

\* A finite set of numbers has a bound.
LEMMA Bounded ==
    ASSUME NEW N \in SUBSET Nat, IsFiniteSet(N)
    PROVE  \E b \in Nat : \A x \in N : x <= b
<1> DEFINE T == {s \in SUBSET N : \E b \in Nat : \A x \in s : x <= b}
<1>1. {} \in T
  OBVIOUS
<1>2. ASSUME NEW s \in SUBSET N, NEW x \in N \ s, s \in T PROVE s \union {x} \in T
  <2>1. PICK b \in Nat : \A y \in s : y <= b
    BY <1>2
  <2>2. x \in Nat /\ \A y \in s : y \in Nat
    OBVIOUS
  <2>3. b + x \in Nat /\ \A y \in s \union {x} : y <= b + x
    BY <2>1, <2>2
  <2> QED
    BY <2>3
<1> HIDE DEF T
<1>3. N \in T
  BY <1>1, <1>2, SubsetInduction
<1> QED
  BY <1>3 DEF T

-----------------------------------------------------------------------------
(* The edges of the graph and the pairs that evidence joins.               *)

TradesTyped(swaps) == IsFiniteSet(swaps) /\ \A s \in swaps : s.wallet \in Nat

FundsTyped(known) ==
    /\ IsFiniteSet(known)
    /\ \A f \in known : f.src \in Nat /\ f.dst \in Nat /\ f.ts \in Nat /\ f.src # NoCreator

\* No edge, and no pair, has one end in S and one outside.
UncutByEdges(S, E) == \A e \in E : e.a \in S <=> e.b \in S
UncutByPairs(S, P) == \A p \in P : (p[1] \in S) = (p[2] \in S)

Informative(swaps, known) == {f \in FirstFunding(swaps, known) : f.src \notin Ignored}

LEMMA FirstIsKnown ==
    ASSUME NEW swaps, NEW known, NEW f \in FirstFunding(swaps, known)
    PROVE  f \in known /\ f.dst \in Traders(swaps)
<1> DEFINE earliest(w) == {x \in known : x.dst = w /\ \A g \in known : g.dst = w => x.ts <= g.ts}
<1>1. PICK w \in Traders(swaps) : earliest(w) # {} /\ f = CHOOSE x \in earliest(w) : TRUE
  BY DEF FirstFunding
<1>2. f \in earliest(w)
  <2> HIDE DEF earliest
  <2> QED
    BY <1>1
<1> QED
  BY <1>2

LEMMA InformativeTypes ==
    ASSUME NEW swaps, NEW known, FundsTyped(known), NEW f \in Informative(swaps, known)
    PROVE  /\ f \in known /\ f.dst \in Traders(swaps) /\ f.src # NoCreator
           /\ f.src \in Nat /\ f.dst \in Nat /\ f.ts \in Nat
BY FirstIsKnown DEF Informative, FundsTyped

\* The four kinds of edges, one by one.
LEMMA SharedIsJoined ==
    ASSUME NEW swaps, NEW known, FundsTyped(known), NEW creator, NEW e \in SharedFunding(swaps, known)
    PROVE  <<e.a, e.b>> \in Joined(swaps, known, creator) /\ e.a \in Nat /\ e.b \in Nat
<1> DEFINE first == Informative(swaps, known)
<1>1. PICK f \in first, g \in first :
        f.src = g.src /\ f.ts <= g.ts /\ g.ts - f.ts <= SharedWindow /\ e = Edge(f.dst, g.dst, "shared_funding")
  BY DEF SharedFunding, Informative
<1>2. e.a = f.dst /\ e.b = g.dst
  BY <1>1 DEF Edge
<1>3. /\ f.dst \in Traders(swaps) /\ g.dst \in Traders(swaps)
      /\ f.ts \in Nat /\ g.ts \in Nat /\ f.dst \in Nat /\ g.dst \in Nat
  BY InformativeTypes
<1>4. f.ts - g.ts <= SharedWindow
  BY <1>1, <1>3, WalletConstants
<1>5. <<e.a, e.b>> \in (Traders(swaps) \union {creator}) \X (Traders(swaps) \union {creator})
  BY <1>2, <1>3
<1> QED
  BY <1>1, <1>2, <1>3, <1>4, <1>5 DEF Joined, Informative

LEMMA CreatorIsJoined ==
    ASSUME NEW swaps, NEW known, FundsTyped(known), NEW creator, NEW e \in CreatorLinks(swaps, known, creator)
    PROVE  <<e.a, e.b>> \in Joined(swaps, known, creator) /\ e.a \in Nat /\ e.b \in Nat
<1> DEFINE first == Informative(swaps, known)
<1>1. PICK f \in first : f.src = creator /\ e = Edge(creator, f.dst, "creator_link")
  BY DEF CreatorLinks, Informative
<1>2. e.a = creator /\ e.b = f.dst
  BY <1>1 DEF Edge
<1>3. f.dst \in Traders(swaps) /\ f.src \in Nat /\ f.dst \in Nat
  BY InformativeTypes
<1>4. <<e.a, e.b>> \in (Traders(swaps) \union {creator}) \X (Traders(swaps) \union {creator})
  BY <1>2, <1>3
<1> QED
  BY <1>1, <1>2, <1>3, <1>4 DEF Joined, Informative

LEMMA DirectIsJoined ==
    ASSUME NEW swaps, NEW known, FundsTyped(known), NEW creator, NEW e \in DirectTransfers(swaps, known)
    PROVE  <<e.a, e.b>> \in Joined(swaps, known, creator) /\ e.a \in Nat /\ e.b \in Nat
<1>1. PICK f \in known : {f.src, f.dst} \subseteq Traders(swaps) /\ e = Edge(f.src, f.dst, "direct_transfer")
  BY DEF DirectTransfers
<1>2. e.a = f.src /\ e.b = f.dst /\ f.src \in Nat /\ f.dst \in Nat
  BY <1>1 DEF Edge, FundsTyped
<1>3. <<e.a, e.b>> \in (Traders(swaps) \union {creator}) \X (Traders(swaps) \union {creator})
  BY <1>1, <1>2
<1> QED
  BY <1>1, <1>2, <1>3 DEF Joined

LEMMA SyncIsJoined ==
    ASSUME NEW swaps, TradesTyped(swaps), NEW known, NEW creator, NEW e \in SynchronizedTrades(swaps)
    PROVE  <<e.a, e.b>> \in Joined(swaps, known, creator) /\ e.a \in Nat /\ e.b \in Nat
<1>1. PICK q \in Traders(swaps) \X Traders(swaps) :
        /\ q[1] < q[2] /\ Cardinality(SyncHits(swaps, q[1], q[2])) >= MinSync
        /\ e = Edge(q[1], q[2], "synchronized_trades")
  BY DEF SynchronizedTrades
<1>2. e.a = q[1] /\ e.b = q[2]
  BY <1>1 DEF Edge
<1>3. q[1] \in Traders(swaps) /\ q[2] \in Traders(swaps)
  OBVIOUS
<1>4. q[1] \in Nat /\ q[2] \in Nat
  BY <1>3 DEF Traders, TradesTyped
<1>5. q[1] # q[2]
  BY <1>1, <1>4
<1>6. <<e.a, e.b>> \in (Traders(swaps) \union {creator}) \X (Traders(swaps) \union {creator})
  BY <1>2, <1>3
<1> QED
  BY <1>1, <1>2, <1>4, <1>5, <1>6 DEF Joined

LEMMA EdgesAreJoined ==
    ASSUME NEW swaps, TradesTyped(swaps), NEW known, FundsTyped(known), NEW creator,
           NEW e \in BuildEdges(swaps, known, creator)
    PROVE  <<e.a, e.b>> \in Joined(swaps, known, creator) /\ e.a \in Nat /\ e.b \in Nat
BY SharedIsJoined, CreatorIsJoined, DirectIsJoined, SyncIsJoined DEF BuildEdges

\* Two buyers are at the same time as often from either side.
LEMMA HitsMirrored ==
    ASSUME NEW swaps, TradesTyped(swaps), NEW a, NEW b
    PROVE  Cardinality(SyncHits(swaps, a, b)) = Cardinality(SyncHits(swaps, b, a))
<1> DEFINE B == BuysOf(swaps)
           H == SyncHits(swaps, a, b)
           f == [p \in H |-> <<p[2], p[1]>>]
<1>1. IsFiniteSet(B)
  BY FS_Subset DEF BuysOf, TradesTyped
<1>2. H \subseteq B \X B
  BY DEF SyncHits
<1>3. IsFiniteSet(H)
  BY <1>1, <1>2, FS_Product, FS_Subset
<1>4. \A p, q \in H : f[p] = f[q] => p = q
  BY <1>2
<1>5. {f[p] : p \in H} = SyncHits(swaps, b, a)
  <2>1. ASSUME NEW p \in H PROVE <<p[2], p[1]>> \in SyncHits(swaps, b, a)
    BY DEF SyncHits
  <2>2. ASSUME NEW p \in SyncHits(swaps, b, a) PROVE \E q \in H : p = <<q[2], q[1]>>
    <3>1. <<p[2], p[1]>> \in H /\ p = <<p[1], p[2]>>
      BY DEF SyncHits
    <3> QED
      BY <3>1
  <2> HIDE DEF H
  <2> QED
    BY <2>1, <2>2
<1>6. f = [p \in H |-> f[p]]
  OBVIOUS
<1> HIDE DEF f, H
<1>7. Cardinality({f[p] : p \in H}) = Cardinality(H)
  BY <1>3, <1>4, <1>6, ImageCounts
<1> QED
  BY <1>5, <1>7 DEF H

\* Two wallets that one source funded within the window are linked through
\* those it funded between them.
LEMMA FundedTogether ==
    ASSUME NEW swaps, NEW known, FundsTyped(known), NEW S, UncutByEdges(S, SharedFunding(swaps, known)),
           NEW f \in Informative(swaps, known), NEW g \in Informative(swaps, known),
           f.src = g.src, f.ts <= g.ts, g.ts - f.ts <= SharedWindow
    PROVE  f.dst \in S <=> g.dst \in S
<1> DEFINE first == Informative(swaps, known)
           Near(x, y) == x.src = y.src /\ x.ts <= y.ts /\ y.ts - x.ts <= SharedWindow
           T == {n \in Nat : \A x, y \in first : Near(x, y) /\ y.ts - x.ts = n => (x.dst \in S <=> y.dst \in S)}
<1>1. \A x \in first : x.ts \in Nat
  BY InformativeTypes
<1>2. ASSUME NEW n \in Nat, \A m \in Nat : m < n => m \in T PROVE n \in T
  <2> SUFFICES ASSUME NEW x \in first, NEW y \in first, Near(x, y), y.ts - x.ts = n
               PROVE  x.dst \in S <=> y.dst \in S
    OBVIOUS
  <2>1. CASE \E h \in first : h.src = x.src /\ x.ts < h.ts /\ h.ts < y.ts
    <3>1. PICK h \in first : h.src = x.src /\ x.ts < h.ts /\ h.ts < y.ts
      BY <2>1
    <3>2. x.ts \in Nat /\ y.ts \in Nat /\ h.ts \in Nat
      BY <1>1
    <3>3. /\ Near(x, h) /\ h.ts - x.ts \in Nat /\ h.ts - x.ts < n
          /\ Near(h, y) /\ y.ts - h.ts \in Nat /\ y.ts - h.ts < n
      BY <3>1, <3>2, WalletConstants
    <3>4. h.ts - x.ts \in T /\ y.ts - h.ts \in T
      BY <1>2, <3>3
    <3> HIDE DEF Near, first
    <3>5. (x.dst \in S <=> h.dst \in S) /\ (h.dst \in S <=> y.dst \in S)
      BY <3>3, <3>4
    <3> QED
      BY <3>5
  <2>2. CASE ~ \E h \in first : h.src = x.src /\ x.ts < h.ts /\ h.ts < y.ts
    <3>1. CASE x.dst = y.dst
      BY <3>1
    <3>2. CASE x.dst # y.dst
      <4>1. \A h \in first : (h.src = x.src /\ h \notin {x, y}) => (h.ts <= x.ts \/ y.ts <= h.ts)
        BY <1>1, <2>2
      <4>2. Edge(x.dst, y.dst, "shared_funding") \in SharedFunding(swaps, known)
        <5> DEFINE p == <<x, y>>
        <5>1. p \in first \X first /\ p[1] = x /\ p[2] = y
          OBVIOUS
        <5> QED
          BY <3>2, <4>1, <5>1 DEF SharedFunding, Informative
      <4> QED
        BY <4>2 DEF UncutByEdges, Edge
    <3> QED
      BY <3>1, <3>2
  <2> QED
    BY <2>1, <2>2
<1> HIDE DEF T
<1>3. Nat \subseteq T
  BY <1>2, FromBelow
<1>4. g.ts - f.ts \in Nat
  BY <1>1
<1>5. g.ts - f.ts \in T
  BY <1>3, <1>4
<1> QED
  BY <1>5 DEF T

\* A set that no edge leaves is left by no pair that evidence joins.
LEMMA PairsFollow ==
    ASSUME NEW swaps, TradesTyped(swaps), NEW known, FundsTyped(known), NEW creator,
           NEW S, UncutByEdges(S, BuildEdges(swaps, known, creator))
    PROVE  UncutByPairs(S, Joined(swaps, known, creator))
<1> DEFINE first == Informative(swaps, known)
           edges == BuildEdges(swaps, known, creator)
<1> SUFFICES ASSUME NEW p \in Joined(swaps, known, creator) PROVE p[1] \in S <=> p[2] \in S
  BY DEF UncutByPairs
<1>0. \A e \in edges : e.a \in S <=> e.b \in S
  BY DEF UncutByEdges
<1>1. \A x \in first : x.ts \in Nat
  BY InformativeTypes
<1>2. ASSUME NEW f \in first, NEW g \in first, f.dst = p[1], g.dst = p[2], f.src = g.src,
             f.ts - g.ts <= SharedWindow, g.ts - f.ts <= SharedWindow
      PROVE  p[1] \in S <=> p[2] \in S
  <2>1. UncutByEdges(S, SharedFunding(swaps, known))
    BY DEF UncutByEdges, BuildEdges
  <2>2. f.ts <= g.ts \/ g.ts <= f.ts
    BY <1>1
  <2> QED
    BY <1>2, <2>1, <2>2, FundedTogether
<1>3. ASSUME NEW f \in first, f.src = creator, p = <<creator, f.dst>> PROVE p[1] \in S <=> p[2] \in S
  <2>1. creator # NoCreator
    BY <1>3, InformativeTypes
  <2>2. Edge(creator, f.dst, "creator_link") \in edges
    BY <1>3, <2>1 DEF BuildEdges, CreatorLinks, Informative
  <2>3. creator \in S <=> f.dst \in S
    BY <1>0, <2>2 DEF Edge
  <2> QED
    BY <1>3, <2>3
<1>4. ASSUME NEW f \in known, {f.src, f.dst} \subseteq Traders(swaps), p = <<f.src, f.dst>>
      PROVE  p[1] \in S <=> p[2] \in S
  <2>1. CASE f.src = f.dst
    BY <1>4, <2>1
  <2>2. CASE f.src # f.dst
    <3>1. Edge(f.src, f.dst, "direct_transfer") \in edges
      BY <1>4, <2>2 DEF BuildEdges, DirectTransfers
    <3>2. f.src \in S <=> f.dst \in S
      BY <1>0, <3>1 DEF Edge
    <3> QED
      BY <1>4, <3>2
  <2> QED
    BY <2>1, <2>2
<1>5. ASSUME p[1] # p[2], Cardinality(SyncHits(swaps, p[1], p[2])) >= MinSync
      PROVE  p[1] \in S <=> p[2] \in S
  <2> DEFINE hits(a, b) == Cardinality(SyncHits(swaps, a, b))
  <2>1. SyncHits(swaps, p[1], p[2]) # {}
    <3>1. Cardinality({}) = 0 /\ ~ (0 >= MinSync)
      BY FS_EmptySet, WalletConstants
    <3> QED
      BY <1>5, <3>1
  <2>2. PICK a : a = p[1]
    OBVIOUS
  <2>3. PICK b : b = p[2]
    OBVIOUS
  <2>4. a \in Traders(swaps) /\ b \in Traders(swaps)
    BY <2>1, <2>2, <2>3 DEF SyncHits, BuysOf, Traders
  <2>5. a \in Nat /\ b \in Nat
    BY <2>4 DEF Traders, TradesTyped
  <2>6. hits(a, b) >= MinSync /\ hits(b, a) >= MinSync
    BY <1>5, <2>2, <2>3, HitsMirrored
  <2>7. ASSUME NEW c \in Traders(swaps), NEW d \in Traders(swaps), c < d, hits(c, d) >= MinSync
        PROVE  c \in S <=> d \in S
    <3> DEFINE q == <<c, d>>
    <3>1. q \in Traders(swaps) \X Traders(swaps) /\ q[1] = c /\ q[2] = d
      OBVIOUS
    <3>2. Edge(q[1], q[2], "synchronized_trades") \in SynchronizedTrades(swaps)
      BY <2>7, <3>1 DEF SynchronizedTrades
    <3>3. Edge(c, d, "synchronized_trades") \in edges
      BY <3>1, <3>2 DEF BuildEdges
    <3> QED
      BY <1>0, <3>3 DEF Edge
  <2>8. a < b \/ b < a
    BY <1>5, <2>2, <2>3, <2>5
  <2> QED
    BY <2>2, <2>3, <2>4, <2>6, <2>7, <2>8
<1> QED
  BY <1>2, <1>3, <1>4, <1>5, Zenon DEF Joined, Informative

LEMMA FiniteGraph ==
    ASSUME NEW swaps, TradesTyped(swaps), NEW known, FundsTyped(known), NEW creator
    PROVE  IsFiniteSet(Traders(swaps)) /\ IsFiniteSet(BuildEdges(swaps, known, creator))
<1>1. IsFiniteSet(Traders(swaps))
  <2> DEFINE f == [s \in swaps |-> s.wallet]
  <2>1. Traders(swaps) = {f[s] : s \in swaps} /\ f = [s \in swaps |-> f[s]]
    BY DEF Traders
  <2> HIDE DEF f
  <2> QED
    BY <2>1, FiniteImage DEF TradesTyped
<1>2. IsFiniteSet(SharedFunding(swaps, known))
  <2> DEFINE X == known \X known
             f == [p \in X |-> Edge(p[1].dst, p[2].dst, "shared_funding")]
  <2>1. IsFiniteSet(X)
    BY FS_Product DEF FundsTyped
  <2>2. SharedFunding(swaps, known) \subseteq {f[p] : p \in X} /\ f = [p \in X |-> f[p]]
    BY FirstIsKnown DEF SharedFunding
  <2> HIDE DEF f, X
  <2>3. IsFiniteSet({f[p] : p \in X})
    BY <2>1, <2>2, FiniteImage
  <2> QED
    BY <2>2, <2>3, FS_Subset
<1>3. IsFiniteSet(CreatorLinks(swaps, known, creator))
  <2> DEFINE f == [x \in known |-> Edge(creator, x.dst, "creator_link")]
  <2>1. CreatorLinks(swaps, known, creator) \subseteq {f[x] : x \in known} /\ f = [x \in known |-> f[x]]
    BY FirstIsKnown DEF CreatorLinks
  <2> HIDE DEF f
  <2>2. IsFiniteSet({f[x] : x \in known})
    BY <2>1, FiniteImage DEF FundsTyped
  <2> QED
    BY <2>1, <2>2, FS_Subset
<1>4. IsFiniteSet(DirectTransfers(swaps, known))
  <2> DEFINE f == [x \in known |-> Edge(x.src, x.dst, "direct_transfer")]
  <2>1. DirectTransfers(swaps, known) \subseteq {f[x] : x \in known} /\ f = [x \in known |-> f[x]]
    BY DEF DirectTransfers
  <2> HIDE DEF f
  <2>2. IsFiniteSet({f[x] : x \in known})
    BY <2>1, FiniteImage DEF FundsTyped
  <2> QED
    BY <2>1, <2>2, FS_Subset
<1>5. IsFiniteSet(SynchronizedTrades(swaps))
  <2> DEFINE X == Traders(swaps) \X Traders(swaps)
             f == [p \in X |-> Edge(p[1], p[2], "synchronized_trades")]
  <2>1. IsFiniteSet(X)
    BY <1>1, FS_Product
  <2>2. SynchronizedTrades(swaps) \subseteq {f[p] : p \in X} /\ f = [p \in X |-> f[p]]
    BY DEF SynchronizedTrades
  <2> HIDE DEF f, X
  <2>3. IsFiniteSet({f[p] : p \in X})
    BY <2>1, <2>2, FiniteImage
  <2> QED
    BY <2>2, <2>3, FS_Subset
<1> QED
  BY <1>1, <1>2, <1>3, <1>4, <1>5, FS_Union DEF BuildEdges

\* The clusters are the classes of the wallets that evidence joins.
LEMMA ClassesOf ==
    ASSUME NEW swaps, TradesTyped(swaps), NEW known, FundsTyped(known), NEW creator,
           NEW of, of = ClusterOf(swaps, known, creator), NEW a \in DOMAIN of
    PROVE  /\ UncutByPairs(Members(of, of[a]), Joined(swaps, known, creator))
           /\ \A S \in SUBSET Members(of, of[a]) :
                UncutByPairs(S, Joined(swaps, known, creator)) => S \in {{}, Members(of, of[a])}
<1> DEFINE pairs == Joined(swaps, known, creator)
           edges == BuildEdges(swaps, known, creator)
           A == {e.a : e \in edges}
           B == {e.b : e \in edges}
           nodes == Traders(swaps) \union A \union B
           M == Members(of, of[a])
<1>1. \A e \in edges : <<e.a, e.b>> \in pairs /\ e.a \in Nat /\ e.b \in Nat
  BY EdgesAreJoined
<1>2. IsFiniteSet(Traders(swaps)) /\ IsFiniteSet(edges)
  BY FiniteGraph
<1>3. Traders(swaps) \subseteq Nat
  BY DEF Traders, TradesTyped
<1>4. nodes \in SUBSET Nat /\ \A e \in edges : e.a \in nodes /\ e.b \in nodes
  BY <1>1, <1>3
<1>5. IsFiniteSet(nodes)
  <2> DEFINE f == [e \in edges |-> e.a]
             g == [e \in edges |-> e.b]
  <2>1. A = {f[e] : e \in edges} /\ f = [e \in edges |-> f[e]]
    OBVIOUS
  <2>2. B = {g[e] : e \in edges} /\ g = [e \in edges |-> g[e]]
    OBVIOUS
  <2> HIDE DEF A, B, f, g, edges
  <2>3. IsFiniteSet(A) /\ IsFiniteSet(B)
    BY <1>2, <2>1, <2>2, FiniteImage
  <2> QED
    BY <1>2, <2>3, FS_Union
<1>6. \E p : /\ p = FoldSet(LAMBDA e, f : Unite(f, e), [w \in nodes |-> w], edges)
             /\ Forest(p, nodes) /\ Joins(p, nodes, edges)
  <2> HIDE DEF nodes, edges
  <2>1. PICK b \in Nat : \A x \in nodes : x <= b
    BY <1>4, <1>5, Bounded
  <2> QED
    BY <1>2, <1>4, <2>1, FoldJoins
<1>7. \E p : of = [w \in nodes |-> Find(p, w)] /\ Joins(p, nodes, edges)
  BY <1>6, Zenon DEF ClusterOf
<1>8. PICK p : of = [w \in nodes |-> Find(p, w)] /\ Joins(p, nodes, edges)
  BY <1>7
<1> HIDE DEF nodes, edges, A, B
<1>9. DOMAIN of = nodes /\ a \in nodes /\ \A w \in nodes : of[w] = Find(p, w)
  BY <1>8
<1>10. M \in SUBSET nodes /\ \A w \in nodes : w \in M <=> Find(p, w) = Find(p, a)
  BY <1>9 DEF Members
<1> HIDE DEF M, pairs
<1>11. UncutByPairs(M, pairs)
  <2>1. \A e \in edges : e.a \in M <=> e.b \in M
    BY <1>4, <1>8, <1>10 DEF Joins
  <2>2. UncutByEdges(M, BuildEdges(swaps, known, creator))
    BY <2>1 DEF UncutByEdges, edges
  <2> QED
    BY <2>2, PairsFollow DEF pairs
<1>12. ASSUME NEW S \in SUBSET M, UncutByPairs(S, pairs) PROVE S \in {{}, M}
  <2>1. ASSUME NEW e \in edges PROVE e.a \in S <=> e.b \in S
    <3> DEFINE q == <<e.a, e.b>>
    <3>1. q \in pairs /\ q[1] = e.a /\ q[2] = e.b
      BY <1>1
    <3> HIDE DEF q
    <3>2. (q[1] \in S) = (q[2] \in S)
      BY <1>12, <3>1 DEF UncutByPairs
    <3> QED
      BY <3>1, <3>2
  <2>2. S \in SUBSET nodes
    BY <1>10
  <2>3. \A x \in nodes : x \in S <=> Find(p, x) \in S
    BY <1>8, <2>1, <2>2 DEF Joins
  <2>4. ASSUME NEW y \in S, NEW w \in M PROVE w \in S
    BY <1>10, <2>2, <2>3
  <2> QED
    BY <2>4
<1> QED
  BY <1>11, <1>12 DEF M, pairs

-----------------------------------------------------------------------------
(* What the store tells of wallets.                                        *)

WalletsInv == IsFiniteSet(archive) /\ \A s \in chain : s.wallet \in Nat

LEMMA WalletsHold == Spec => []WalletsInv
<1>1. Init => WalletsInv
  BY FS_EmptySet DEF Init, WalletsInv
<1>2. ASSUME WalletsInv, EvidenceInv, [Next]_vars PROVE WalletsInv'
  <2>1. IsFiniteSet(archive')
    BY <1>2, ArchiveGrows, FS_AddElement DEF WalletsInv
  <2>2. \A s \in chain' : s.wallet \in Nat
    <3>1. ASSUME NEW t, NEW o \in plan.orders, Trade(t, o[1], o[2]) PROVE \A s \in chain' : s.wallet \in Nat
      <4> DEFINE here == {s \in chain : s.token = t /\ s.ts = now}
                 swap == [token |-> t, ts |-> now, n |-> Cardinality(here), wallet |-> o[1], side |-> o[2]]
      <4>1. chain' = chain \union {swap}
        BY <3>1 DEF Trade
      <4>2. o[1] \in Nat /\ swap.wallet = o[1]
        BY <1>2, EvidenceConstants DEF EvidenceInv, ChainOK
      <4> HIDE DEF swap
      <4> QED
        BY <1>2, <4>1, <4>2 DEF WalletsInv
    <3>2. chain' = chain => \A s \in chain' : s.wallet \in Nat
      BY <1>2 DEF WalletsInv
    <3> QED
      BY <1>2, <3>1, <3>2 DEF Next, vars, Tick, Drain, Index, PollTrades, PollBars, PollPools, PollPairs, PollInfo,
                              PollFails, Receive
  <2> QED
    BY <2>1, <2>2 DEF WalletsInv
<1> QED
  BY <1>1, <1>2, EvidenceHolds, PTL DEF Spec

\* The swaps among the records of an answer.
SwapsIn(e) ==
    {[kind |-> "swap", token |-> e.token, ts |-> r.ts, n |-> r.n, wallet |-> r.wallet,
      side |-> r.side, seen |-> e.seen] : r \in Well(e)}

\* A store has finitely many swaps, and each is of a wallet with a number.
LEMMA SwapsTyped ==
    ASSUME EvidenceInv, WalletsInv, NEW t
    PROVE  TradesTyped(Swaps(View(Store, now), t))
<1> DEFINE all == OfKind(View(Store, now), t, "swap")
           A == {e \in archive : e.fate = "ok" /\ e.endpoint = "gt.trades"}
           f == [e \in A |-> SwapsIn(e)]
           U == UNION {f[e] : e \in A}
<1>1. Swaps(View(Store, now), t) \subseteq all
  BY DEF Swaps
<1>2. CASE archive = {}
  <2>1. Store = plan.loaded
    BY <1>2 DEF Store, Records
  <2>2. all \subseteq plan.loaded
    BY <2>1 DEF OfKind, View
  <2>3. IsFiniteSet(plan.loaded) /\ \A r \in plan.loaded : r.wallet \in Nat
    BY EvidenceConstants DEF EvidenceInv, ChainOK
  <2> HIDE DEF all
  <2> QED
    BY <1>1, <2>2, <2>3, FS_Subset DEF TradesTyped
<1>3. CASE archive # {}
  <2>1. ASSUME NEW x \in all PROVE x \in U
    <3>1. x \in View(Store, now) /\ x.kind = "swap" /\ x.token = t
      BY DEF OfKind
    <3>2. PICK e \in archive : e.fate = "ok" /\ AnswerReal(e) /\ x \in Parse(e)
      BY <1>3, <3>1, Recorded
    <3>3. e.endpoint = "gt.trades"
      BY <3>1, <3>2, ParsedSwap DEF AnswerReal
    <3>4. x \in SwapsIn(e)
      <4>1. x \in ParseTrades(e)
        BY <3>2, <3>3 DEF Parse
      <4>2. x \notin TradeClaims(e)
        BY <3>1 DEF TradeClaims, Claim
      <4> QED
        BY <4>1, <4>2 DEF ParseTrades, SwapsIn
    <3>5. e \in A
      BY <3>2, <3>3
    <3> QED
      BY <3>4, <3>5
  <2>2. IsFiniteSet(A)
    BY FS_Subset DEF WalletsInv
  <2>3. ASSUME NEW e \in A PROVE IsFiniteSet(SwapsIn(e))
    <3> DEFINE g == [r \in Well(e) |-> [kind |-> "swap", token |-> e.token, ts |-> r.ts, n |-> r.n,
                                         wallet |-> r.wallet, side |-> r.side, seen |-> e.seen]]
    <3>1. IsFiniteSet(e.rows)
      BY DEF EvidenceInv, AnswerReal, TradesReal
    <3>2. IsFiniteSet(Well(e))
      BY <3>1, FS_Subset DEF Well
    <3>3. SwapsIn(e) = {g[r] : r \in Well(e)} /\ g = [r \in Well(e) |-> g[r]]
      BY DEF SwapsIn
    <3> HIDE DEF g
    <3> QED
      BY <3>2, <3>3, FiniteImage
  <2>4. f = [e \in A |-> f[e]] /\ \A T \in {f[e] : e \in A} : IsFiniteSet(T)
    BY <2>3
  <2> HIDE DEF f, A
  <2>5. IsFiniteSet({f[e] : e \in A})
    BY <2>2, <2>4, FiniteImage
  <2>6. IsFiniteSet(U)
    BY <2>4, <2>5, FS_UNION
  <2>7. ASSUME NEW x \in all PROVE x.wallet \in Nat
    <3>1. PICK s \in OnChain(t) : SameSwap(x, s)
      BY <1>3, SwapOf
    <3> QED
      BY <3>1 DEF SameSwap, OnChain, WalletsInv
  <2> HIDE DEF all, U
  <2> QED
    BY <1>1, <2>1, <2>6, <2>7, FS_Subset DEF TradesTyped
<1> QED
  BY <1>2, <1>3

LEMMA FundsKnown == ASSUME EvidenceInv PROVE FundsTyped(Known(now))
<1>1. /\ IsFiniteSet(plan.transfers)
      /\ \A f \in plan.transfers : {f.src, f.dst, f.ts} \subseteq Nat /\ f.src # NoCreator
  BY EvidenceConstants DEF EvidenceInv, ChainOK
<1>2. Known(now) \subseteq plan.transfers
  BY DEF Known
<1> QED
  BY <1>1, <1>2, FS_Subset DEF FundsTyped

\* Two wallets are in one cluster exactly when evidence joins them, directly
\* or through others, whatever order analyze unites the edges in.
THEOREM ClustersHold == Spec => []ClustersAreJoined
<1>1. ASSUME EvidenceInv, WalletsInv PROVE ClustersAreJoined
  <2>1. ASSUME NEW t \in Tokens,
               NEW of, of = ClusterOf(Swaps(View(Store, now), t), Known(now), CreatorOf(View(Store, now), t)),
               NEW a \in DOMAIN of
        PROVE  LET pairs == Joined(Swaps(View(Store, now), t), Known(now), CreatorOf(View(Store, now), t)) IN
               /\ UncutByPairs(Members(of, of[a]), pairs)
               /\ \A S \in SUBSET Members(of, of[a]) : UncutByPairs(S, pairs) => S \in {{}, Members(of, of[a])}
    BY <1>1, <2>1, SwapsTyped, FundsKnown, ClassesOf
  <2> QED
    BY <2>1, Zenon DEF ClustersAreJoined, UncutByPairs
<1> QED
  BY <1>1, EvidenceHolds, WalletsHold, PTL

=============================================================================
