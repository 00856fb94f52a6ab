----------------------------- MODULE Tuning_proofs -----------------------------
(***************************************************************************)
(* Theorems about Tuning, for every scale, period, set of parameters and   *)
(* values written, whatever lies on the stack and any number of calls.     *)
(***************************************************************************)
EXTENDS Tuning, WellFoundedInduction, TLAPS

(* What starts at 0 and never stops holds for every natural number.          *)
LEMMA NatSteps ==
  ASSUME NEW S, 0 \in S, \A n \in Nat : n \in S => n + 1 \in S
  PROVE  Nat \subseteq S
<1> DEFINE T == {n \in Nat : n \notin S}
<1> SUFFICES ASSUME T # {}
             PROVE  FALSE
  OBVIOUS
<1>1. IsWellFoundedOn(OpToRel(<, Nat), Nat)
  BY NatLessThanWellFounded, Zenon
<1>2. T \subseteq Nat
  OBVIOUS
<1> HIDE DEF T
<1>3. PICK m \in T : \A k \in T : ~(<<k, m>> \in OpToRel(<, Nat))
  BY <1>1, <1>2, WFMin, Zenon
<1>4. \A k \in T : ~(k < m)
  <2>1. \A k \in T : k < m => <<k, m>> \in OpToRel(<, Nat)
    BY <1>2, Zenon DEF OpToRel
  <2> QED BY <1>3, <2>1, Zenon
<1> HIDE <1>3
<1>5. m \in Nat /\ m \notin S
  BY DEF T
<1>6. m # 0 /\ m - 1 \in Nat /\ m - 1 < m
  BY <1>5
<1>7. m - 1 \notin T
  BY <1>4, <1>6
<1> QED BY <1>5, <1>6, <1>7 DEF T

-----------------------------------------------------------------------------
(* The quotient of a number between two multiples.                           *)
LEMMA FloorBetween ==
  ASSUME NEW n \in Nat, NEW s \in Nat \ {0}, NEW lo \in Nat, NEW hi \in Nat,
         lo * s <= n, n <= hi * s
  PROVE  n \div s \in lo .. hi
<1> DEFINE m == n \div s
<1>1. m \in Nat /\ s * m <= n /\ n < s * m + s
  OBVIOUS
<1> HIDE DEF m
<1>2. ASSUME m < lo
      PROVE  FALSE
  <2>1. s * (m + 1) <= s * lo
    BY <1>1, <1>2
  <2> QED BY <1>1, <2>1
<1>3. ASSUME m > hi
      PROVE  FALSE
  <2>1. s * (hi + 1) <= s * m
    BY <1>1, <1>3
  <2> QED BY <1>1, <2>1
<1> QED BY <1>1, <1>2, <1>3 DEF m

(* The number of samples and its way back, which is exact: twice the square  *)
(* of the scale is large enough against alpha.                               *)
LEMMA SamplesExact ==
  ASSUME NEW s \in Nat \ {0}, NEW a \in 1 .. s, NEW n \in Nat, n = 2 * s * s
  PROVE  /\ n \div a \in Nat /\ n \div a >= 2 * s
         /\ a * (n \div a) <= n
         /\ n \div (n \div a) = a
<1> DEFINE q == n \div a
           back == n \div q
<1>1. q \in Nat /\ a * q <= n /\ n < a * q + a
  OBVIOUS
<1>2. q >= 2 * s
  <2>1. (2 * s) * a <= n /\ (2 * s) * a \in Nat
    OBVIOUS
  <2>2. a \in Nat \ {0} /\ 2 * s \in Nat /\ n <= n * a
    OBVIOUS
  <2> QED BY <2>1, <2>2, FloorBetween
<1> HIDE DEF q
<1>3. back \in Nat /\ q * back <= n /\ n < q * back + q
  <2>1. q \in Nat \ {0}
    BY <1>1, <1>2
  <2> QED BY <2>1
<1> HIDE DEF back
<1>4. a \in Nat /\ a <= q /\ q * a = a * q
  BY <1>1, <1>2
<1>5. ASSUME back < a
      PROVE  FALSE
  <2>1. q * (back + 1) <= q * a
    BY <1>1, <1>3, <1>4, <1>5
  <2>2. q * (back + 1) = q * back + q
    BY <1>1, <1>3
  <2> QED BY <1>1, <1>3, <1>4, <2>1, <2>2
<1>6. ASSUME back > a
      PROVE  FALSE
  <2>1. q * (a + 1) <= q * back
    BY <1>1, <1>3, <1>4, <1>6
  <2>2. q * (a + 1) = q * a + q
    BY <1>1, <1>4
  <2> QED BY <1>1, <1>3, <1>4, <2>1, <2>2
<1>7. back = a
  BY <1>3, <1>4, <1>5, <1>6
<1> QED BY <1>1, <1>2, <1>7 DEF q, back

(* A value that fits is not changed by the conversion to value_t, and the    *)
(* division of C is the one of TLA+ for natural numbers.                     *)
LEMMA NarrowFits ==
  ASSUME NEW x \in 0 .. ValueMax
  PROVE  Narrow(x) = x
<1> DEFINE m == 2 * (ValueMax + 1)
           y == x + ValueMax + 1
<1>1. ValueMax \in Nat /\ x \in Nat /\ x <= ValueMax
  BY ValueAssumption
<1>2. m \in Nat \ {0} /\ y \in Nat /\ y < m /\ y - (ValueMax + 1) = x
  BY <1>1
<1>3. \A k, l \in Nat : l # 0 /\ k < l => k % l = k
  OBVIOUS
<1> HIDE DEF m, y
<1>4. y % m = y
  BY <1>2, <1>3
<1> QED BY <1>2, <1>4 DEF Narrow, m, y

LEMMA QuotientNat ==
  ASSUME NEW a \in Nat, NEW b \in Nat \ {0}
  PROVE  Quotient(a, b) = a \div b
BY DEF Quotient

(* The window and its way back: both conversions round down, so the number   *)
(* of samples shrinks and alpha grows, but not past the scale.               *)
LEMMA WindowLarger ==
  ASSUME NEW a \in 1 .. ParamScale,
         Unit2 \div a <= ValueMax,
         ((Unit2 \div a - ParamScale) * Period) \div ParamScale <= ValueMax
  PROVE  WindowToAlpha(AlphaToWindow(a)) \in a .. ParamScale
<1> DEFINE s == ParamScale
           n == 2 * s * s
           samples == n \div a - s
           window == (samples * Period) \div s
           fewer == (window * s) \div Period
<1>1. /\ s \in Nat \ {0} /\ Period \in Nat \ {0} /\ n \in Nat /\ n = 2 * s * s
      /\ s <= ValueMax /\ ValueMax \in Nat
  BY FilterAssumption, ValueAssumption
<1>0. /\ n \div a <= ValueMax /\ window <= ValueMax
      /\ Unit2 = n
  BY DEF Unit2
<1> HIDE DEF n
<1>2. samples \in Nat /\ samples >= s /\ a * (samples + s) <= n
  <2> DEFINE q == n \div a
  <2> HIDE DEF s
  <2>1. q \in Nat /\ q >= 2 * s /\ a * q <= n
    <3>1. a \in 1 .. s
      BY DEF s
    <3> QED BY <1>1, <3>1, SamplesExact
  <2> HIDE DEF q
  <2>2. q - s \in Nat /\ q - s >= s /\ (q - s) + s = q
    BY <1>1, <2>1
  <2> QED BY <2>1, <2>2 DEF q
<1>6. AlphaToSamples(a) = samples
  <2> DEFINE q == n \div a
  <2>1. q \in Nat /\ q <= ValueMax /\ samples = q - s /\ q - s \in 0 .. ValueMax
    <3>1. n \div a \in Nat
      BY <1>1
    <3> QED BY <1>0, <1>1, <1>2, <3>1
  <2>2. Narrow(q) = q /\ Narrow(q - s) = q - s
    BY <2>1, <1>1, NarrowFits
  <2> QED BY <1>0, <2>1, <2>2 DEF AlphaToSamples
<1> HIDE DEF samples, s
<1>3. window \in Period .. samples * Period /\ s * window <= samples * Period
  <2>1. samples * Period \in Nat /\ Period * s <= samples * Period
    BY <1>1, <1>2
  <2>2. samples * Period <= (samples * Period) * s
    BY <1>1, <2>1
  <2>3. window \in Period .. samples * Period
    BY <1>1, <2>1, <2>2, FloorBetween
  <2> QED BY <1>1, <2>1, <2>3
<1>7. AlphaToWindow(a) = window
  <2>1. samples * Period \in Nat
    BY <1>1, <1>2
  <2>2. window \in 0 .. ValueMax
    BY <1>0, <1>1, <1>2, <1>3
  <2>3. Quotient(samples * Period, s) = window
    BY <1>1, <2>1, QuotientNat
  <2>4. AlphaToWindow(a) = Narrow(Quotient(samples * Period, s))
    BY <1>6 DEF AlphaToWindow, s
  <2> QED BY <2>2, <2>3, <2>4, NarrowFits
<1> HIDE DEF window
<1>4. fewer \in s .. samples
  <2>1. window \in Nat /\ window * s \in Nat
    BY <1>1, <1>2, <1>3
  <2>2. s * Period <= window * s
    BY <1>1, <1>3, <2>1
  <2>3. window * s <= samples * Period
    BY <1>1, <1>3, <2>1
  <2> QED BY <1>1, <1>2, <2>1, <2>2, <2>3, FloorBetween
<1> HIDE DEF fewer
<1>5. n \div (fewer + s) \in a .. s
  <2>1. fewer \in Nat /\ fewer + s \in Nat \ {0} /\ a \in Nat
    BY <1>1, <1>2, <1>4 DEF s
  <2>2. a * (fewer + s) <= a * (samples + s)
    BY <1>1, <1>2, <1>4, <2>1
  <2>3. n <= s * (fewer + s)
    <3>1. s * (2 * s) <= s * (fewer + s)
      BY <1>1, <1>4, <2>1
    <3> QED BY <1>1, <2>1, <3>1
  <2>4. a * (fewer + s) <= n
    BY <1>1, <1>2, <2>1, <2>2
  <2> QED BY <1>1, <2>1, <2>3, <2>4, FloorBetween
<1>8. WindowToAlpha(window) = n \div (fewer + s)
  <2>1. window * s \in Nat /\ fewer + s \in Nat \ {0}
    BY <1>1, <1>2, <1>3, <1>4
  <2>2. Quotient(window * s, Period) = fewer
    BY <1>1, <2>1, QuotientNat DEF fewer
  <2>3. WindowDivisor(window) = fewer + s
    BY <2>2 DEF WindowDivisor, s
  <2>4. Quotient(n, fewer + s) = n \div (fewer + s)
    BY <1>1, <2>1, QuotientNat
  <2>5. n \div (fewer + s) \in 0 .. ValueMax
    BY <1>1, <1>5 DEF s
  <2> QED BY <1>0, <2>3, <2>4, <2>5, NarrowFits DEF WindowToAlpha
<1> QED BY <1>5, <1>7, <1>8 DEF s

-----------------------------------------------------------------------------
(* The fields of the filter, with alpha and the other weight in their range, *)
(* and apart only with the default alpha; what was saved of it.              *)
FilterTuned ==
  /\ filter = [alpha |-> filter.alpha, oneMinusAlpha |-> filter.oneMinusAlpha,
               active |-> filter.active, ready |-> filter.ready,
               fault |-> filter.fault, values |-> filter.values]
  /\ filter.alpha \in 0 .. ParamScale /\ filter.oneMinusAlpha \in 0 .. ParamScale
  /\ ApartOnlyByReset

FilterStored ==
  /\ kept.alpha \in 0 .. ParamScale
  /\ store.vflt = IF kept.alpha # DefaultAlpha THEN <<kept.alpha>> ELSE << >>

(* The fields of the mixer, of which nothing is ever saved.                  *)
MixTuned ==
  /\ mix = [active |-> mix.active, ready |-> mix.ready, output |-> mix.output,
            weights |-> mix.weights]
  /\ mix.weights \in [Inputs -> Int]

MixStored == store.vmix = << >>

(* The parameters inside their limits, and what was saved of them.           *)
InLimits(values) ==
  /\ values \in [ParamIds -> Int]
  /\ \A p \in Existing : values[p] \in ParamDesc[p].min .. ParamDesc[p].max

ParamsStored ==
  /\ InLimits(kept.params)
  /\ store.vpar \in {<< >>, <<Pairs(kept.params)>>}
  /\ store.vpar = << >> => \A p \in Existing : kept.params[p] = ParamDesc[p].def

StoreShape ==
  /\ store = [vflt |-> store.vflt, vmix |-> store.vmix, vpar |-> store.vpar]
  /\ kept = [alpha |-> kept.alpha, weights |-> kept.weights, params |-> kept.params]

TuningInv ==
  /\ StoreShape
  /\ FilterTuned /\ FilterStored
  /\ MixTuned /\ MixStored
  /\ InLimits(params) /\ ParamsStored

(* What filter_set_alpha leaves.                                             *)
LEMMA SetAlphaTuned ==
  ASSUME NEW d, NEW a,
         d = [alpha |-> d.alpha, oneMinusAlpha |-> d.oneMinusAlpha, active |-> d.active,
              ready |-> d.ready, fault |-> d.fault, values |-> d.values],
         d.alpha \in 0 .. ParamScale, d.oneMinusAlpha \in 0 .. ParamScale,
         d.alpha + d.oneMinusAlpha = ParamScale \/ d.alpha = DefaultAlpha
  PROVE  LET new == SetAlpha(d, a) IN
         /\ new = [alpha |-> new.alpha, oneMinusAlpha |-> new.oneMinusAlpha,
                   active |-> new.active, ready |-> new.ready, fault |-> new.fault,
                   values |-> new.values]
         /\ new.alpha \in 0 .. ParamScale /\ new.oneMinusAlpha \in 0 .. ParamScale
         /\ new.alpha + new.oneMinusAlpha = ParamScale \/ new.alpha = DefaultAlpha
<1>1. CASE ~AlphaAccepted(d, a)
  BY <1>1 DEF SetAlpha
<1>2. CASE AlphaAccepted(d, a)
  <2>1. SetAlpha(d, a) = [alpha |-> a, oneMinusAlpha |-> ParamScale - a, active |-> d.active,
                          ready |-> d.ready, fault |-> d.fault, values |-> d.values]
    BY <1>2 DEF SetAlpha, AlphaSettled, AlphaSet
  <2>2. /\ a \in 0 .. ParamScale /\ ParamScale - a \in 0 .. ParamScale
        /\ a + (ParamScale - a) = ParamScale
    BY <1>2, FilterAssumption DEF AlphaAccepted
  <2> QED BY <2>1, <2>2
<1> QED BY <1>1, <1>2

(* filter_init, with what was saved.                                         *)
LEMMA FilterBoots ==
  ASSUME FilterStored, NEW d, d = FilterBoot(store.vflt)
  PROVE  /\ d = [alpha |-> d.alpha, oneMinusAlpha |-> d.oneMinusAlpha, active |-> d.active,
                 ready |-> d.ready, fault |-> d.fault, values |-> d.values]
         /\ d.alpha = kept.alpha /\ d.oneMinusAlpha = ParamScale - kept.alpha
<1>1. CASE kept.alpha = DefaultAlpha
  BY <1>1 DEF FilterStored, FilterBoot, LoadAlpha, FilterData
<1>2. CASE kept.alpha # DefaultAlpha
  <2>1. d = SetAlpha(FilterData, kept.alpha)
    BY <1>2 DEF FilterStored, FilterBoot, LoadAlpha
  <2>2. AlphaAccepted(FilterData, kept.alpha)
    BY <1>2 DEF FilterStored, FilterData, AlphaAccepted
  <2>3. d = [alpha |-> kept.alpha, oneMinusAlpha |-> ParamScale - kept.alpha,
             active |-> FilterOn, ready |-> {}, fault |-> {},
             values |-> [i \in Filtered |-> 0]]
    BY <2>1, <2>2 DEF SetAlpha, AlphaSettled, AlphaSet, FilterData
  <2> QED BY <2>3
<1> QED BY <1>1, <1>2

-----------------------------------------------------------------------------
(* param_set keeps every parameter inside its limits, sets the one named to  *)
(* the value clamped and leaves the others.                                  *)
LEMMA ParamSetClamps ==
  ASSUME NEW values, InLimits(values), NEW id \in ParamIds, NEW v \in Int
  PROVE  LET new == ParamSet(values, id, v) IN
         /\ InLimits(new)
         /\ id \in Existing =>
              new[id] = Clamp(v, ParamDesc[id].min, ParamDesc[id].max)
         /\ \A p \in ParamIds : p # id => new[p] = values[p]
<1>1. CASE id \notin Existing
  BY <1>1 DEF ParamSet
<1>2. CASE id \in Existing
  <2> DEFINE lo == ParamDesc[id].min
             hi == ParamDesc[id].max
             new == [values EXCEPT ![id] = Clamp(v, lo, hi)]
  <2>1. lo \in Int /\ hi \in Int /\ lo <= hi
    BY <1>2, ParamsAssumption
  <2> HIDE DEF lo, hi
  <2>2. Clamp(v, lo, hi) \in lo .. hi /\ Clamp(v, lo, hi) \in Int
    BY <2>1 DEF Clamp
  <2>3. /\ new \in [ParamIds -> Int] /\ new[id] = Clamp(v, lo, hi)
        /\ \A p \in ParamIds : p # id => new[p] = values[p]
    BY <2>2 DEF InLimits
  <2>4. ParamSet(values, id, v) = new
    BY <1>2 DEF ParamSet, lo, hi
  <2> HIDE DEF new
  <2>5. ASSUME NEW p \in Existing
        PROVE  new[p] \in ParamDesc[p].min .. ParamDesc[p].max
    <3>1. CASE p = id
      BY <2>2, <2>3, <3>1 DEF lo, hi
    <3>2. CASE p # id
      BY <2>3, <3>2 DEF InLimits, Existing
    <3> QED BY <3>1, <3>2
  <2> QED BY <2>3, <2>4, <2>5 DEF InLimits, lo, hi
<1> QED BY <1>1, <1>2

(* params_reset *)
LEMMA ResetInLimits ==
  ASSUME NEW values \in [ParamIds -> Int]
  PROVE  /\ InLimits(ParamsReset(values))
         /\ \A p \in Existing : ParamsReset(values)[p] = ParamDesc[p].def
<1>1. \A p \in Existing : /\ p \in ParamIds
                          /\ ParamDesc[p].def \in ParamDesc[p].min .. ParamDesc[p].max
                          /\ ParamDesc[p].def \in Int
  BY ParamsAssumption DEF Existing
<1> QED BY <1>1 DEF ParamsReset, InLimits

(* The loop of params_settings_set runs to its end.                          *)
Settled(values, pairs, done, n) ==
  IF n = 0 THEN values
  ELSE ParamSet(done[n - 1], pairs[Len(pairs) - n + 1].id, pairs[Len(pairs) - n + 1].val)

LEMMA RestoredDefined ==
  ASSUME NEW values, NEW pairs, Len(pairs) \in Nat
  PROVE  \E done : /\ \A n \in 0 .. Len(pairs) : done[n] = Settled(values, pairs, done, n)
                   /\ Restored(values, pairs) = done[Len(pairs) - 1]
<1> DEFINE len == Len(pairs)
           Ends(f, k) == f = [n \in 0 .. k |-> Settled(values, pairs, f, n)]
           Far == {k \in Nat : \E f : Ends(f, k)}
           done == CHOOSE f : Ends(f, len)
<1>1. 0 \in Far
  <2>1. Ends([n \in 0 .. 0 |-> values], 0)
    BY DEF Settled
  <2> HIDE DEF Ends
  <2> QED BY <2>1
<1>2. ASSUME NEW k \in Nat, k \in Far
      PROVE  k + 1 \in Far
  <2>1. PICK f : Ends(f, k)
    <3> HIDE DEF Ends
    <3> QED BY <1>2
  <2> DEFINE g == [n \in 0 .. k + 1 |-> IF n = k + 1 THEN Settled(values, pairs, f, n) ELSE f[n]]
  <2>2. ASSUME NEW n \in 0 .. k + 1
        PROVE  g[n] = Settled(values, pairs, g, n)
    <3>1. Settled(values, pairs, g, n) = Settled(values, pairs, f, n)
      <4>1. CASE n = 0
        BY <4>1 DEF Settled
      <4>2. CASE n # 0
        <5>1. n - 1 \in 0 .. k + 1 /\ n - 1 # k + 1
          BY <4>2
        <5>2. g[n - 1] = f[n - 1]
          BY <5>1
        <5> QED BY <4>2, <5>2 DEF Settled
      <4> QED BY <4>1, <4>2
    <3>2. CASE n = k + 1
      BY <3>1, <3>2
    <3>3. CASE n # k + 1
      <4>1. n \in 0 .. k
        BY <3>3
      <4>2. f[n] = Settled(values, pairs, f, n)
        BY <2>1, <4>1
      <4> QED BY <3>1, <3>3, <4>2
    <3> QED BY <3>2, <3>3
  <2>3. Ends(g, k + 1)
    BY <2>2
  <2> HIDE DEF Ends
  <2> QED BY <2>3
<1>3. len \in Far
  <2> HIDE DEF Far
  <2> QED BY <1>1, <1>2, NatSteps
<1>4. Ends(done, len)
  <2> HIDE DEF Ends
  <2> QED BY <1>3
<1>5. Restored(values, pairs) = done[len - 1]
  BY DEF Restored, Settled
<1> HIDE DEF done
<1>6. \A n \in 0 .. len : done[n] = Settled(values, pairs, done, n)
  BY <1>4
<1> QED BY <1>5, <1>6

PairOf == [id : Existing, val : Int]

(* It keeps the limits, and a pair with a value inside them, other than the  *)
(* first one, has its effect unless one before it has the same identifier.   *)
LEMMA RestoredKeeps ==
  ASSUME NEW values, InLimits(values), NEW pairs \in Seq(PairOf), pairs # << >>
  PROVE  /\ InLimits(Restored(values, pairs))
         /\ \A k \in 2 .. Len(pairs) :
              /\ \A j \in 2 .. Len(pairs) : j < k => pairs[j].id # pairs[k].id
              /\ pairs[k].val \in ParamDesc[pairs[k].id].min .. ParamDesc[pairs[k].id].max
              => Restored(values, pairs)[pairs[k].id] = pairs[k].val
<1> DEFINE len == Len(pairs)
           Counts(k) ==
             /\ \A j \in 2 .. len : j < k => pairs[j].id # pairs[k].id
             /\ pairs[k].val \in ParamDesc[pairs[k].id].min .. ParamDesc[pairs[k].id].max
<1>1. len \in Nat \ {0}
  OBVIOUS
<1>2. \A k \in 1 .. len : /\ pairs[k].id \in Existing /\ pairs[k].id \in ParamIds
                          /\ pairs[k].val \in Int
  <2> TAKE k \in 1 .. len
  <2>1. pairs[k] \in PairOf
    OBVIOUS
  <2>2. pairs[k].id \in Existing /\ pairs[k].val \in Int
    BY <2>1 DEF PairOf
  <2> QED BY <2>2 DEF Existing
<1> HIDE DEF len
<1>3. PICK done : /\ \A n \in 0 .. len : done[n] = Settled(values, pairs, done, n)
                  /\ Restored(values, pairs) = done[len - 1]
  BY <1>1, RestoredDefined DEF len
<1> DEFINE Good(n) ==
             /\ InLimits(done[n])
             /\ \A k \in 2 .. len : Counts(k) /\ n >= len - k + 1 => done[n][pairs[k].id] = pairs[k].val
           Far == {n \in Nat : n < len => Good(n)}
<1>4. 0 \in Far
  <2>1. 0 \in 0 .. len
    BY <1>1
  <2>2. done[0] = values
    BY <1>3, <2>1 DEF Settled
  <2>3. \A k \in 2 .. len : ~(0 >= len - k + 1)
    BY <1>1
  <2> HIDE DEF Counts
  <2> QED BY <2>2, <2>3
<1>5. ASSUME NEW n \in Nat, n \in Far
      PROVE  n + 1 \in Far
  <2> SUFFICES ASSUME n + 1 < len
               PROVE  Good(n + 1)
    OBVIOUS
  <2> DEFINE at == len - n
  <2>1. /\ n + 1 \in 0 .. len /\ n + 1 # 0 /\ (n + 1) - 1 = n
        /\ len - (n + 1) + 1 = at /\ at \in 2 .. len /\ at \in 1 .. len
    BY <1>1
  <2>2. done[n + 1] = ParamSet(done[n], pairs[at].id, pairs[at].val)
    BY <1>3, <2>1 DEF Settled, len
  <2>3. Good(n)
    BY <1>1, <1>5
  <2> HIDE DEF at
  <2>4. /\ InLimits(done[n + 1])
        /\ done[n + 1][pairs[at].id] =
             Clamp(pairs[at].val, ParamDesc[pairs[at].id].min, ParamDesc[pairs[at].id].max)
        /\ \A p \in ParamIds : p # pairs[at].id => done[n + 1][p] = done[n][p]
    <3> DEFINE id == pairs[at].id
               v == pairs[at].val
               old == done[n]
               new == done[n + 1]
    <3>1. id \in Existing /\ id \in ParamIds /\ v \in Int
      BY <1>2, <2>1
    <3>2. InLimits(old)
      BY <2>3
    <3>3. new = ParamSet(old, id, v)
      BY <2>2
    <3> HIDE DEF id, v, old, new
    <3>4. /\ InLimits(new) /\ new[id] = Clamp(v, ParamDesc[id].min, ParamDesc[id].max)
          /\ \A p \in ParamIds : p # id => new[p] = old[p]
      BY <3>1, <3>2, <3>3, ParamSetClamps
    <3> QED BY <3>4 DEF id, v, old, new
  <2>5. ASSUME NEW k \in 2 .. len, Counts(k), n + 1 >= len - k + 1
        PROVE  done[n + 1][pairs[k].id] = pairs[k].val
    <3>0. k \in 1 .. len /\ pairs[k].id \in ParamIds
      BY <1>1, <1>2
    <3>1. CASE k = at
      <4>1. /\ {ParamDesc[pairs[k].id].min, ParamDesc[pairs[k].id].max} \subseteq Int
            /\ pairs[k].val \in Int
        BY <1>2, <3>0, ParamsAssumption
      <4>2. Clamp(pairs[k].val, ParamDesc[pairs[k].id].min, ParamDesc[pairs[k].id].max)
              = pairs[k].val
        BY <2>5, <4>1 DEF Clamp
      <4>3. done[n + 1][pairs[k].id] =
              Clamp(pairs[k].val, ParamDesc[pairs[k].id].min, ParamDesc[pairs[k].id].max)
        BY <2>4, <3>1, Zenon
      <4> QED BY <4>2, <4>3, Zenon
    <3>2. CASE k # at
      <4>0. at = len - n /\ len \in Int /\ n \in Int /\ k \in Int
        BY <1>1 DEF at
      <4>1. at < k /\ n >= len - k + 1
        <5>1. \A m, l, i \in Int : m + 1 >= l - i + 1 /\ i # l - m => l - m < i /\ m >= l - i + 1
          OBVIOUS
        <5> QED BY <2>5, <3>2, <4>0, <5>1, Zenon
      <4>2. pairs[at].id # pairs[k].id
        BY <2>1, <2>5, <4>1
      <4>3. done[n][pairs[k].id] = pairs[k].val
        BY <2>3, <2>5, <4>1
      <4> QED BY <2>4, <3>0, <4>2, <4>3
    <3> QED BY <3>1, <3>2
  <2> HIDE DEF Counts
  <2> QED BY <2>4, <2>5
<1>6. Good(len - 1)
  <2>1. len - 1 \in Nat /\ len - 1 < len
    BY <1>1
  <2> HIDE DEF Good
  <2>2. Nat \subseteq Far
    <3> HIDE DEF Far
    <3> QED BY <1>4, <1>5, NatSteps
  <2> QED BY <2>1, <2>2
<1>7. \A k \in 2 .. len : len - 1 >= len - k + 1
  BY <1>1
<1> QED BY <1>3, <1>6, <1>7 DEF len

(* The loop of params_save runs to its end.                                  *)
Filled(values, filled, n) ==
  IF n = 0 THEN << >>
  ELSE IF n - 1 \in NonVolatile
       THEN <<[id |-> n - 1, val |-> values[n - 1]]>> \o filled[n - 1]
       ELSE filled[n - 1]

LEMMA PairsDefined ==
  ASSUME NEW values
  PROVE  \E filled : /\ \A n \in 0 .. NumParams : filled[n] = Filled(values, filled, n)
                     /\ Pairs(values) = filled[NumParams]
<1> DEFINE Ends(f, k) == f = [n \in 0 .. k |-> Filled(values, f, n)]
           Far == {k \in Nat : \E f : Ends(f, k)}
           filled == CHOOSE f : Ends(f, NumParams)
<1>1. 0 \in Far
  <2>1. Ends([n \in 0 .. 0 |-> << >>], 0)
    BY DEF Filled
  <2> HIDE DEF Ends
  <2> QED BY <2>1
<1>2. ASSUME NEW k \in Nat, k \in Far
      PROVE  k + 1 \in Far
  <2>1. PICK f : Ends(f, k)
    <3> HIDE DEF Ends
    <3> QED BY <1>2
  <2> DEFINE g == [n \in 0 .. k + 1 |-> IF n = k + 1 THEN Filled(values, f, n) ELSE f[n]]
  <2>2. ASSUME NEW n \in 0 .. k + 1
        PROVE  g[n] = Filled(values, g, n)
    <3>1. Filled(values, g, n) = Filled(values, f, n)
      <4>1. CASE n = 0
        BY <4>1 DEF Filled
      <4>2. CASE n # 0
        <5>1. n - 1 \in 0 .. k + 1 /\ n - 1 # k + 1
          BY <4>2
        <5>2. g[n - 1] = f[n - 1]
          BY <5>1
        <5> HIDE DEF g
        <5> QED BY <4>2, <5>2 DEF Filled
      <4> QED BY <4>1, <4>2
    <3>2. CASE n = k + 1
      BY <3>1, <3>2
    <3>3. CASE n # k + 1
      <4>1. n \in 0 .. k
        BY <3>3
      <4>2. f[n] = Filled(values, f, n)
        BY <2>1, <4>1
      <4> QED BY <3>1, <3>3, <4>2
    <3> QED BY <3>2, <3>3
  <2>3. Ends(g, k + 1)
    BY <2>2
  <2> HIDE DEF Ends
  <2> QED BY <2>3
<1>3. NumParams \in Far
  <2> HIDE DEF Far
  <2> QED BY <1>1, <1>2, NatSteps, ParamsAssumption
<1>4. Ends(filled, NumParams)
  <2> HIDE DEF Ends
  <2> QED BY <1>3
<1>5. Pairs(values) = filled[NumParams]
  BY DEF Pairs, Filled
<1> HIDE DEF filled
<1>6. \A n \in 0 .. NumParams : filled[n] = Filled(values, filled, n)
  BY <1>4
<1> QED BY <1>5, <1>6

(* What is saved: the value of every non-volatile parameter, once, those     *)
(* with the highest identifiers first.                                       *)
Saves(values, pairs, n) ==
  /\ pairs \in Seq(PairOf)
  /\ \A k \in 1 .. Len(pairs) : /\ pairs[k].id \in NonVolatile /\ pairs[k].id < n
                                /\ pairs[k].val = values[pairs[k].id]
  /\ \A p \in NonVolatile : p < n => \E k \in 1 .. Len(pairs) : pairs[k].id = p
  /\ \A j, k \in 1 .. Len(pairs) : j < k => pairs[j].id > pairs[k].id

LEMMA SavesOneMore ==
  ASSUME NEW values \in [ParamIds -> Int], NEW pairs, NEW n \in Nat, n < NumParams,
         Saves(values, pairs, n)
  PROVE  Saves(values,
               IF n \in NonVolatile THEN <<[id |-> n, val |-> values[n]]>> \o pairs ELSE pairs,
               n + 1)
<1>1. n \in ParamIds /\ NonVolatile \subseteq Existing /\ Existing \subseteq ParamIds
      /\ ParamIds \subseteq Nat /\ NonVolatile \subseteq Nat
  BY ParamsAssumption DEF ParamIds, NonVolatile, Existing
<1>2. CASE n \notin NonVolatile
  <2>1. \A p \in NonVolatile : p < n + 1 => p < n
    BY <1>1, <1>2
  <2>2. \A k \in 1 .. Len(pairs) : pairs[k].id < n + 1
    <3> TAKE k \in 1 .. Len(pairs)
    <3>1. pairs[k].id < n /\ pairs[k].id \in Nat
      BY <1>1 DEF Saves
    <3> QED BY <3>1
  <2> QED BY <1>2, <2>1, <2>2 DEF Saves
<1>3. CASE n \in NonVolatile
  <2> DEFINE pair == [id |-> n, val |-> values[n]]
             more == <<pair>> \o pairs
  <2>1. pair \in PairOf /\ pair.id = n /\ pair.val = values[n]
    BY <1>1, <1>3 DEF PairOf
  <2> HIDE DEF pair
  <2>2. /\ pairs \in Seq(PairOf) /\ Len(pairs) \in Nat
        /\ more \in Seq(PairOf) /\ Len(more) = Len(pairs) + 1
        /\ more[1] = pair
        /\ \A k \in 1 .. Len(pairs) : more[k + 1] = pairs[k]
    BY <2>1 DEF Saves
  <2> HIDE DEF more
  <2>3. \A k \in 1 .. Len(more) : k = 1 \/ (k - 1 \in 1 .. Len(pairs) /\ more[k] = pairs[k - 1])
    <3> TAKE k \in 1 .. Len(more)
    <3>1. k # 1 => k - 1 \in 1 .. Len(pairs) /\ (k - 1) + 1 = k
      BY <2>2
    <3> QED BY <2>2, <3>1
  <2>4. \A k \in 1 .. Len(more) : /\ more[k].id \in NonVolatile /\ more[k].id < n + 1
                                  /\ more[k].val = values[more[k].id]
    <3> TAKE k \in 1 .. Len(more)
    <3>1. CASE k = 1
      BY <1>3, <2>1, <2>2, <3>1
    <3>2. CASE k # 1
      <4>1. /\ pairs[k - 1].id \in NonVolatile /\ pairs[k - 1].id < n
            /\ pairs[k - 1].val = values[pairs[k - 1].id]
        BY <2>3, <3>2 DEF Saves
      <4>2. pairs[k - 1].id \in Nat
        BY <1>1, <4>1
      <4>3. pairs[k - 1].id < n + 1
        BY <4>1, <4>2
      <4> QED BY <2>3, <3>2, <4>1, <4>3
    <3> QED BY <3>1, <3>2
  <2>5. ASSUME NEW p \in NonVolatile, p < n + 1
        PROVE  \E k \in 1 .. Len(more) : more[k].id = p
    <3>1. CASE p = n
      BY <2>1, <2>2, <3>1
    <3>2. CASE p # n
      <4>1. PICK k \in 1 .. Len(pairs) : pairs[k].id = p
        BY <1>1, <2>5, <3>2 DEF Saves
      <4>2. k + 1 \in 1 .. Len(more) /\ more[k + 1].id = p
        BY <2>2, <4>1
      <4> QED BY <4>2
    <3> QED BY <3>1, <3>2
  <2>6. ASSUME NEW j \in 1 .. Len(more), NEW k \in 1 .. Len(more), j < k
        PROVE  more[j].id > more[k].id
    <3>1. k - 1 \in 1 .. Len(pairs) /\ more[k] = pairs[k - 1]
      BY <2>3, <2>6
    <3>2. CASE j = 1
      <4>1. pairs[k - 1].id < n /\ pairs[k - 1].id \in Nat
        BY <1>1, <3>1 DEF Saves
      <4> QED BY <2>1, <2>2, <3>1, <3>2, <4>1
    <3>3. CASE j # 1
      <4>1. j - 1 \in 1 .. Len(pairs) /\ more[j] = pairs[j - 1] /\ j - 1 < k - 1
        BY <2>3, <2>6, <3>3
      <4> QED BY <3>1, <4>1 DEF Saves
    <3> QED BY <3>2, <3>3
  <2>7. Saves(values, more, n + 1)
    BY <2>2, <2>4, <2>5, <2>6 DEF Saves
  <2> QED BY <1>3, <2>7 DEF more, pair
<1> QED BY <1>2, <1>3

LEMMA PairsSave ==
  ASSUME NEW values \in [ParamIds -> Int]
  PROVE  Saves(values, Pairs(values), NumParams)
<1>1. PICK filled : /\ \A n \in 0 .. NumParams : filled[n] = Filled(values, filled, n)
                    /\ Pairs(values) = filled[NumParams]
  BY PairsDefined
<1> DEFINE Far == {n \in Nat : n <= NumParams => Saves(values, filled[n], n)}
<1>2. 0 \in Far
  <2>1. filled[0] = << >>
    <3>1. 0 \in 0 .. NumParams
      BY ParamsAssumption
    <3> QED BY <1>1, <3>1 DEF Filled
  <2>2. \A p \in NonVolatile : ~(p < 0)
    BY ParamsAssumption DEF NonVolatile, Existing, ParamIds
  <2>3. Saves(values, << >>, 0)
    BY <2>2 DEF Saves
  <2> QED BY <2>1, <2>3
<1>3. ASSUME NEW n \in Nat, n \in Far
      PROVE  n + 1 \in Far
  <2> SUFFICES ASSUME n + 1 <= NumParams
               PROVE  Saves(values, filled[n + 1], n + 1)
    OBVIOUS
  <2>1. n + 1 \in 0 .. NumParams /\ n + 1 # 0 /\ (n + 1) - 1 = n /\ n < NumParams
        /\ n <= NumParams
    BY ParamsAssumption
  <2>2. filled[n + 1] = IF n \in NonVolatile
                        THEN <<[id |-> n, val |-> values[n]]>> \o filled[n] ELSE filled[n]
    BY <1>1, <2>1 DEF Filled
  <2>3. Saves(values, filled[n], n)
    BY <1>3, <2>1
  <2> QED BY <2>1, <2>2, <2>3, SavesOneMore
<1>4. NumParams \in Far
  <2> HIDE DEF Far
  <2> QED BY <1>2, <1>3, NatSteps, ParamsAssumption
<1> QED BY <1>1, <1>4, ParamsAssumption

(* params_load after params_save: whatever lies on the stack, every value is *)
(* inside its limits, and every non-volatile parameter but the one with the  *)
(* highest identifier has the value saved.                                   *)
LEMMA LoadsSaved ==
  ASSUME NEW values, InLimits(values), NEW held, InLimits(held), NEW stack \in Stacks
  PROVE  LET loaded == LoadParams(values, <<Pairs(held)>>, stack) IN
         /\ InLimits(loaded)
         /\ \A p, q \in NonVolatile : q > p => loaded[p] = held[p]
<1> DEFINE saved == Pairs(held)
           all == saved \o stack
           loaded == LoadParams(values, <<saved>>, stack)
<1>1. Saves(held, saved, NumParams)
  BY PairsSave DEF InLimits
<1>2. \A p \in NonVolatile : p \in Nat /\ p < NumParams /\ p \in Existing /\ p \in ParamIds
  BY ParamsAssumption DEF NonVolatile, Existing, ParamIds
<1> HIDE DEF saved
<1>3. CASE saved = << >>
  <2>1. loaded = values
    BY <1>3 DEF LoadParams
  <2>2. NonVolatile = {}
    BY <1>1, <1>2, <1>3 DEF Saves
  <2> QED BY <2>1, <2>2 DEF saved
<1>4. CASE saved # << >>
  <2>1. saved \in Seq(PairOf) /\ stack \in Seq(PairOf)
    BY <1>1, TuningAssumption DEF Saves, PairOf
  <2>2. /\ all \in Seq(PairOf) /\ all # << >> /\ Len(saved) \in Nat
        /\ Len(all) \in Nat /\ Len(saved) <= Len(all)
        /\ \A k \in 1 .. Len(saved) : all[k] = saved[k]
    BY <1>4, <2>1
  <2>3. loaded = Restored(values, all)
    BY <1>4 DEF LoadParams
  <2> HIDE DEF all, loaded
  <2>4. InLimits(loaded)
    BY <2>2, <2>3, RestoredKeeps
  <2>5. ASSUME NEW p \in NonVolatile, NEW q \in NonVolatile, q > p
        PROVE  loaded[p] = held[p]
    <3>1. PICK k \in 1 .. Len(saved) : saved[k].id = p
      BY <1>1, <1>2 DEF Saves
    <3>2. PICK l \in 1 .. Len(saved) : saved[l].id = q
      BY <1>1, <1>2 DEF Saves
    <3>3. l < k
      <4>1. l # k
        BY <1>2, <2>5, <3>1, <3>2
      <4>2. ~(k < l)
        BY <1>1, <1>2, <2>5, <3>1, <3>2 DEF Saves
      <4> QED BY <2>2, <4>1, <4>2
    <3>4. k \in 2 .. Len(all) /\ all[k] = saved[k]
      BY <2>2, <3>3
    <3>5. \A j \in 2 .. Len(all) : j < k => all[j].id # all[k].id
      <4> TAKE j \in 2 .. Len(all)
      <4> HAVE j < k
      <4>1. j \in 1 .. Len(saved) /\ all[j] = saved[j]
        BY <2>2
      <4>2. saved[j].id > saved[k].id /\ saved[j].id \in Nat /\ saved[k].id \in Nat
        BY <1>1, <1>2, <4>1 DEF Saves
      <4> QED BY <3>4, <4>1, <4>2
    <3>6. all[k].val = held[p] /\ all[k].id = p
      BY <1>1, <3>1, <3>4 DEF Saves
    <3>7. all[k].val \in ParamDesc[all[k].id].min .. ParamDesc[all[k].id].max
      BY <1>2, <3>6 DEF InLimits
    <3> QED BY <2>2, <2>3, <3>4, <3>5, <3>6, <3>7, RestoredKeeps
  <2> QED BY <2>4, <2>5 DEF loaded, saved
<1> QED BY <1>3, <1>4

LEMMA BootsDefault ==
  /\ InLimits(ParamsReset([p \in ParamIds |-> 0]))
  /\ \A p \in Existing : ParamsReset([q \in ParamIds |-> 0])[p] = ParamDesc[p].def
<1>1. [p \in ParamIds |-> 0] \in [ParamIds -> Int]
  OBVIOUS
<1> QED BY <1>1, ResetInLimits

LEMMA ParamsBoots ==
  ASSUME ParamsStored, NEW stack \in Stacks
  PROVE  /\ InLimits(ParamsBoot(store.vpar, stack))
         /\ \A p, q \in NonVolatile :
              q > p => ParamsBoot(store.vpar, stack)[p] = kept.params[p]
<1> DEFINE base == ParamsReset([p \in ParamIds |-> 0])
<1>1. InLimits(base) /\ \A p \in Existing : base[p] = ParamDesc[p].def
  BY BootsDefault
<1> HIDE DEF base
<1>2. ParamsBoot(store.vpar, stack) = LoadParams(base, store.vpar, stack)
  BY DEF ParamsBoot, base
<1>3. CASE store.vpar = << >>
  <2>1. LoadParams(base, store.vpar, stack) = base
    BY <1>3 DEF LoadParams
  <2>2. \A p \in NonVolatile : p \in Existing
    BY DEF NonVolatile
  <2> QED BY <1>1, <1>2, <1>3, <2>1, <2>2 DEF ParamsStored
<1>4. CASE store.vpar = <<Pairs(kept.params)>>
  BY <1>1, <1>2, <1>4, LoadsSaved DEF ParamsStored
<1> QED BY <1>3, <1>4 DEF ParamsStored

-----------------------------------------------------------------------------
LEMMA MixDefault ==
  ASSUME NEW m, m = LoadWeights(ResetWeights(MixData), << >>)
  PROVE  m = [active |-> MixOn, ready |-> FALSE, output |-> 0, weights |-> DefaultWeights]
BY DEF ResetWeights, MixData, LoadWeights

LEMMA InitTuning == Init => TuningInv
<1> SUFFICES ASSUME Init
             PROVE  TuningInv
  OBVIOUS
<1> USE DEF Init
<1>1. StoreShape
  BY DEF StoreShape, Empty
<1>2. filter = FilterData
  BY DEF FilterBoot, LoadAlpha
<1>3. DefaultAlpha \in 0 .. ParamScale /\ ParamScale - DefaultAlpha \in 0 .. ParamScale
      /\ DefaultAlpha + (ParamScale - DefaultAlpha) = ParamScale
  BY FilterAssumption
<1>4. FilterTuned
  BY <1>2, <1>3 DEF FilterTuned, FilterData, ApartOnlyByReset
<1>5. FilterStored
  BY <1>3 DEF FilterStored, Empty
<1>6. mix = [active |-> MixOn, ready |-> FALSE, output |-> 0, weights |-> DefaultWeights]
  BY MixDefault DEF MixBoot, Empty
<1>7. MixTuned /\ MixStored
  BY <1>6, MixAssumption DEF MixTuned, MixStored, Empty
<1>8. params = ParamsReset([p \in ParamIds |-> 0])
  BY DEF ParamsBoot, LoadParams
<1>9. InLimits(params) /\ ParamsStored
  BY <1>8, BootsDefault DEF ParamsStored, Empty
<1> QED BY <1>1, <1>4, <1>5, <1>7, <1>9 DEF TuningInv

(* settings_load_subtree, with a name or without.                            *)
LEMMA Loads ==
  ASSUME TuningInv, NEW name, NEW stack \in Stacks, LoadSubtree(name, stack),
         UNCHANGED <<store, kept>>
  PROVE  TuningInv'
<1>1. FilterTuned'
  <2>1. CASE \E a : filter' = SetAlpha(filter, a)
    <3>1. PICK a : filter' = SetAlpha(filter, a)
      BY <2>1
    <3> QED BY <3>1, SetAlphaTuned DEF TuningInv, FilterTuned, ApartOnlyByReset
  <2>2. CASE filter' = filter
    BY <2>2 DEF TuningInv, FilterTuned, ApartOnlyByReset
  <2> QED BY <2>1, <2>2 DEF LoadSubtree, LoadAlpha
<1>2. mix' = mix
  BY DEF LoadSubtree, LoadWeights, TuningInv, MixStored
<1>3. InLimits(params')
  <2>1. InLimits(params) /\ ParamsStored
    BY DEF TuningInv
  <2>2. params' = params \/ params' = LoadParams(params, store.vpar, stack)
    BY DEF LoadSubtree
  <2>3. CASE store.vpar = << >>
    BY <2>1, <2>2, <2>3 DEF LoadParams
  <2>4. CASE store.vpar = <<Pairs(kept.params)>>
    BY <2>1, <2>2, <2>4, LoadsSaved DEF ParamsStored
  <2> QED BY <2>1, <2>3, <2>4 DEF ParamsStored
<1> QED BY <1>1, <1>2, <1>3 DEF TuningInv, StoreShape, FilterStored, MixTuned, MixStored,
                                ParamsStored, InLimits

(* The calls to the filter.                                                  *)
LEMMA FilterCalls ==
  ASSUME TuningInv,
         \/ \E v \in Written : FilterParam(v)
         \/ FilterReset
  PROVE  TuningInv'
<1>1. UNCHANGED <<mix, params, store, kept>>
  BY DEF FilterParam, FilterReset
<1>2. filter' = ResetAlpha(filter) \/ (\E a : filter' = SetAlpha(filter, a))
  BY DEF FilterParam, FilterReset
<1>3. FilterTuned'
  <2>1. CASE \E a : filter' = SetAlpha(filter, a)
    <3>1. PICK a : filter' = SetAlpha(filter, a)
      BY <2>1
    <3> QED BY <3>1, SetAlphaTuned DEF TuningInv, FilterTuned, ApartOnlyByReset
  <2>2. CASE filter' = ResetAlpha(filter)
    BY <2>2, FilterAssumption DEF ResetAlpha, TuningInv, FilterTuned, ApartOnlyByReset
  <2> QED BY <1>2, <2>1, <2>2
<1> QED BY <1>1, <1>3 DEF TuningInv, StoreShape, FilterStored, MixTuned, MixStored, ParamsStored,
                          InLimits

LEMMA FilterSaves ==
  ASSUME TuningInv, NEW done \in BOOLEAN, FilterSave(done)
  PROVE  TuningInv'
<1>1. UNCHANGED <<filter, mix, params>>
  BY DEF FilterSave
<1>2. /\ StoreShape' /\ FilterStored'
      /\ UNCHANGED <<store.vmix, store.vpar, kept.weights, kept.params>>
  <2>1. CASE done
    <3>1. /\ store' = [store EXCEPT !.vflt = IF filter.alpha # DefaultAlpha
                                            THEN <<filter.alpha>> ELSE << >>]
          /\ kept' = [kept EXCEPT !.alpha = filter.alpha]
      BY <2>1 DEF FilterSave, Save, NoName, AlphaToSave
    <3> QED BY <3>1 DEF TuningInv, StoreShape, FilterStored, FilterTuned
  <2>2. CASE ~done
    BY <2>2 DEF FilterSave, Save, TuningInv, StoreShape, FilterStored
  <2> QED BY <2>1, <2>2
<1> QED BY <1>1, <1>2 DEF TuningInv, FilterTuned, ApartOnlyByReset, MixTuned, MixStored,
                          ParamsStored, InLimits

(* The calls to the mixer.                                                   *)
LEMMA MixCalls ==
  ASSUME TuningInv,
         \/ \E v \in Written, i \in Inputs : MixWeight(i, v)
         \/ \E k \in Inputs, n \in 0 .. NumInputs + 1 : MixSelect(k, n)
         \/ MixReset
  PROVE  TuningInv'
<1>1. UNCHANGED <<filter, params, store, kept>>
  BY DEF MixWeight, MixSelect, MixReset
<1> DEFINE Shaped(m) ==
             /\ m = [active |-> m.active, ready |-> m.ready, output |-> m.output,
                     weights |-> m.weights]
             /\ m.weights \in [Inputs -> Int]
<1>2. Shaped(mix)
  BY DEF TuningInv, MixTuned
<1>3. MixTuned'
  <2>1. ASSUME NEW v \in Written, NEW i \in Inputs, MixWeight(i, v)
        PROVE  MixTuned'
    <3>1. v \in Int
      BY TuningAssumption
    <3> QED BY <1>2, <2>1, <3>1 DEF MixWeight, SetWeight, MixTuned
  <2>2. ASSUME NEW k \in Inputs, NEW n \in 0 .. NumInputs + 1, MixSelect(k, n)
        PROVE  MixTuned'
    <3> DEFINE written ==
                 [mix EXCEPT !.weights = [i \in Inputs |->
                    IF i >= n THEN @[i] ELSE IF i = 0 /\ k = 0 THEN WeightScale ELSE 0]]
    <3>1. Shaped(written)
      BY <1>2, MixAssumption
    <3> HIDE DEF written
    <3>2. mix' = written \/ mix' = MixSwitched(MixSwitch(written, FALSE))
      BY <2>2 DEF MixSelect, ShellSelect, written
    <3> QED BY <3>1, <3>2 DEF MixTuned, MixSwitched, MixSwitch
  <2>3. CASE MixReset
    BY <1>2, <2>3, MixAssumption DEF MixReset, ResetWeights, MixTuned
  <2> QED BY <2>1, <2>2, <2>3
<1> QED BY <1>1, <1>3 DEF TuningInv, StoreShape, FilterTuned, ApartOnlyByReset, FilterStored,
                          MixStored, ParamsStored, InLimits

LEMMA MixSaves ==
  ASSUME TuningInv, NEW done \in BOOLEAN, MixSave(done)
  PROVE  TuningInv'
<1>1. UNCHANGED <<filter, mix, params, store>>
  BY DEF MixSave, Save, MixSettingsName
<1>2. StoreShape' /\ UNCHANGED <<kept.alpha, kept.params>>
  BY <1>1 DEF MixSave, TuningInv, StoreShape
<1> QED BY <1>1, <1>2 DEF TuningInv, FilterTuned, ApartOnlyByReset, FilterStored, MixTuned,
                          MixStored, ParamsStored, InLimits

(* The calls to the parameters.                                              *)
LEMMA ParamCalls ==
  ASSUME TuningInv,
         \/ \E v \in Written, p \in ParamIds : ParamWrite(p, v)
         \/ ParamsResetAll
  PROVE  TuningInv'
<1>1. UNCHANGED <<filter, mix, store, kept>>
  BY DEF ParamWrite, ParamsResetAll
<1>2. InLimits(params) /\ ParamsStored
  BY DEF TuningInv
<1>3. InLimits(params')
  <2>1. ASSUME NEW v \in Written, NEW p \in ParamIds, ParamWrite(p, v)
        PROVE  InLimits(params')
    <3>1. v \in Int /\ params' = ParamSet(params, p, v)
      BY <2>1, TuningAssumption DEF ParamWrite
    <3> QED BY <1>2, <3>1, ParamSetClamps
  <2>2. CASE ParamsResetAll
    BY <1>2, <2>2, ResetInLimits DEF ParamsResetAll, InLimits
  <2> QED BY <2>1, <2>2
<1> QED BY <1>1, <1>3 DEF TuningInv, StoreShape, FilterTuned, ApartOnlyByReset, FilterStored,
                          MixTuned, MixStored, ParamsStored, InLimits

LEMMA ParamSaves ==
  ASSUME TuningInv, NEW done \in BOOLEAN, ParamsSave(done)
  PROVE  TuningInv'
<1>1. UNCHANGED <<filter, mix, params>>
  BY DEF ParamsSave
<1>2. /\ StoreShape' /\ ParamsStored'
      /\ UNCHANGED <<store.vflt, store.vmix, kept.alpha, kept.weights>>
  <2>1. CASE done
    <3>1. /\ store' = [store EXCEPT !.vpar = <<Pairs(params)>>]
          /\ kept' = [kept EXCEPT !.params = params]
      BY <2>1 DEF ParamsSave, Save, NoName
    <3>2. /\ store'.vpar = <<Pairs(params)>> /\ kept'.params = params /\ StoreShape'
          /\ UNCHANGED <<store.vflt, store.vmix, kept.alpha, kept.weights>>
      BY <3>1 DEF TuningInv, StoreShape
    <3> QED BY <3>2 DEF TuningInv, ParamsStored, InLimits
  <2>2. CASE ~done
    BY <2>2 DEF ParamsSave, Save, TuningInv, StoreShape, ParamsStored, InLimits
  <2> QED BY <2>1, <2>2
<1> QED BY <1>1, <1>2 DEF TuningInv, FilterTuned, ApartOnlyByReset, FilterStored, MixTuned,
                          MixStored, InLimits

(* What a power cycle brings up.                                             *)
LEMMA RestartRestores ==
  ASSUME TuningInv, NEW stack \in Stacks, NEW again \in Stacks, Restart(stack, again)
  PROVE  /\ TuningInv'
         /\ filter'.alpha = kept.alpha /\ filter'.oneMinusAlpha = ParamScale - kept.alpha
         /\ mix'.weights = DefaultWeights
         /\ \A p, q \in NonVolatile : q > p => params'[p] = kept.params[p]
<1>1. UNCHANGED <<store, kept>>
  BY DEF Restart
<1>2. /\ filter' = [alpha |-> filter'.alpha, oneMinusAlpha |-> filter'.oneMinusAlpha,
                    active |-> filter'.active, ready |-> filter'.ready,
                    fault |-> filter'.fault, values |-> filter'.values]
      /\ filter'.alpha = kept.alpha /\ filter'.oneMinusAlpha = ParamScale - kept.alpha
  BY FilterBoots DEF Restart, TuningInv
<1>3. FilterTuned'
  <2>1. /\ kept.alpha \in 0 .. ParamScale /\ ParamScale - kept.alpha \in 0 .. ParamScale
        /\ kept.alpha + (ParamScale - kept.alpha) = ParamScale
    BY FilterAssumption DEF TuningInv, FilterStored
  <2> QED BY <1>2, <2>1 DEF FilterTuned, ApartOnlyByReset
<1>4. mix' = [active |-> MixOn, ready |-> FALSE, output |-> 0, weights |-> DefaultWeights]
  BY MixDefault DEF Restart, MixBoot, TuningInv, MixStored
<1>5. MixTuned' /\ mix'.weights = DefaultWeights
  BY <1>4, MixAssumption DEF MixTuned
<1>6. /\ InLimits(params')
      /\ \A p, q \in NonVolatile : q > p => params'[p] = kept.params[p]
  <2> DEFINE booted == ParamsBoot(store.vpar, stack)
             reloaded == LoadParams(booted, store.vpar, again)
  <2>1. /\ InLimits(booted)
        /\ \A p, q \in NonVolatile : q > p => booted[p] = kept.params[p]
    BY ParamsBoots DEF TuningInv
  <2>2. params' = booted \/ params' = reloaded
    BY DEF Restart
  <2> HIDE DEF booted
  <2>3. CASE store.vpar = << >>
    BY <2>1, <2>2, <2>3 DEF LoadParams
  <2>4. CASE store.vpar = <<Pairs(kept.params)>>
    BY <2>1, <2>2, <2>4, LoadsSaved DEF TuningInv, ParamsStored
  <2> QED BY <2>3, <2>4 DEF TuningInv, ParamsStored
<1>7. TuningInv'
  BY <1>1, <1>3, <1>5, <1>6 DEF TuningInv, StoreShape, FilterStored, MixStored, ParamsStored,
                                InLimits
<1> QED BY <1>2, <1>5, <1>6, <1>7

LEMMA TuningInductive == TuningInv /\ [Next]_vars => TuningInv'
<1> SUFFICES ASSUME TuningInv, [Next]_vars
             PROVE  TuningInv'
  OBVIOUS
<1>1. CASE UNCHANGED vars
  BY <1>1 DEF vars, TuningInv, StoreShape, FilterTuned, ApartOnlyByReset, FilterStored,
              MixTuned, MixStored, ParamsStored, InLimits
<1>2. ASSUME NEW stack \in Stacks, FilterLoad(stack) \/ MixLoad(stack) \/ ParamsLoad(stack)
      PROVE  TuningInv'
  BY <1>2, Loads DEF FilterLoad, MixLoad, ParamsLoad
<1>3. ASSUME NEW stack \in Stacks, NEW again \in Stacks, Restart(stack, again)
      PROVE  TuningInv'
  BY <1>3, RestartRestores
<1> QED BY <1>1, <1>2, <1>3, FilterCalls, FilterSaves, MixCalls, MixSaves, ParamCalls, ParamSaves
        DEF Next

LEMMA TuningInvariant == Spec => []TuningInv
  BY InitTuning, TuningInductive, PTL DEF Spec

(* Whatever is written, saved and loaded, over power cycles and with         *)
(* anything on the stack: alpha and the other weight stay between 0 and 1,   *)
(* and every parameter between its limits (param_set, params_settings_set,   *)
(* filter_set_alpha).                                                        *)
THEOREM ParametersInLimits == Spec => []TuningTypeOK
<1>1. TuningInv => TuningTypeOK
  BY DEF TuningInv, FilterTuned, MixTuned, InLimits, TuningTypeOK
<1> QED BY <1>1, TuningInvariant, PTL

(* Only the reset of alpha takes it apart from the other weight, and only at *)
(* the default alpha (filter_param_reset, filter_set_alpha).                 *)
THEOREM OnlyResetTakesApart == Spec => []ApartOnlyByReset
<1>1. TuningInv => ApartOnlyByReset
  BY DEF TuningInv, FilterTuned
<1> QED BY <1>1, TuningInvariant, PTL

(* For every scale, period and width of a value_t: a number of samples that  *)
(* fits reads back exactly, and a window that fits never smooths more than   *)
(* before (filter_value_get, filter_value_set).                              *)
THEOREM SamplesReadBack == Spec => []ReadBack
<1>1. TuningInv => ReadBack
  <2> SUFFICES ASSUME TuningInv, filter.alpha > 0, Unit2 \div filter.alpha <= ValueMax
               PROVE  /\ SamplesToAlpha(AlphaToSamples(filter.alpha)) = filter.alpha
                      /\ ((Unit2 \div filter.alpha - ParamScale) * Period) \div ParamScale <= ValueMax =>
                           WindowToAlpha(AlphaToWindow(filter.alpha)) \in filter.alpha .. ParamScale
    BY DEF ReadBack
  <2> DEFINE a == filter.alpha
             n == Unit2
             samples == n \div a
             s == ParamScale
  <2>1. /\ a \in 1 .. s /\ s \in Nat \ {0} /\ n \in Nat /\ n = 2 * s * s
        /\ s <= ValueMax /\ ValueMax \in Nat /\ samples <= ValueMax
    BY FilterAssumption, ValueAssumption DEF TuningInv, FilterTuned, Unit2
  <2> HIDE DEF a, n
  <2>2. samples \in Nat /\ samples >= 2 * s /\ n \div samples = a
    BY <2>1, SamplesExact
  <2> HIDE DEF samples
  <2>3. /\ samples \in 0 .. ValueMax /\ samples - s \in 0 .. ValueMax /\ samples \in Nat \ {0}
        /\ (samples - s) + s = samples /\ a \in 0 .. ValueMax
    BY <2>1, <2>2
  <2> HIDE DEF s
  <2>4. AlphaToSamples(a) = samples - s
    BY <2>3, NarrowFits DEF AlphaToSamples, samples, n, s
  <2>5. SamplesDivisor(samples - s) = samples
    BY <2>3, NarrowFits DEF SamplesDivisor, s
  <2>6. SamplesToAlpha(samples - s) = a
    BY <2>1, <2>2, <2>3, <2>5, QuotientNat, NarrowFits DEF SamplesToAlpha, n
  <2>7. SamplesToAlpha(AlphaToSamples(filter.alpha)) = filter.alpha
    BY <2>4, <2>6 DEF a
  <2>8. ASSUME ((Unit2 \div filter.alpha - ParamScale) * Period) \div ParamScale <= ValueMax
        PROVE  WindowToAlpha(AlphaToWindow(filter.alpha)) \in filter.alpha .. ParamScale
    BY <2>1, <2>8, WindowLarger DEF a, s
  <2> QED BY <2>7, <2>8
<1> QED BY <1>1, TuningInvariant, PTL

(* What was saved is back after every power cycle: alpha with the weight     *)
(* that matches it, and the non-volatile parameters but for the highest, for *)
(* any number of parameters, anything on the stack and whether the mixer     *)
(* loads them a second time or not (params_save, params_settings_set,        *)
(* filter_param_save, mix_init).                                             *)
THEOREM SettingsSurvive == Spec => SurvivesRestart
<1>1. TuningInv /\ [Next]_vars =>
        (Restarts =>
           /\ filter'.alpha = kept.alpha
           /\ filter'.oneMinusAlpha = ParamScale - kept.alpha
           /\ \A p \in NonVolatile :
                (\E q \in NonVolatile : q > p) => params'[p] = kept.params[p])
  BY RestartRestores DEF Restarts
<1> QED BY <1>1, TuningInvariant, PTL DEF Spec, SurvivesRestart

(* The weights of the mixer are not among them: every power cycle brings up  *)
(* the default weights, whatever was saved, since the settings have no name  *)
(* (mix_config_##id, mix_weights_save).                                      *)
THEOREM WeightsForgotten == Spec => [][Restarts => mix'.weights = DefaultWeights]_vars
<1>1. TuningInv /\ [Next]_vars => (Restarts => mix'.weights = DefaultWeights)
  BY RestartRestores DEF Restarts
<1> QED BY <1>1, TuningInvariant, PTL DEF Spec
===============================================================================
