--------------------------- MODULE BusConfigProofs --------------------------
(***************************************************************************)
(* For every platform and however power comes and goes: an initialised      *)
(* block keeps its timing.  And what the formulas of getBusConfig compute,  *)
(* for every clock and time.                                                *)
(***************************************************************************)
EXTENDS BusConfig, TLAPS

Steps == {"clock", "SSCN", "FMCN", "ss", "fs", "hold", "init", "up", "failed"}

TypeOK ==
  /\ platform \in Platforms /\ step \in Steps
  /\ config \in [Keys -> Int] /\ registers \in [Keys -> Int]
  /\ awake \in BOOLEAN /\ stuck \in BOOLEAN /\ met \in BOOLEAN

(* What start has written or a wake has restored. *)
Restored ==
  step = "up" /\ awake /\ ~stuck =>
    /\ \A k \in Keys \ {"sda_hold"} : registers[k] = config[k]
    /\ config["sda_hold"] # 0 => registers["sda_hold"] = config["sda_hold"]

(* What start has made of the hold time. *)
HoldAdjusted ==
  step \in {"init", "up"} /\ platform.new /\ met => RxHold(config["sda_hold"]) # 0

IInv == TypeOK /\ Restored /\ HoldAdjusted

LEMMA QuotientStep ==
  ASSUME NEW h \in Int, NEW r \in Nat \ {0}
  PROVE  (h + r) \div r = h \div r + 1
  OBVIOUS

LEMMA NoHoldNoRx == RxHold(0) = 0
BY WordAssumption DEF RxHold

(* Adding the shift to a hold time without a reception part gives it one. *)
LEMMA RxHoldAdded ==
  ASSUME NEW h \in Int, RxHold(h) = 0
  PROVE  RxHold(h + RxShift) # 0
<1>1. (h + RxShift) \div RxShift = h \div RxShift + 1
  BY QuotientStep, WordAssumption
<1>2. h \div RxShift \in Int
  BY WordAssumption
<1> DEFINE q == h \div RxShift
<1>3. q % 256 = 0 /\ q \in Int
  BY <1>2 DEF RxHold
<1> HIDE DEF q
<1>4. (q + 1) % 256 = 1
  BY <1>3
<1> QED
  BY <1>1, <1>4 DEF RxHold, q

-----------------------------------------------------------------------------
(* The formulas: neither 0 nor wrapped, and right to half a clock. *)
LEMMA Rounding ==
  ASSUME NEW n \in Nat
  PROVE  LET c == DivRoundClosest(n, MICRO) IN
         /\ c \in Nat
         /\ 2 * (c * MICRO - n) <= MICRO /\ 2 * (c * MICRO - n) >= -MICRO
         /\ n >= 3 * MICRO + MICRO \div 2 => c >= 4
         /\ n >= MICRO + MICRO \div 2 => c >= 2
         /\ \A b \in Nat : n <= b * MICRO - MICRO => c < b
BY DEF DivRoundClosest, MICRO

LEMMA HighCount ==
  ASSUME NEW clk \in Nat, NEW tHigh \in Nat, NEW tFall \in Nat, tHigh + tFall < Word,
         clk * (tHigh + tFall) >= 3 * MICRO + MICRO \div 2,
         clk * (tHigh + tFall) <= Word * MICRO - MICRO
  PROVE  LET count == vi2c_scl_hcnt(clk, tHigh, tFall)
             error == (count + 3) * MICRO - clk * (tHigh + tFall)
         IN count \in Nat \ {0} /\ 2 * error <= MICRO /\ 2 * error >= -MICRO
<1> DEFINE n == clk * (tHigh + tFall)
           c == DivRoundClosest(n, MICRO)
<1>1. n \in Nat /\ (tHigh + tFall) % Word = tHigh + tFall
  BY WordAssumption
<1>2. /\ c \in Nat /\ c >= 4 /\ c < Word
      /\ 2 * (c * MICRO - n) <= MICRO /\ 2 * (c * MICRO - n) >= -MICRO
  <2> HIDE DEF n
  <2> QED
    BY <1>1, Rounding, WordAssumption DEF n
<1>3. vi2c_scl_hcnt(clk, tHigh, tFall) = (c - 3) % Word
  BY <1>1 DEF vi2c_scl_hcnt
<1> HIDE DEF c, n
<1>4. (c - 3) % Word = c - 3
  BY <1>2, WordAssumption
<1> QED
  BY <1>2, <1>3, <1>4 DEF n

LEMMA LowCount ==
  ASSUME NEW clk \in Nat, NEW tLow \in Nat, NEW tFall \in Nat, tLow + tFall < Word,
         clk * (tLow + tFall) >= MICRO + MICRO \div 2,
         clk * (tLow + tFall) <= Word * MICRO - MICRO
  PROVE  LET count == vi2c_scl_lcnt(clk, tLow, tFall)
             error == (count + 1) * MICRO - clk * (tLow + tFall)
         IN count \in Nat \ {0} /\ 2 * error <= MICRO /\ 2 * error >= -MICRO
<1> DEFINE n == clk * (tLow + tFall)
           c == DivRoundClosest(n, MICRO)
<1>1. n \in Nat /\ (tLow + tFall) % Word = tLow + tFall
  BY WordAssumption
<1>2. /\ c \in Nat /\ c >= 2 /\ c < Word
      /\ 2 * (c * MICRO - n) <= MICRO /\ 2 * (c * MICRO - n) >= -MICRO
  <2> HIDE DEF n
  <2> QED
    BY <1>1, Rounding, WordAssumption DEF n
<1>3. vi2c_scl_lcnt(clk, tLow, tFall) = (c - 1) % Word
  BY <1>1 DEF vi2c_scl_lcnt
<1> HIDE DEF c, n
<1>4. (c - 1) % Word = c - 1
  BY <1>2, WordAssumption
<1> QED
  BY <1>2, <1>3, <1>4 DEF n

-----------------------------------------------------------------------------
LEMMA PlatformTyped ==
  ASSUME platform \in Platforms
  PROVE  /\ platform.properties \in [Keys -> Int] /\ platform.new \in BOOLEAN
         /\ platform.reset_hold \in Int
         /\ ClkKHz \in Nat /\ SdaFallNs \in Nat /\ SclFallNs \in Nat /\ platform.sda_hold_ns \in Nat
         /\ DOMAIN platform.SSCN \subseteq {"ss_hcnt", "ss_lcnt"}
         /\ DOMAIN platform.FMCN \subseteq {"fs_hcnt", "fs_lcnt", "sda_hold"}
         /\ \A k \in DOMAIN platform.SSCN : platform.SSCN[k] \in Int
         /\ \A k \in DOMAIN platform.FMCN : platform.FMCN[k] \in Int
<1>1. /\ {platform.clk, platform.sda_hold_ns, platform.sda_fall_ns, platform.scl_fall_ns,
          platform.reset_hold} \subseteq 0..(Word - 1)
      /\ platform.properties \in [Keys -> 0..(Word - 1)] /\ platform.new \in BOOLEAN
      /\ DOMAIN platform.SSCN \subseteq {"ss_hcnt", "ss_lcnt"}
      /\ DOMAIN platform.FMCN \subseteq {"fs_hcnt", "fs_lcnt", "sda_hold"}
      /\ \A f \in {platform.SSCN, platform.FMCN} : \A k \in DOMAIN f : f[k] \in 0..(Word - 1)
  BY PlatformAssumption
<1>2. 0..(Word - 1) \subseteq Nat
  BY WordAssumption
<1>3. ClkKHz \in Nat /\ SdaFallNs \in Nat /\ SclFallNs \in Nat
  BY <1>1, <1>2 DEF ClkKHz, SdaFallNs, SclFallNs, OrElse
<1> QED
  BY <1>1, <1>2, <1>3

(* What a formula gives is a number, also where it wraps around. *)
LEMMA CountsTyped ==
  ASSUME NEW clk \in Nat, NEW t \in Nat, NEW fall \in Nat
  PROVE  /\ vi2c_scl_hcnt(clk, t, fall) \in Int
         /\ vi2c_scl_lcnt(clk, t, fall) \in Int
<1> DEFINE x == clk * ((t + fall) % Word)
<1>1. x \in Int
  BY WordAssumption
<1> HIDE DEF x
<1>2. DivRoundClosest(x, MICRO) \in Int
  BY <1>1 DEF DivRoundClosest, MICRO
<1> QED
  BY <1>2, WordAssumption DEF vi2c_scl_hcnt, vi2c_scl_lcnt, x

LEMMA InitIInv == Init => IInv
<1> SUFFICES ASSUME Init PROVE IInv
  OBVIOUS
<1>1. Zero \in [Keys -> Int] /\ ResetValues \in [Keys -> Int]
  BY PlatformTyped DEF Init, Zero, ResetValues, Keys
<1> QED
  BY <1>1 DEF Init, IInv, TypeOK, Restored, HoldAdjusted, Steps

(* Before start has adjusted the hold time, only types matter. *)
LEMMA Gathering ==
  ASSUME IInv, step' \in Steps \ {"init", "up"}, config' \in [Keys -> Int],
         UNCHANGED <<platform, awake, registers, stuck, met>>
  PROVE  IInv'
BY DEF IInv, TypeOK, Restored, HoldAdjusted

LEMMA DefaultsStep == ASSUME IInv, NoClock \/ GrabDefaults PROVE IInv'
<1>1. CASE NoClock
  <2>1. Zero \in [Keys -> Int]
    BY DEF Zero
  <2> QED
    BY <1>1, <2>1, Gathering DEF NoClock, Goes, Steps
<1>2. CASE GrabDefaults
  <2> DEFINE x == ClkKHz * platform.sda_hold_ns
             hold == OrElse(platform.properties["sda_hold"], DivRoundClosest(x, MICRO) % Word)
  <2>1. x \in Int
    BY PlatformTyped DEF IInv, TypeOK
  <2>2. DivRoundClosest(x, MICRO) % Word \in Int
    <3> HIDE DEF x
    <3> QED
      BY <2>1, WordAssumption DEF DivRoundClosest, MICRO
  <2>3. hold \in Int
    BY <2>2, PlatformTyped DEF OrElse, IInv, TypeOK, Keys
  <2>4. config' = [platform.properties EXCEPT !["sda_hold"] = hold]
    BY <1>2 DEF GrabDefaults
  <2> HIDE DEF hold
  <2>5. config' \in [Keys -> Int]
    BY <2>3, <2>4, PlatformTyped DEF IInv, TypeOK
  <2> QED
    BY <1>2, <2>5, Gathering DEF GrabDefaults, Goes, Steps
<1> QED
  BY <1>1, <1>2

LEMMA FirmwareStep == ASSUME IInv, CallSSCN \/ CallFMCN PROVE IInv'
<1>1. CASE CallSSCN
  <2>1. config' = GetACPIParams(platform.SSCN, config)
    BY <1>1 DEF CallSSCN
  <2>2. config' \in [Keys -> Int]
    BY <2>1, PlatformTyped DEF IInv, TypeOK, Keys, GetACPIParams
  <2> QED
    BY <1>1, <2>2, Gathering DEF CallSSCN, Goes, Steps
<1>2. CASE CallFMCN
  <2>1. config' = GetACPIParams(platform.FMCN, config)
    BY <1>2 DEF CallFMCN
  <2>2. config' \in [Keys -> Int]
    BY <2>1, PlatformTyped DEF IInv, TypeOK, Keys, GetACPIParams
  <2> QED
    BY <1>2, <2>2, Gathering DEF CallFMCN, Goes, Steps
<1> QED
  BY <1>1, <1>2

LEMMA DeriveTyped ==
  ASSUME platform \in Platforms, config \in [Keys -> Int], NEW h \in Keys, NEW l \in Keys,
         NEW tHigh \in Nat, NEW tLow \in Nat, Derive(h, l, tHigh, tLow)
  PROVE  config' \in [Keys -> Int]
BY PlatformTyped, CountsTyped DEF Derive

LEMMA DeriveStep == ASSUME IInv, DeriveSs \/ DeriveFs PROVE IInv'
<1>1. config' \in [Keys -> Int]
  <2>1. platform \in Platforms /\ config \in [Keys -> Int]
    BY DEF IInv, TypeOK
  <2>2. {"ss_hcnt", "ss_lcnt", "fs_hcnt", "fs_lcnt"} \subseteq Keys
    BY DEF Keys
  <2>3. CASE DeriveSs
    <3>1. Derive("ss_hcnt", "ss_lcnt", 4000, 4700)
      BY <2>3 DEF DeriveSs
    <3> QED
      BY <2>1, <2>2, <3>1, DeriveTyped
  <2>4. CASE DeriveFs
    <3>1. Derive("fs_hcnt", "fs_lcnt", 600, 1300)
      BY <2>4 DEF DeriveFs
    <3> QED
      BY <2>1, <2>2, <3>1, DeriveTyped
  <2> QED
    BY <2>3, <2>4
<1> QED
  BY <1>1, Gathering DEF DeriveSs, DeriveFs, Goes, Steps

LEMMA AdjustStep == ASSUME IInv, AdjustHold PROVE IInv'
<1> DEFINE hold == OrElse(config["sda_hold"], registers["sda_hold"])
           new == IF RxHold(hold) = 0 THEN hold + RxShift ELSE hold
<1>1. hold \in Int /\ new \in Int /\ RxHold(new) # 0
  BY RxHoldAdded, WordAssumption DEF OrElse, IInv, TypeOK, Keys
<1>2. /\ config' = IF awake /\ platform.new THEN [config EXCEPT !["sda_hold"] = new] ELSE config
      /\ step' = "init" /\ met' = awake /\ UNCHANGED <<platform, awake, registers, stuck>>
  BY DEF AdjustHold, Goes
<1> HIDE DEF new
<1>3. TypeOK' /\ HoldAdjusted'
  BY <1>1, <1>2 DEF IInv, TypeOK, HoldAdjusted, Keys, Steps
<1> QED
  BY <1>2, <1>3 DEF IInv, Restored

(* What initialiseBus writes. *)
LEMMA WrittenRight ==
  ASSUME TypeOK
  PROVE  /\ Written \in [Keys -> Int]
         /\ \A k \in Keys \ {"sda_hold"} : Written[k] = config[k]
         /\ config["sda_hold"] # 0 => Written["sda_hold"] = config["sda_hold"]
BY DEF Written, OrElse, TypeOK, Keys

LEMMA InitialiseStep == ASSUME IInv, InitialiseOnStart \/ CannotInitialise PROVE IInv'
<1>1. CASE InitialiseOnStart
  BY <1>1, WrittenRight DEF InitialiseOnStart, Goes, IInv, TypeOK, Restored, HoldAdjusted, Steps
<1>2. CASE CannotInitialise
  BY <1>2 DEF CannotInitialise, Goes, IInv, TypeOK, Restored, HoldAdjusted, Steps
<1> QED
  BY <1>1, <1>2

LEMMA PowerStep == ASSUME IInv, Sleep \/ Wake PROVE IInv'
<1>1. CASE Sleep
  <2>1. ResetValues \in [Keys -> Int]
    BY PlatformTyped DEF ResetValues, Zero, IInv, TypeOK, Keys
  <2> QED
    BY <1>1, <2>1 DEF Sleep, IInv, TypeOK, Restored, HoldAdjusted
<1>2. CASE Wake
  BY <1>2, WrittenRight DEF Wake, IInv, TypeOK, Restored, HoldAdjusted
<1> QED
  BY <1>1, <1>2

LEMMA Invariance == Spec => []IInv
<1>1. IInv /\ [Next]_vars => IInv'
  <2> SUFFICES ASSUME IInv, [Next]_vars PROVE IInv'
    OBVIOUS
  <2>1. CASE UNCHANGED vars
    BY <2>1 DEF vars, IInv, TypeOK, Restored, HoldAdjusted
  <2> QED
    BY <2>1, DefaultsStep, FirmwareStep, DeriveStep, AdjustStep, InitialiseStep, PowerStep DEF Next
<1> QED
  BY <1>1, InitIInv, PTL DEF Spec

(* An initialised block that is awake has the timing of the configuration, on every platform and    *)
(* whatever power does during start and after it.                                                   *)
THEOREM TimingAlwaysKept == Spec => []TimingKept
<1>1. IInv => TimingKept
  BY NoHoldNoRx DEF IInv, TypeOK, Restored, HoldAdjusted, TimingKept, Keys
<1> QED
  BY <1>1, Invariance, PTL

-----------------------------------------------------------------------------
(* The counts of every platform, however it rounds, have room in a word. *)
NoOverflow ==
  \A p \in Platforms :
    \A fall \in {OrElse(p.sda_fall_ns, 300), OrElse(p.scl_fall_ns, 300)}, t \in {600, 1300, 4000, 4700} :
      t + fall < Word /\ (p.clk \div 1000) * (t + fall) <= Word * MICRO - MICRO

(* A pair of counts as CountsUsable wants it. *)
Good(h, l, counts) ==
  /\ counts[h] # 0 /\ counts[l] # 0
  /\ IF Declared(h) # 0 /\ Declared(l) # 0
     THEN counts[h] = Declared(h) /\ counts[l] = Declared(l)
     ELSE /\ Accurate(counts[h], 3, TimesOf(h).high + SdaFallNs)
          /\ Accurate(counts[l], 1, TimesOf(h).low + SclFallNs)

AsDeclared(K, counts) == \A k \in K : counts[k] = Declared(k)
AsInProperties(K, counts) == \A k \in K : counts[k] = platform.properties[k]

SsCounts == {"ss_hcnt", "ss_lcnt"}
FsCounts == {"fs_hcnt", "fs_lcnt"}

(* How far each pair has to be at each step of start. *)
GatheredBy(s, counts) ==
  /\ s = "SSCN" => AsInProperties(SsCounts \union FsCounts, counts)
  /\ s = "FMCN" => AsDeclared(SsCounts, counts) /\ AsInProperties(FsCounts, counts)
  /\ s = "ss" => AsDeclared(SsCounts \union FsCounts, counts)
  /\ s = "fs" => Good("ss_hcnt", "ss_lcnt", counts) /\ AsDeclared(FsCounts, counts)
  /\ s \in {"hold", "init", "up"} =>
       Good("ss_hcnt", "ss_lcnt", counts) /\ Good("fs_hcnt", "fs_lcnt", counts)

Gathered == ClockFastEnough => GatheredBy(step, config)

LEMMA LongerTakesMore ==
  ASSUME NEW a \in Nat, NEW b \in Nat, NEW c \in Nat, b <= c
  PROVE  a * b <= a * c
  OBVIOUS

(* Deriving makes a pair good. *)
LEMMA DeriveMakesGood ==
  ASSUME NoOverflow, IInv, ClockFastEnough,
         NEW h \in {"ss_hcnt", "fs_hcnt"}, NEW l \in {"ss_lcnt", "fs_lcnt"}, h = "ss_hcnt" <=> l = "ss_lcnt",
         config[h] = Declared(h), config[l] = Declared(l),
         Derive(h, l, TimesOf(h).high, TimesOf(h).low)
  PROVE  Good(h, l, config')
<1> DEFINE tHigh == TimesOf(h).high
           tLow == TimesOf(h).low
<1>1. /\ platform \in Platforms /\ config \in [Keys -> Int] /\ h \in Keys /\ l \in Keys /\ h # l
      /\ ClkKHz \in Nat /\ SdaFallNs \in Nat /\ SclFallNs \in Nat
  BY PlatformTyped DEF IInv, TypeOK, Keys
<1>2. tHigh \in {600, 4000} /\ tLow \in {1300, 4700}
  BY DEF TimesOf
<1>3. /\ tHigh + SdaFallNs < Word /\ tLow + SclFallNs < Word
      /\ ClkKHz * (tHigh + SdaFallNs) <= Word * MICRO - MICRO
      /\ ClkKHz * (tLow + SclFallNs) <= Word * MICRO - MICRO
  BY <1>1, <1>2 DEF NoOverflow, ClkKHz, SdaFallNs, SclFallNs
<1> HIDE DEF tHigh, tLow
<1>4. /\ ClkKHz * (600 + SdaFallNs) <= ClkKHz * (tHigh + SdaFallNs)
      /\ ClkKHz * (1300 + SclFallNs) <= ClkKHz * (tLow + SclFallNs)
  <2>1. /\ 600 + SdaFallNs \in Nat /\ tHigh + SdaFallNs \in Nat /\ 600 + SdaFallNs <= tHigh + SdaFallNs
        /\ 1300 + SclFallNs \in Nat /\ tLow + SclFallNs \in Nat /\ 1300 + SclFallNs <= tLow + SclFallNs
    BY <1>1, <1>2
  <2> QED
    BY <1>1, <2>1, LongerTakesMore
<1>5. /\ ClkKHz * (tHigh + SdaFallNs) \in Nat /\ ClkKHz * (tLow + SclFallNs) \in Nat
      /\ ClkKHz * (600 + SdaFallNs) \in Nat /\ ClkKHz * (1300 + SclFallNs) \in Nat
  BY <1>1, <1>2
<1>6. /\ ClkKHz * (tHigh + SdaFallNs) >= 3 * MICRO + MICRO \div 2
      /\ ClkKHz * (tLow + SclFallNs) >= MICRO + MICRO \div 2
  <2> DEFINE a == ClkKHz * (tHigh + SdaFallNs)
             b == ClkKHz * (tLow + SclFallNs)
             c == ClkKHz * (600 + SdaFallNs)
             d == ClkKHz * (1300 + SclFallNs)
  <2>1. c >= 3 * MICRO + MICRO \div 2 /\ d >= MICRO + MICRO \div 2
    BY DEF ClockFastEnough
  <2> HIDE DEF a, b, c, d
  <2>2. a \in Nat /\ b \in Nat /\ c \in Nat /\ d \in Nat /\ c <= a /\ d <= b
    BY <1>4, <1>5 DEF a, b, c, d
  <2>3. a >= 3 * MICRO + MICRO \div 2 /\ b >= MICRO + MICRO \div 2
    BY <2>1, <2>2 DEF MICRO
  <2> QED
    BY <2>3 DEF a, b
<1> DEFINE hcnt == vi2c_scl_hcnt(ClkKHz, tHigh, SdaFallNs)
           lcnt == vi2c_scl_lcnt(ClkKHz, tLow, SclFallNs)
<1>7. hcnt # 0 /\ Accurate(hcnt, 3, tHigh + SdaFallNs)
  BY <1>1, <1>2, <1>3, <1>6, HighCount DEF Accurate
<1>8. lcnt # 0 /\ Accurate(lcnt, 1, tLow + SclFallNs)
  BY <1>1, <1>2, <1>3, <1>6, LowCount DEF Accurate
<1> HIDE DEF hcnt, lcnt
<1>9. CASE config[h] = 0 \/ config[l] = 0
  <2>1. config' = [config EXCEPT ![h] = hcnt, ![l] = lcnt]
    BY <1>9 DEF Derive, hcnt, lcnt, tHigh, tLow
  <2>2. config'[h] = hcnt /\ config'[l] = lcnt
    BY <1>1, <2>1
  <2> QED
    BY <1>7, <1>8, <1>9, <2>2 DEF Good, tHigh, tLow
<1>10. CASE config[h] # 0 /\ config[l] # 0
  BY <1>10 DEF Derive, Good
<1> QED
  BY <1>9, <1>10

(* What start keeps, it keeps whole. *)
LEMMA SameCounts ==
  ASSUME NEW h \in Keys, NEW l \in Keys, NEW c \in [Keys -> Int], NEW d \in [Keys -> Int],
         d[h] = c[h], d[l] = c[l], Good(h, l, c)
  PROVE  Good(h, l, d)
BY DEF Good

(* The platform does not change: neither does what is wanted of the counts. *)
LEMMA GatheredNext ==
  ASSUME UNCHANGED platform, ClockFastEnough => GatheredBy(step', config')
  PROVE  Gathered'
<1>1. /\ ClockFastEnough' = ClockFastEnough
      /\ \A k : Declared(k)' = Declared(k)
      /\ UNCHANGED <<SdaFallNs, SclFallNs, ClkKHz>>
  BY DEF ClockFastEnough, Declared, SdaFallNs, SclFallNs, ClkKHz
<1>2. GatheredBy(step, config)' = GatheredBy(step', config')
  BY <1>1 DEF GatheredBy, Good, AsDeclared, AsInProperties, Accurate, TimesOf,
              Declared, SdaFallNs, SclFallNs, ClkKHz
<1> QED
  BY <1>1, <1>2 DEF Gathered

LEMMA GatheredStart == ASSUME IInv, NoClock \/ GrabDefaults PROVE Gathered'
<1>1. CASE NoClock
  BY <1>1, GatheredNext DEF NoClock, Goes, GatheredBy
<1>2. CASE GrabDefaults
  <2>1. \A k \in SsCounts \union FsCounts : config'[k] = platform.properties[k]
    BY <1>2, PlatformTyped DEF GrabDefaults, IInv, TypeOK, Keys, SsCounts, FsCounts
  <2> QED
    BY <1>2, <2>1, GatheredNext DEF GrabDefaults, Goes, GatheredBy, AsInProperties
<1> QED
  BY <1>1, <1>2

LEMMA GatheredFromFirmware ==
  ASSUME IInv, Gathered, CallSSCN \/ CallFMCN
  PROVE  Gathered'
<1>1. CASE CallSSCN
  <2>1. /\ \A k \in Keys : config'[k] = IF k \in DOMAIN platform.SSCN THEN platform.SSCN[k] ELSE config[k]
        /\ step = "SSCN" /\ step' = "FMCN" /\ UNCHANGED platform
    BY <1>1 DEF CallSSCN, GetACPIParams, Goes
  <2>2. ASSUME ClockFastEnough
        PROVE  AsDeclared(SsCounts, config') /\ AsInProperties(FsCounts, config')
    <3>1. AsInProperties(SsCounts \union FsCounts, config)
      BY <2>1, <2>2 DEF Gathered, GatheredBy
    <3>2. /\ DOMAIN platform.SSCN \subseteq SsCounts /\ DOMAIN platform.FMCN \subseteq FsCounts \union {"sda_hold"}
          /\ SsCounts \union FsCounts \subseteq Keys
          /\ SsCounts \intersect (FsCounts \union {"sda_hold"}) = {}
      BY PlatformTyped DEF IInv, TypeOK, SsCounts, FsCounts, Keys
    <3>3. \A k \in SsCounts : Declared(k) = IF k \in DOMAIN platform.SSCN THEN platform.SSCN[k]
                                            ELSE platform.properties[k]
      BY <3>2 DEF Declared
    <3> QED
      BY <2>1, <3>1, <3>2, <3>3 DEF AsDeclared, AsInProperties
  <2> QED
    BY <2>1, <2>2, GatheredNext DEF GatheredBy
<1>2. CASE CallFMCN
  <2>1. /\ \A k \in Keys : config'[k] = IF k \in DOMAIN platform.FMCN THEN platform.FMCN[k] ELSE config[k]
        /\ step = "FMCN" /\ step' = "ss" /\ UNCHANGED platform
    BY <1>2 DEF CallFMCN, GetACPIParams, Goes
  <2>2. ASSUME ClockFastEnough
        PROVE  AsDeclared(SsCounts \union FsCounts, config')
    <3>1. AsDeclared(SsCounts, config) /\ AsInProperties(FsCounts, config)
      BY <2>1, <2>2 DEF Gathered, GatheredBy
    <3>2. /\ DOMAIN platform.SSCN \subseteq SsCounts /\ DOMAIN platform.FMCN \subseteq FsCounts \union {"sda_hold"}
          /\ SsCounts \union FsCounts \subseteq Keys
          /\ SsCounts \intersect (FsCounts \union {"sda_hold"}) = {}
      BY PlatformTyped DEF IInv, TypeOK, SsCounts, FsCounts, Keys
    <3>3. \A k \in FsCounts : Declared(k) = IF k \in DOMAIN platform.FMCN THEN platform.FMCN[k]
                                            ELSE platform.properties[k]
      BY <3>2 DEF Declared
    <3> QED
      BY <2>1, <3>1, <3>2, <3>3 DEF AsDeclared, AsInProperties
  <2> QED
    BY <2>1, <2>2, GatheredNext DEF GatheredBy
<1> QED
  BY <1>1, <1>2

LEMMA DerivesOnly ==
  ASSUME config \in [Keys -> Int], NEW h, NEW l, NEW tHigh, NEW tLow, Derive(h, l, tHigh, tLow)
  PROVE  \A k \in Keys \ {h, l} : config'[k] = config[k]
BY DEF Derive

LEMMA GatheredFromClock ==
  ASSUME NoOverflow, IInv, Gathered, DeriveSs \/ DeriveFs
  PROVE  Gathered'
<1>0. config \in [Keys -> Int] /\ config' \in [Keys -> Int]
  BY DeriveStep DEF IInv, TypeOK
<1>1. CASE DeriveSs
  <2>1. /\ Derive("ss_hcnt", "ss_lcnt", TimesOf("ss_hcnt").high, TimesOf("ss_hcnt").low)
        /\ step = "ss" /\ step' = "fs" /\ UNCHANGED platform
    BY <1>1 DEF DeriveSs, Goes, TimesOf
  <2>2. ASSUME ClockFastEnough
        PROVE  Good("ss_hcnt", "ss_lcnt", config') /\ AsDeclared(FsCounts, config')
    <3>1. AsDeclared(SsCounts \union FsCounts, config)
      BY <2>1, <2>2 DEF Gathered, GatheredBy
    <3>2. AsDeclared(FsCounts, config')
      BY <1>0, <2>1, <3>1, DerivesOnly DEF AsDeclared, SsCounts, FsCounts, Keys
    <3>3. Good("ss_hcnt", "ss_lcnt", config')
      BY <2>1, <2>2, <3>1, DeriveMakesGood DEF AsDeclared, SsCounts
    <3> QED
      BY <3>2, <3>3
  <2> QED
    BY <2>1, <2>2, GatheredNext DEF GatheredBy
<1>2. CASE DeriveFs
  <2>1. /\ Derive("fs_hcnt", "fs_lcnt", TimesOf("fs_hcnt").high, TimesOf("fs_hcnt").low)
        /\ step = "fs" /\ step' = "hold" /\ UNCHANGED platform
    BY <1>2 DEF DeriveFs, Goes, TimesOf
  <2>2. ASSUME ClockFastEnough
        PROVE  Good("ss_hcnt", "ss_lcnt", config') /\ Good("fs_hcnt", "fs_lcnt", config')
    <3>1. Good("ss_hcnt", "ss_lcnt", config) /\ AsDeclared(FsCounts, config)
      BY <2>1, <2>2 DEF Gathered, GatheredBy
    <3>2. config'["ss_hcnt"] = config["ss_hcnt"] /\ config'["ss_lcnt"] = config["ss_lcnt"]
      BY <1>0, <2>1, DerivesOnly DEF Keys
    <3>3. Good("ss_hcnt", "ss_lcnt", config')
      BY <1>0, <3>1, <3>2, SameCounts DEF Keys
    <3>4. Good("fs_hcnt", "fs_lcnt", config')
      BY <2>1, <2>2, <3>1, DeriveMakesGood DEF AsDeclared, FsCounts
    <3> QED
      BY <3>3, <3>4
  <2> QED
    BY <2>1, <2>2, GatheredNext DEF GatheredBy
<1> QED
  BY <1>1, <1>2

LEMMA GatheredKept ==
  ASSUME IInv, Gathered, AdjustHold \/ InitialiseOnStart \/ CannotInitialise \/ Sleep \/ Wake
  PROVE  Gathered'
<1>1. UNCHANGED platform /\ config \in [Keys -> Int]
  BY DEF AdjustHold, InitialiseOnStart, CannotInitialise, Sleep, Wake, IInv, TypeOK
<1>2. CASE AdjustHold
  <2>1. step = "hold" /\ step' = "init"
    BY <1>2 DEF AdjustHold, Goes
  <2>2. config' \in [Keys -> Int] /\ \A k \in Keys \ {"sda_hold"} : config'[k] = config[k]
    <3>1. config' \in [Keys -> Int]
      BY <1>2, AdjustStep DEF IInv, TypeOK
    <3> QED
      BY <1>1, <1>2, <3>1 DEF AdjustHold
  <2>3. ASSUME ClockFastEnough
        PROVE  Good("ss_hcnt", "ss_lcnt", config') /\ Good("fs_hcnt", "fs_lcnt", config')
    <3>1. Good("ss_hcnt", "ss_lcnt", config) /\ Good("fs_hcnt", "fs_lcnt", config)
      BY <2>1, <2>3 DEF Gathered, GatheredBy
    <3> QED
      BY <1>1, <2>2, <3>1, SameCounts DEF Keys
  <2> QED
    BY <1>1, <2>1, <2>3, GatheredNext DEF GatheredBy
<1>3. CASE InitialiseOnStart
  BY <1>1, <1>3, GatheredNext DEF InitialiseOnStart, Goes, Gathered, GatheredBy
<1>4. CASE CannotInitialise
  BY <1>1, <1>4, GatheredNext DEF CannotInitialise, Goes, Gathered, GatheredBy
<1>5. CASE Sleep \/ Wake
  BY <1>1, <1>5, GatheredNext DEF Sleep, Wake, Gathered
<1> QED
  BY <1>2, <1>3, <1>4, <1>5, <1>1

(* On every platform whose clock times the wanted periods fits in a word, whatever the firmware     *)
(* and the properties declare or leave out: no count of a configured bus is 0 or has wrapped        *)
(* around, and those derived from the clock are right to half a clock.                              *)
THEOREM CountsAlwaysUsable == ASSUME NoOverflow PROVE Spec => []CountsUsable
<1>1. Init => IInv /\ Gathered
  BY InitIInv DEF Init, Gathered, GatheredBy
<1>2. IInv /\ Gathered /\ [Next]_vars => (IInv /\ Gathered)'
  <2> SUFFICES ASSUME IInv, Gathered, [Next]_vars PROVE IInv' /\ Gathered'
    OBVIOUS
  <2>1. CASE UNCHANGED vars
    BY <2>1, GatheredNext DEF vars, IInv, TypeOK, Restored, HoldAdjusted, Gathered
  <2>2. CASE Next
    BY <2>2, DefaultsStep, FirmwareStep, DeriveStep, AdjustStep, InitialiseStep, PowerStep,
       GatheredStart, GatheredFromFirmware, GatheredFromClock, GatheredKept DEF Next
  <2> QED
    BY <2>1, <2>2
<1>3. Gathered => CountsUsable
  BY DEF Gathered, GatheredBy, CountsUsable, Good, Pairs
<1> QED
  BY <1>1, <1>2, <1>3, PTL DEF Spec
=============================================================================
