------------------------------ MODULE BusConfig ------------------------------
(***************************************************************************)
(* The timing of the bus: getBusConfig gathers the SCL counts and the SDA   *)
(* hold time from the controller's properties, the firmware's SSCN and FMCN *)
(* methods and, where those leave a gap, from the clock; initialiseBus      *)
(* writes them to the block at start and, since sleep takes them away,      *)
(* after each wake.  Power may change while start is at work: it has joined *)
(* the power tree before it comes to getBusConfig.                          *)
(***************************************************************************)
EXTENDS Integers

CONSTANTS
  Word,        \* 2^32
  RxShift,     \* 2^DW_IC_SDA_HOLD_RX_SHIFT; the mask has the eight bits from there
  Platforms    \* what controllers and firmware declare

MICRO == 1000000

Pairs == {<<"ss_hcnt", "ss_lcnt">>, <<"fs_hcnt", "fs_lcnt">>}
Keys == {"ss_hcnt", "ss_lcnt", "fs_hcnt", "fs_lcnt", "sda_hold"}

ASSUME WordAssumption == Word \in Nat \ {0} /\ RxShift \in Nat \ {0}

(* clk is in Hz; properties are 0 where there is none.  SSCN and FMCN are what the methods say:
   functions on the values that are numbers, on none where a method is missing or fails. *)
ASSUME PlatformAssumption ==
  \A p \in Platforms :
    /\ {p.clk, p.sda_hold_ns, p.sda_fall_ns, p.scl_fall_ns, p.reset_hold} \subseteq 0..(Word - 1)
    /\ p.properties \in [Keys -> 0..(Word - 1)] /\ p.new \in BOOLEAN
    /\ DOMAIN p.SSCN \subseteq {"ss_hcnt", "ss_lcnt"}
    /\ DOMAIN p.FMCN \subseteq {"fs_hcnt", "fs_lcnt", "sda_hold"}
    /\ \A f \in {p.SSCN, p.FMCN} : \A k \in DOMAIN f : f[k] \in 0..(Word - 1)

VARIABLES
  platform,  \* an element of Platforms
  step,      \* how far start has come
  config,    \* bus_device.acpi_config
  awake,     \* driver and controller are awake and the registers mapped
  registers, \* what the block holds
  stuck,     \* the last initialiseBus did not get the block off
  met        \* history: the version of the block could be read

vars == <<platform, step, config, awake, registers, stuck, met>>

Zero == [k \in Keys |-> 0]
ResetValues == [Zero EXCEPT !["sda_hold"] = platform.reset_hold]

Init ==
  /\ platform \in Platforms
  /\ step = "clock" /\ config = Zero
  /\ awake = TRUE /\ registers = ResetValues /\ stuck = FALSE /\ met = FALSE

-----------------------------------------------------------------------------
DivRoundClosest(x, d) == (x + d \div 2) \div d

vi2c_scl_hcnt(clk, tHigh, tFall) ==
  (DivRoundClosest(clk * ((tHigh + tFall) % Word), MICRO) - 3) % Word

vi2c_scl_lcnt(clk, tLow, tFall) ==
  (DivRoundClosest(clk * ((tLow + tFall) % Word), MICRO) - 1) % Word

OrElse(value, default) == IF value = 0 THEN default ELSE value

ClkKHz == platform.clk \div 1000
SdaFallNs == OrElse(platform.sda_fall_ns, 300)
SclFallNs == OrElse(platform.scl_fall_ns, 300)

Goes(from, to) == step = from /\ step' = to

(* getBusConfig clears the configuration and gives up without a clock. *)
NoClock ==
  /\ Goes("clock", "failed") /\ ClkKHz = 0
  /\ config' = Zero
  /\ UNCHANGED <<platform, awake, registers, stuck, met>>

(* The controller's defaults. *)
GrabDefaults ==
  /\ Goes("clock", "SSCN") /\ ClkKHz # 0
  /\ config' = [platform.properties EXCEPT !["sda_hold"] =
                  OrElse(@, DivRoundClosest(ClkKHz * platform.sda_hold_ns, MICRO) % Word)]
  /\ UNCHANGED <<platform, awake, registers, stuck, met>>

(* nub->getACPIParams: each number the method returns goes before. *)
GetACPIParams(method, counts) ==
  [k \in Keys |-> IF k \in DOMAIN method THEN method[k] ELSE counts[k]]

CallSSCN ==
  /\ Goes("SSCN", "FMCN")
  /\ config' = GetACPIParams(platform.SSCN, config)
  /\ UNCHANGED <<platform, awake, registers, stuck, met>>

CallFMCN ==
  /\ Goes("FMCN", "ss")
  /\ config' = GetACPIParams(platform.FMCN, config)
  /\ UNCHANGED <<platform, awake, registers, stuck, met>>

(* Mutant: a pair with one count is left alone. *)
DeriveIfNeither(h, l, tHigh, tLow) ==
  config' =
    IF config[h] = 0 /\ config[l] = 0
    THEN [config EXCEPT ![h] = vi2c_scl_hcnt(ClkKHz, tHigh, SdaFallNs),
                        ![l] = vi2c_scl_lcnt(ClkKHz, tLow, SclFallNs)]
    ELSE config

(* A pair that lacks a count is derived. *)
Derive(h, l, tHigh, tLow) ==
  config' =
    IF config[h] = 0 \/ config[l] = 0
    THEN [config EXCEPT ![h] = vi2c_scl_hcnt(ClkKHz, tHigh, SdaFallNs),
                        ![l] = vi2c_scl_lcnt(ClkKHz, tLow, SclFallNs)]
    ELSE config

DeriveSs ==
  /\ Goes("ss", "fs")
  /\ Derive("ss_hcnt", "ss_lcnt", 4000, 4700)
  /\ UNCHANGED <<platform, awake, registers, stuck, met>>

DeriveFs ==
  /\ Goes("fs", "hold")
  /\ Derive("fs_hcnt", "fs_lcnt", 600, 1300)
  /\ UNCHANGED <<platform, awake, registers, stuck, met>>

RxHold(hold) == (hold \div RxShift) % 256

(* Newer hardware takes over its own hold time if there is no other, and needs one on reception.
   Unmapped, the version reads as 0. *)
AdjustHold ==
  /\ Goes("hold", "init")
  /\ met' = awake
  /\ LET hold == OrElse(config["sda_hold"], registers["sda_hold"]) IN
     config' = IF awake /\ platform.new
               THEN [config EXCEPT !["sda_hold"] =
                       IF RxHold(hold) = 0 THEN hold + RxShift ELSE hold]
               ELSE config
  /\ UNCHANGED <<platform, awake, registers, stuck>>

(* What initialiseBus leaves in the block. *)
Written ==
  [k \in Keys |->
     IF k = "sda_hold" THEN OrElse(config[k], registers[k]) ELSE config[k]]

(* start's: a block that does not go off ends it, what goes to an unmapped one is lost. *)
InitialiseOnStart ==
  /\ Goes("init", "up")
  /\ registers' = (IF awake THEN Written ELSE registers) /\ stuck' = FALSE
  /\ UNCHANGED <<platform, config, awake, met>>

CannotInitialise ==
  /\ awake /\ Goes("init", "failed")
  /\ stuck' = TRUE
  /\ UNCHANGED <<platform, config, awake, registers, met>>

(* setPowerState: the block loses what it holds. *)
Sleep ==
  /\ awake /\ awake' = FALSE
  /\ registers' = ResetValues
  /\ UNCHANGED <<platform, step, config, stuck, met>>

(* Mutant: the bus is not initialised again. *)
WakeUp ==
  /\ ~awake /\ awake' = TRUE /\ stuck' = FALSE
  /\ UNCHANGED <<platform, step, config, registers, met>>

(* Nobody asks whether initialiseBus has succeeded. *)
Wake ==
  /\ ~awake /\ awake' = TRUE
  /\ stuck' \in BOOLEAN
  /\ registers' = IF stuck' THEN registers ELSE Written
  /\ UNCHANGED <<platform, step, config, met>>

Next ==
  \/ NoClock \/ GrabDefaults \/ CallSSCN \/ CallFMCN \/ DeriveSs \/ DeriveFs \/ AdjustHold
  \/ InitialiseOnStart \/ CannotInitialise
  \/ Sleep \/ Wake

Spec == Init /\ [][Next]_vars

-----------------------------------------------------------------------------
(* What is declared for a count: the firmware's where there is one. *)
Declared(k) ==
  CASE k \in DOMAIN platform.SSCN -> platform.SSCN[k]
    [] k \in DOMAIN platform.FMCN -> platform.FMCN[k]
    [] OTHER -> platform.properties[k]

(* Within half a clock of the wanted time; "lost" is what the block adds by itself. *)
Accurate(count, lost, ns) ==
  LET error == (count + lost) * MICRO - ClkKHz * ns IN 2 * error <= MICRO /\ 2 * error >= -MICRO

(* The shortest of the high and of the low periods, those of fast mode, take more than the clocks   *)
(* that the block adds to them.                                                                     *)
ClockFastEnough ==
  /\ ClkKHz * (600 + SdaFallNs) >= 3 * MICRO + MICRO \div 2
  /\ ClkKHz * (1300 + SclFallNs) >= MICRO + MICRO \div 2

TimesOf(h) == IF h = "ss_hcnt" THEN [high |-> 4000, low |-> 4700] ELSE [high |-> 600, low |-> 1300]

(* From a clock that is fast enough, no count of a configured bus is 0 or has wrapped around: a     *)
(* pair is what the firmware, or else the controller, declares if both counts are there, and within *)
(* half a clock of the specified times if not (getBusConfig, vi2c_scl_hcnt, vi2c_scl_lcnt).         *)
CountsUsable ==
  step \in {"hold", "init", "up"} /\ ClockFastEnough =>
    \A pair \in Pairs :
      LET h == pair[1] l == pair[2] IN
      /\ config[h] # 0 /\ config[l] # 0
      /\ IF Declared(h) # 0 /\ Declared(l) # 0
         THEN config[h] = Declared(h) /\ config[l] = Declared(l)
         ELSE /\ Accurate(config[h], 3, TimesOf(h).high + SdaFallNs)
              /\ Accurate(config[l], 1, TimesOf(h).low + SclFallNs)

(* Whatever power does during start and after it, an initialised block that is awake has the counts *)
(* of the configuration and its hold time if it has one, though a wake in the middle of start       *)
(* writes what is there by then; and newer hardware holds SDA on reception if start has met it      *)
(* awake (initialiseBus, setPowerState).                                                            *)
TimingKept ==
  step = "up" /\ awake /\ ~stuck =>
    /\ \A k \in Keys \ {"sda_hold"} : registers[k] = config[k]
    /\ config["sda_hold"] # 0 => registers["sda_hold"] = config["sda_hold"]
    /\ platform.new /\ met => RxHold(registers["sda_hold"]) # 0
=============================================================================
