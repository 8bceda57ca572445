---------------------------- MODULE MCBusConfig -----------------------------
(* Instances of BusConfig: platforms such as those of Info.plist, and some with a slow clock. *)
EXTENDS BusConfig

Properties(ss, fs, hold) ==
  [ss_hcnt |-> ss[1], ss_lcnt |-> ss[2], fs_hcnt |-> fs[1], fs_lcnt |-> fs[2], sda_hold |-> hold]

Silent == [k \in {} |-> 0]

AllPlatforms ==
  [clk : {999, 2000000, 3000000, 4000000, 133000000, 216000000},
   sda_hold_ns : {0, 230}, sda_fall_ns : {0, 42}, scl_fall_ns : {171},
   properties : {Properties(<<0, 0>>, <<0, 0>>, 0), Properties(<<432, 507>>, <<72, 160>>, 9),
                 Properties(<<432, 0>>, <<0, 160>>, 0)},
   SSCN : {Silent, [ss_hcnt |-> 400, ss_lcnt |-> 500], [ss_lcnt |-> 500], [ss_hcnt |-> 0]},
   FMCN : {Silent, [fs_hcnt |-> 80, fs_lcnt |-> 0, sda_hold |-> 2 * 65536 + 28],
           [fs_lcnt |-> 170, sda_hold |-> 0]},
   new : BOOLEAN, reset_hold : {0, 65536 + 1}]
=============================================================================
