----------------------------- MODULE DesignWare -----------------------------
(***************************************************************************)
(* The Synopsys DesignWare I2C block as the driver sees it through its      *)
(* registers.  It is not part of the repository: this module is the         *)
(* environment of VoodooI2CControllerDriver, and holds only what the driver *)
(* relies on.  A command written to IC_DATA_CMD waits in the transmit FIFO, *)
(* is shifted out on the bus, and, when it asks for a read, leaves a byte   *)
(* in the receive FIFO; a slave that does not acknowledge aborts the        *)
(* transfer; a stop bit ends it.                                            *)
(***************************************************************************)
EXTENDS Messages

CONSTANTS
  TxDepth,    \* bus_device.transaction_fifo_depth
  RxDepth,    \* bus_device.receive_fifo_depth
  Envs        \* the environments the driver is put in, see Environment

(***************************************************************************)
(* What the platform may do; one environment is picked in Init and kept.    *)
(*   hold        the block was built with IC_EMPTYFIFO_HOLD_MASTER_EN       *)
(*   stuck       the block may stay active 250 ms after IC_ENABLE := 0      *)
(*   shared      the interrupt line is shared, so the handler may be called *)
(*               when this controller did not raise it                      *)
(*   workaround  the AMD quirk access_intr_mask_workaround is on            *)
(*   signals     a THREAD_INTERRUPTIBLE sleep may be interrupted            *)
(*   lateirq     the handler may be overtaken by a thread that starts or    *)
(*               ends a transfer while the handler is still running         *)
(***************************************************************************)
Environment == [hold : BOOLEAN, stuck : BOOLEAN, shared : BOOLEAN,
                workaround : BOOLEAN, signals : BOOLEAN, lateirq : BOOLEAN]

ASSUME DepthAssumption == TxDepth \in Nat \ {0} /\ RxDepth \in Nat \ {0}
ASSUME EnvAssumption == Envs \subseteq Environment

Interrupts == {"RX_FULL", "TX_EMPTY", "TX_ABRT", "STOP_DET"}

Command == [at : Position, rd : BOOLEAN, stop : BOOLEAN, restart : BOOLEAN]

NoCommand == [at |-> Before, rd |-> FALSE, stop |-> FALSE, restart |-> FALSE]

VARIABLES
  env,      \* the environment
  enable,   \* IC_ENABLE
  mask,     \* IC_INTR_MASK
  txfifo,   \* commands not yet shifted out
  rxfifo,   \* positions of the bytes received and not yet read
  bus,      \* idle, hold (clock held low between bytes), byte or stop
  shift,    \* the command being shifted
  stopdet,  \* the STOP_DET latch
  abrt,     \* the TX_ABRT latch; the transmit FIFO stays flushed while it is set
  tar,      \* IC_TAR
  sent      \* history: position of the last byte acknowledged on the wire

hwVars == <<enable, mask, txfifo, rxfifo, bus, shift, stopdet, abrt, tar, sent>>

HwTypeOK ==
  /\ env \in Environment
  /\ enable \in BOOLEAN
  /\ mask \subseteq Interrupts
  /\ txfifo \in Seq(Command) /\ Len(txfifo) <= TxDepth
  /\ rxfifo \in Seq(Position) /\ Len(rxfifo) <= RxDepth
  /\ bus \in {"idle", "hold", "byte", "stop"}
  /\ shift \in Command
  /\ stopdet \in BOOLEAN
  /\ abrt \in BOOLEAN
  /\ tar \in Nat
  /\ sent \in Position

HwInit ==
  /\ env \in Envs
  /\ enable = FALSE
  /\ mask = {}
  /\ txfifo = << >>
  /\ rxfifo = << >>
  /\ bus = "idle"
  /\ shift = NoCommand
  /\ stopdet = FALSE
  /\ abrt = FALSE
  /\ tar = 0
  /\ sent = Before

(* IC_STATUS.ACTIVITY *)
Activity == bus # "idle"

(* IC_RAW_INTR_STAT; IC_TX_TL is half the depth of the transmit FIFO, IC_RX_TL is 0. *)
Raw ==
  {i \in Interrupts :
     \/ i = "RX_FULL" /\ rxfifo # << >>
     \/ i = "TX_EMPTY" /\ enable /\ Len(txfifo) <= TxDepth \div 2
     \/ i = "TX_ABRT" /\ abrt
     \/ i = "STOP_DET" /\ stopdet}

(* The block drives its interrupt line: IC_INTR_STAT is not zero. *)
LineAsserted == enable /\ Raw \cap mask # {}

-----------------------------------------------------------------------------
(* What the block does by itself. *)

StartByte ==
  /\ enable /\ ~abrt
  /\ bus \in {"idle", "hold"}
  /\ txfifo # << >>
  /\ bus' = "byte"
  /\ shift' = Head(txfifo)
  /\ txfifo' = Tail(txfifo)
  /\ UNCHANGED <<enable, mask, rxfifo, stopdet, abrt, tar, sent>>

Acknowledged ==
  /\ enable /\ bus = "byte"
  /\ rxfifo' = IF shift.rd /\ Len(rxfifo) < RxDepth THEN Append(rxfifo, shift.at) ELSE rxfifo
  /\ sent' = shift.at
  /\ bus' = IF shift.stop THEN "stop" ELSE "hold"
  /\ shift' = NoCommand
  /\ UNCHANGED <<enable, mask, txfifo, stopdet, abrt, tar>>

NotAcknowledged ==
  /\ enable /\ bus = "byte"
  /\ abrt' = TRUE
  /\ stopdet' = TRUE
  /\ txfifo' = << >>
  /\ bus' = "idle"
  /\ shift' = NoCommand
  /\ UNCHANGED <<enable, mask, rxfifo, tar, sent>>

StopCondition ==
  /\ enable /\ bus = "stop"
  /\ bus' = "idle"
  /\ stopdet' = TRUE
  /\ UNCHANGED <<enable, mask, txfifo, rxfifo, shift, abrt, tar, sent>>

(* Without IC_EMPTYFIFO_HOLD_MASTER_EN an empty transmit FIFO ends the transfer. *)
StopOnEmpty ==
  /\ enable /\ ~env.hold
  /\ bus = "hold" /\ txfifo = << >>
  /\ bus' = "stop"
  /\ UNCHANGED <<enable, mask, txfifo, rxfifo, shift, stopdet, abrt, tar, sent>>

(* A disabled block that was still active finds its way back to idle. *)
Settle ==
  /\ ~enable /\ bus # "idle"
  /\ bus' = "idle"
  /\ shift' = NoCommand
  /\ stopdet' = TRUE
  /\ UNCHANGED <<enable, mask, txfifo, rxfifo, abrt, tar, sent>>

HwStep ==
  /\ \/ StartByte \/ Acknowledged \/ NotAcknowledged
     \/ StopCondition \/ StopOnEmpty \/ Settle
  /\ UNCHANGED env

-----------------------------------------------------------------------------
(* Effects of the driver's register accesses. *)

(* toggleBusState(Off) polls IC_ENABLE_STATUS until the block is idle; in a stuck
   environment it may give up while the block is still active. *)
Disabled ==
  /\ enable' = FALSE
  /\ txfifo' = << >>
  /\ rxfifo' = << >>
  /\ abrt' = FALSE
  /\ \/ bus' = "idle" /\ shift' = NoCommand /\ stopdet' = FALSE
     \/ env.stuck /\ Activity /\ UNCHANGED <<bus, shift, stopdet>>

(* A write to IC_DATA_CMD is lost when the FIFO is full or held flushed by an abort. *)
Pushed(command) ==
  txfifo' = IF enable /\ ~abrt /\ Len(txfifo) < TxDepth THEN Append(txfifo, command) ELSE txfifo
=============================================================================
