------------------------------ MODULE Messages ------------------------------
(***************************************************************************)
(* An I2C transfer is a sequence of messages, each a run of bytes in one    *)
(* direction (VoodooI2CControllerBusMessage).  The payload is abstracted:   *)
(* a byte is named by its position <<message, byte>> in the transfer,       *)
(* counting both from 1.  <<0, 0>> names the moment before the first byte.  *)
(***************************************************************************)
EXTENDS Integers, Sequences

Message == [addr : Nat, rd : BOOLEAN, len : Nat]

Transfer == {ms \in Seq(Message) : ms # << >>}

Before == <<0, 0>>

Position == Int \X Int

(* The position that follows p when the messages ms are put on the wire in order. *)
After(ms, p) ==
  IF p = Before \/ p[2] >= ms[p[1]].len THEN <<p[1] + 1, 1>> ELSE <<p[1], p[2] + 1>>

(* The last byte of the transfer: the one that carries the stop bit. *)
LastOf(ms) == <<Len(ms), ms[Len(ms)].len>>
=============================================================================
