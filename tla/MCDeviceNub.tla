---------------------------- MODULE MCDeviceNub ----------------------------
(* DeviceNub with the buffers that firmware in the field returns, and their failures. *)
EXTENDS DeviceNub

Bus(a, ten) == [kind |-> "i2c", addr |-> a, ten |-> ten]
GpioInt(p, edge, pol) == [kind |-> "gpioint", pin |-> p, edge |-> edge, polarity |-> pol]
Pin(p) == [kind |-> "gpioio", pin |-> p, edge |-> FALSE, polarity |-> 0]
Spi == [kind |-> "other"]

MCNoPin == 65535
Buffer == {
  << >>,
  <<Bus(21, FALSE)>>,
  <<GpioInt(7, FALSE, 1)>>,
  <<Bus(21, FALSE), GpioInt(MCNoPin, FALSE, 0), GpioInt(8, TRUE, 2), Bus(44, FALSE)>>,
  <<Spi, Pin(9), GpioInt(9, TRUE, 0), Bus(277, TRUE), GpioInt(7, FALSE, 1)>> }

(* Every pair of buffers with an APIC pin just out of range, one pair with every other pin. *)
MCDeclarations ==
  [crs : Buffer, dsm : Buffer, apic : {48}, polling : {FALSE}] \cup
  [crs : {<<Bus(21, FALSE)>>}, dsm : {<<Bus(21, FALSE), GpioInt(7, FALSE, 1)>>},
   apic : {-1, 0, 47}, polling : BOOLEAN]
=============================================================================
