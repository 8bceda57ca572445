--------------------------- MODULE DeviceResources ---------------------------
(***************************************************************************)
(* How a device nub learns the address and the interrupt of its slave:      *)
(* attach evaluates _CRS and _DSM, VoodooI2CACPIResourcesParser walks over  *)
(* each buffer, getDeviceResources chooses between the two and decides how  *)
(* the slave interrupts.  A buffer is a sequence of large descriptors; of   *)
(* each only what the parser keeps is modelled.                             *)
(***************************************************************************)
EXTENDS Integers, SequencesExt

CONSTANTS
  Declarations,   \* what devices declare: their _CRS and _DSM buffers, << >> for a method that is
                  \* missing or fails, the first pin of IOInterruptSpecifiers, -1 if there is
                  \* none, and whether polling is forced
  NoPin           \* pin number 0xFFFF

SerialBuses == [kind : {"i2c"}, addr : Nat, ten : BOOLEAN]
GPIOs == [kind : {"gpioint", "gpioio"}, pin : Nat, edge : BOOLEAN, polarity : 0..3]
Others == [kind : {"other"}]

(* What a parser has not found. *)
None == [kind |-> "none"]

Buffers == Seq(SerialBuses \cup GPIOs \cup Others)

ASSUME DeclarationAssumption ==
  Declarations \subseteq [crs : Buffers, dsm : Buffers, apic : Int, polling : BOOLEAN]
ASSUME PinAssumption == NoPin \in Nat

VARIABLES
  life,     \* how far the nub has come
  acpi,     \* what the device declares
  info      \* i2c_address, use_10bit_addressing, interrupt mode, gpio_pin, gpio_irq

resourceVars == <<life, acpi, info>>

ResourceInit ==
  /\ life = "new"
  /\ acpi \in Declarations
  /\ info = [addr |-> 0, ten |-> FALSE, mode |-> "Polling", pin |-> 0, type |-> "none"]

(* parseACPISerialBus keeps the first I2C bus. *)
SerialBus(found, x) == IF found = None /\ x.kind = "i2c" THEN x ELSE found

(* parseACPIGPIO keeps the first interrupt with a valid pin. *)
Interrupt(found, x) ==
  IF found = None /\ x.kind = "gpioint" /\ x.pin # NoPin THEN x ELSE found

Parsed(buffer) ==
  [i2c |-> FoldLeft(SerialBus, None, buffer), gpio |-> FoldLeft(Interrupt, None, buffer)]

(* irq_type, as parseACPIGPIO fills it from mode and polarity. *)
IrqType(x) ==
  CASE ~x.edge -> IF x.polarity = 0 THEN "LevelHigh" ELSE "LevelLow"
    [] x.edge /\ x.polarity = 1 -> "EdgeRising"
    [] x.edge /\ x.polarity = 2 -> "EdgeBoth"
    [] OTHER -> "EdgeFalling"

(* Mutant: _DSM counts only when _CRS declares no bus. *)
ChosenCRS(crs, dsm) == IF crs.i2c = None THEN dsm ELSE crs

(* use_crs_resources *)
Chosen(crs, dsm) ==
  IF crs.i2c = None \/ (dsm.i2c # None /\ dsm.gpio # None) THEN dsm ELSE crs

Used == Chosen(Parsed(acpi.crs), Parsed(acpi.dsm))

(* Mutant: the interrupt is taken from _CRS whenever there is one. *)
PinSourceCRS == IF Parsed(acpi.crs).gpio # None THEN Parsed(acpi.crs) ELSE Parsed(acpi.dsm)

(* The interrupt is taken from where the address is. *)
PinSource == Used

(* validateAPICInterrupt *)
ValidAPIC == acpi.apic \in 0..47

NoBus ==
  /\ life = "new" /\ Used.i2c = None
  /\ life' = "refused"
  /\ UNCHANGED <<acpi, info>>

(* Mutant: the address keeps its 16 bits. *)
AddressUncut(addr) == addr

(* i2c_address has 8 bits. *)
Address(addr) == addr % 256

(* getDeviceResources *)
GetDeviceResources ==
  LET gpio == ~ValidAPIC /\ ~acpi.polling /\ PinSource.gpio # None IN
  /\ life = "new" /\ Used.i2c # None
  /\ life' = IF gpio THEN "gpio" ELSE "attached"
  /\ info' = [addr |-> Address(Used.i2c.addr), ten |-> Used.i2c.ten,
              mode |-> IF ValidAPIC THEN "APIC" ELSE IF gpio THEN "GPIO" ELSE "Polling",
              pin  |-> IF gpio THEN PinSource.gpio.pin ELSE 0,
              type |-> IF gpio THEN IrqType(PinSource.gpio) ELSE "none"]
  /\ UNCHANGED acpi

(* getGPIOController waits a second for VoodooGPIO. *)
GetGPIOController ==
  /\ life = "gpio" /\ life' \in {"attached", "refused"}
  /\ UNCHANGED <<acpi, info>>

Attach == NoBus \/ GetDeviceResources \/ GetGPIOController

-----------------------------------------------------------------------------
(* What a buffer declares, said without a parser: the descriptors of kind k that count. *)
Declared(buffer, k) ==
  {i \in DOMAIN buffer : buffer[i].kind = k /\ (k = "gpioint" => buffer[i].pin # NoPin)}

FirstOf(buffer, k, x) ==
  \E i \in Declared(buffer, k) : x = buffer[i] /\ \A j \in Declared(buffer, k) : i <= j

(* Address and interrupt come from one and the same method, each from the first descriptor of its
   kind there, whatever else the two methods declare; of the address the nub keeps eight bits
   (attach, getDeviceResources, parseACPIResources). *)
ResourcesTogether ==
  life \notin {"new", "refused"} =>
    \E buffer \in {acpi.crs, acpi.dsm} :
      /\ \E x \in Range(buffer) :
           /\ FirstOf(buffer, "i2c", x)
           /\ info.ten = x.ten /\ info.addr = x.addr % 256
      /\ info.mode = "GPIO" =>
           \E x \in Range(buffer) :
             /\ FirstOf(buffer, "gpioint", x)
             /\ info.pin = x.pin /\ info.type = IrqType(x)

(* A slave is polled only when polling is forced or no method that declares its bus declares an
   interrupt, and never when the APIC has one (getDeviceResources 213-253). *)
InterruptNotMissed ==
  life \notin {"new", "refused"} /\ info.mode = "Polling" =>
    /\ ~ValidAPIC
    /\ acpi.polling \/ \A buffer \in {acpi.crs, acpi.dsm} :
         Declared(buffer, "i2c") = {} \/ Declared(buffer, "gpioint") = {}
=============================================================================
