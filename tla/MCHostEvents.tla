----------------------------- MODULE MCHostEvents -----------------------------
(***************************************************************************)
(* An instance of HostEvents, with the opening of HostOpen, for TLC: a     *)
(* stranger, one known by its vid, boards with the vendor interface that   *)
(* have another serial or speak a newer version of the protocol, and the   *)
(* board that is asked for.                                                *)
(***************************************************************************)
EXTENDS HostEvents

MCCore(arch) ==
    [arch |-> arch, digital |-> 2, a0 |-> 2, analog |-> 1, leds |-> {0}, pins |-> 3,
     dacs |-> {2}, attr |-> [p \in 0 .. 2 |-> {"connected"}]]
UsbDevice(arch, known, usbio, serial, version) ==
    [itf |-> usbio /\ HasInterface(MCCore(arch)), known |-> known, matches |-> TRUE,
     usbio |-> usbio, serial |-> serial, caps |-> BeginCaps(MCCore(arch)),
     info |-> [BoardInfo(MCCore(arch), 500) EXCEPT !.version = version]]
Boards == << UsbDevice("mbed", FALSE, FALSE, "x", 1),
            UsbDevice("mbed", TRUE, FALSE, "a", 1),
            UsbDevice("mbed", TRUE, TRUE, "b", 1),
            UsbDevice("samd", TRUE, TRUE, "a", 2),
            UsbDevice("renesas", TRUE, TRUE, "a", 1) >>
MCBus == Boards   \* a constant definition that the cfg does not name is evaluated once
MCPins == <<0, 1>>
===============================================================================
