--------------------------- MODULE MCUsbIoCommands ---------------------------
(***************************************************************************)
(* Instances of UsbIoCommands for TLC.                                     *)
(***************************************************************************)
EXTENDS UsbIoCommands, TLC

PinMode(p, m)      == [cmd |-> "PIN_MODE", pin |-> p, value |-> m]
Write(cmd, p, v)   == [cmd |-> cmd, pin |-> p, value |-> v]

(* A digital pin that can also be sampled, next to a pin that is an analog *)
(* output only.                                                            *)
MixedCaps == 0 :> {"DIO", "AIN"} @@ 1 :> {"PWM", "DAC"}

(* Every kind of command; a DAC code that is out of range.                 *)
MixedRequests ==
    {PinMode(0, OUTPUT), PinMode(0, ANALOG_IN),
     PinMode(1, PWM), PinMode(1, DAC),
     Write("DIO_WRITE", 0, 1), Write("PWM_WRITE", 1, 3),
     Write("DAC_WRITE", 1, 1), Write("DAC_WRITE", 1, 2)}

(* One digital pin: the smallest instance in which commands and RESETs     *)
(* overtake one another.                                                   *)
DigitalCaps == 0 :> {"DIO"}
DigitalRequests ==
    {PinMode(0, INPUT), PinMode(0, OUTPUT), Write("DIO_WRITE", 0, 0),
     Write("DIO_WRITE", 0, 1)}

(* Analog pins around a digital one.                                       *)
AnalogCaps == 0 :> {"DIO", "AIN"} @@ 1 :> {"AIN"} @@ 2 :> {"DIO"}
AnalogRequests ==
    {PinMode(0, ANALOG_IN), PinMode(1, ANALOG_IN), PinMode(0, INPUT_PULLUP)}
=============================================================================
