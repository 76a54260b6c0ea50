------------------------------ MODULE BoardTables ------------------------------
(***************************************************************************)
(* What a board says of itself: the tables that UsbIoBoard.h derives from  *)
(* the macros and pin tables of an Arduino core, what begin() makes of     *)
(* them, the replies to GET_INFO and GET_PIN_CAPS, and the checks with     *)
(* which the driver's Device accepts them.                                 *)
(*                                                                         *)
(* A core is a record: arch (mbed, renesas, samd, rp2040, esp32); digital, *)
(* a0, analog, leds, pins (the macros NUM_DIGITAL_PINS, PIN_A0,            *)
(* NUM_ANALOG_INPUTS, the LED pins, PINS_COUNT); dacs (the pins of the DAC *)
(* macros); and, by pin, attr: "connected" (a pad is behind it), "usb" (a  *)
(* USB pad), "adcOnly" (an STM32H7 _C pad), "timer" (a timer reaches it),  *)
(* "channel" (the core has an ADC channel for it), "dacChannel" (that      *)
(* channel is 0, the DAC's).                                               *)
(***************************************************************************)
EXTENDS UsbIoProtocol, FiniteSetsExt

MaxPins == 128
MaxAin  == 32

(* named_pin_count(): the last named pin + 1, clamped.                     *)
NamedPinCount(b) ==
    Min({Max({b.digital, b.a0 + b.analog} \cup {led + 1 : led \in b.leds}), b.pins, MaxPins})

AnalogHeaderPin(b, p) == p \in b.a0 .. b.a0 + b.analog - 1

(* Resolutions; a DAC exists where the core names or has one.              *)
AdcBits(b) == CASE b.arch = "mbed" -> 16 [] b.arch = "renesas" -> 14 [] OTHER -> 12
PwmBits(b) == CASE b.arch = "samd" -> 10 [] b.arch = "esp32" -> 8 [] OTHER -> 12
DacBits(b) ==
    IF b.arch = "samd" THEN 10
    ELSE IF b.arch = "rp2040" \/ b.dacs = {} THEN 0
    ELSE IF b.arch = "esp32" THEN 8 ELSE 12
HasPulldown(b) == b.arch # "renesas"

(* pin_has_dio() and its likes, by architecture.                           *)
HasDio(b, p) ==
    CASE b.arch = "mbed"    -> "connected" \in b.attr[p] /\ "adcOnly" \notin b.attr[p]
      [] b.arch = "renesas" -> p < b.pins
      [] b.arch = "samd"    -> p < b.pins /\ "connected" \in b.attr[p] /\ "usb" \notin b.attr[p]
      [] OTHER              -> p < b.digital
HasAin(b, p) == IF b.arch = "esp32" THEN "channel" \in b.attr[p] ELSE AnalogHeaderPin(b, p)
HasPwm(b, p) == HasDio(b, p) /\ (b.arch \in {"rp2040", "esp32"} \/ "timer" \in b.attr[p])
HasDac(b, p) ==
    CASE b.arch = "samd"   -> p < b.pins /\ {"channel", "dacChannel"} \subseteq b.attr[p]
      [] b.arch = "rp2040" -> FALSE
      [] OTHER             -> p \in b.dacs

-----------------------------------------------------------------------------
(* begin(), once it has returned: the first MaxAin analog pins count.      *)
AinBefore(b, p) == Cardinality({q \in 0 .. p - 1 : HasAin(b, q)})
BeginCaps(b) ==
    [p \in 0 .. NamedPinCount(b) - 1 |->
        {c \in Capabilities :
            \/ c = "DIO" /\ HasDio(b, p)
            \/ c = "AIN" /\ HasAin(b, p) /\ AinBefore(b, p) < MaxAin
            \/ c = "PWM" /\ HasPwm(b, p)
            \/ c = "DAC" /\ DacBits(b) # 0 /\ HasDac(b, p)}]

AnalogPins(caps) == {p \in DOMAIN caps : "AIN" \in caps[p]}

(* usbio_transport_begin(): the cores whose transport has the interface    *)
(* and the bulk endpoint.                                                  *)
HasInterface(b) == b.arch \in {"mbed", "samd"}

(* The reply to GET_INFO.                                                  *)
BoardInfo(b, minPeriod) ==
    [version |-> 1, pins |-> NamedPinCount(b), ain |-> Cardinality(AnalogPins(BeginCaps(b))),
     bits |-> [AI_READ |-> AdcBits(b), PWM_WRITE |-> PwmBits(b), DAC_WRITE |-> DacBits(b)],
     hasPulldown |-> HasPulldown(b), streaming |-> HasInterface(b), events |-> TRUE,
     minPeriod |-> IF HasInterface(b) THEN minPeriod ELSE 0]

(* Device's load_info(), then its load_caps().                             *)
InfoAccepted(info) ==
    /\ info.version = 1 /\ info.pins \in 1 .. MaxPins
    /\ info.ain <= MaxAin /\ info.ain <= info.pins
CapsAccepted(info, caps) ==
    DOMAIN caps = 0 .. info.pins - 1 /\ Cardinality(AnalogPins(caps)) = info.ain
=============================================================================
