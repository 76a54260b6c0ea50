---------------------------- MODULE UsbIoProtocol ----------------------------
(***************************************************************************)
(* The vocabulary of the UsbIo vendor protocol that the firmware and the   *)
(* host share: pin modes, pin capabilities, request outcomes, and the pure *)
(* predicates the firmware's interrupt handler applies to them.            *)
(*                                                                         *)
(* Modes keep their numbers on the wire, because the firmware compares     *)
(* them as numbers (wValue >= USBIO_MODE_COUNT).  Requests, capabilities   *)
(* and outcomes are names.                                                 *)
(***************************************************************************)
EXTENDS Naturals

(* enum usbio_pin_mode, and UsbIo.h's marker of a pin never configured.    *)
INPUT          == 0
OUTPUT         == 1
INPUT_PULLUP   == 2
INPUT_PULLDOWN == 3
ANALOG_IN      == 4
PWM            == 5
DAC            == 6
MODE_COUNT     == 7
ModeNone       == 255

Modes   == 0 .. MODE_COUNT - 1
AnyMode == Modes \cup {ModeNone}

(* enum usbio_pin_caps: what the board's core can do with a pin.           *)
Capabilities == {"DIO", "AIN", "PWM", "DAC"}

(* enum usbio_status: the status byte of a reply and the recorded reason   *)
(* of a STALL.                                                             *)
Statuses == {"OK", "BUSY", "BAD_PIN", "BAD_MODE", "BAD_CMD", "UNSUPPORTED",
             "QUEUE_FULL", "BAD_VALUE"}

(* mode_allowed(): the capability that a requested mode needs.             *)
ModeAllowed(caps, hasPulldown, m) ==
    \/ m \in {INPUT, OUTPUT, INPUT_PULLUP} /\ "DIO" \in caps
    \/ m = INPUT_PULLDOWN /\ "DIO" \in caps /\ hasPulldown
    \/ m = ANALOG_IN /\ "AIN" \in caps
    \/ m = PWM /\ "PWM" \in caps
    \/ m = DAC /\ "DAC" \in caps

ModeIsInput(m)   == m \in {INPUT, INPUT_PULLUP, INPUT_PULLDOWN}
ModeIsDigital(m) == ModeIsInput(m) \/ m = OUTPUT

(* The mode RESET intends for a pin: request_reset().                      *)
ResetMode(caps) == IF "DIO" \in caps THEN INPUT ELSE ModeNone
=============================================================================
