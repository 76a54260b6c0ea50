----------------------------- MODULE HostProtocol -----------------------------
(***************************************************************************)
(* The host driver's side of the wire protocol, as pure operators: which   *)
(* exception a refusal becomes, what the driver checks before it sends,    *)
(* how replies are measured, and the arithmetic on the device's wrapping   *)
(* clocks and counters.                                                    *)
(*                                                                         *)
(* Replies are records of lengths and fields, never bytes.  Widths are     *)
(* parameters (Wrap, Half), so that theorems cover the code's 2^32 and     *)
(* runs can wrap after a few steps.                                        *)
(***************************************************************************)
EXTENDS UsbIoProtocol, Integers, Sequences

-----------------------------------------------------------------------------
(* Outcomes of a call                                                      *)

(* Device.cpp's throw_for_status().                                        *)
StatusError(s) ==
    CASE s = "BAD_PIN"     -> "InvalidPin"
      [] s = "BAD_MODE"    -> "InvalidMode"
      [] s = "UNSUPPORTED" -> "NotSupported"
      [] s = "BAD_VALUE"   -> "InvalidValue"
      [] s = "QUEUE_FULL"  -> "QueueFull"
      [] s = "BUSY"        -> "DeviceBusy"
      [] OTHER             -> "ProtocolError"

(* LibusbTransport.cpp: the exception of a libusb code, and the code of a  *)
(* transfer that did not complete.                                         *)
UsbException(code) ==
    CASE code = "PIPE"    -> "StallError"
      [] code = "TIMEOUT" -> "TimeoutError"
      [] OTHER            -> "UsbError"

TransferCode(status) ==
    CASE status = "ERROR"     -> "IO"
      [] status = "TIMED_OUT" -> "TIMEOUT"
      [] status = "CANCELLED" -> "INTERRUPTED"
      [] status = "STALL"     -> "PIPE"
      [] status = "NO_DEVICE" -> "NO_DEVICE"
      [] status = "OVERFLOW"  -> "OVERFLOW"
      [] OTHER                -> "OTHER"

(* Enumerator.cpp: a device that could not be opened may still be one.     *)
KeepUnprobed(code) == code \in {"ACCESS", "NOT_SUPPORTED", "BUSY"}

-----------------------------------------------------------------------------
(* Requests and what the driver checks itself                              *)

OutRequests == {"PIN_MODE", "DIO_WRITE", "PWM_WRITE", "DAC_WRITE",
                "STREAM_SELECT", "STREAM_START", "STREAM_STOP",
                "EVENT_CONFIG", "RESET"}
InRequests  == {"GET_INFO", "GET_PIN_CAPS", "DIO_READ", "AI_READ",
                "DIO_READ_ALL", "AI_READ_ALL", "GET_STATUS", "STREAM_STATUS",
                "GET_TIME", "EVENT_POP", "EVENT_COUNTS"}
IsOut(request) == request \in OutRequests

(* required_caps(), mode_supported(): 0xFF, which no pin satisfies, is a   *)
(* capability no pin carries.                                              *)
RequiredCap(m) ==
    CASE m \in {INPUT, OUTPUT, INPUT_PULLUP, INPUT_PULLDOWN} -> "DIO"
      [] m = ANALOG_IN -> "AIN"
      [] m = PWM       -> "PWM"
      [] m = DAC       -> "DAC"
      [] OTHER         -> "none"

ModeSupported(caps, hasPulldown, m) ==
    RequiredCap(m) \in caps /\ (m # INPUT_PULLDOWN \/ hasPulldown)

(* Info::min_stream_period_us(), and start_stream()'s test of the period.  *)
MinStreamPeriod(info) ==
    IF ~info.streaming THEN 0
    ELSE IF info.minPeriod # 0 THEN info.minPeriod ELSE info.legacyMinPeriod

PeriodAccepted(info, period) ==
    period = 0 \/ period \in MinStreamPeriod(info) .. 65535

(* max_value(): the full scale of a resolution in bits.                    *)
MaxValue(bits) == IF bits >= 16 THEN 65535 ELSE 2 ^ bits - 1

(* encode_event_config_value(), interface_index(): two bytes in wValue and *)
(* wIndex, which the firmware takes apart again.                           *)
HighLow(high, low) == 256 * high + low
HighByte(word) == word \div 256
LowByte(word)  == word % 256

-----------------------------------------------------------------------------
(* The length of a stream record: a header, the samples, and a bitmap of   *)
(* the digital pins padded to whole samples.                               *)

StreamHeaderLen == 12

DioBitmapLen(nPins)    == (nPins + 7) \div 8
StreamBitmapLen(nPins) == DioBitmapLen(nPins) + (DioBitmapLen(nPins) % 2)
StreamRecordLen(nSamples, digital, nPins) ==
    StreamHeaderLen + 2 * nSamples
        + (IF digital THEN StreamBitmapLen(nPins) ELSE 0)

-----------------------------------------------------------------------------
(* Wrapping clocks and counters                                            *)

(* reconstruct_micros64(): the 64-bit time of a millis() and a micros()    *)
(* read together, micros() wrapping at wrap.                               *)
ReconstructMicros(wrap, millis, micros) ==
    LET coarse    == 1000 * millis
        candidate == (coarse \div wrap) * wrap + micros
    IN  IF 2 * (candidate - coarse) > wrap THEN candidate - wrap
        ELSE IF 2 * (coarse - candidate) > wrap THEN candidate + wrap
        ELSE candidate

(* Stream.cpp's two tests of a difference of unsigned counters: a record   *)
(* is of an earlier session, and how many records are missing before it.   *)
IsStale(wrap, startT, t) ==
    LET age == (startT - t) % wrap IN age # 0 /\ 2 * age < wrap

SeqGap(wrap, lastSeq, seq) ==
    LET gap == (seq - (lastSeq + 1)) % wrap IN IF 2 * gap < wrap THEN gap ELSE 0

(* UsbIo.cpp's (int32_t)(now - deadline) >= 0, of debounce windows and of  *)
(* sampling deadlines.                                                     *)
IsDue(wrap, now, deadline) == 2 * ((now - deadline) % wrap) < wrap

(* stream_poll()'s next deadline after a record sampled at now.            *)
NextDeadline(wrap, now, deadline, period) ==
    LET next == (deadline + period) % wrap
    IN  IF IsDue(wrap, now, next) THEN (now + period) % wrap ELSE next
=============================================================================
