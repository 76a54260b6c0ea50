------------------------------- MODULE HostOpen -------------------------------
(***************************************************************************)
(* open_first() and open_by_serial(): the buses are listed, every candidate*)
(* is probed through a transport of its own, the first that is identified  *)
(* (and carries the serial asked for) is opened again, and Device's        *)
(* constructor waits until its sketch has called UsbIo.begin() and checks  *)
(* what the board says of itself.                                          *)
(*                                                                         *)
(* Opening, claiming and the control transfers can fail at every step with *)
(* any of FaultCodes; another program may hold the interface.  `usb' is the*)
(* libusb handle, of which one at most exists at a time.                   *)
(***************************************************************************)
EXTENDS HostProtocol, BoardTables

CONSTANTS
    Bus,            \* the devices libusb lists, in order: what each of them is
    Filtered,       \* EnumerateOptions names a vid or a pid
    Serial,         \* the serial asked for; "any" for open_first()
    ReadyAttempts,  \* Options::ready_max_attempts
    FaultCodes      \* libusb codes with which a step can fail

(* A device has: itf, the vendor interface; known, a vid UsbIo boards have;*)
(* matches, the filter accepts it; usbio, it runs UsbIo; serial; info and  *)
(* caps, what it says of itself once begin() has returned.                 *)
ASSUME OpenAssumption ==
    /\ ReadyAttempts \in Nat \ {0}
    /\ Len(Bus) \in Nat /\ DOMAIN Bus = 1 .. Len(Bus)
    /\ \A i \in DOMAIN Bus : Bus[i].itf \in BOOLEAN /\ (Bus[i].itf => Bus[i].usbio)
    /\ FaultCodes \subseteq {"ACCESS", "NOT_SUPPORTED", "BUSY", "NO_DEVICE", "PIPE", "TIMEOUT"}

VARIABLES
    phase,   \* list, found, info, partial, caps, ready, failed
    at,      \* the device in hand
    usb,     \* none, opened, claimed
    found,   \* DeviceInfo entries: what listing has found out
    starting, begun,   \* devices inside begin(), and after it
    tries, error,
    silent   \* history: devices that did not answer, or kept their serial

openVars == <<phase, at, usb, found, starting, begun, tries, error, silent>>

Probing == phase = "list"
Asking  == usb = (IF at \in DOMAIN Bus /\ Bus[at].itf THEN "claimed" ELSE "opened")

(* is_probe_candidate(); listing looks no further at other devices.        *)
Candidate(d) == d.matches /\ (d.itf \/ Filtered \/ d.known)

(* One entry of list_devices(): identified, or kept because it could not   *)
(* even be opened, or left out.                                            *)
Listed(identified, serial) ==
    Append(found, [dev |-> at, identified |-> identified, serial |-> serial])

SkipDevice ==
    /\ Probing /\ at \in DOMAIN Bus /\ usb = "none" /\ ~Candidate(Bus[at])
    /\ at' = at + 1
    /\ UNCHANGED <<phase, usb, found, starting, begun, tries, error, silent>>

(* LibusbTransport's constructor: open, then claim the interface if there  *)
(* is one; a claim that fails closes the handle.                           *)
OpenHandle ==
    /\ usb = "none" /\ at \in DOMAIN Bus /\ Candidate(Bus[at])
    /\ phase \in {"list", "found"}
    /\ usb' = "opened"
    /\ UNCHANGED <<phase, at, found, starting, begun, tries, error, silent>>

ClaimInterface ==
    /\ usb = "opened" /\ Bus[at].itf
    /\ usb' = "claimed"
    /\ UNCHANGED <<phase, at, found, starting, begun, tries, error, silent>>

(* close(), which every failure ends in: the transport is destroyed.       *)
Close == usb' = "none"

(* list_devices() catches what the probe of a device throws.  An entry it  *)
(* keeps has the serial if that was read before: GET_INFO comes after it.  *)
ProbeFails(code, short) ==
    /\ Probing /\ at \in DOMAIN Bus /\ Candidate(Bus[at])
    /\ IF Bus[at].itf \/ (~short /\ KeepUnprobed(code))
       THEN \E serial \in {""} \cup (IF Asking THEN {Bus[at].serial} ELSE {}) :
               found' = Listed(Bus[at].itf, serial)
       ELSE UNCHANGED found
    /\ silent' = silent \cup {at} /\ at' = at + 1 /\ Close
    /\ UNCHANGED <<phase, starting, begun, tries, error>>

(* The strings and GET_INFO are read.  A string that cannot be read is     *)
(* empty; GET_INFO of a device that is not ours is refused, or malformed.  *)
ProbeAnswers ==
    /\ Probing /\ Asking /\ Bus[at].usbio
    /\ \E serial \in {Bus[at].serial, ""} :
          /\ found' = Listed(TRUE, serial)
          /\ silent' = IF serial = "" THEN silent \cup {at} ELSE silent
    /\ at' = at + 1 /\ Close
    /\ UNCHANGED <<phase, starting, begun, tries, error>>

ProbeStep ==
    \/ ProbeAnswers
    \/ \E code \in FaultCodes : ProbeFails(code, FALSE)
    \/ Asking /\ ~Bus[at].usbio /\ ProbeFails("PIPE", TRUE)

-----------------------------------------------------------------------------
BugWanted(info) == info.identified
Wanted(info) == info.identified /\ (Serial = "any" \/ info.serial = Serial)

Throw(e) == phase' = "failed" /\ error' = e /\ Close

(* open_first(), open_by_serial(): the first entry that will do.           *)
Pick ==
    /\ Probing /\ at \notin DOMAIN Bus
    /\ LET good == {i \in DOMAIN found : Wanted(found[i])} IN
       IF good = {} THEN Throw("DeviceNotFound") /\ UNCHANGED at
       ELSE /\ at' = found[CHOOSE i \in good : \A j \in good : i <= j].dev
            /\ phase' = "found" /\ UNCHANGED <<error, usb>>
    /\ UNCHANGED <<found, starting, begun, tries, silent>>

OpenFails(code) ==
    /\ phase \in {"found", "info", "partial", "caps"}
    /\ Throw(UsbException(code))
    /\ UNCHANGED <<at, found, starting, begun, tries, silent>>

(* load_info(): asked again while the board has no pins, which is what it  *)
(* says until begin() sets their number.  The capabilities and the flags   *)
(* come later in begin(), so an answer from inside it is incomplete.       *)
InfoWrong ==
    \/ Bus[at].info.version # 1
    \/ at \in begun /\ ~InfoAccepted(Bus[at].info)
LoadInfo ==
    /\ phase \in {"found", "info"} /\ Asking /\ ~InfoWrong
    /\ IF at \in begun \cup starting
       THEN /\ phase' = IF at \in begun THEN "caps" ELSE "partial"
            /\ UNCHANGED <<tries, error, usb>>
       ELSE IF tries + 1 >= ReadyAttempts
       THEN Throw("NotReady") /\ UNCHANGED tries
       ELSE phase' = "info" /\ tries' = tries + 1 /\ UNCHANGED <<error, usb>>
    /\ UNCHANGED <<at, found, starting, begun, silent>>

(* load_info()'s and load_caps()'s checks of what the board says: version, *)
(* pin counts, and one AIN capability per analog input.  Those of an       *)
(* incomplete answer may or may not agree.                                 *)
Inconsistent ==
    /\ Asking
    /\ IF phase \in {"found", "info"} THEN InfoWrong
       ELSE \/ phase = "partial"
            \/ phase = "caps" /\ ~CapsAccepted(Bus[at].info, Bus[at].caps)
    /\ Throw("ProtocolError")
    /\ UNCHANGED <<at, found, starting, begun, tries, silent>>

LoadCaps ==
    /\ \/ phase = "partial"
       \/ phase = "caps" /\ CapsAccepted(Bus[at].info, Bus[at].caps)
    /\ phase' = "ready" /\ found' = <<>> /\ tries' = 0 /\ silent' = {}
    /\ begun' = {at} /\ starting' = {}
    /\ UNCHANGED <<at, usb, error>>

(* The sketch reaches begin(), and returns from it; a caller tries again.  *)
BeginStarts(i) ==
    /\ phase # "ready" /\ i \notin begun \cup starting /\ Bus[i].usbio
    /\ starting' = starting \cup {i}
    /\ UNCHANGED <<phase, at, usb, found, begun, tries, error, silent>>

BeginEnds(i) ==
    /\ phase # "ready" /\ i \in starting
    /\ starting' = starting \ {i} /\ begun' = begun \cup {i}
    /\ UNCHANGED <<phase, at, usb, found, tries, error, silent>>

Reopen ==
    /\ phase = "failed"
    /\ phase' = "list" /\ at' = 1 /\ found' = <<>> /\ tries' = 0
    /\ error' = "none" /\ silent' = {}
    /\ UNCHANGED <<usb, starting, begun>>

OpenInit ==
    /\ phase = "list" /\ at = 1 /\ usb = "none" /\ found = <<>>
    /\ starting = {} /\ begun = {}
    /\ tries = 0 /\ error = "none" /\ silent = {}

OpenNext ==
    \/ SkipDevice \/ OpenHandle \/ ClaimInterface \/ ProbeStep \/ Pick
    \/ \E code \in FaultCodes : OpenFails(code)
    \/ LoadInfo \/ Inconsistent \/ LoadCaps \/ Reopen
    \/ \E i \in DOMAIN Bus : BeginStarts(i) \/ BeginEnds(i)

-----------------------------------------------------------------------------
(* DeviceNotFound is thrown only if no device on the bus that runs UsbIo,  *)
(* passes the filter and has the serial answered its probe; capabilities   *)
(* are never taken from a board whose sketch has not reached begin(), and  *)
(* a Device is ready only on a board of this protocol version that has the *)
(* serial (Enumerator.cpp, Device.cpp:98-160).                             *)
OpensTheRightOne ==
    /\ error = "DeviceNotFound" =>
          \A i \in DOMAIN Bus : Bus[i].usbio /\ Candidate(Bus[i])
             /\ (Serial = "any" \/ Bus[i].serial = Serial) => i \in silent
    /\ phase \in {"partial", "caps"} => at \in begun \cup starting
    /\ phase = "caps" => at \in begun
    /\ phase = "ready" => /\ Asking /\ Bus[at].usbio /\ Bus[at].info.version = 1
                          /\ Serial \in {"any", Bus[at].serial}
=============================================================================
