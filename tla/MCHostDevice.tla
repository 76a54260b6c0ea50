----------------------------- MODULE MCHostDevice -----------------------------
(***************************************************************************)
(* Instances of HostDevice for TLC.                                        *)
(***************************************************************************)
EXTENDS HostDevice, BoardTables

MCCore ==
    [arch |-> "mbed", digital |-> 2, a0 |-> 0, analog |-> 2, leds |-> {1}, pins |-> 2,
     dacs |-> {}, attr |-> 0 :> {"connected"} @@ 1 :> {"connected", "timer"}]
CoreCaps == BeginCaps(MCCore)
CoreInfo == BoardInfo(MCCore, 2) @@ [legacyMinPeriod |-> 4]
(* A constant definition that the cfg does not name is evaluated once.     *)
MCCaps == CoreCaps
MCInfo == CoreInfo

StartCall(pins, period) == [op |-> "START", pins |-> pins, period |-> period]
PinCall(op, pin, value) == [op |-> op, pin |-> pin, value |-> value]
MCCalls ==
    {StartCall(<<0, 1>>, 0), StartCall(<<0>>, 2), StartCall(<<0>>, 1),
     PinCall("PIN_MODE", 1, PWM), PinCall("PIN_MODE", 0, PWM),
     PinCall("PWM_WRITE", 1, 4095), PinCall("PWM_WRITE", 1, 4096),
     PinCall("AI_READ", 1, 0), PinCall("RESET", 0, 0), [op |-> "SYNC"]}
MCMaxCalls == (CHOOSE t \in Threads : TRUE) :> 2 @@ [t \in Threads |-> 1]
MCLeftovers == {<<>>, <<1>>, <<1, 0>>}

OrderCalls == {StartCall(<<0, 1>>, 0), StartCall(<<1, 0>>, 0)}
OrderMaxCalls == [t \in Threads |-> 2]
NoLeftovers == {<<>>}

(* begin() leaves tables that a Device accepts on boards of every          *)
(* architecture: without analog inputs, with the most a reply can hold,    *)
(* and with more; with a named pin past the headers.                       *)
Boards ==
    {[arch |-> arch, digital |-> 8, a0 |-> 4, analog |-> analog, leds |-> leds, pins |-> pins,
      dacs |-> {4}, attr |-> [p \in 0 .. pins - 1 |->
                  IF p % 3 = 0 THEN {"connected", "timer"} ELSE {"channel", "dacChannel", "usb"}]] :
        arch \in {"mbed", "renesas", "samd", "rp2040", "esp32"},
        analog \in {0, 32, 40}, leds \in {{}, {50}, {130}}, pins \in {60, 140}}
ASSUME BoardsAccepted ==
    \A b \in Boards : /\ InfoAccepted(BoardInfo(b, 500))
                      /\ CapsAccepted(BoardInfo(b, 500), BeginCaps(b))
===============================================================================
