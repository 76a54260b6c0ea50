------------------------- MODULE UsbIoCommandsProofs -------------------------
(***************************************************************************)
(* Theorems about UsbIoCommands, for every board, queue depth, tag width   *)
(* and set of requests that satisfy CommandsAssumption.                    *)
(***************************************************************************)
EXTENDS UsbIoCommands, TLAPS

(***************************************************************************)
(* The inductive invariant behind IntentApplied.                           *)
(***************************************************************************)

(* A queued entry that RESET has not invalidated.                          *)
Live(e) == e.epoch = epoch
LivePinMode(e, p) == Live(e) /\ e.cmd = "PIN_MODE" /\ e.pin = p

(* The mode that an entry leaves its pin in when it is executed.           *)
EntryMode(e) == IF e.cmd = "PIN_MODE" THEN e.value ELSE ModeFor(e.cmd)

NoPinModeAfter(i, p) == \A j \in i + 1 .. Len(queue) : ~LivePinMode(queue[j], p)

(* While a RESET is pending, everything that poll() still holds is stale,  *)
(* the intended modes are the reset's, and once the reset has been applied *)
(* the hardware agrees with them.                                          *)
ResetPart ==
    /\ \A i \in 1 .. Len(queue) : ~Live(queue[i])
    /\ InFlight => ~Live(cur)
    /\ \A p \in Pins : mode[p] = ResetMode(Caps[p])
    /\ pc = "resetDone" => \A p \in Pins : mode[p] # ModeNone => pad[p] = mode[p]

(* Otherwise the last word on a pin agrees with its intended mode: a live  *)
(* entry with no PIN_MODE of the same pin behind it, or the hardware when  *)
(* no PIN_MODE of the pin is left.                                         *)
LivePart ==
    /\ \A i \in 1 .. Len(queue) :
        Live(queue[i]) /\ NoPinModeAfter(i, queue[i].pin) =>
            EntryMode(queue[i]) = mode[queue[i].pin]
    /\ InFlight /\ Live(cur) /\ NoPinModeAfter(0, cur.pin) =>
            EntryMode(cur) = mode[cur.pin]
    /\ \A p \in Pins :
        /\ mode[p] # ModeNone
        /\ NoPinModeAfter(0, p)
        /\ ~(InFlight /\ LivePinMode(cur, p))
        => pad[p] = mode[p]

ResetSteps == pc \in {"reset", "resetDone"} => ResetPending

IntentInv ==
    /\ ResetSteps
    /\ StaleOnlyBeforeReset
    /\ ResetPending => ResetPart
    /\ ~ResetPending => LivePart
-----------------------------------------------------------------------------
USE CommandsAssumption DEF Pins

(* The arithmetic of tags and pins stays in range.                         *)
LEMMA WrapType == \A i \in 0 .. TagMod - 1 : Wrap(i) \in 0 .. TagMod - 1
  BY DEF Wrap

LEMMA NextPinType == \A p \in Pins : NextPin(p) \in Pins
  BY DEF NextPin

(* A DAC code in range, scaled, is in range of analogWrite().              *)
LEMMA ScaledDac == \A v \in 0 .. DacMax : v * DacScale \in 0 .. PwmMax
  <1> SUFFICES ASSUME NEW v \in 0 .. DacMax
               PROVE  v * DacScale \in 0 .. PwmMax
    OBVIOUS
  <1>1. v * DacScale \in Nat
    OBVIOUS
  <1>2. v * DacScale <= DacMax * DacScale
    OBVIOUS
  <1> QED
    BY <1>1, <1>2

LEMMA DrivenType ==
  ASSUME NEW cmd \in Commands \ {"PIN_MODE"}, NEW v \in ValuesOf(cmd)
  PROVE  Driven(cmd, v) \in 0 .. PwmMax
  <1>1. CASE cmd = "DIO_WRITE"
    BY <1>1 DEF Driven, ValuesOf
  <1>2. CASE cmd = "PWM_WRITE"
    BY <1>2 DEF Driven, ValuesOf
  <1>3. CASE cmd = "DAC_WRITE"
    BY <1>3, ScaledDac DEF Driven, ValuesOf
  <1> QED
    BY <1>1, <1>2, <1>3 DEF Commands

(* What validation lets through is well formed.                            *)
LEMMA AcceptedIsWellFormed ==
  ASSUME TypeOK, NEW r \in Requests, Verdict(r) = "OK"
  PROVE  /\ r.pin \in Pins
         /\ [cmd |-> r.cmd, pin |-> r.pin, value |-> Stored(r), epoch |-> epoch]
                \in QueuedCommand
         /\ Len(queue) < QueueDepth
         /\ r.cmd # "PIN_MODE" => mode[r.pin] = ModeFor(r.cmd)
         /\ r.cmd = "PIN_MODE" => r.value \in Modes /\ Stored(r) = r.value
         /\ r.cmd # "PIN_MODE" => Driven(r.cmd, Stored(r)) \in 0 .. PwmMax
  <1>1. r \in [cmd : Commands, pin : Nat, value : Nat]
    OBVIOUS
  <1>2. r.pin \in Pins
    BY <1>1 DEF Verdict
  <1>3. Len(queue) < QueueDepth
    <2>1. ~QueueIsFull
      BY DEF Verdict
    <2>2. Len(queue) \in Nat
      BY DEF TypeOK
    <2> QED
      BY <2>1, <2>2 DEF QueueIsFull
  <1>4. r.cmd = "PIN_MODE" => r.value \in Modes /\ Stored(r) = r.value
    BY <1>1, <1>2 DEF Verdict, Stored, Modes, MODE_COUNT
  <1>5. r.cmd # "PIN_MODE" => mode[r.pin] = ModeFor(r.cmd)
    BY <1>2 DEF Verdict
  <1>6. Stored(r) \in ValuesOf(r.cmd) /\ Stored(r) \in Nat
    <2>1. CASE r.cmd = "PIN_MODE"
      BY <1>1, <1>4, <2>1 DEF ValuesOf
    <2>2. CASE r.cmd = "DIO_WRITE"
      BY <1>1, <2>2 DEF ValuesOf, Stored
    <2>3. CASE r.cmd = "PWM_WRITE"
      BY <1>1, <1>2, <2>3 DEF ValuesOf, Stored, Verdict, MaxValue
    <2>4. CASE r.cmd = "DAC_WRITE"
      BY <1>1, <1>2, <2>4 DEF ValuesOf, Stored, Verdict, MaxValue
    <2> QED
      BY <1>1, <2>1, <2>2, <2>3, <2>4 DEF Commands
  <1>7. [cmd |-> r.cmd, pin |-> r.pin, value |-> Stored(r), epoch |-> epoch]
           \in QueuedCommand
    BY <1>1, <1>2, <1>6 DEF QueuedCommand, TypeOK
  <1>8. r.cmd # "PIN_MODE" => Driven(r.cmd, Stored(r)) \in 0 .. PwmMax
    BY <1>1, <1>6, DrivenType DEF Commands
  <1> QED
    BY <1>2, <1>3, <1>4, <1>5, <1>7, <1>8
-----------------------------------------------------------------------------
(***************************************************************************)
(* Type correctness.                                                       *)
(***************************************************************************)

LEMMA InitType == Init => TypeOK
  BY DEF Init, TypeOK, Statuses, AnyMode, NoCommand, InFlight

LEMMA ModeTypes ==
  /\ Modes \subseteq AnyMode /\ ModeNone \in AnyMode
  /\ {INPUT, ANALOG_IN, PWM, DAC, OUTPUT} \subseteq AnyMode
  BY DEF AnyMode, Modes, MODE_COUNT, ModeNone, INPUT, ANALOG_IN, PWM, DAC, OUTPUT

(* The command that poll() is executing passed validation.                 *)
LEMMA CurWellFormed ==
  ASSUME TypeOK, InFlight
  PROVE  cur.cmd \in Commands /\ cur.pin \in Pins /\ cur.value \in ValuesOf(cur.cmd)
         /\ cur.value \in Nat
  BY DEF TypeOK, QueuedCommand

LEMMA AppendType ==
  ASSUME NEW e \in QueuedCommand, queue \in Seq(QueuedCommand), Len(queue) < QueueDepth
  PROVE  /\ Append(queue, e) \in Seq(QueuedCommand)
         /\ Len(Append(queue, e)) <= QueueDepth
  <1> DEFINE S == QueuedCommand
  <1>1. queue \in Seq(S) /\ e \in S
    OBVIOUS
  <1> HIDE DEF S
  <1>2. Append(queue, e) \in Seq(S) /\ Len(Append(queue, e)) = Len(queue) + 1
    BY <1>1
  <1>3. Len(queue) \in Nat
    BY <1>1
  <1> QED
    BY <1>2, <1>3 DEF S

(* Every step of poll() preserves the types.                               *)
LEMMA PollType == TypeOK /\ PollStep => TypeOK'
  <1> SUFFICES ASSUME TypeOK, PollStep
               PROVE  TypeOK'
    OBVIOUS
  <1> USE DEF TypeOK, isrVars, pollVars, pinVars, InFlight
  <1>1. CASE BeginReset
    BY <1>1 DEF BeginReset
  <1>2. CASE NoResetToApply
    BY <1>2 DEF NoResetToApply
  <1>3. CASE ApplyReset
    <2>1. pad' \in [Pins -> AnyMode]
      BY <1>3, ModeTypes DEF ApplyReset
    <2>2. drive' \in [Pins -> 0 .. PwmMax]
      BY <1>3 DEF ApplyReset
    <2>3. dio' \in [Pins -> {0, 1}]
      BY <1>3 DEF ApplyReset
    <2>4. cursor' \in Pins /\ fresh' \subseteq Pins
      BY <1>3 DEF ApplyReset
    <2> QED
      BY <1>3, <2>1, <2>2, <2>3, <2>4 DEF ApplyReset
  <1>4. CASE FinishReset
    BY <1>4 DEF FinishReset
  <1>5. CASE TakeCommand
    BY <1>5 DEF TakeCommand
  <1>6. CASE DispatchCommand
    BY <1>6 DEF DispatchCommand
  <1>7. CASE SkipStaleCommand
    BY <1>7 DEF SkipStaleCommand
  <1>8. CASE ApplyDigitalMode
    <2>1. cur.pin \in Pins /\ cur.value \in AnyMode
      BY <1>8, CurWellFormed, ModeTypes DEF ApplyDigitalMode, ValuesOf
    <2>2. pad' \in [Pins -> AnyMode]
      BY <1>8, <2>1 DEF ApplyDigitalMode
    <2>3. drive' \in [Pins -> 0 .. PwmMax] /\ dio' \in [Pins -> {0, 1}]
      BY <1>8, <2>1 DEF ApplyDigitalMode
    <2> QED
      BY <1>8, <2>2, <2>3 DEF ApplyDigitalMode, Executed
  <1>9. CASE ApplyAnalogMode
    <2>1. cur.pin \in Pins
      BY <1>9, CurWellFormed DEF ApplyAnalogMode
    <2>2. pad' \in [Pins -> AnyMode] /\ drive' \in [Pins -> 0 .. PwmMax]
      BY <1>9, <2>1, ModeTypes DEF ApplyAnalogMode
    <2>3. fresh' \subseteq Pins
      BY <1>9, <2>1 DEF ApplyAnalogMode
    <2> QED
      BY <1>9, <2>2, <2>3 DEF ApplyAnalogMode, Executed
  <1>10. CASE ApplyAnalogOutputMode
    <2>1. cur.pin \in Pins /\ cur.value \in AnyMode
      BY <1>10, CurWellFormed, ModeTypes DEF ApplyAnalogOutputMode
    <2>2. pad' \in [Pins -> AnyMode] /\ drive' \in [Pins -> 0 .. PwmMax]
      BY <1>10, <2>1 DEF ApplyAnalogOutputMode
    <2> QED
      BY <1>10, <2>2 DEF ApplyAnalogOutputMode, Executed
  <1>11. CASE ExecuteDioWrite
    <2>1. cur.pin \in Pins /\ cur.value \in {0, 1}
      BY <1>11, CurWellFormed DEF ExecuteDioWrite, ValuesOf
    <2>2. dio' \in [Pins -> {0, 1}]
      BY <1>11, <2>1 DEF ExecuteDioWrite
    <2>3. drive' \in [Pins -> 0 .. PwmMax]
      BY <1>11, <2>1 DEF ExecuteDioWrite
    <2> QED
      BY <1>11, <2>2, <2>3 DEF ExecuteDioWrite, Executed
  <1>12. CASE ExecuteAnalogWrite
    <2>1. cur.pin \in Pins /\ ModeFor(cur.cmd) \in AnyMode
      BY <1>12, CurWellFormed, ModeTypes DEF ExecuteAnalogWrite, ModeFor
    <2>2. Driven(cur.cmd, cur.value) \in 0 .. PwmMax
      BY <1>12, CurWellFormed, DrivenType DEF ExecuteAnalogWrite, Commands
    <2>3. pad' \in [Pins -> AnyMode]
      BY <1>12, <2>1 DEF ExecuteAnalogWrite
    <2>4. drive' \in [Pins -> 0 .. PwmMax]
      BY <1>12, <2>1, <2>2 DEF ExecuteAnalogWrite
    <2> QED
      BY <1>12, <2>3, <2>4 DEF ExecuteAnalogWrite, Executed
  <1>13. CASE RepeatForReset
    BY <1>13 DEF RepeatForReset
  <1>14. CASE BeginRefresh
    BY <1>14 DEF BeginRefresh
  <1>15. CASE RefreshPin
    <2>1. dio' \in [Pins -> {0, 1}]
      BY <1>15 DEF RefreshPin
    <2>2. idx' \in Pins /\ pc' \in {"refresh", "sample"}
      BY <1>15 DEF RefreshPin
    <2> QED
      BY <1>15, <2>1, <2>2 DEF RefreshPin
  <1>16. ASSUME NEW p \in Pins, SampleAnalog(p)
         PROVE  TypeOK'
    <2>1. pad' \in [Pins -> AnyMode] /\ drive' \in [Pins -> 0 .. PwmMax]
      BY <1>16, ModeTypes DEF SampleAnalog
    <2>2. NextPin(p) \in Pins
      BY NextPinType
    <2>3. cursor' \in Pins /\ idx' \in Pins
      BY <1>16, <2>2 DEF SampleAnalog
    <2>4. fresh' \subseteq Pins
      BY <1>16 DEF SampleAnalog
    <2> QED
      BY <1>16, <2>1, <2>3, <2>4 DEF SampleAnalog
  <1>17. CASE SkipNonAnalog
    <2>1. cursor' \in Pins
      BY <1>17, NextPinType DEF SkipNonAnalog
    <2>2. idx' \in Pins /\ pc' \in {"poll", "sample"}
      BY <1>17 DEF SkipNonAnalog
    <2> QED
      BY <1>17, <2>1, <2>2 DEF SkipNonAnalog
  <1> QED
    BY <1>1, <1>2, <1>3, <1>4, <1>5, <1>6, <1>7, <1>8, <1>9, <1>10, <1>11,
       <1>12, <1>13, <1>14, <1>15, <1>16, <1>17 DEF PollStep, Execute

(* So does every request handler.                                          *)
LEMMA HandlerType ==
  ASSUME TypeOK,
         \/ HostStep
         \/ \E r \in Requests : RejectCommand(r)
         \/ RejectRequest
         \/ HandleGetStatus
  PROVE  TypeOK'
  <1> USE DEF TypeOK, isrVars, pollVars, pinVars, InFlight
  <1>1. ASSUME NEW r \in Requests, AcceptPinMode(r)
        PROVE  TypeOK'
    <2>1. Verdict(r) = "OK" /\ r.cmd = "PIN_MODE"
      BY <1>1 DEF AcceptPinMode
    <2>2. queue' \in Seq(QueuedCommand) /\ Len(queue') <= QueueDepth
      BY <1>1, <2>1, AcceptedIsWellFormed, AppendType DEF AcceptPinMode, Enqueue
    <2>3. r.pin \in Pins /\ r.value \in Modes
      BY <2>1, AcceptedIsWellFormed
    <2>4. mode' \in [Pins -> AnyMode]
      BY <1>1, <2>3 DEF AcceptPinMode, AnyMode
    <2>5. wanted' \in [Pins -> 0 .. PwmMax \cup {NoValue}]
      BY <1>1, <2>3 DEF AcceptPinMode
    <2>6. fresh' \subseteq Pins
      BY <1>1 DEF AcceptPinMode
    <2> QED
      BY <1>1, <2>2, <2>4, <2>5, <2>6 DEF AcceptPinMode
  <1>2. ASSUME NEW r \in Requests, AcceptWrite(r)
        PROVE  TypeOK'
    <2>1. Verdict(r) = "OK" /\ r.cmd # "PIN_MODE"
      BY <1>2 DEF AcceptWrite
    <2>2. queue' \in Seq(QueuedCommand) /\ Len(queue') <= QueueDepth
      BY <1>2, <2>1, AcceptedIsWellFormed, AppendType DEF AcceptWrite, Enqueue
    <2>3. r.pin \in Pins /\ Driven(r.cmd, Stored(r)) \in 0 .. PwmMax
      BY <2>1, AcceptedIsWellFormed
    <2>4. wanted' \in [Pins -> 0 .. PwmMax \cup {NoValue}]
      BY <1>2, <2>3 DEF AcceptWrite
    <2> QED
      BY <1>2, <2>2, <2>4 DEF AcceptWrite
  <1>3. ASSUME NEW r \in Requests, RejectCommand(r)
        PROVE  TypeOK'
    BY <1>3 DEF RejectCommand, Verdict, Statuses
  <1>4. CASE HandleReset
    <2>1. mode' \in [Pins -> AnyMode]
      BY <1>4, ModeTypes DEF HandleReset, ResetMode
    <2>2. wanted' \in [Pins -> 0 .. PwmMax \cup {NoValue}] /\ fresh' \subseteq Pins
      BY <1>4 DEF HandleReset
    <2>3. epoch' \in 0 .. TagMod - 1 /\ resetRequests' \in 0 .. TagMod - 1
      BY <1>4, WrapType DEF HandleReset
    <2> QED
      BY <1>4, <2>1, <2>2, <2>3 DEF HandleReset
  <1>5. CASE RejectRequest \/ HandleGetStatus
    BY <1>5 DEF RejectRequest, HandleGetStatus, Statuses
  <1> QED
    BY <1>1, <1>2, <1>3, <1>4, <1>5 DEF HostStep

LEMMA NextType == TypeOK /\ [Next]_vars => TypeOK'
  <1>1. TypeOK /\ UNCHANGED vars => TypeOK'
    BY DEF TypeOK, vars, isrVars, pollVars, pinVars, InFlight
  <1> QED
    BY <1>1, PollType, HandlerType DEF Next

(* TypeOK is an invariant of every instance: in particular the queue never *)
(* holds more than QueueDepth commands (enqueue(), UsbIo.cpp:185-198) and  *)
(* no command drives a pin beyond analogWrite()'s range (execute()).       *)
THEOREM TypeCorrect == Spec => []TypeOK
  BY InitType, NextType, PTL DEF Spec
-----------------------------------------------------------------------------
(***************************************************************************)
(* A stale command is executed only before its RESET is applied.           *)
(***************************************************************************)

LEMMA StaleNext ==
  ASSUME TypeOK, StaleOnlyBeforeReset, [Next]_vars
  PROVE  StaleOnlyBeforeReset'
  <1> USE DEF StaleOnlyBeforeReset, ResetPending
  <1>1. CASE DispatchCommand
    BY <1>1 DEF DispatchCommand, isrVars
  <1>2. CASE HandleReset
    BY <1>2 DEF HandleReset, NoTagReuse, pollVars
  <1>3. ASSUME NEW r \in Requests,
               AcceptPinMode(r) \/ AcceptWrite(r) \/ RejectCommand(r)
        PROVE  StaleOnlyBeforeReset'
    BY <1>3 DEF AcceptPinMode, AcceptWrite, RejectCommand, pollVars, isrVars
  <1>4. CASE RejectRequest \/ HandleGetStatus
    BY <1>4 DEF RejectRequest, HandleGetStatus, pollVars
  <1>5. ASSUME PollStep, ~DispatchCommand
        PROVE  pc' # "execute"
    BY <1>5 DEF PollStep, Execute, Executed, BeginReset, NoResetToApply,
       ApplyReset, FinishReset, TakeCommand, SkipStaleCommand, ApplyDigitalMode,
       ApplyAnalogMode, ApplyAnalogOutputMode, ExecuteDioWrite,
       ExecuteAnalogWrite, RepeatForReset, BeginRefresh, RefreshPin,
       SampleAnalog, SkipNonAnalog
  <1>6. CASE UNCHANGED vars
    BY <1>6 DEF vars, isrVars, pollVars
  <1> QED
    BY <1>1, <1>2, <1>3, <1>4, <1>5, <1>6 DEF Next, HostStep

(* A command accepted before a RESET is executed after it only while that  *)
(* RESET is still to be applied: poll()'s test of the epoch,               *)
(* UsbIo.cpp:618-626, against request_reset(), for hosts that wait for     *)
(* their RESETs and hosts that do not.                                     *)
THEOREM StaleCommandsAreUndone == Spec => []StaleOnlyBeforeReset
  <1>1. Init => StaleOnlyBeforeReset
    BY DEF Init, StaleOnlyBeforeReset
  <1> QED
    BY <1>1, StaleNext, TypeCorrect, PTL DEF Spec
-----------------------------------------------------------------------------
(***************************************************************************)
(* The hardware agrees with the intended modes.                            *)
(***************************************************************************)

(* What decides IntentInv, besides the pads.                               *)
intentVars == <<mode, epoch, queue, resetRequests, resetDone>>

(* A step that leaves all of that alone, between states in which poll()    *)
(* has no command in its hands, preserves the invariant.                   *)
LEMMA IntentQuiet ==
  ASSUME IntentInv, UNCHANGED <<intentVars, pad>>, ~InFlight,
         pc' \notin {"dispatch", "execute", "resetDone"},
         pc' = "reset" => ResetPending
  PROVE  IntentInv'
  BY DEF IntentInv, ResetSteps, StaleOnlyBeforeReset, ResetPart, LivePart,
     InFlight, Live, LivePinMode, NoPinModeAfter, EntryMode, ResetPending, intentVars

(* So does a step that also leaves poll() and its command alone.           *)
LEMMA IntentStutter ==
  ASSUME IntentInv, UNCHANGED <<intentVars, pad, pc, cur>>
  PROVE  IntentInv'
  BY DEF IntentInv, ResetSteps, StaleOnlyBeforeReset, ResetPart, LivePart,
     InFlight, Live, LivePinMode, NoPinModeAfter, EntryMode, ResetPending, intentVars

LEMMA IntentInit == Init => IntentInv
  BY DEF Init, IntentInv, ResetSteps, StaleOnlyBeforeReset, ResetPart, LivePart,
     InFlight, ResetPending

(* Executing the command in hand: nothing but its pin's pad changes, and   *)
(* that to the mode of the command, or to nothing new for DIO_WRITE.       *)
LEMMA IntentExecute ==
  ASSUME TypeOK, IntentInv, pc = "execute", pc' = "drain", UNCHANGED intentVars,
         \A p \in Pins : p # cur.pin => pad'[p] = pad[p],
         \/ pad'[cur.pin] = EntryMode(cur)
         \/ cur.cmd # "PIN_MODE" /\ pad'[cur.pin] = pad[cur.pin]
  PROVE  IntentInv'
  <1> USE DEF ResetPending, intentVars
  <1>1. ResetSteps' /\ StaleOnlyBeforeReset'
    BY DEF ResetSteps, StaleOnlyBeforeReset
  <1>2. CASE ResetPending
    BY <1>1, <1>2 DEF IntentInv, ResetPart, InFlight, Live
  <1>3. CASE ~ResetPending
    <2>1. LivePart /\ Live(cur) /\ InFlight
      BY <1>3 DEF IntentInv, StaleOnlyBeforeReset, Live, InFlight
    <2>2. ASSUME NEW p \in Pins, mode[p] # ModeNone, NoPinModeAfter(0, p)
          PROVE  pad'[p] = mode[p]
      <3>1. CASE p # cur.pin
        BY <2>1, <2>2, <3>1 DEF LivePart, LivePinMode
      <3>2. CASE p = cur.pin
        BY <2>1, <2>2, <3>2 DEF LivePart, LivePinMode
      <3> QED
        BY <3>1, <3>2
    <2>3. LivePart'
      BY <2>1, <2>2 DEF LivePart, InFlight, Live, LivePinMode, NoPinModeAfter, EntryMode
    <2> QED
      BY <1>1, <1>3, <2>3 DEF IntentInv
  <1> QED
    BY <1>2, <1>3

LEMMA EntryType ==
  ASSUME TypeOK, NEW i \in 1 .. Len(queue)
  PROVE  queue[i] \in QueuedCommand /\ queue[i].pin \in Pins
  <1> DEFINE S == QueuedCommand
  <1>1. queue \in Seq(S)
    BY DEF TypeOK
  <1> HIDE DEF S
  <1>2. queue[i] \in S
    BY <1>1
  <1> QED
    BY <1>2 DEF S, QueuedCommand

(* TakeCommand shifts the queue by one and puts its head in poll()'s hand. *)
LEMMA Taken ==
  ASSUME TypeOK, TakeCommand
  PROVE  /\ cur' = queue[1] /\ pc = "drain" /\ pc' = "dispatch"
         /\ UNCHANGED <<mode, epoch, resetRequests, resetDone, pinVars, fresh, wanted>>
         /\ Len(queue) \in Nat \ {0} /\ Len(queue') = Len(queue) - 1
         /\ \A i \in 1 .. Len(queue') : queue'[i] = queue[i + 1]
  <1>1. /\ queue # <<>> /\ queue \in Seq(QueuedCommand) /\ queue' = Tail(queue)
        /\ cur' = queue[1] /\ pc = "drain" /\ pc' = "dispatch"
        /\ UNCHANGED <<mode, epoch, resetRequests, resetDone, pinVars, fresh, wanted>>
    BY DEF TakeCommand, isrVars, TypeOK
  <1>2. /\ Len(queue) \in Nat \ {0}
        /\ Len(queue') = Len(queue) - 1
        /\ \A i \in 1 .. Len(queue') : queue'[i] = queue[i + 1]
    <2> DEFINE S == QueuedCommand
    <2>1. queue \in Seq(S) /\ queue # <<>> /\ queue' = Tail(queue)
      BY <1>1
    <2> HIDE DEF S
    <2> QED
      BY <2>1
  <1> QED
    BY <1>1, <1>2

(* What is live, and the last word on a pin, are what they were.           *)
LEMMA IntentTake == TypeOK /\ IntentInv /\ TakeCommand => IntentInv'
  <1> SUFFICES ASSUME TypeOK, IntentInv, TakeCommand
               PROVE  IntentInv'
    OBVIOUS
  <1> USE DEF ResetPending
  <1>1. /\ cur' = queue[1] /\ pc = "drain" /\ pc' = "dispatch"
        /\ UNCHANGED <<mode, epoch, resetRequests, resetDone, pad>>
    BY Taken DEF pinVars
  <1>2. /\ Len(queue) \in Nat \ {0}
        /\ Len(queue') = Len(queue) - 1
        /\ \A i \in 1 .. Len(queue') : queue'[i] = queue[i + 1]
    BY Taken
  <1>3. ResetSteps' /\ StaleOnlyBeforeReset'
    BY <1>1 DEF ResetSteps, StaleOnlyBeforeReset
  <1>4. CASE ResetPending
    <2>1. ResetPart
      BY <1>4 DEF IntentInv
    <2>2. ASSUME NEW i \in 1 .. Len(queue')
          PROVE  ~Live(queue[i])'
      <3>1. i + 1 \in 1 .. Len(queue) /\ queue'[i] = queue[i + 1]
        BY <1>2
      <3> QED
        BY <1>1, <2>1, <3>1 DEF ResetPart, Live
    <2>3. ~Live(cur)'
      BY <1>1, <1>2, <2>1 DEF ResetPart, Live
    <2> QED
      BY <1>1, <1>3, <1>4, <2>1, <2>2, <2>3 DEF IntentInv, ResetPart
  <1>5. CASE ~ResetPending
    <2>1. LivePart /\ ~InFlight
      BY <1>1, <1>5 DEF IntentInv, InFlight
    <2>2. ASSUME NEW i \in 0 .. Len(queue'), NEW p, NoPinModeAfter(i, p)'
          PROVE  NoPinModeAfter(i + 1, p)
      <3> SUFFICES ASSUME NEW j \in i + 2 .. Len(queue)
                   PROVE  ~LivePinMode(queue[j], p)
        BY <1>2 DEF NoPinModeAfter
      <3>1. j - 1 \in i + 1 .. Len(queue') /\ queue'[j - 1] = queue[j]
        BY <1>2
      <3> QED
        BY <1>1, <2>2, <3>1 DEF NoPinModeAfter, LivePinMode, Live
    <2>3. ASSUME NEW p, NoPinModeAfter(0, p)', ~LivePinMode(cur, p)'
          PROVE  NoPinModeAfter(0, p)
      <3> SUFFICES ASSUME NEW j \in 1 .. Len(queue)
                   PROVE  ~LivePinMode(queue[j], p)
        BY <1>2 DEF NoPinModeAfter
      <3>1. CASE j = 1
        BY <1>1, <2>3, <3>1 DEF LivePinMode, Live
      <3>2. CASE j # 1
        <4>1. j - 1 \in 1 .. Len(queue') /\ queue'[j - 1] = queue[j]
          BY <1>2, <3>2
        <4> QED
          BY <1>1, <2>3, <4>1 DEF NoPinModeAfter, LivePinMode, Live
      <3> QED
        BY <3>1, <3>2
    <2>4. ASSUME NEW i \in 1 .. Len(queue'), Live(queue[i])',
                 NoPinModeAfter(i, queue[i].pin)'
          PROVE  (EntryMode(queue[i]) = mode[queue[i].pin])'
      <3>1. i + 1 \in 1 .. Len(queue) /\ queue'[i] = queue[i + 1]
        BY <1>2
      <3>2. NoPinModeAfter(i + 1, queue[i + 1].pin)
        <4> SUFFICES ASSUME NEW j \in i + 2 .. Len(queue)
                     PROVE  ~LivePinMode(queue[j], queue[i + 1].pin)
          BY <3>1 DEF NoPinModeAfter
        <4>1. j - 1 \in i + 1 .. Len(queue') /\ queue'[j - 1] = queue[j]
          BY <1>2
        <4> QED
          BY <1>1, <2>4, <3>1, <4>1 DEF NoPinModeAfter, LivePinMode, Live
      <3> QED
        BY <1>1, <2>1, <2>4, <3>1, <3>2 DEF LivePart, Live, EntryMode
    <2>5. ASSUME Live(cur)', NoPinModeAfter(0, cur.pin)'
          PROVE  (EntryMode(cur) = mode[cur.pin])'
      <3>1. NoPinModeAfter(1, queue[1].pin)
        <4>1. PICK p : p = queue[1].pin
          OBVIOUS
        <4>2. NoPinModeAfter(0, p)'
          BY <1>1, <2>5, <4>1
        <4>3. 0 \in 0 .. Len(queue') /\ 0 + 1 = 1
          BY <1>2
        <4> QED
          BY <2>2, <4>1, <4>2, <4>3
      <3> QED
        BY <1>1, <1>2, <2>1, <2>5, <3>1 DEF LivePart, Live, EntryMode
    <2>6. ASSUME NEW p \in Pins, mode'[p] # ModeNone, NoPinModeAfter(0, p)',
                 ~LivePinMode(cur, p)'
          PROVE  pad'[p] = mode'[p]
      <3>1. NoPinModeAfter(0, p)
        BY <2>3, <2>6
      <3> QED
        BY <1>1, <2>1, <2>6, <3>1 DEF LivePart
    <2>7. LivePart'
      BY <1>1, <2>4, <2>5, <2>6 DEF LivePart, InFlight
    <2> QED
      BY <1>1, <1>3, <1>5, <2>7 DEF IntentInv
  <1> QED
    BY <1>4, <1>5

(* An accepted command goes behind all others, and with it the intended    *)
(* mode: at once for PIN_MODE, as validated for a write.                   *)
Entry(r) == [cmd |-> r.cmd, pin |-> r.pin, value |-> Stored(r), epoch |-> epoch]

LEMMA Accepted ==
  ASSUME TypeOK, NEW r \in Requests, AcceptPinMode(r) \/ AcceptWrite(r)
  PROVE  /\ UNCHANGED <<epoch, resetRequests, resetDone, pc, cur, pinVars>>
         /\ r.pin \in Pins /\ EntryMode(Entry(r)) = mode'[r.pin]
         /\ \A p \in Pins : p # r.pin \/ r.cmd # "PIN_MODE" => mode'[p] = mode[p]
         /\ Len(queue) \in Nat /\ Len(queue') = Len(queue) + 1
         /\ \A i \in 1 .. Len(queue) : queue'[i] = queue[i]
         /\ queue'[Len(queue')] = Entry(r)
  <1>1. Verdict(r) = "OK" /\ queue' = Append(queue, Entry(r))
    BY DEF AcceptPinMode, AcceptWrite, Enqueue, Entry
  <1>2. UNCHANGED <<epoch, resetRequests, resetDone, pc, cur, pinVars>>
    BY DEF AcceptPinMode, AcceptWrite, isrVars, pollVars
  <1>3. /\ r.pin \in Pins /\ EntryMode(Entry(r)) = mode'[r.pin]
        /\ \A p \in Pins : p # r.pin \/ r.cmd # "PIN_MODE" => mode'[p] = mode[p]
    <2>1. CASE AcceptPinMode(r)
      BY <1>1, <2>1, AcceptedIsWellFormed DEF AcceptPinMode, EntryMode, Entry, TypeOK
    <2>2. CASE AcceptWrite(r)
      BY <1>1, <2>2, AcceptedIsWellFormed DEF AcceptWrite, EntryMode, Entry, TypeOK, isrVars
    <2> QED
      BY <2>1, <2>2
  <1>4. /\ Len(queue) \in Nat /\ Len(queue') = Len(queue) + 1
        /\ \A i \in 1 .. Len(queue) : queue'[i] = queue[i]
        /\ queue'[Len(queue')] = Entry(r)
    <2> DEFINE S == QueuedCommand
               e == Entry(r)
    <2>1. queue \in Seq(S) /\ e \in S /\ queue' = Append(queue, e)
      BY <1>1, AcceptedIsWellFormed DEF TypeOK, Entry
    <2> HIDE DEF S, e
    <2>2. queue'[Len(queue')] = e
      BY <2>1
    <2> QED
      BY <2>1, <2>2 DEF e
  <1> QED
    BY <1>2, <1>3, <1>4

(* The accepted command is the last word on its pin.                       *)
LEMMA IntentAccept ==
  ASSUME TypeOK, IntentInv, ~ResetPending,
         NEW r \in Requests, AcceptPinMode(r) \/ AcceptWrite(r)
  PROVE  IntentInv'
  <1> DEFINE e == Entry(r)
  <1>1. e.cmd = r.cmd /\ e.pin = r.pin /\ e.epoch = epoch
    BY DEF Entry
  <1>2. UNCHANGED <<epoch, resetRequests, resetDone, pc, cur, pad>>
    BY Accepted DEF pinVars
  <1>3. /\ r.pin \in Pins /\ EntryMode(e) = mode'[r.pin]
        /\ \A p \in Pins : p # r.pin \/ r.cmd # "PIN_MODE" => mode'[p] = mode[p]
    BY Accepted
  <1>4. /\ Len(queue) \in Nat /\ Len(queue') = Len(queue) + 1
        /\ \A i \in 1 .. Len(queue) : queue'[i] = queue[i]
        /\ queue'[Len(queue')] = e
    BY Accepted
  <1>5. \A i \in 1 .. Len(queue) : queue[i].pin \in Pins
    BY EntryType
  <1>6. r.cmd = "PIN_MODE" => LivePinMode(queue[Len(queue)], r.pin)'
    BY <1>1, <1>2, <1>4 DEF LivePinMode, Live
  <1> HIDE DEF e
  <1>7. \A i \in 0 .. Len(queue), p \in Pins :
          NoPinModeAfter(i, p)' =>
            /\ NoPinModeAfter(i, p)
            /\ p # r.pin \/ r.cmd # "PIN_MODE"
    <2> SUFFICES ASSUME NEW i \in 0 .. Len(queue), NEW p \in Pins, NoPinModeAfter(i, p)'
                 PROVE  NoPinModeAfter(i, p) /\ (p # r.pin \/ r.cmd # "PIN_MODE")
      OBVIOUS
    <2>1. NoPinModeAfter(i, p)
      BY <1>2, <1>4 DEF NoPinModeAfter, LivePinMode, Live
    <2>2. ~LivePinMode(queue[Len(queue)], p)'
      BY <1>4 DEF NoPinModeAfter
    <2> QED
      BY <2>1, <2>2, <1>6
  <1>8. ResetSteps' /\ StaleOnlyBeforeReset' /\ ~ResetPending' /\ LivePart
    BY <1>2 DEF IntentInv, ResetSteps, StaleOnlyBeforeReset, ResetPending
  <1>9. ASSUME NEW i \in 1 .. Len(queue'), Live(queue[i])',
               NoPinModeAfter(i, queue[i].pin)'
        PROVE  (EntryMode(queue[i]) = mode[queue[i].pin])'
    <2>1. CASE i = Len(queue')
      BY <1>1, <1>3, <1>4, <2>1
    <2>2. CASE i \in 1 .. Len(queue)
      <3> DEFINE p == queue[i].pin
      <3>1. queue'[i] = queue[i] /\ p \in Pins /\ Live(queue[i])
        BY <1>2, <1>4, <1>5, <1>9, <2>2 DEF Live
      <3>2. NoPinModeAfter(i, p)'
        BY <1>9, <3>1
      <3>3. NoPinModeAfter(i, p) /\ (p # r.pin \/ r.cmd # "PIN_MODE")
        BY <1>7, <2>2, <3>1, <3>2
      <3>4. mode'[p] = mode[p]
        BY <1>3, <3>1, <3>3
      <3>5. EntryMode(queue[i]) = mode[p]
        BY <1>8, <2>2, <3>1, <3>3 DEF LivePart
      <3> QED
        BY <3>1, <3>4, <3>5 DEF EntryMode
    <2> QED
      BY <1>4, <2>1, <2>2
  <1>10. ASSUME InFlight', Live(cur)', NoPinModeAfter(0, cur.pin)'
         PROVE  (EntryMode(cur) = mode[cur.pin])'
    <2>1. InFlight /\ Live(cur) /\ cur'.pin \in Pins /\ cur' = cur
      BY <1>2, <1>10, CurWellFormed DEF InFlight, Live
    <2>2. NoPinModeAfter(0, cur.pin)'
      BY <1>10
    <2>3. NoPinModeAfter(0, cur.pin) /\ (cur.pin # r.pin \/ r.cmd # "PIN_MODE")
      BY <1>4, <1>7, <2>1, <2>2
    <2>4. mode'[cur.pin] = mode[cur.pin]
      BY <1>3, <2>1, <2>3
    <2> QED
      BY <1>8, <2>1, <2>3, <2>4 DEF LivePart, EntryMode
  <1>11. ASSUME NEW p \in Pins, mode'[p] # ModeNone, NoPinModeAfter(0, p)',
                ~(InFlight /\ LivePinMode(cur, p))'
         PROVE  pad'[p] = mode'[p]
    BY <1>2, <1>3, <1>4, <1>7, <1>8, <1>11 DEF LivePart, InFlight, LivePinMode, Live
  <1>12. LivePart'
    BY <1>2, <1>9, <1>10, <1>11 DEF LivePart, InFlight, LivePinMode, Live
  <1> QED
    BY <1>8, <1>12 DEF IntentInv

(* RESET makes everything that poll() still holds stale: its tag is new.   *)
LEMMA IntentReset == TypeOK /\ IntentInv /\ HandleReset => IntentInv'
  <1> SUFFICES ASSUME TypeOK, IntentInv, HandleReset
               PROVE  IntentInv'
    OBVIOUS
  <1>1. /\ UNCHANGED <<queue, cur, pc, pad, resetDone>>
        /\ resetDone # resetRequests' /\ epoch' = Wrap(epoch)
        /\ mode' = [p \in Pins |-> ResetMode(Caps[p])]
    BY DEF HandleReset, NoTagReuse, pollVars, pinVars
  <1>2. ResetPending' /\ ResetSteps' /\ StaleOnlyBeforeReset'
    BY <1>1 DEF ResetPending, ResetSteps, StaleOnlyBeforeReset
  <1>3. (\A i \in 1 .. Len(queue) : ~Live(queue[i]))' /\ (InFlight => ~Live(cur))'
    BY <1>1 DEF HandleReset, NoTagReuse, Live, InFlight
  <1>4. (\A p \in Pins : mode[p] = ResetMode(Caps[p]))'
    BY <1>1
  <1>5. ASSUME pc' = "resetDone", NEW p \in Pins, mode'[p] # ModeNone
        PROVE  pad'[p] = mode'[p]
    BY <1>1, <1>5 DEF IntentInv, ResetSteps, ResetPart
  <1>6. ResetPart'
    BY <1>3, <1>4, <1>5 DEF ResetPart
  <1> QED
    BY <1>2, <1>6 DEF IntentInv

(* Applying the reset puts the pads in the modes that RESET intended.      *)
LEMMA IntentApplyReset == TypeOK /\ IntentInv /\ ApplyReset => IntentInv'
  <1> SUFFICES ASSUME TypeOK, IntentInv, ApplyReset
               PROVE  IntentInv'
    OBVIOUS
  <1>1. /\ UNCHANGED <<mode, epoch, resetRequests, queue, resetDone, cur>>
        /\ pc = "reset" /\ pc' = "resetDone"
        /\ pad' = [p \in Pins |-> IF "DIO" \in Caps[p] THEN INPUT ELSE pad[p]]
    BY DEF ApplyReset, isrVars
  <1>2. ResetPending /\ ResetPart
    BY <1>1 DEF IntentInv, ResetSteps
  <1>3. ResetPending' /\ ResetSteps' /\ StaleOnlyBeforeReset'
    BY <1>1, <1>2 DEF ResetPending, ResetSteps, StaleOnlyBeforeReset
  <1>4. ResetPart'
    BY <1>1, <1>2 DEF ResetPart, ResetMode, InFlight, Live
  <1> QED
    BY <1>3, <1>4 DEF IntentInv

(* Honouring the last RESET leaves nothing live and the pads in agreement; *)
(* honouring an earlier one leaves a RESET pending.                        *)
LEMMA IntentFinishReset == TypeOK /\ IntentInv /\ FinishReset => IntentInv'
  <1> SUFFICES ASSUME TypeOK, IntentInv, FinishReset
               PROVE  IntentInv'
    OBVIOUS
  <1>1. /\ UNCHANGED <<mode, epoch, resetRequests, queue, cur, pad>>
        /\ pc = "resetDone" /\ pc' = "poll"
    BY DEF FinishReset, isrVars, pinVars
  <1>2. ResetPart
    BY <1>1 DEF IntentInv, ResetSteps
  <1>3. ResetSteps' /\ StaleOnlyBeforeReset'
    BY <1>1 DEF ResetSteps, StaleOnlyBeforeReset
  <1>4. ResetPart'
    BY <1>1, <1>2 DEF ResetPart, InFlight, Live
  <1>5. LivePart'
    BY <1>1, <1>2 DEF ResetPart, LivePart, InFlight, Live
  <1> QED
    BY <1>3, <1>4, <1>5 DEF IntentInv

(* The round-robin reconfigures only the pad of a pin that is meant to be  *)
(* analog.                                                                 *)
LEMMA IntentSample ==
  ASSUME TypeOK, IntentInv, NEW q \in Pins, SampleAnalog(q)
  PROVE  IntentInv'
  <1>1. /\ UNCHANGED <<mode, epoch, resetRequests, queue, resetDone, cur>>
        /\ pc = "sample" /\ pc' = "poll"
        /\ mode[q] = ANALOG_IN /\ pad' = [pad EXCEPT ![q] = ANALOG_IN]
    BY DEF SampleAnalog, isrVars
  <1>2. ResetSteps' /\ StaleOnlyBeforeReset'
    BY <1>1 DEF ResetSteps, StaleOnlyBeforeReset
  <1>3. ResetPart => ResetPart'
    BY <1>1 DEF ResetPart, InFlight, Live
  <1>4. \A p \in Pins : pad[p] = mode[p] => pad'[p] = mode[p]
    BY <1>1 DEF TypeOK
  <1>5. LivePart => LivePart'
    BY <1>1, <1>4 DEF LivePart, InFlight, Live, LivePinMode, NoPinModeAfter, EntryMode
  <1> QED
    BY <1>1, <1>2, <1>3, <1>5 DEF IntentInv, ResetPending

LEMMA IntentDispatch ==
  ASSUME TypeOK, IntentInv, DispatchCommand \/ SkipStaleCommand
  PROVE  IntentInv'
  <1>1. UNCHANGED <<mode, epoch, resetRequests, queue, resetDone, pad>>
    BY DEF DispatchCommand, SkipStaleCommand, isrVars, pinVars
  <1>2. CASE DispatchCommand
    BY <1>1, <1>2 DEF DispatchCommand, IntentInv, ResetSteps, StaleOnlyBeforeReset,
       ResetPart, LivePart, InFlight, Live, LivePinMode, NoPinModeAfter, EntryMode,
       ResetPending
  <1>3. CASE SkipStaleCommand
    BY <1>1, <1>3 DEF SkipStaleCommand, IntentInv, ResetSteps, StaleOnlyBeforeReset,
       ResetPart, LivePart, InFlight, Live, LivePinMode, NoPinModeAfter, EntryMode,
       ResetPending
  <1> QED
    BY <1>2, <1>3

LEMMA IntentExecuteStep == TypeOK /\ IntentInv /\ Execute => IntentInv'
  <1> SUFFICES ASSUME TypeOK, IntentInv, Execute
               PROVE  IntentInv'
    OBVIOUS
  <1>1. pc = "execute" /\ pc' = "drain" /\ UNCHANGED intentVars /\ InFlight
    BY DEF Execute, Executed, ApplyDigitalMode, ApplyAnalogMode,
       ApplyAnalogOutputMode, ExecuteDioWrite, ExecuteAnalogWrite, intentVars,
       isrVars, InFlight
  <1>2. cur.pin \in Pins
    BY <1>1, CurWellFormed
  <1>3. CASE ApplyDigitalMode \/ ApplyAnalogMode \/ ApplyAnalogOutputMode
    <2>1. pad' = [pad EXCEPT ![cur.pin] = EntryMode(cur)]
      BY <1>3 DEF ApplyDigitalMode, ApplyAnalogMode, ApplyAnalogOutputMode, EntryMode
    <2> QED
      BY <1>1, <1>2, <2>1, IntentExecute DEF TypeOK
  <1>4. CASE ExecuteDioWrite
    BY <1>1, <1>4, IntentExecute DEF ExecuteDioWrite
  <1>5. CASE ExecuteAnalogWrite
    <2>1. pad' = [pad EXCEPT ![cur.pin] = EntryMode(cur)]
      BY <1>5 DEF ExecuteAnalogWrite, EntryMode
    <2> QED
      BY <1>1, <1>2, <2>1, IntentExecute DEF TypeOK
  <1> QED
    BY <1>3, <1>4, <1>5 DEF Execute

LEMMA IntentNext ==
  ASSUME ResetBarrier, TypeOK, IntentInv, [Next]_vars
  PROVE  IntentInv'
  <1>1. ASSUME NEW r \in Requests, AcceptPinMode(r) \/ AcceptWrite(r)
        PROVE  IntentInv'
    BY <1>1, IntentAccept DEF AcceptPinMode, AcceptWrite, HostMayCommand
  <1>2. CASE BeginReset \/ NoResetToApply \/ RepeatForReset \/ BeginRefresh
             \/ RefreshPin \/ SkipNonAnalog
    BY <1>2, IntentQuiet DEF BeginReset, NoResetToApply, RepeatForReset,
       BeginRefresh, RefreshPin, SkipNonAnalog, InFlight, intentVars, isrVars, pinVars
  <1>3. ASSUME \/ \E r \in Requests : RejectCommand(r)
               \/ RejectRequest
               \/ HandleGetStatus
               \/ UNCHANGED vars
        PROVE  IntentInv'
    BY <1>3, IntentStutter DEF RejectCommand, RejectRequest, HandleGetStatus, vars, intentVars,
       isrVars, pollVars, pinVars
  <1> QED
    BY <1>1, <1>2, <1>3, IntentReset, IntentApplyReset, IntentFinishReset,
       IntentTake, IntentDispatch, IntentExecuteStep, IntentSample
       DEF Next, PollStep, HostStep

LEMMA IntentInvImplies == IntentInv => IntentApplied
  BY DEF IntentInv, LivePart, NoPinModeAfter, IntentApplied, Quiescent, Busy,
     InFlight, ResetPending

LEMMA IntentTracked ==
  ASSUME ResetBarrier
  PROVE  Spec => []IntentInv
  BY IntentInit, IntentNext, TypeCorrect, PTL DEF Spec

(* For a host that waits until a RESET has been applied before it sends    *)
(* pin commands: whenever nothing accepted is left to do, every pin the    *)
(* host configured is in the mode it asked for, however RESETs, commands   *)
(* and the steps of poll() interleave (UsbIo.cpp:185-235, 611-712).        *)
THEOREM IntentIsApplied ==
  ASSUME ResetBarrier
  PROVE  Spec => []IntentApplied
  BY IntentTracked, IntentInvImplies, PTL
-----------------------------------------------------------------------------
(***************************************************************************)
(* What the pins drive and what the reads answer, for a host that waits    *)
(* for its RESETs.                                                         *)
(***************************************************************************)

LiveFor(e, p) == Live(e) /\ e.pin = p
LiveWrite(e, p) == LiveFor(e, p) /\ e.cmd # "PIN_MODE"

NoneAfter(i, p) == \A j \in i + 1 .. Len(queue) : ~LiveFor(queue[j], p)
NoPinModeIn(i, k, p) == \A j \in i .. k : ~LivePinMode(queue[j], p)

(* The value that the host expects once an entry has been executed.        *)
Outcome(e) ==
    IF e.cmd # "PIN_MODE" THEN Driven(e.cmd, e.value)
    ELSE IF e.value \in {PWM, DAC} THEN 0 ELSE NoValue

(* The last live entry of a pin says what the host expects of it; a pin    *)
(* that has none does what is expected.                                    *)
LastPart ==
    /\ \A i \in 1 .. Len(queue) :
        Live(queue[i]) /\ NoneAfter(i, queue[i].pin) =>
            wanted[queue[i].pin] = Outcome(queue[i])
    /\ InFlight /\ Live(cur) /\ NoneAfter(0, cur.pin) => wanted[cur.pin] = Outcome(cur)
    /\ \A p \in Pins :
        wanted[p] # NoValue /\ NoneAfter(0, p) /\ ~(InFlight /\ LiveFor(cur, p)) =>
            drive[p] = wanted[p] /\ (mode[p] = OUTPUT => dio[p] = wanted[p])

(* A pin meant to be analog has been sampled for it, unless the PIN_MODE   *)
(* that made it so is still to be executed.                                *)
FreshPart ==
    \A p \in Pins :
        mode[p] = ANALOG_IN /\ NoPinModeAfter(0, p) /\ ~(InFlight /\ LivePinMode(cur, p)) =>
            p \in fresh

(* A live write agrees with the entry of its pin that comes before it, and *)
(* the first of them with the hardware.                                    *)
ChainPart ==
    /\ \A i \in 1 .. Len(queue), k \in 1 .. Len(queue) :
        /\ i < k /\ LiveFor(queue[i], queue[k].pin) /\ LiveWrite(queue[k], queue[k].pin)
        /\ NoPinModeIn(i + 1, k - 1, queue[k].pin)
        => EntryMode(queue[i]) = EntryMode(queue[k])
    /\ \A k \in 1 .. Len(queue) :
        LiveWrite(queue[k], queue[k].pin) /\ NoPinModeIn(1, k - 1, queue[k].pin) =>
            IF InFlight /\ LiveFor(cur, queue[k].pin)
            THEN EntryMode(cur) = EntryMode(queue[k])
            ELSE pad[queue[k].pin] \in {EntryMode(queue[k]), ANALOG_IN}
    /\ InFlight /\ LiveWrite(cur, cur.pin) =>
            pad[cur.pin] \in {EntryMode(cur), ANALOG_IN}

WriteInv ==
    /\ \A p \in Pins : wanted[p] # NoValue => mode[p] \in {OUTPUT, PWM, DAC}
    /\ ResetPending => \A p \in Pins : wanted[p] = NoValue
    /\ ~ResetPending => LastPart /\ FreshPart /\ ChainPart
-----------------------------------------------------------------------------
(* What decides WriteInv, besides where poll() is.                         *)
pinState == <<pad, drive, dio, fresh, wanted>>

LEMMA WriteInit == Init => WriteInv
  BY DEF Init, WriteInv, LastPart, FreshPart, ChainPart, InFlight, ResetPending,
     ModeNone, ANALOG_IN

(* A step that changes none of it preserves the invariant.                 *)
LEMMA WriteStutter ==
  ASSUME WriteInv, UNCHANGED <<intentVars, pinState, pc, cur>>
  PROVE  WriteInv'
  <1> USE DEF InFlight, Live, LiveFor, LivePinMode, EntryMode, intentVars, pinState
  <1>1. LastPart => LastPart'
    BY DEF LastPart, NoneAfter, Outcome
  <1>2. FreshPart => FreshPart'
    BY DEF FreshPart, NoPinModeAfter
  <1>3. ChainPart => ChainPart'
    BY DEF ChainPart, LiveWrite, NoPinModeIn
  <1> QED
    BY <1>1, <1>2, <1>3 DEF WriteInv, ResetPending

(* So does a step of poll() with no command in its hands that reads inputs *)
(* and samples pins meant to be analog.                                    *)
LEMMA WriteQuiet ==
  ASSUME WriteInv, UNCHANGED <<intentVars, wanted>>, ~InFlight,
         pc' \notin {"dispatch", "execute"}, fresh \subseteq fresh',
         \A p \in Pins : mode[p] = OUTPUT => dio'[p] = dio[p],
         \A p \in Pins : mode[p] \in {OUTPUT, PWM, DAC} => drive'[p] = drive[p],
         \A p \in Pins : pad'[p] \in {pad[p], ANALOG_IN}, TypeOK
  PROVE  WriteInv'
  <1>1. ~InFlight'
    BY DEF InFlight
  <1>2. CASE ResetPending
    BY <1>2 DEF WriteInv, ResetPending, intentVars
  <1>3. CASE ~ResetPending
    <2>1. LastPart /\ FreshPart /\ ChainPart /\ ~ResetPending'
      BY <1>3 DEF WriteInv, ResetPending, intentVars
    <2>2. LastPart'
      BY <1>1, <2>1 DEF WriteInv, LastPart, NoneAfter, LiveFor, Live, Outcome, intentVars
    <2>3. FreshPart'
      BY <1>1, <2>1 DEF FreshPart, NoPinModeAfter, LivePinMode, Live, intentVars
    <2>4. \A k \in 1 .. Len(queue) : queue[k].pin \in Pins
      BY EntryType
    <2>5. ASSUME NEW k \in 1 .. Len(queue), LiveWrite(queue[k], queue[k].pin),
                 NoPinModeIn(1, k - 1, queue[k].pin)
          PROVE  pad'[queue[k].pin] \in {EntryMode(queue[k]), ANALOG_IN}
      <3>1. pad[queue[k].pin] \in {EntryMode(queue[k]), ANALOG_IN}
        BY <2>1, <2>5 DEF ChainPart
      <3> QED
        BY <2>4, <3>1
    <2>6. ChainPart'
      BY <1>1, <2>1, <2>5 DEF ChainPart, NoPinModeIn, LivePinMode, LiveFor, LiveWrite, Live,
         EntryMode, intentVars
    <2> QED
      BY <2>1, <2>2, <2>3, <2>6 DEF WriteInv, intentVars
  <1> QED
    BY <1>2, <1>3

(* A RESET takes back what the host expected of the pins.                  *)
LEMMA WriteReset ==
  ASSUME TypeOK, WriteInv, HandleReset
  PROVE  WriteInv'
  <1>1. resetDone' # resetRequests' /\ wanted' = [p \in Pins |-> NoValue]
    BY DEF HandleReset, NoTagReuse
  <1> QED
    BY <1>1 DEF WriteInv, ResetPending

(* Once it has been applied, nothing is live and nothing expected.         *)
LEMMA WriteApplyReset ==
  ASSUME TypeOK, IntentInv, WriteInv, ApplyReset \/ FinishReset
  PROVE  WriteInv'
  <1>1. /\ UNCHANGED <<mode, epoch, resetRequests, queue, wanted, cur>>
        /\ pc \in {"reset", "resetDone"} /\ pc' \in {"resetDone", "poll"}
    BY DEF ApplyReset, FinishReset, isrVars
  <1>2. ResetPart /\ ResetPending
    BY <1>1 DEF IntentInv, ResetSteps
  <1>3. \A p \in Pins : wanted[p] = NoValue
    BY <1>2 DEF WriteInv
  <1>4. \A p \in Pins : mode[p] # ANALOG_IN
    BY <1>2 DEF ResetPart, ResetMode, INPUT, ModeNone, ANALOG_IN
  <1>5. ~InFlight' /\ \A i \in 1 .. Len(queue) : ~Live(queue[i])'
    BY <1>1, <1>2 DEF InFlight, ResetPart, Live
  <1>6. LastPart'
    BY <1>1, <1>3, <1>5 DEF LastPart
  <1>7. FreshPart'
    BY <1>1, <1>4 DEF FreshPart
  <1>8. ChainPart'
    BY <1>1, <1>5 DEF ChainPart, LiveWrite, LiveFor, Live
  <1> QED
    BY <1>1, <1>3, <1>6, <1>7, <1>8 DEF WriteInv

(* A command is looked at: what is live stays in hand.                     *)
LEMMA WriteDispatch ==
  ASSUME TypeOK, WriteInv, DispatchCommand \/ SkipStaleCommand
  PROVE  WriteInv'
  <1>1. UNCHANGED <<intentVars, pinState>> /\ pc = "dispatch"
    BY DEF DispatchCommand, SkipStaleCommand, isrVars, pinVars, intentVars, pinState
  <1>2. CASE DispatchCommand
    <2>1. UNCHANGED cur /\ pc' = "execute"
      BY <1>2 DEF DispatchCommand
    <2> QED
      BY <1>1, <2>1 DEF WriteInv, LastPart, FreshPart, ChainPart, InFlight, ResetPending, Live,
         LiveFor, LiveWrite, LivePinMode, NoneAfter, NoPinModeAfter, NoPinModeIn, EntryMode,
         Outcome, intentVars, pinState
  <1>3. CASE SkipStaleCommand
    <2>1. ~Live(cur) /\ pc' = "drain" /\ ~InFlight'
      BY <1>3 DEF SkipStaleCommand, Live, InFlight
    <2> QED
      BY <1>1, <2>1 DEF WriteInv, LastPart, FreshPart, ChainPart, ResetPending, Live,
         LiveFor, LiveWrite, LivePinMode, NoneAfter, NoPinModeAfter, NoPinModeIn, EntryMode,
         Outcome, intentVars, pinState
  <1> QED
    BY <1>2, <1>3

(* Executing a command: its pin does what the host expects of it, if it is *)
(* the last one, and is ready for the next one otherwise.                  *)
LEMMA WriteExecute ==
  ASSUME TypeOK, IntentInv, WriteInv, Execute
  PROVE  WriteInv'
  <1> DEFINE p0 == cur.pin
  <1>1. /\ pc = "execute" /\ InFlight /\ ~InFlight' /\ UNCHANGED <<intentVars, wanted>>
    BY DEF Execute, Executed, ApplyDigitalMode, ApplyAnalogMode,
       ApplyAnalogOutputMode, ExecuteDioWrite, ExecuteAnalogWrite, intentVars,
       isrVars, InFlight
  <1>2. p0 \in Pins /\ cur.cmd \in Commands
    BY <1>1, CurWellFormed
  <1>3. \A p \in Pins \ {p0} :
            pad'[p] = pad[p] /\ drive'[p] = drive[p] /\ dio'[p] = dio[p]
    BY <1>2 DEF Execute, ApplyDigitalMode, ApplyAnalogMode, ApplyAnalogOutputMode,
       ExecuteDioWrite, ExecuteAnalogWrite, TypeOK
  <1>4. fresh \subseteq fresh'
    BY DEF Execute, ApplyDigitalMode, ApplyAnalogMode, ApplyAnalogOutputMode,
       ExecuteDioWrite, ExecuteAnalogWrite
  <1>5. CASE ResetPending
    BY <1>1, <1>5 DEF WriteInv, ResetPending, intentVars
  <1>6. CASE ~ResetPending
    <2>1. /\ Live(cur) /\ LivePart /\ LastPart /\ FreshPart /\ ChainPart /\ ~ResetPending'
      BY <1>1, <1>6 DEF IntentInv, StaleOnlyBeforeReset, WriteInv, Live, ResetPending, intentVars
    <2>2. NoneAfter(0, p0) => NoPinModeAfter(0, p0)
      BY DEF NoneAfter, NoPinModeAfter, LivePinMode, LiveFor
    <2>3. NoPinModeAfter(0, p0) => EntryMode(cur) = mode[p0]
      BY <1>1, <2>1 DEF LivePart
    <2>4. ASSUME wanted[p0] # NoValue, NoneAfter(0, p0)
          PROVE  drive'[p0] = wanted[p0] /\ (mode[p0] = OUTPUT => dio'[p0] = wanted[p0])
      <3>1. wanted[p0] = Outcome(cur) /\ EntryMode(cur) = mode[p0] /\ NoPinModeAfter(0, p0)
        BY <1>1, <2>1, <2>2, <2>3, <2>4 DEF LastPart
      <3>2. CASE ApplyDigitalMode \/ ApplyAnalogMode
        BY <2>4, <3>1, <3>2 DEF ApplyDigitalMode, ApplyAnalogMode, Outcome, ModeIsDigital,
           ModeIsInput, INPUT, INPUT_PULLUP, INPUT_PULLDOWN, OUTPUT, ANALOG_IN, PWM, DAC
      <3>3. CASE ApplyAnalogOutputMode
        BY <1>2, <3>1, <3>3 DEF ApplyAnalogOutputMode, Outcome, EntryMode, TypeOK, OUTPUT, PWM, DAC
      <3>4. CASE ExecuteDioWrite
        <4>1. cur.cmd = "DIO_WRITE" /\ EntryMode(cur) = OUTPUT /\ Outcome(cur) = cur.value
          BY <3>4 DEF ExecuteDioWrite, EntryMode, ModeFor, Outcome, Driven
        <4>2. pad[p0] = OUTPUT
          <5>1. mode[p0] = OUTPUT /\ mode[p0] # ModeNone /\ ~LivePinMode(cur, p0)
            BY <3>1, <4>1 DEF LivePinMode, OUTPUT, ModeNone
          <5> QED
            BY <1>2, <2>1, <3>1, <5>1 DEF LivePart
        <4> QED
          BY <1>2, <3>1, <3>4, <4>1, <4>2 DEF ExecuteDioWrite, TypeOK
      <3>5. CASE ExecuteAnalogWrite
        <4>1. EntryMode(cur) # OUTPUT /\ Outcome(cur) = Driven(cur.cmd, cur.value)
          BY <3>5 DEF ExecuteAnalogWrite, EntryMode, ModeFor, Outcome, OUTPUT, PWM, DAC
        <4> QED
          BY <1>2, <3>1, <3>5, <4>1 DEF ExecuteAnalogWrite, TypeOK
      <3> QED
        BY <3>2, <3>3, <3>4, <3>5 DEF Execute
    <2>5. LastPart'
      <3>1. ASSUME NEW p \in Pins, wanted[p] # NoValue, NoneAfter(0, p)
            PROVE  drive'[p] = wanted[p] /\ (mode[p] = OUTPUT => dio'[p] = wanted[p])
        <4>1. CASE p = p0
          BY <2>4, <3>1, <4>1
        <4>2. CASE p # p0
          BY <1>3, <2>1, <3>1, <4>2 DEF LastPart, LiveFor
        <4> QED
          BY <4>1, <4>2
      <3> QED
        BY <1>1, <2>1, <3>1 DEF LastPart, NoneAfter, LiveFor, Live, Outcome, intentVars
    <2>6. FreshPart'
      <3>1. ASSUME NEW p \in Pins, mode[p] = ANALOG_IN, NoPinModeAfter(0, p)
            PROVE  p \in fresh'
        <4>1. CASE LivePinMode(cur, p)
          <5>1. p = p0 /\ cur.cmd = "PIN_MODE" /\ cur.value = ANALOG_IN
            BY <2>3, <3>1, <4>1 DEF LivePinMode, EntryMode
          <5>2. ApplyAnalogMode
            BY <5>1 DEF Execute, ApplyDigitalMode, ApplyAnalogOutputMode, ExecuteDioWrite,
               ExecuteAnalogWrite, ModeIsDigital, ModeIsInput, INPUT, INPUT_PULLUP,
               INPUT_PULLDOWN, OUTPUT, ANALOG_IN, PWM, DAC
          <5> QED
            BY <5>1, <5>2 DEF ApplyAnalogMode
        <4>2. CASE ~LivePinMode(cur, p)
          BY <1>4, <2>1, <3>1, <4>2 DEF FreshPart
        <4> QED
          BY <4>1, <4>2
      <3> QED
        BY <1>1, <3>1 DEF FreshPart, NoPinModeAfter, LivePinMode, Live, intentVars
    <2>7. pad'[p0] \in {EntryMode(cur), ANALOG_IN}
      <3>1. CASE ExecuteDioWrite
        BY <1>1, <2>1, <3>1 DEF ExecuteDioWrite, ChainPart, LiveWrite, LiveFor
      <3>2. CASE ~ExecuteDioWrite
        BY <1>2, <3>2 DEF Execute, ApplyDigitalMode, ApplyAnalogMode, ApplyAnalogOutputMode,
           ExecuteAnalogWrite, EntryMode, TypeOK
      <3> QED
        BY <3>1, <3>2
    <2>8. ASSUME NEW k \in 1 .. Len(queue), LiveWrite(queue[k], queue[k].pin),
                 NoPinModeIn(1, k - 1, queue[k].pin)
          PROVE  pad'[queue[k].pin] \in {EntryMode(queue[k]), ANALOG_IN}
      <3>1. queue[k].pin \in Pins
        BY EntryType
      <3>2. CASE queue[k].pin = p0
        <4>1. EntryMode(cur) = EntryMode(queue[k])
          BY <1>1, <2>1, <2>8, <3>2 DEF ChainPart, LiveFor
        <4> QED
          BY <2>7, <3>2, <4>1
      <3>3. CASE queue[k].pin # p0
        BY <1>3, <2>1, <2>8, <3>1, <3>3 DEF ChainPart, LiveFor
      <3> QED
        BY <3>2, <3>3
    <2>9. ChainPart'
      BY <1>1, <2>1, <2>8 DEF ChainPart, NoPinModeIn, LivePinMode, LiveFor, LiveWrite, Live,
         EntryMode, intentVars
    <2> QED
      BY <1>1, <2>1, <2>5, <2>6, <2>9 DEF WriteInv, intentVars
  <1> QED
    BY <1>5, <1>6

(* What stands behind an entry of the queue, or between two, is the same   *)
(* once the head of the queue has been taken.                              *)
LEMMA TakenOrder ==
  ASSUME TypeOK, TakeCommand
  PROVE  /\ \A i \in 0 .. Len(queue'), p \in Pins : NoneAfter(i, p)' => NoneAfter(i + 1, p)
         /\ \A p \in Pins : NoneAfter(0, p)' /\ ~LiveFor(queue[1], p) => NoneAfter(0, p)
         /\ \A p \in Pins :
                NoPinModeAfter(0, p)' /\ ~LivePinMode(queue[1], p) => NoPinModeAfter(0, p)
         /\ \A i \in 1 .. Len(queue') + 1, k \in 0 .. Len(queue'), p \in Pins :
                NoPinModeIn(i, k, p)' => NoPinModeIn(i + 1, k + 1, p)
         /\ \A k \in 0 .. Len(queue'), p \in Pins :
                NoPinModeIn(1, k, p)' /\ ~LivePinMode(queue[1], p) => NoPinModeIn(1, k + 1, p)
  <1>1. /\ epoch' = epoch /\ Len(queue) \in Nat \ {0} /\ Len(queue') = Len(queue) - 1
        /\ \A i \in 1 .. Len(queue') : queue'[i] = queue[i + 1]
    BY Taken
  <1>2. \A j \in 2 .. Len(queue) : j - 1 \in 1 .. Len(queue') /\ queue[j] = queue'[j - 1]
    BY <1>1
  <1>3. ASSUME NEW i \in 0 .. Len(queue'), NEW p \in Pins, NoneAfter(i, p)'
        PROVE  NoneAfter(i + 1, p)
    <2> SUFFICES ASSUME NEW j \in (i + 1) + 1 .. Len(queue)
                 PROVE  ~LiveFor(queue[j], p)
      BY DEF NoneAfter
    <2>1. j - 1 \in i + 1 .. Len(queue') /\ queue[j] = queue'[j - 1]
      BY <1>1, <1>2
    <2> QED
      BY <1>1, <1>3, <2>1 DEF NoneAfter, LiveFor, Live
  <1>4. ASSUME NEW p \in Pins, NoneAfter(0, p)', ~LiveFor(queue[1], p)
        PROVE  NoneAfter(0, p)
    <2>1. 0 \in 0 .. Len(queue') /\ 0 + 1 = 1
      BY <1>1
    <2>2. NoneAfter(1, p)
      BY <1>3, <1>4, <2>1
    <2> QED
      BY <1>1, <1>4, <2>2 DEF NoneAfter
  <1>5. ASSUME NEW i \in 1 .. Len(queue') + 1, NEW k \in 0 .. Len(queue'), NEW p \in Pins,
               NoPinModeIn(i, k, p)'
        PROVE  NoPinModeIn(i + 1, k + 1, p)
    <2> SUFFICES ASSUME NEW j \in i + 1 .. k + 1
                 PROVE  ~LivePinMode(queue[j], p)
      BY DEF NoPinModeIn
    <2>2. j \in 2 .. Len(queue) /\ j - 1 \in i .. k
      <3> DEFINE n == Len(queue)
                 m == Len(queue')
      <3>1. n \in Nat /\ m = n - 1 /\ i \in 1 .. m + 1 /\ k \in 0 .. m /\ j \in i + 1 .. k + 1
        BY <1>1
      <3> HIDE DEF n, m
      <3>2. j \in 2 .. n /\ j - 1 \in i .. k
        BY <3>1
      <3> QED  BY <3>2 DEF n
    <2>1. j - 1 \in i .. k /\ queue[j] = queue'[j - 1]
      BY <1>2, <2>2
    <2> QED
      BY <1>1, <1>5, <2>1 DEF NoPinModeIn, LivePinMode, Live
  <1>6. ASSUME NEW k \in 0 .. Len(queue'), NEW p \in Pins, NoPinModeIn(1, k, p)',
               ~LivePinMode(queue[1], p)
        PROVE  NoPinModeIn(1, k + 1, p)
    <2>1. NoPinModeIn(2, k + 1, p)
      BY <1>1, <1>5, <1>6
    <2> QED
      BY <1>1, <1>6, <2>1 DEF NoPinModeIn
  <1>7. ASSUME NEW p \in Pins, NoPinModeAfter(0, p)', ~LivePinMode(queue[1], p)
        PROVE  NoPinModeAfter(0, p)
    <2> SUFFICES ASSUME NEW j \in 1 .. Len(queue), j # 1
                 PROVE  ~LivePinMode(queue[j], p)
      BY <1>7 DEF NoPinModeAfter
    <2>1. j - 1 \in 1 .. Len(queue') /\ queue[j] = queue'[j - 1]
      BY <1>2
    <2> QED
      BY <1>1, <1>7, <2>1 DEF NoPinModeAfter, LivePinMode, Live
  <1> QED
    BY <1>3, <1>4, <1>5, <1>6, <1>7

(* The command that is taken is in hand what it was at the head.           *)
LEMMA WriteTake ==
  ASSUME TypeOK, WriteInv, TakeCommand
  PROVE  WriteInv'
  <1>1. /\ cur' = queue[1] /\ ~InFlight /\ InFlight'
        /\ UNCHANGED <<mode, epoch, resetRequests, resetDone, pinState>>
        /\ Len(queue) \in Nat \ {0} /\ Len(queue') = Len(queue) - 1
        /\ \A i \in 1 .. Len(queue') : queue'[i] = queue[i + 1]
    BY Taken DEF InFlight, pinVars, pinState
  <1>2. \A i \in 1 .. Len(queue) : queue[i].pin \in Pins
    BY EntryType
  <1>3. CASE ResetPending
    BY <1>1, <1>3 DEF WriteInv, ResetPending, pinState
  <1>4. CASE ~ResetPending
    <2>1. LastPart /\ FreshPart /\ ChainPart /\ ~ResetPending'
      BY <1>1, <1>4 DEF WriteInv, ResetPending
    <2>2. ASSUME NEW i \in 1 .. Len(queue'), Live(queue[i])', NoneAfter(i, queue[i].pin)'
          PROVE  (wanted[queue[i].pin] = Outcome(queue[i]))'
      <3>1. PICK e, p : e = queue[i + 1] /\ p = e.pin
        OBVIOUS
      <3>2. i + 1 \in 1 .. Len(queue) /\ queue'[i] = e /\ p \in Pins
        BY <1>1, <1>2, <3>1
      <3>3. NoneAfter(i, p)' /\ Live(e)
        BY <1>1, <2>2, <3>1, <3>2 DEF Live
      <3>4. NoneAfter(i + 1, p)
        BY <3>2, <3>3, TakenOrder
      <3>5. wanted[p] = Outcome(e)
        BY <2>1, <3>1, <3>2, <3>3, <3>4 DEF LastPart
      <3> QED
        BY <1>1, <3>1, <3>2, <3>5 DEF Outcome, pinState
    <2>3. ASSUME Live(cur)', NoneAfter(0, cur.pin)'
          PROVE  (wanted[cur.pin] = Outcome(cur))'
      <3>1. PICK e, p : e = queue[1] /\ p = e.pin
        OBVIOUS
      <3>2. 1 \in 1 .. Len(queue) /\ cur' = e /\ p \in Pins /\ 0 \in 0 .. Len(queue')
        BY <1>1, <1>2, <3>1
      <3>3. NoneAfter(0, p)' /\ Live(e)
        BY <1>1, <2>3, <3>1, <3>2 DEF Live
      <3>4. NoneAfter(0 + 1, p)
        BY <3>2, <3>3, TakenOrder
      <3>5. wanted[p] = Outcome(e)
        BY <2>1, <3>1, <3>2, <3>3, <3>4 DEF LastPart
      <3> QED
        BY <1>1, <3>1, <3>2, <3>5 DEF Outcome, pinState
    <2>4. ASSUME NEW p \in Pins, wanted'[p] # NoValue, NoneAfter(0, p)', ~LiveFor(cur, p)'
          PROVE  (drive[p] = wanted[p] /\ (mode[p] = OUTPUT => dio[p] = wanted[p]))'
      <3>1. ~LiveFor(queue[1], p)
        BY <1>1, <2>4 DEF LiveFor, Live
      <3>2. NoneAfter(0, p)
        BY <2>4, <3>1, TakenOrder
      <3> QED
        BY <1>1, <2>1, <2>4, <3>2 DEF LastPart, pinState
    <2>5. LastPart'
      BY <1>1, <2>2, <2>3, <2>4 DEF LastPart
    <2>6. ASSUME NEW p \in Pins, mode'[p] = ANALOG_IN, NoPinModeAfter(0, p)',
                 ~LivePinMode(cur, p)'
          PROVE  p \in fresh'
      <3>1. ~LivePinMode(queue[1], p)
        BY <1>1, <2>6 DEF LivePinMode, Live
      <3>2. NoPinModeAfter(0, p)
        BY <2>6, <3>1, TakenOrder
      <3> QED
        BY <1>1, <2>1, <2>6, <3>2 DEF FreshPart, pinState
    <2>7. FreshPart'
      BY <1>1, <2>6 DEF FreshPart
    <2>8. ASSUME NEW i \in 1 .. Len(queue'), NEW k \in 1 .. Len(queue'), i < k,
                 LiveFor(queue[i], queue[k].pin)', LiveWrite(queue[k], queue[k].pin)',
                 NoPinModeIn(i + 1, k - 1, queue[k].pin)'
          PROVE  (EntryMode(queue[i]) = EntryMode(queue[k]))'
      <3>1. PICK d, e, p : d = queue[i + 1] /\ e = queue[k + 1] /\ p = e.pin
        OBVIOUS
      <3>2. /\ i + 1 \in 1 .. Len(queue) /\ k + 1 \in 1 .. Len(queue) /\ i + 1 < k + 1
            /\ queue'[i] = d /\ queue'[k] = e /\ p \in Pins
        BY <1>1, <1>2, <2>8, <3>1
      <3>3. LiveFor(d, p) /\ LiveWrite(e, p) /\ NoPinModeIn(i + 1, k - 1, p)'
        BY <1>1, <2>8, <3>1, <3>2 DEF LiveFor, LiveWrite, Live
      <3>4. NoPinModeIn((i + 1) + 1, (k - 1) + 1, p)
        <4>1. i + 1 \in 1 .. Len(queue') + 1 /\ k - 1 \in 0 .. Len(queue')
          BY <1>1
        <4> QED
          BY <3>2, <3>3, <4>1, TakenOrder
      <3>5. NoPinModeIn((i + 1) + 1, (k + 1) - 1, p)
        <4>1. (k - 1) + 1 = (k + 1) - 1
          OBVIOUS
        <4> QED
          BY <3>4, <4>1
      <3>6. EntryMode(d) = EntryMode(e)
        BY <2>1, <3>1, <3>2, <3>3, <3>5, ZenonT(40) DEF ChainPart
      <3> QED
        BY <3>2, <3>6 DEF EntryMode
    <2>9. ASSUME NEW k \in 1 .. Len(queue'), LiveWrite(queue[k], queue[k].pin)',
                 NoPinModeIn(1, k - 1, queue[k].pin)'
          PROVE  (IF LiveFor(cur, queue[k].pin)
                  THEN EntryMode(cur) = EntryMode(queue[k])
                  ELSE pad[queue[k].pin] \in {EntryMode(queue[k]), ANALOG_IN})'
      <3>1. PICK d, e, p : d = queue[1] /\ e = queue[k + 1] /\ p = e.pin
        OBVIOUS
      <3>2. /\ 1 \in 1 .. Len(queue) /\ k + 1 \in 1 .. Len(queue) /\ 1 < k + 1
            /\ cur' = d /\ queue'[k] = e /\ p \in Pins
        BY <1>1, <1>2, <3>1
      <3>3. LiveWrite(e, p) /\ NoPinModeIn(1, k - 1, p)'
        BY <1>1, <2>9, <3>1, <3>2 DEF LiveFor, LiveWrite, Live
      <3>4. /\ 1 \in 1 .. Len(queue') + 1 /\ k - 1 \in 0 .. Len(queue')
            /\ (k - 1) + 1 = (k + 1) - 1
        BY <1>1
      <3>5. CASE LiveFor(d, p)
        <4>1. NoPinModeIn(1 + 1, (k + 1) - 1, p)
          <5>1. NoPinModeIn(1 + 1, (k - 1) + 1, p)
            BY <3>2, <3>3, <3>4, TakenOrder
          <5> QED
            BY <3>4, <5>1
        <4>2. EntryMode(d) = EntryMode(e)
          BY <2>1, <3>1, <3>2, <3>3, <3>5, <4>1 DEF ChainPart
        <4>3. LiveFor(cur, queue[k].pin)'
          BY <1>1, <3>1, <3>2, <3>5 DEF LiveFor, Live
        <4> QED
          BY <3>2, <4>2, <4>3 DEF EntryMode
      <3>6. CASE ~LiveFor(d, p)
        <4>1. NoPinModeIn(1, (k + 1) - 1, p)
          <5>1. ~LivePinMode(d, p)
            BY <3>6 DEF LivePinMode, LiveFor
          <5>2. NoPinModeIn(1, (k - 1) + 1, p)
            BY <3>1, <3>2, <3>3, <3>4, <5>1, TakenOrder
          <5> QED
            BY <3>4, <5>2
        <4>2. pad[p] \in {EntryMode(e), ANALOG_IN}
          BY <1>1, <2>1, <3>1, <3>2, <3>3, <4>1 DEF ChainPart
        <4>3. ~LiveFor(cur, queue[k].pin)'
          BY <1>1, <3>1, <3>2, <3>6 DEF LiveFor, Live
        <4> QED
          BY <1>1, <3>1, <3>2, <4>2, <4>3 DEF EntryMode, pinState
      <3> QED
        BY <3>5, <3>6
    <2>10. ASSUME LiveWrite(cur, cur.pin)'
           PROVE  (pad[cur.pin] \in {EntryMode(cur), ANALOG_IN})'
      <3>1. PICK e, p : e = queue[1] /\ p = e.pin
        OBVIOUS
      <3>2. 1 \in 1 .. Len(queue) /\ cur' = e
        BY <1>1, <3>1
      <3>3. LiveWrite(e, p) /\ NoPinModeIn(1, 1 - 1, p)
        BY <1>1, <2>10, <3>1, <3>2 DEF LiveWrite, LiveFor, Live, NoPinModeIn
      <3>4. pad[p] \in {EntryMode(e), ANALOG_IN}
        BY <1>1, <2>1, <3>1, <3>2, <3>3 DEF ChainPart
      <3> QED
        BY <1>1, <3>1, <3>2, <3>4 DEF EntryMode, pinState
    <2>11. ChainPart'
      BY <1>1, <2>8, <2>9, <2>10 DEF ChainPart
    <2> QED
      BY <1>1, <2>1, <2>5, <2>7, <2>11 DEF WriteInv, pinState
  <1> QED
    BY <1>3, <1>4

(* What acceptance does to the host's expectations.                        *)
LEMMA AcceptedWanted ==
  ASSUME TypeOK, NEW r \in Requests, AcceptPinMode(r) \/ AcceptWrite(r)
  PROVE  /\ wanted'[r.pin] = Outcome(Entry(r))
         /\ \A p \in Pins \ {r.pin} : wanted'[p] = wanted[p] /\ mode'[p] = mode[p]
         /\ \A p \in Pins : p # r.pin \/ r.cmd # "PIN_MODE" => (p \in fresh' <=> p \in fresh)
         /\ wanted'[r.pin] # NoValue => mode'[r.pin] \in {OUTPUT, PWM, DAC}
         /\ r.cmd # "PIN_MODE" => mode[r.pin] # ModeNone
  <1>1. Verdict(r) = "OK" /\ r.cmd \in Commands /\ r.pin \in Pins
    BY AcceptedIsWellFormed DEF AcceptPinMode, AcceptWrite
  <1>2. Entry(r).cmd = r.cmd /\ Entry(r).value = Stored(r)
    BY DEF Entry
  <1>3. CASE AcceptPinMode(r)
    <2>1. r.cmd = "PIN_MODE" /\ Stored(r) = r.value
      BY <1>1, <1>3, AcceptedIsWellFormed DEF AcceptPinMode
    <2>2. mode' = [mode EXCEPT ![r.pin] = r.value] /\ fresh' = fresh \ {r.pin}
      BY <1>3 DEF AcceptPinMode
    <2>3. wanted' = [wanted EXCEPT ![r.pin] = Outcome(Entry(r))]
      BY <1>2, <1>3, <2>1 DEF AcceptPinMode, Outcome
    <2>4. mode \in [Pins -> AnyMode] /\ wanted \in [Pins -> 0 .. PwmMax \cup {NoValue}]
      BY DEF TypeOK
    <2>5. wanted'[r.pin] = Outcome(Entry(r)) /\ mode'[r.pin] = r.value
      BY <1>1, <2>2, <2>3, <2>4
    <2>6. Outcome(Entry(r)) # NoValue => r.value \in {PWM, DAC}
      BY <1>2, <2>1 DEF Outcome
    <2> QED
      BY <1>1, <2>1, <2>2, <2>3, <2>4, <2>5, <2>6
  <1>4. CASE AcceptWrite(r)
    <2>1. r.cmd # "PIN_MODE" /\ mode[r.pin] = ModeFor(r.cmd)
      BY <1>1, <1>4, AcceptedIsWellFormed DEF AcceptWrite
    <2>2. mode' = mode /\ fresh' = fresh
      BY <1>4 DEF AcceptWrite, isrVars
    <2>3. wanted' = [wanted EXCEPT ![r.pin] = Outcome(Entry(r))]
      BY <1>2, <1>4, <2>1 DEF AcceptWrite, Outcome
    <2>4. wanted \in [Pins -> 0 .. PwmMax \cup {NoValue}]
      BY DEF TypeOK
    <2>5. ModeFor(r.cmd) \in {OUTPUT, PWM, DAC}
      BY <1>1, <2>1 DEF ModeFor, Commands
    <2>6. mode[r.pin] # ModeNone
      BY <2>1, <2>5 DEF OUTPUT, PWM, DAC, ModeNone
    <2>7. wanted'[r.pin] = Outcome(Entry(r)) /\ \A p \in Pins \ {r.pin} : wanted'[p] = wanted[p]
      BY <1>1, <2>3, <2>4
    <2> QED
      BY <2>1, <2>2, <2>5, <2>6, <2>7
  <1> QED
    BY <1>3, <1>4

(* An accepted command becomes the last word on its pin, and an accepted   *)
(* write agrees with what comes before it: the intended mode says so.      *)
LEMMA WriteAccept ==
  ASSUME TypeOK, IntentInv, WriteInv, ~ResetPending,
         NEW r \in Requests, AcceptPinMode(r) \/ AcceptWrite(r)
  PROVE  WriteInv'
  <1> DEFINE e == Entry(r)
             n == Len(queue)
  <1>1. e.cmd = r.cmd /\ e.pin = r.pin /\ e.epoch = epoch /\ r.pin \in Pins
    BY Accepted DEF Entry
  <1>2. UNCHANGED <<epoch, resetRequests, resetDone, pc, cur, pad, drive, dio>>
    BY Accepted DEF pinVars
  <1>3. /\ EntryMode(e) = mode'[r.pin]
        /\ \A p \in Pins : p # r.pin \/ r.cmd # "PIN_MODE" => mode'[p] = mode[p]
    BY Accepted
  <1>4. /\ n \in Nat /\ Len(queue') = n + 1 /\ queue'[n + 1] = e
        /\ \A i \in 1 .. n : queue'[i] = queue[i]
    BY Accepted
  <1>5. /\ wanted'[r.pin] = Outcome(e)
        /\ \A p \in Pins \ {r.pin} : wanted'[p] = wanted[p] /\ mode'[p] = mode[p]
        /\ \A p \in Pins : p # r.pin \/ r.cmd # "PIN_MODE" => (p \in fresh' <=> p \in fresh)
        /\ wanted'[r.pin] # NoValue => mode'[r.pin] \in {OUTPUT, PWM, DAC}
        /\ r.cmd # "PIN_MODE" => mode[r.pin] # ModeNone
    BY AcceptedWanted
  <1>6. (\A i \in 1 .. n : queue[i].pin \in Pins) /\ (InFlight => cur.pin \in Pins)
    BY EntryType, CurWellFormed
  <1>7. /\ LivePart /\ LastPart /\ FreshPart /\ ChainPart /\ ~ResetPending'
        /\ InFlight' <=> InFlight
    BY <1>2 DEF IntentInv, WriteInv, ResetPending, InFlight
  <1> HIDE DEF e, n
  <1>8. \A i \in 0 .. n, p \in Pins : NoneAfter(i, p)' => NoneAfter(i, p) /\ p # r.pin
    <2> SUFFICES ASSUME NEW i \in 0 .. n, NEW p \in Pins, NoneAfter(i, p)'
                 PROVE  NoneAfter(i, p) /\ p # r.pin
      OBVIOUS
    <2>1. \A j \in i + 1 .. n + 1 : ~(queue'[j].epoch = epoch /\ queue'[j].pin = p)
      BY <1>2, <1>4 DEF NoneAfter, LiveFor, Live
    <2>2. p # r.pin
      BY <1>1, <1>4, <2>1
    <2>3. NoneAfter(i, p)
      BY <1>4, <2>1 DEF NoneAfter, LiveFor, Live, n
    <2> QED
      BY <2>2, <2>3
  <1>9. ASSUME NEW p \in Pins, NoPinModeAfter(0, p)'
        PROVE  NoPinModeAfter(0, p) /\ (p # r.pin \/ r.cmd # "PIN_MODE")
    <2>1. \A j \in 1 .. n + 1 :
            ~(queue'[j].epoch = epoch /\ queue'[j].cmd = "PIN_MODE" /\ queue'[j].pin = p)
      BY <1>2, <1>4, <1>9 DEF NoPinModeAfter, LivePinMode, Live
    <2>2. p # r.pin \/ r.cmd # "PIN_MODE"
      BY <1>1, <1>4, <2>1
    <2>3. NoPinModeAfter(0, p)
      BY <1>4, <2>1 DEF NoPinModeAfter, LivePinMode, Live, n
    <2> QED
      BY <2>2, <2>3
  <1>10. ASSUME NEW i \in Nat \ {0}, NEW k \in 0 .. n, NEW p, NoPinModeIn(i, k, p)'
         PROVE  NoPinModeIn(i, k, p)
    BY <1>2, <1>4, <1>10 DEF NoPinModeIn, LivePinMode, Live
  <1>11. ASSUME NEW p \in Pins, wanted'[p] # NoValue
         PROVE  mode'[p] \in {OUTPUT, PWM, DAC}
    BY <1>5, <1>11 DEF WriteInv
  <1>12. ASSUME NEW i \in 1 .. Len(queue'), Live(queue[i])', NoneAfter(i, queue[i].pin)'
         PROVE  (wanted[queue[i].pin] = Outcome(queue[i]))'
    <2>1. CASE i = n + 1
      BY <1>1, <1>4, <1>5, <2>1 DEF Outcome
    <2>2. CASE i \in 1 .. n
      <3>1. PICK d, p : d = queue[i] /\ p = d.pin
        OBVIOUS
      <3>2. queue'[i] = d /\ p \in Pins
        BY <1>4, <1>6, <2>2, <3>1
      <3>3. NoneAfter(i, p)' /\ Live(d)
        BY <1>2, <1>12, <3>1, <3>2 DEF Live
      <3>4. NoneAfter(i, p) /\ p # r.pin
        BY <1>8, <2>2, <3>2, <3>3
      <3>5. wanted[p] = Outcome(d)
        BY <1>7, <2>2, <3>1, <3>3, <3>4 DEF LastPart, n
      <3> QED
        BY <1>5, <3>1, <3>2, <3>4, <3>5 DEF Outcome
    <2> QED
      BY <1>4, <2>1, <2>2
  <1>13. ASSUME InFlight, Live(cur)', NoneAfter(0, cur.pin)'
         PROVE  (wanted[cur.pin] = Outcome(cur))'
    <2>1. PICK p : p = cur.pin
      OBVIOUS
    <2>2. p \in Pins /\ Live(cur) /\ NoneAfter(0, p)' /\ 0 \in 0 .. n
      BY <1>2, <1>4, <1>6, <1>13, <2>1 DEF Live
    <2>3. NoneAfter(0, p) /\ p # r.pin
      BY <1>8, <2>2
    <2>4. wanted[p] = Outcome(cur)
      BY <1>7, <1>13, <2>1, <2>2, <2>3 DEF LastPart
    <2> QED
      BY <1>2, <1>5, <2>1, <2>2, <2>3, <2>4 DEF Outcome
  <1>14. ASSUME NEW p \in Pins, wanted'[p] # NoValue, NoneAfter(0, p)',
                ~(InFlight /\ LiveFor(cur, p))'
         PROVE  (drive[p] = wanted[p] /\ (mode[p] = OUTPUT => dio[p] = wanted[p]))'
    <2>1. NoneAfter(0, p) /\ p # r.pin
      BY <1>4, <1>8, <1>14
    <2> QED
      BY <1>2, <1>5, <1>7, <1>14, <2>1 DEF LastPart, LiveFor, Live
  <1>15. LastPart'
    BY <1>7, <1>12, <1>13, <1>14 DEF LastPart
  <1>16. FreshPart'
    <2> SUFFICES ASSUME NEW p \in Pins, mode'[p] = ANALOG_IN, NoPinModeAfter(0, p)',
                        ~(InFlight /\ LivePinMode(cur, p))'
                 PROVE  p \in fresh'
      BY DEF FreshPart
    <2>1. NoPinModeAfter(0, p) /\ (p # r.pin \/ r.cmd # "PIN_MODE")
      BY <1>9
    <2> QED
      BY <1>2, <1>3, <1>5, <1>7, <2>1 DEF FreshPart, LivePinMode, Live
  <1>17. ASSUME NEW i \in 1 .. Len(queue'), NEW k \in 1 .. Len(queue'), i < k,
                LiveFor(queue[i], queue[k].pin)', LiveWrite(queue[k], queue[k].pin)',
                NoPinModeIn(i + 1, k - 1, queue[k].pin)'
         PROVE  (EntryMode(queue[i]) = EntryMode(queue[k]))'
    <2>1. PICK c, d, p : c = queue'[i] /\ d = queue'[k] /\ p = d.pin
      OBVIOUS
    <2>2. /\ i \in 1 .. n /\ c = queue[i] /\ i + 1 \in Nat \ {0} /\ k - 1 \in 0 .. n
          /\ LiveFor(c, p) /\ LiveWrite(d, p) /\ NoPinModeIn(i + 1, k - 1, p)'
      BY <1>2, <1>4, <1>17, <2>1 DEF LiveFor, LiveWrite, Live
    <2>3. NoPinModeIn(i + 1, k - 1, p)
      BY <1>10, <2>2
    <2>4. EntryMode(c) = EntryMode(d)
      <3>1. CASE k \in 1 .. n
        BY <1>4, <1>7, <1>17, <2>1, <2>2, <2>3, <3>1 DEF ChainPart, n
      <3>2. CASE k = n + 1
        <4>1. d = e /\ p = r.pin /\ r.cmd # "PIN_MODE" /\ EntryMode(d) = mode[p]
          BY <1>1, <1>3, <1>4, <2>1, <2>2, <3>2 DEF LiveWrite, LiveFor
        <4>2. c.pin = p /\ Live(c) /\ NoPinModeAfter(i, p)
          BY <1>4, <2>2, <2>3, <3>2 DEF NoPinModeIn, NoPinModeAfter, LiveFor, n
        <4> QED
          BY <1>7, <2>2, <4>1, <4>2 DEF LivePart, n
      <3> QED
        BY <1>4, <3>1, <3>2
    <2> QED
      BY <2>1, <2>4 DEF EntryMode
  <1>18. ASSUME NEW k \in 1 .. Len(queue'), LiveWrite(queue[k], queue[k].pin)',
                NoPinModeIn(1, k - 1, queue[k].pin)'
         PROVE  (IF InFlight /\ LiveFor(cur, queue[k].pin)
                 THEN EntryMode(cur) = EntryMode(queue[k])
                 ELSE pad[queue[k].pin] \in {EntryMode(queue[k]), ANALOG_IN})'
    <2>1. PICK d, p : d = queue'[k] /\ p = d.pin
      OBVIOUS
    <2>2. k - 1 \in 0 .. n /\ 1 \in Nat \ {0} /\ LiveWrite(d, p) /\ NoPinModeIn(1, k - 1, p)'
      BY <1>2, <1>4, <1>18, <2>1 DEF LiveFor, LiveWrite, Live
    <2>3. NoPinModeIn(1, k - 1, p)
      BY <1>10, <2>2
    <2>4. IF InFlight /\ LiveFor(cur, p) THEN EntryMode(cur) = EntryMode(d)
          ELSE pad[p] \in {EntryMode(d), ANALOG_IN}
      <3>1. CASE k \in 1 .. n
        <4>1. d = queue[k]
          BY <1>4, <2>1, <3>1
        <4> QED
          BY <1>7, <2>1, <2>2, <2>3, <3>1, <4>1 DEF ChainPart, n
      <3>2. CASE k = n + 1
        <4>1. d = e /\ p = r.pin /\ r.cmd # "PIN_MODE" /\ EntryMode(d) = mode[p]
          BY <1>1, <1>3, <1>4, <2>1, <2>2, <3>2 DEF LiveWrite, LiveFor
        <4>2. NoPinModeAfter(0, p) /\ mode[p] # ModeNone /\ p \in Pins
          BY <1>1, <1>4, <1>5, <2>3, <3>2, <4>1 DEF NoPinModeIn, NoPinModeAfter, n
        <4>3. CASE InFlight /\ LiveFor(cur, p)
          BY <1>7, <4>1, <4>2, <4>3 DEF LivePart, LiveFor
        <4>4. CASE ~(InFlight /\ LiveFor(cur, p))
          <5>1. pad[p] = mode[p]
            BY <1>7, <4>2, <4>4 DEF LivePart, LiveFor, LivePinMode
          <5> QED
            BY <4>1, <4>4, <5>1
        <4> QED
          BY <4>3, <4>4
      <3> QED
        BY <1>4, <3>1, <3>2
    <2>5. (InFlight /\ LiveFor(cur, queue[k].pin))' <=> InFlight /\ LiveFor(cur, p)
      BY <1>2, <1>7, <2>1 DEF LiveFor, Live
    <2> QED
      BY <1>2, <2>1, <2>4, <2>5 DEF EntryMode
  <1>19. ASSUME InFlight, LiveWrite(cur, cur.pin)'
         PROVE  (pad[cur.pin] \in {EntryMode(cur), ANALOG_IN})'
    BY <1>2, <1>7, <1>19 DEF ChainPart, LiveWrite, LiveFor, Live, EntryMode
  <1>20. ChainPart'
    BY <1>7, <1>17, <1>18, <1>19 DEF ChainPart
  <1> QED
    BY <1>7, <1>11, <1>15, <1>16, <1>20 DEF WriteInv

(* Reading the inputs and sampling the analog pins touch no pin that is    *)
(* meant to be an output.                                                  *)
LEMMA WriteRefresh ==
  ASSUME TypeOK, WriteInv,
         \/ BeginReset \/ NoResetToApply \/ RepeatForReset \/ BeginRefresh
         \/ RefreshPin \/ SkipNonAnalog \/ \E q \in Pins : SampleAnalog(q)
  PROVE  WriteInv'
  <1>1. CASE \/ BeginReset \/ NoResetToApply \/ RepeatForReset \/ BeginRefresh
             \/ SkipNonAnalog
    <2>1. /\ UNCHANGED <<intentVars, wanted, fresh, pinVars>> /\ ~InFlight
          /\ pc' \notin {"dispatch", "execute"}
      BY <1>1 DEF BeginReset, NoResetToApply, RepeatForReset, BeginRefresh, SkipNonAnalog,
         InFlight, intentVars, isrVars
    <2> QED
      BY <2>1, WriteQuiet DEF pinVars
  <1>2. CASE RefreshPin
    <2>1. /\ UNCHANGED <<intentVars, wanted, fresh, pad, drive>> /\ ~InFlight
          /\ pc' \notin {"dispatch", "execute"}
      BY <1>2 DEF RefreshPin, InFlight, intentVars, isrVars
    <2>2. \A p \in Pins : mode[p] = OUTPUT => dio'[p] = dio[p]
      BY <1>2 DEF RefreshPin, TypeOK, ModeIsInput, OUTPUT, INPUT, INPUT_PULLUP, INPUT_PULLDOWN
    <2> QED
      BY <2>1, <2>2, WriteQuiet
  <1>3. ASSUME NEW q \in Pins, SampleAnalog(q)
        PROVE  WriteInv'
    <2>1. /\ UNCHANGED <<intentVars, wanted, dio>> /\ ~InFlight /\ pc' = "poll"
          /\ fresh' = fresh \cup {q} /\ mode[q] = ANALOG_IN
          /\ pad' = [pad EXCEPT ![q] = ANALOG_IN] /\ drive' = [drive EXCEPT ![q] = 0]
      BY <1>3 DEF SampleAnalog, InFlight, intentVars, isrVars
    <2>2. \A p \in Pins : mode[p] \in {OUTPUT, PWM, DAC} => drive'[p] = drive[p]
      BY <2>1 DEF TypeOK, OUTPUT, PWM, DAC, ANALOG_IN
    <2>3. \A p \in Pins : pad'[p] \in {pad[p], ANALOG_IN}
      BY <2>1 DEF TypeOK
    <2> QED
      BY <2>1, <2>2, <2>3, WriteQuiet
  <1> QED
    BY <1>1, <1>2, <1>3

LEMMA WriteNext ==
  ASSUME ResetBarrier, TypeOK, IntentInv, WriteInv, [Next]_vars
  PROVE  WriteInv'
  <1>1. ASSUME NEW r \in Requests, AcceptPinMode(r) \/ AcceptWrite(r)
        PROVE  WriteInv'
    BY <1>1, WriteAccept DEF AcceptPinMode, AcceptWrite, HostMayCommand
  <1>2. ASSUME \/ \E r \in Requests : RejectCommand(r)
               \/ RejectRequest
               \/ HandleGetStatus
               \/ UNCHANGED vars
        PROVE  WriteInv'
    BY <1>2, WriteStutter DEF RejectCommand, RejectRequest, HandleGetStatus, vars, intentVars,
       pinState, isrVars, pollVars, pinVars
  <1> QED
    BY <1>1, <1>2, WriteReset, WriteApplyReset, WriteTake, WriteDispatch, WriteExecute,
       WriteRefresh DEF Next, PollStep, HostStep

LEMMA WritesTracked ==
  ASSUME ResetBarrier
  PROVE  Spec => [](TypeOK /\ IntentInv /\ WriteInv)
  BY WriteInit, WriteNext, IntentTracked, TypeCorrect, PTL DEF Spec
-----------------------------------------------------------------------------
LEMMA WriteInvApplies == TypeOK /\ WriteInv => LastWriteApplied
  <1> SUFFICES ASSUME TypeOK, WriteInv, Quiescent, NEW p \in Pins, wanted[p] # NoValue
               PROVE  /\ drive[p] = wanted[p]
                      /\ mode[p] = OUTPUT =>
                            DioReadReply(p) = [status |-> "OK", value |-> wanted[p]]
    BY DEF LastWriteApplied
  <1>1. queue = <<>> /\ ~ResetPending /\ ~InFlight
    BY DEF Quiescent, Busy
  <1>2. NoneAfter(0, p)
    BY <1>1 DEF NoneAfter
  <1>3. drive[p] = wanted[p] /\ (mode[p] = OUTPUT => dio[p] = wanted[p])
    BY <1>1, <1>2 DEF WriteInv, LastPart
  <1>4. mode[p] = OUTPUT => ModeIsDigital(mode[p]) /\ p < NPins
    BY DEF ModeIsDigital
  <1> QED
    BY <1>1, <1>3, <1>4 DEF DioReadReply, Busy

LEMMA FreshInvApplies == TypeOK /\ WriteInv => AnalogReadIsFresh
  <1> SUFFICES ASSUME TypeOK, WriteInv, NEW p \in Pins,
                      AiReadReply(p).status = "OK", ~ModeInHand(p)
               PROVE  AiReadReply(p).sampled
    BY DEF AnalogReadIsFresh
  <1>1. mode[p] = ANALOG_IN /\ ~Busy /\ p < NPins
    BY DEF AiReadReply
  <1>2. NoPinModeAfter(0, p) /\ ~ResetPending
    BY <1>1 DEF NoPinModeAfter, Busy
  <1>3. p \in fresh
    BY <1>1, <1>2 DEF WriteInv, FreshPart, LivePinMode, ModeInHand
  <1> QED
    BY <1>1, <1>3 DEF AiReadReply

LEMMA ChainInvApplies == TypeOK /\ IntentInv /\ WriteInv => WriteFindsItsMode
  <1> SUFFICES ASSUME TypeOK, IntentInv, WriteInv,
                      pc = "execute", cur.epoch = epoch, cur.cmd # "PIN_MODE"
               PROVE  pad[cur.pin] \in {ModeFor(cur.cmd), ANALOG_IN}
    BY DEF WriteFindsItsMode
  <1>1. InFlight /\ Live(cur) /\ LiveWrite(cur, cur.pin)
    BY DEF InFlight, Live, LiveWrite, LiveFor
  <1>2. ~ResetPending
    BY <1>1 DEF IntentInv, ResetPart
  <1> QED
    BY <1>1, <1>2 DEF WriteInv, ChainPart, EntryMode

(* For a host that waits for its RESETs: whenever nothing accepted is left *)
(* to do, every pin drives the last value accepted for it, and a read of a *)
(* digital output answers that value, however the requests interleave with *)
(* the steps of poll() (UsbIo.cpp:301-361, 618-655, 714-745).              *)
THEOREM WritesReachThePins ==
  ASSUME ResetBarrier
  PROVE  Spec => []LastWriteApplied
  BY WritesTracked, WriteInvApplies, PTL

(* For the same host: an analog read that answers OK has been sampled      *)
(* since the pin was last configured (apply_mode(), UsbIo.cpp:685-689, and *)
(* refresh_shadow(), 723-745), unless poll() has just taken the PIN_MODE   *)
(* of that pin out of the queue and not yet executed it (622-624).         *)
THEOREM AnalogReadsAreFresh ==
  ASSUME ResetBarrier
  PROVE  Spec => []AnalogReadIsFresh
  BY WritesTracked, FreshInvApplies, PTL

(* For the same host: a write that is executed and not undone by a RESET   *)
(* never meets a pin that the hardware has as a digital input (execute(),  *)
(* UsbIo.cpp:644-655): validation against the intended mode, when the      *)
(* write is accepted, is enough.                                           *)
THEOREM WritesFindTheirMode ==
  ASSUME ResetBarrier
  PROVE  Spec => []WriteFindsItsMode
  BY WritesTracked, ChainInvApplies, PTL
=============================================================================
