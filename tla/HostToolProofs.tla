---------------------------- MODULE HostToolProofs ----------------------------
(***************************************************************************)
(* What holds of arduino-io for every set of command lines and any number  *)
(* of processes on one board: a process leaves the board as it should, and *)
(* its exit code is true.                                                  *)
(***************************************************************************)
EXTENDS HostTool, SequenceTheorems, WellFoundedInduction, TLAPS

Before  == {"parse", "open", "call", "begin"}
Looping == {"csv", "signal", "loop", "body", "summary"}

(* Types, and what each stage may hold: something to be undone only from   *)
(* the start of a loop to the end of the unwinding.                        *)
ToolTypes ==
    /\ line \in Lines /\ run \in Nat \ {0}
    /\ stage \in Before \cup Looping \cup {"unwind", "exit"}
    /\ code \in {"none", "ok", "device", "usage", "killed"}
    /\ stage \in Before \cup Looping => code = "none"
    /\ holds \in {"nothing", "stream", "watcher"}
    /\ stage \in Before \cup {"exit"} => holds = "nothing"
    /\ stage = "unwind" => holds # "nothing"
    /\ stream \in [worker : {"none", "running", "ended"}, ready : BOOLEAN, error : BOOLEAN]
    /\ dev \in [sampling : 0 .. run, armed : 0 .. run, touched : 0 .. run]
    /\ failed \in BOOLEAN /\ lost \in BOOLEAN

(* What this process has done to the board is held by an object whose      *)
(* destructor undoes it, unless the process was killed or a transfer that  *)
(* undoes it was lost.                                                     *)
Owed ==
    \/ code = "killed" \/ lost
    \/ /\ dev.sampling = run => holds = "stream"
       /\ dev.armed = run => holds = "watcher"

(* What a stage knows of the command line.                                 *)
Passed ==
    /\ stage \in {"open", "call", "begin"} \cup Looping => ParseVerdict = "none"
    /\ stage = "call" => line.cmd \notin Loops
    /\ stage \in {"begin"} \cup Looping => line.cmd \in Loops
    /\ stage = "csv" => line.cmd # "watch"
    /\ stage \in Looping =>
          ~Malformed /\ (line.cmd = "stream" => ~PeriodIsWrong)
    /\ stage \in Looping \ {"csv"} =>
          ~(line.cmd \in {"monitor", "stream"} /\ Has("csvUnopenable"))

(* What the exit code will be known from: a stream that ended by itself is *)
(* the one failure a process survives, and its error is not forgotten.     *)
Verdicts ==
    /\ stage \in Before \cup Looping => (failed <=> stream.error) /\ dev.touched # run
    /\ stage \in Before => ~stream.error
    /\ stream.error => line.cmd = "stream"
    /\ holds = "stream" => line.cmd = "stream"
    /\ holds = "watcher" => line.cmd = "watch"
    /\ code = "ok" => ~failed /\ ~AtFault
    /\ code = "device" => failed
    /\ code = "usage" => AtFault /\ dev.touched # run

ToolInv == ToolTypes /\ Owed /\ Passed /\ Verdicts
-----------------------------------------------------------------------------
(***************************************************************************)
(* Command lines.                                                          *)
(***************************************************************************)

(* A line that run() lets through can only be wrong in what it checks      *)
(* later.                                                                  *)
(* A set of natural numbers that is not empty has a least element.         *)
LEMMA Least ==
    ASSUME NEW S \in SUBSET Nat, S # {}
    PROVE  \E n \in S : \A m \in S : n <= m
  <1> DEFINE R == OpToRel(<, Nat)
  <1>1. IsWellFoundedOn(R, Nat)
    BY NatLessThanWellFounded
  <1>2. \A x, y \in Nat : x < y => <<x, y>> \in R
    BY DEF OpToRel
  <1> HIDE DEF R
  <1>3. PICK n \in S : \A m \in S : ~ (<<m, n>> \in R)
    BY <1>1, WFMin
  <1>4. \A m \in S : n <= m
    <2> TAKE m \in S
    <2>1. m \in Nat /\ n \in Nat
      OBVIOUS
    <2>2. ~ (m < n)
      BY <1>2, <1>3, <2>1
    <2> QED  BY <2>1, <2>2
  <1> QED  BY <1>4

LEMMA PassedLine ==
    ASSUME ParseVerdict = "none"
    PROVE  /\ line.cmd \in DOMAIN MinArgs
           /\ AtFault <=> \/ Malformed
                          \/ line.cmd = "stream" /\ PeriodIsWrong
                          \/ line.cmd \in {"monitor", "stream"} /\ Has("csvUnopenable")
  BY DEF ParseVerdict, AtFault

(* A line it stops at is wrong exactly when it says so.                    *)
LEMMA StoppedLine ==
    /\ ParseVerdict \in {"none", "ok", "usage"}
    /\ ParseVerdict = "usage" => AtFault
    /\ ParseVerdict = "ok" => ~AtFault
  BY DEF ParseVerdict, AtFault

(* list looks at no argument.                                              *)
LEMMA ListLine ==
    ASSUME ToolTypes, line.cmd = "list"
    PROVE  ~Malformed
  <1>1. MinArgs[line.cmd] = 0 /\ line.cmd # "monitor"
    BY DEF MinArgs
  <1> DEFINE none == SubSeq(line.args, 1, 0)
  <1>2. Used(line) = Range(none)
    BY <1>1 DEF Used
  <1>3. none \in Seq(STRING) /\ Len(none) = 0
    <2>1. \A k \in 1 .. 0 : line.args[k] \in STRING
      OBVIOUS
    <2> QED  BY <2>1, SubSeqProperties
  <1> HIDE DEF none
  <1>4. none = <<>>
    BY <1>3, EmptySeq
  <1>5. Range(none) = {}
    BY <1>4 DEF Range
  <1> QED  BY <1>2, <1>5 DEF Malformed

(* monitor finds the first argument that is not good.                      *)
LEMMA MonitorLine ==
    ASSUME ToolTypes, line.cmd = "monitor"
    PROVE  LET i == SelectInSeq(line.args, LAMBDA a : a # "good") IN
           /\ i = 0 => ~Malformed
           /\ i # 0 /\ line.args[i] = "malformed" => Malformed
  <1> DEFINE I == {k \in 1 .. Len(line.args) : line.args[k] # "good"}
  <1>1. /\ line.args \in Seq({"good", "malformed", "refused"}) /\ Len(line.args) \in Nat
        /\ DOMAIN line.args = 1 .. Len(line.args)
    BY ToolAssumption, LenProperties DEF ToolTypes
  <1>2. Used(line) = {line.args[k] : k \in 1 .. Len(line.args)}
    BY <1>1 DEF Used, Range
  <1>3. CASE I = {}
    <2>1. SelectInSeq(line.args, LAMBDA a : a # "good") = 0
      BY <1>3 DEF SelectInSeq
    <2>2. ~Malformed
      BY <1>2, <1>3 DEF Malformed
    <2> QED  BY <2>1, <2>2
  <1>4. CASE I # {}
    <2>1. SelectInSeq(line.args, LAMBDA a : a # "good") = Min(I)
      BY <1>4 DEF SelectInSeq
    <2>2. I \in SUBSET Nat
      BY <1>1
    <2>3. \E n \in I : \A m \in I : n <= m
      BY <1>4, <2>2, Least
    <2> HIDE DEF I
    <2>4. Min(I) \in I
      BY <2>3 DEF Min
    <2>5. Min(I) \in 1 .. Len(line.args)
      BY <2>4 DEF I
    <2> QED  BY <1>1, <1>2, <2>1, <2>5 DEF Malformed
  <1> QED  BY <1>3, <1>4
-----------------------------------------------------------------------------
(***************************************************************************)
(* Steps.                                                                  *)
(***************************************************************************)

(* What is known of the line stays known.                                  *)
LEMMA SameLine ==
    ASSUME UNCHANGED line
    PROVE  /\ Malformed' = Malformed /\ PeriodIsWrong' = PeriodIsWrong
           /\ ParseVerdict' = ParseVerdict /\ AtFault' = AtFault
           /\ Has("csvUnopenable")' = Has("csvUnopenable")
  BY DEF Malformed, PeriodIsWrong, ParseVerdict, AtFault, Has, Used

(* Opening, and the commands of one call.                                  *)
LEMMA CallSteps ==
    ASSUME ToolInv, Parse \/ Open \/ CallDevice
    PROVE  ToolInv'
  <1> USE DEF ToolInv
  <1>0. UNCHANGED <<line, run, holds, stream, lost>>
    BY DEF Parse, Open, CallDevice
  <1>1. CASE Parse
    <2>1. /\ stage = "parse" /\ UNCHANGED <<dev, failed>>
          /\ \/ ParseVerdict = "none" /\ stage' = "open" /\ code' = "none"
             \/ ParseVerdict # "none" /\ stage' = "exit" /\ code' = ParseVerdict
      BY <1>1 DEF Parse, Go, Leave, ToolTypes, Before
    <2>2. ToolTypes' /\ Owed'
      BY <1>0, <2>1, StoppedLine DEF ToolTypes, Owed, Before, Looping
    <2>3. Passed'
      BY <1>0, <2>1, SameLine DEF Passed, Looping
    <2>4. Verdicts'
      BY <1>0, <2>1, SameLine, StoppedLine DEF Verdicts, Before, Looping, ToolTypes
    <2> QED  BY <2>2, <2>3, <2>4
  <1>2. CASE Open
    <2>1. /\ stage = "open" /\ UNCHANGED dev
          /\ \/ stage' = "exit" /\ code' = "device" /\ failed' = TRUE
             \/ line.cmd = "list" /\ stage' = "exit" /\ code' = "ok" /\ failed' = failed
             \/ line.cmd \in Loops /\ stage' = "begin" /\ code' = "none" /\ failed' = failed
             \/ line.cmd \notin Loops /\ stage' = "call" /\ code' = "none" /\ failed' = failed
      BY <1>2 DEF Open, Go, LeaveAt, ToolTypes, Before
    <2>2. ToolTypes' /\ Owed'
      BY <1>0, <2>1 DEF ToolTypes, Owed, Before, Looping
    <2>3. Passed'
      BY <1>0, <2>1, SameLine DEF Passed, Looping
    <2>4. line.cmd = "list" => ~AtFault
      BY <2>1, PassedLine, ListLine DEF Passed
    <2>5. Verdicts'
      BY <1>0, <2>1, <2>4, SameLine DEF Verdicts, Before, Looping
    <2> QED  BY <2>2, <2>3, <2>5
  <1>3. CASE CallDevice
    <2>1. /\ stage = "call" /\ stage' = "exit"
          /\ dev' = dev \/ dev' = [dev EXCEPT !.touched = run]
          /\ \/ code' = "device" /\ failed' = TRUE
             \/ Malformed /\ code' = "usage" /\ failed' = failed /\ dev' = dev
             \/ ~Malformed /\ code' = "ok" /\ failed' = failed
      BY <1>3 DEF CallDevice, LeaveAt, Malformed, ToolTypes
    <2>2. /\ dev' \in [sampling : 0 .. run, armed : 0 .. run, touched : 0 .. run]
          /\ dev'.sampling = dev.sampling /\ dev'.armed = dev.armed
      BY <2>1 DEF ToolTypes
    <2>3. ToolTypes' /\ Owed'
      BY <1>0, <2>1, <2>2 DEF ToolTypes, Owed, Before, Looping
    <2>4. Passed'
      BY <2>1 DEF Passed, Looping
    <2>5. AtFault <=> Malformed
      BY <2>1, PassedLine DEF Passed, Loops
    <2>6. Verdicts'
      BY <1>0, <2>1, <2>5, SameLine DEF Verdicts, Before, Looping
    <2> QED  BY <2>3, <2>4, <2>6
  <1> QED  BY <1>1, <1>2, <1>3

(* The beginnings of the loops.                                            *)
LEMMA BeginSteps ==
    ASSUME ToolInv, BeginMonitor \/ BeginStream \/ BeginWatch
    PROVE  ToolInv'
  <1> USE DEF ToolInv
  <1>0. UNCHANGED <<line, run>> /\ stage = "begin"
    BY DEF BeginMonitor, BeginStream, BeginWatch
  <1>1. CASE BeginMonitor
    <2>1. /\ line.cmd = "monitor" /\ UNCHANGED <<dev, holds, stream, lost>>
          /\ \/ ~Malformed /\ stage' = "csv" /\ code' = "none" /\ failed' = failed
             \/ Malformed /\ stage' = "exit" /\ code' = "usage" /\ failed' = failed
             \/ stage' = "exit" /\ code' = "device" /\ failed' = TRUE
      <3>1. line.cmd = "monitor"
        BY <1>1 DEF BeginMonitor
      <3> DEFINE i == SelectInSeq(line.args, LAMBDA a : a # "good")
      <3>2. i = 0 => ~Malformed
        BY <3>1, MonitorLine
      <3>3. i # 0 /\ line.args[i] = "malformed" => Malformed
        BY <3>1, MonitorLine
      <3>4. /\ UNCHANGED <<dev, holds, stream, lost>>
            /\ \/ i = 0 /\ Go("csv") /\ failed' = failed
               \/ i # 0 /\ line.args[i] = "malformed" /\ LeaveAt("usage", "returned")
               \/ LeaveAt("device", "threw")
        BY <1>1 DEF BeginMonitor
      <3> HIDE DEF i
      <3> QED  BY <1>0, <3>1, <3>2, <3>3, <3>4 DEF Go, LeaveAt, ToolTypes, Before
    <2>2. ToolTypes' /\ Owed'
      BY <1>0, <2>1 DEF ToolTypes, Owed, Before, Looping
    <2>3. Passed'
      BY <1>0, <2>1, SameLine DEF Passed, Looping, Loops
    <2>4. Malformed => AtFault
      BY <1>0, PassedLine DEF Passed
    <2>5. Verdicts'
      BY <1>0, <2>1, <2>4, SameLine DEF Verdicts, Before, Looping
    <2> QED  BY <2>2, <2>3, <2>5
  <1>2. CASE BeginStream
    <2>1. line.cmd = "stream"
      BY <1>2 DEF BeginStream
    <2>2. AtFault <=> Malformed \/ PeriodIsWrong \/ Has("csvUnopenable")
      BY <1>0, <2>1, PassedLine DEF Passed
    <2>3. CASE /\ AtFault /\ stage' = "exit" /\ code' = "usage" /\ failed' = failed
               /\ UNCHANGED <<dev, holds, stream, lost>>
      <3>1. ToolTypes' /\ Owed' /\ Passed'
        BY <1>0, <2>3 DEF ToolTypes, Owed, Passed, Before, Looping
      <3>2. Verdicts'
        BY <1>0, <2>3, SameLine DEF Verdicts, Before, Looping
      <3> QED  BY <3>1, <3>2
    <2>4. CASE /\ stage' = "exit" /\ code' = "device" /\ failed' = TRUE
               /\ UNCHANGED <<holds, stream>>
               /\ \/ dev' \in {dev, [dev EXCEPT !.sampling = 0]} /\ UNCHANGED lost
                  \/ dev' = [dev EXCEPT !.sampling = run] /\ lost' = TRUE
      <3>1. /\ dev' \in [sampling : 0 .. run, armed : 0 .. run, touched : 0 .. run]
            /\ dev'.sampling = dev.sampling \/ dev'.sampling = 0 \/ lost'
            /\ dev'.armed = dev.armed /\ lost' \in BOOLEAN /\ lost => lost'
        BY <2>4 DEF ToolTypes
      <3>2. ToolTypes'
        BY <1>0, <2>4, <3>1 DEF ToolTypes, Before, Looping
      <3>3. Owed' /\ Passed'
        BY <1>0, <2>4, <3>1 DEF Owed, Passed, Before, Looping, ToolTypes
      <3>4. Verdicts'
        BY <1>0, <2>4 DEF Verdicts, Before, Looping
      <3> QED  BY <3>2, <3>3, <3>4
    <2>5. CASE /\ ~Malformed /\ ~PeriodIsWrong /\ stage' = "csv" /\ code' = "none"
               /\ dev' = [dev EXCEPT !.sampling = run] /\ holds' = "stream"
               /\ stream' = [worker |-> "running", ready |-> FALSE, error |-> FALSE]
               /\ failed' = failed /\ lost' = lost
      <3>1. /\ dev' \in [sampling : 0 .. run, armed : 0 .. run, touched : 0 .. run]
            /\ dev'.armed = dev.armed /\ dev'.touched = dev.touched
        BY <2>5 DEF ToolTypes
      <3>2. ToolTypes'
        BY <1>0, <2>5, <3>1 DEF ToolTypes, Before, Looping
      <3>3. Owed'
        BY <1>0, <2>5, <3>1 DEF Owed, Before, Looping, ToolTypes
      <3>4. Passed'
        BY <1>0, <2>1, <2>5, SameLine DEF Passed, Looping
      <3>5. Verdicts'
        BY <1>0, <2>1, <2>5, <3>1, SameLine DEF Verdicts, Before, Looping
      <3> QED  BY <3>2, <3>3, <3>4, <3>5
    <2> QED
      BY <1>0, <1>2, <2>2, <2>3, <2>4, <2>5
         DEF BeginStream, LeaveAt, Go, Malformed, ToolTypes, Before
  <1>3. CASE BeginWatch
    <2>1. line.cmd = "watch"
      BY <1>3 DEF BeginWatch
    <2>2. AtFault <=> Malformed
      BY <1>0, <2>1, PassedLine DEF Passed
    <2>3. CASE /\ AtFault /\ stage' = "exit" /\ code' = "usage" /\ failed' = failed
               /\ UNCHANGED <<dev, holds, stream, lost>>
      <3>1. ToolTypes' /\ Owed' /\ Passed'
        BY <1>0, <2>3 DEF ToolTypes, Owed, Passed, Before, Looping
      <3>2. Verdicts'
        BY <1>0, <2>3, SameLine DEF Verdicts, Before, Looping
      <3> QED  BY <3>1, <3>2
    <2>4. CASE /\ stage' = "exit" /\ code' = "device" /\ failed' = TRUE
               /\ UNCHANGED <<holds, stream>>
               /\ \/ UNCHANGED <<dev, lost>>
                  \/ dev' = [dev EXCEPT !.armed = run] /\ lost' = TRUE
      <3>1. /\ dev' \in [sampling : 0 .. run, armed : 0 .. run, touched : 0 .. run]
            /\ dev'.armed = dev.armed \/ lost'
            /\ dev'.sampling = dev.sampling /\ lost' \in BOOLEAN /\ lost => lost'
        BY <2>4 DEF ToolTypes
      <3>2. ToolTypes'
        BY <1>0, <2>4, <3>1 DEF ToolTypes, Before, Looping
      <3>3. Owed' /\ Passed'
        BY <1>0, <2>4, <3>1 DEF Owed, Passed, Before, Looping, ToolTypes
      <3>4. Verdicts'
        BY <1>0, <2>4 DEF Verdicts, Before, Looping
      <3> QED  BY <3>2, <3>3, <3>4
    <2>5. CASE /\ ~Malformed /\ stage' = "signal" /\ code' = "none"
               /\ dev' = [dev EXCEPT !.armed = run] /\ holds' = "watcher"
               /\ stream' = stream /\ failed' = failed /\ lost' = lost
      <3>1. /\ dev' \in [sampling : 0 .. run, armed : 0 .. run, touched : 0 .. run]
            /\ dev'.sampling = dev.sampling /\ dev'.touched = dev.touched
        BY <2>5 DEF ToolTypes
      <3>2. ToolTypes'
        BY <1>0, <2>5, <3>1 DEF ToolTypes, Before, Looping
      <3>3. Owed'
        BY <1>0, <2>5, <3>1 DEF Owed, Before, Looping, ToolTypes
      <3>4. Passed'
        BY <1>0, <2>1, <2>5, SameLine DEF Passed, Looping
      <3>5. Verdicts'
        BY <1>0, <2>1, <2>5, <3>1, SameLine DEF Verdicts, Before, Looping
      <3> QED  BY <3>2, <3>3, <3>4, <3>5
    <2> QED
      BY <1>0, <1>3, <2>2, <2>3, <2>4, <2>5
         DEF BeginWatch, LeaveAt, Go, Malformed, ToolTypes, Before
  <1> QED  BY <1>1, <1>2, <1>3

(* Leaving a loop that still holds something goes through the destructors. *)
LEMMA LoopSteps ==
    ASSUME ToolInv,
           \/ OpenCsv \/ InstallHandler \/ TestLoop \/ Refresh
           \/ ReadStream \/ Summarise \/ ReadCounts
    PROVE  ToolInv'
  <1> USE DEF ToolInv
  <1>0. UNCHANGED <<line, run, holds, dev, lost>> /\ stage \in Looping
    BY DEF OpenCsv, InstallHandler, TestLoop, Refresh, ReadStream, Summarise, ReadCounts, Looping
  <1>1. /\ code = "none" /\ ParseVerdict = "none" /\ line.cmd \in Loops
        /\ ~Malformed /\ (line.cmd = "stream" => ~PeriodIsWrong)
        /\ (failed <=> stream.error) /\ dev.touched # run
    BY <1>0 DEF ToolTypes, Passed, Verdicts
  <1>2. AtFault <=> line.cmd \in {"monitor", "stream"} /\ Has("csvUnopenable")
    BY <1>1, PassedLine
  <1>3. CASE /\ stage' \in Looping /\ code' = code /\ failed' = failed
             /\ \/ stream' = stream
                \/ stream' = [stream EXCEPT !.ready = FALSE]
             /\ stage' = "csv" => line.cmd # "watch"
             /\ stage' # "csv" => ~(line.cmd \in {"monitor", "stream"} /\ Has("csvUnopenable"))
    <2>1. /\ stream' \in [worker : {"none", "running", "ended"}, ready : BOOLEAN, error : BOOLEAN]
          /\ stream'.error = stream.error
      BY <1>3 DEF ToolTypes
    <2>2. ToolTypes' /\ Owed'
      BY <1>0, <1>1, <1>3, <2>1 DEF ToolTypes, Owed, Before, Looping
    <2>3. Passed'
      BY <1>0, <1>1, <1>3, SameLine DEF Passed, Looping
    <2>4. Verdicts'
      BY <1>0, <1>1, <1>3, <2>1, SameLine DEF Verdicts, Before, Looping
    <2> QED  BY <2>2, <2>3, <2>4
  <1>4. ASSUME /\ stream' = stream /\ failed' \in BOOLEAN
               /\ \/ holds = "nothing" /\ stage' = "exit"
                  \/ holds # "nothing" /\ stage' = "unwind"
               /\ \/ code' = "ok" /\ ~failed' /\ ~AtFault
                  \/ code' = "device" /\ failed' = TRUE
                  \/ code' = "usage" /\ AtFault
        PROVE  ToolInv'
    <2>1. ToolTypes' /\ Owed'
      BY <1>0, <1>4 DEF ToolTypes, Owed, Before, Looping
    <2>2. Passed'
      BY <1>4 DEF Passed, Looping
    <2>3. Verdicts'
      BY <1>0, <1>1, <1>4, SameLine DEF Verdicts, Before, Looping
    <2> QED  BY <2>1, <2>2, <2>3
  <1>5. CASE OpenCsv
    <2>1. stage = "csv" /\ stream' = stream /\ failed' = failed /\ failed \in BOOLEAN
      BY <1>5 DEF OpenCsv, ToolTypes
    <2>2. CASE Has("csvUnopenable")
      <3>1. line.cmd \in {"monitor", "stream"}
        BY <1>1, <2>1 DEF Loops, Passed
      <3> QED  BY <1>2, <1>4, <1>5, <2>1, <2>2, <3>1 DEF OpenCsv, Leave
    <2>3. CASE ~Has("csvUnopenable")
      BY <1>3, <1>5, <2>1, <2>3 DEF OpenCsv, Go, Looping
    <2> QED  BY <2>2, <2>3
  <1>6. CASE InstallHandler \/ TestLoop \/ ReadStream
    <2>1. /\ stage \in Looping \ {"csv"} /\ stage' \in Looping \ {"csv"}
          /\ code' = code /\ failed' = failed
          /\ stream' = stream \/ stream' = [stream EXCEPT !.ready = FALSE]
      BY <1>6 DEF InstallHandler, TestLoop, ReadStream, Go, Looping
    <2>2. ~(line.cmd \in {"monitor", "stream"} /\ Has("csvUnopenable"))
      BY <2>1 DEF Passed
    <2> QED  BY <1>3, <2>1, <2>2
  <1>7. CASE Refresh
    <2>1. /\ stage = "body" /\ line.cmd = "monitor" /\ stream' = stream
          /\ \/ stage' = "loop" /\ code' = code /\ failed' = failed
             \/ stage' = "exit" /\ code' = "device" /\ failed' = TRUE
      BY <1>7 DEF Refresh, Go, LeaveAt
    <2>2. ~Has("csvUnopenable")
      BY <2>1 DEF Passed, Looping
    <2>3. holds = "nothing"
      BY <2>1 DEF Verdicts, ToolTypes
    <2> QED  BY <1>3, <1>4, <2>1, <2>2, <2>3 DEF Looping
  <1>8. CASE Summarise
    <2>1. /\ stage = "summary" /\ stream' = stream /\ failed' = failed /\ failed \in BOOLEAN
          /\ Leave(IF line.cmd = "stream" /\ stream.error THEN "device" ELSE "ok")
      BY <1>8 DEF Summarise, ToolTypes
    <2>2. ~AtFault
      BY <1>2, <2>1 DEF Passed, Looping
    <2>3. stream.error => line.cmd = "stream"
      BY DEF Verdicts
    <2> QED  BY <1>1, <1>4, <2>1, <2>2, <2>3 DEF Leave
  <1>9. CASE ReadCounts
    <2>1. /\ stage = "summary" /\ line.cmd = "watch" /\ stream' = stream
          /\ \/ Leave("ok") /\ failed' = failed
             \/ Leave("device") /\ failed' = TRUE
      BY <1>9 DEF ReadCounts
    <2>2. ~AtFault /\ ~failed
      BY <1>1, <1>2, <2>1 DEF Verdicts
    <2>3. failed \in BOOLEAN
      BY DEF ToolTypes
    <2> QED  BY <1>4, <2>1, <2>2, <2>3 DEF Leave
  <1> QED  BY <1>5, <1>6, <1>7, <1>8, <1>9

(* The destructors undo what is held, or lose the transfer that would.     *)
LEMMA UnwindStep ==
    ASSUME ToolInv, Unwind
    PROVE  ToolInv'
  <1> USE DEF ToolInv
  <1>1. /\ UNCHANGED <<line, run, code, failed>> /\ stage = "unwind" /\ stage' = "exit"
        /\ holds' = "nothing" /\ stream' = [stream EXCEPT !.worker = "none"]
        /\ \/ dev' = Undone /\ lost' = lost
           \/ dev' = dev /\ lost' = TRUE
    BY DEF Unwind
  <1>2. stream' \in [worker : {"none", "running", "ended"}, ready : BOOLEAN, error : BOOLEAN]
    BY <1>1 DEF ToolTypes
  <1>3. stream'.error = stream.error
    BY <1>1 DEF ToolTypes
  <1>4. dev' \in [sampling : 0 .. run, armed : 0 .. run, touched : 0 .. run]
        /\ dev'.touched = dev.touched
    BY <1>1 DEF ToolTypes, Undone
  <1>5. CASE dev' = Undone /\ lost' = lost
    <2>1. ASSUME holds = "stream" PROVE Owed'
      <3>1. dev'.sampling = 0 /\ dev'.armed = dev.armed
        BY <1>5, <2>1 DEF Undone, ToolTypes
      <3>2. run # 0
        BY DEF ToolTypes
      <3>3. CASE code = "killed" \/ lost
        BY <1>1, <1>5, <3>3 DEF Owed
      <3>4. CASE dev.armed # run
        BY <1>1, <3>1, <3>2, <3>4 DEF Owed
      <3> QED  BY <2>1, <3>3, <3>4 DEF Owed
    <2>2. ASSUME holds = "watcher" PROVE Owed'
      <3>1. dev'.sampling = dev.sampling /\ dev'.armed = 0
        BY <1>5, <2>2 DEF Undone, ToolTypes
      <3>2. run # 0
        BY DEF ToolTypes
      <3>3. CASE code = "killed" \/ lost
        BY <1>1, <1>5, <3>3 DEF Owed
      <3>4. CASE dev.sampling # run
        BY <1>1, <3>1, <3>2, <3>4 DEF Owed
      <3> QED  BY <2>2, <3>3, <3>4 DEF Owed
    <2>3. Owed'
      BY <1>1, <2>1, <2>2 DEF ToolTypes
    <2>4. ToolTypes'
      BY <1>1, <1>2, <1>4, <1>5 DEF ToolTypes, Before, Looping
    <2> QED  BY <1>1, <1>3, <1>4, <2>3, <2>4, SameLine DEF Passed, Verdicts, Before, Looping
  <1>6. CASE dev' = dev /\ lost' = TRUE
    <2>1. ToolTypes' /\ Owed'
      BY <1>1, <1>2, <1>6 DEF ToolTypes, Owed, Before, Looping
    <2> QED  BY <1>1, <1>3, <1>6, <2>1, SameLine DEF Passed, Verdicts, Before, Looping
  <1> QED  BY <1>1, <1>5, <1>6

(* The worker of a Stream: what it queues concerns nobody, and when it ends*)
(* by itself the error stays to be reported.                               *)
LEMMA WorkerSteps ==
    ASSUME ToolInv, WorkerQueues \/ WorkerEnds
    PROVE  ToolInv'
  <1> USE DEF ToolInv
  <1>1. /\ UNCHANGED <<line, run, stage, code, holds, dev, lost>>
        /\ holds = "stream"
    BY DEF WorkerQueues, WorkerEnds
  <1>2. line.cmd = "stream" /\ stage \in Looping \cup {"unwind"}
    BY <1>1 DEF Verdicts, ToolTypes
  <1>3. /\ stream' \in [worker : {"none", "running", "ended"}, ready : BOOLEAN, error : BOOLEAN]
        /\ failed' \in BOOLEAN
        /\ \/ stream'.error = stream.error /\ failed' = failed
           \/ stream'.error = TRUE /\ stage = "unwind" /\ failed' = failed
           \/ stream'.error = TRUE /\ stage # "unwind" /\ failed' = TRUE
    <2>1. CASE WorkerQueues
      BY <2>1 DEF WorkerQueues, ToolTypes
    <2>2. CASE WorkerEnds
      <3>1. stream' = [stream EXCEPT !.worker = "ended", !.error = TRUE]
            /\ failed' = (failed \/ stage # "unwind")
        BY <2>2 DEF WorkerEnds
      <3>2. /\ stream' \in [worker : {"none", "running", "ended"}, ready : BOOLEAN, error : BOOLEAN]
            /\ stream'.error = TRUE
        BY <3>1 DEF ToolTypes
      <3> QED  BY <3>1, <3>2 DEF ToolTypes
    <2> QED  BY <2>1, <2>2
  <1>4. ToolTypes' /\ Owed'
    BY <1>1, <1>3 DEF ToolTypes, Owed
  <1>5. Passed'
    BY <1>1, SameLine DEF Passed
  <1>6. Verdicts'
    <2>1. stage \in Looping => code = "none"
      BY DEF ToolTypes
    <2> QED  BY <1>1, <1>2, <1>3, <2>1, SameLine DEF Verdicts, Before, Looping
  <1> QED  BY <1>4, <1>5, <1>6

(* SIGINT raises the flag, or kills a process that cannot undo anything.   *)
LEMMA InterruptStep ==
    ASSUME ToolInv, Interrupt
    PROVE  ToolInv'
  <1> USE DEF ToolInv
  <1>1. UNCHANGED <<line, run, dev, failed, lost>>
    BY DEF Interrupt
  <1>2. CASE UNCHANGED <<stage, code, holds, stream>>
    BY <1>1, <1>2, SameLine DEF ToolTypes, Owed, Passed, Verdicts
  <1>3. CASE /\ stage' = "exit" /\ code' = "killed" /\ holds' = "nothing"
             /\ stream' = [stream EXCEPT !.worker = "none"]
    <2>1. /\ stream' \in [worker : {"none", "running", "ended"}, ready : BOOLEAN, error : BOOLEAN]
          /\ stream'.error = stream.error
      BY <1>3 DEF ToolTypes
    <2>2. ToolTypes' /\ Owed' /\ Passed'
      BY <1>1, <1>3, <2>1 DEF ToolTypes, Owed, Passed, Before, Looping
    <2>3. Verdicts'
      BY <1>1, <1>3, <2>1 DEF Verdicts, Before, Looping
    <2> QED  BY <2>2, <2>3
  <1> QED  BY <1>2, <1>3 DEF Interrupt

(* The next process has done nothing yet: what it finds on the board is    *)
(* another's.                                                              *)
LEMMA NextRunStep ==
    ASSUME ToolInv, NextRun
    PROVE  ToolInv'
  <1> USE DEF ToolInv
  <1>1. /\ line' \in Lines /\ run' = run + 1 /\ dev' = dev
        /\ stage' = "parse" /\ code' = "none" /\ holds' = "nothing"
        /\ stream' = NoStream /\ failed' = FALSE /\ lost' = FALSE
    BY DEF NextRun
  <1>2. /\ dev' \in [sampling : 0 .. run', armed : 0 .. run', touched : 0 .. run']
        /\ run' \in Nat \ {0}
        /\ dev'.sampling # run' /\ dev'.armed # run' /\ dev'.touched # run'
    <2>1. run \in Nat \ {0} /\ dev \in [sampling : 0 .. run, armed : 0 .. run, touched : 0 .. run]
      BY DEF ToolTypes
    <2> QED  BY <1>1, <2>1
  <1>3. ToolTypes' /\ Owed'
    BY <1>1, <1>2 DEF ToolTypes, Owed, Before, Looping, NoStream
  <1>4. Passed' /\ Verdicts'
    BY <1>1, <1>2 DEF Passed, Verdicts, Before, Looping, NoStream
  <1> QED  BY <1>3, <1>4

(* The first process starts on a board nobody has used.                    *)
LEMMA ToolInit ==
    ASSUME Init
    PROVE  ToolInv
  <1>1. /\ run = 1 /\ 0 \in 0 .. run
        /\ dev = [sampling |-> 0, armed |-> 0, touched |-> 0]
    BY DEF Init
  <1>2. /\ dev \in [sampling : 0 .. run, armed : 0 .. run, touched : 0 .. run]
        /\ dev.sampling # run /\ dev.armed # run /\ dev.touched # run
    BY <1>1
  <1>3. ToolTypes
    <2>1. stream \in [worker : {"none", "running", "ended"}, ready : BOOLEAN, error : BOOLEAN]
      BY DEF Init, NoStream
    <2>2. failed \in BOOLEAN /\ lost \in BOOLEAN
      BY DEF Init
    <2> QED  BY <1>1, <1>2, <2>1, <2>2 DEF Init, ToolTypes, Before, Looping
  <1>4. Owed
    BY <1>2 DEF Owed
  <1>5. Passed /\ Verdicts
    BY <1>2 DEF Init, NoStream, Passed, Verdicts, Before, Looping
  <1> QED  BY <1>3, <1>4, <1>5 DEF ToolInv

(* Every step, and no step, keeps the invariant.                           *)
LEMMA ToolNext ==
    ASSUME ToolInv, [Next]_vars
    PROVE  ToolInv'
  <1>1. CASE ToolStep
    BY <1>1, CallSteps, BeginSteps, LoopSteps, UnwindStep DEF ToolStep
  <1>2. CASE UNCHANGED vars
    BY <1>2, SameLine DEF vars, ToolInv, ToolTypes, Owed, Passed, Verdicts
  <1> QED  BY <1>1, <1>2, WorkerSteps, InterruptStep, NextRunStep DEF Next
-----------------------------------------------------------------------------
(***************************************************************************)
(* Results.                                                                *)
(***************************************************************************)

(* What arduino-io holds at each point of its run, for every set of command*)
(* lines and any number of processes.                                      *)
THEOREM ToolInvariant == Spec => []ToolInv
  BY ToolInit, ToolNext, PTL DEF Spec

(* A process that was not killed and lost no transfer leaves the board     *)
(* neither sampling nor armed on its account (arduino-io.cpp, cmd_stream() *)
(* and cmd_watch() with the destructors they rely on).                     *)
THEOREM ProcessLeavesDeviceClean == Spec => []LeavesDeviceClean
  <1>1. ToolInv => LeavesDeviceClean
    BY DEF ToolInv, ToolTypes, Owed, LeavesDeviceClean
  <1> QED  BY <1>1, ToolInvariant, PTL

(* The exit code of run(): success, a device error and a usage error are   *)
(* each reported only for what they mean.                                  *)
THEOREM ProcessTellsTruth == Spec => []ExitTellsTruth
  <1>1. ToolInv => ExitTellsTruth
    BY DEF ToolInv, Verdicts, ExitTellsTruth
  <1> QED  BY <1>1, ToolInvariant, PTL
===============================================================================
