------------------------------- MODULE HostTool -------------------------------
(***************************************************************************)
(* arduino-io, the command line tool: one process after another on the same*)
(* board.  A process reads its command line, opens the board, and runs one *)
(* command; monitor, stream and watch loop until SIGINT or --seconds, and  *)
(* stream and watch hold something on the device meanwhile that has to be  *)
(* undone on every way out.  SIGINT kills a process that has not installed *)
(* its handler yet.                                                        *)
(*                                                                         *)
(* A command line is [cmd, args, opts].  An argument is "good",            *)
(* "malformed" (it does not parse) or "refused" (it parses, but Device     *)
(* refuses it: no such pin, not that capability).  An option is a fact:    *)
(* "unknown" (cxxopts refuses the line), "badValue" (an id or an edge that *)
(* does not parse), "help", "hz", "hzZero", "hzHuge", "period", "seconds", *)
(* "debounceLarge", "csvFile", "csvUnopenable".                            *)
(***************************************************************************)
EXTENDS Naturals, SequencesExt

CONSTANTS
    Lines,     \* the command lines
    MaxRuns    \* bound: processes

ASSUME ToolAssumption ==
    /\ MaxRuns \in Nat \ {0}
    /\ \A l \in Lines : l.args \in Seq({"good", "malformed", "refused"})

VARIABLES
    line,      \* the command line of this process
    run,       \* its number
    stage,     \* where it is
    code,      \* its exit code: none, ok, device, usage; or killed
    holds,     \* nothing, stream, watcher: what a destructor will undo
    handler,   \* on_interrupt() is installed
    flag,      \* StopRequested
    stream,    \* the Stream: worker, ready (records wait), error
    dev,       \* the board: the run that left it sampling, that armed pins,
               \* and that last changed anything else; 0 for none
    failed,    \* history: a call threw, or the stream ended by itself
    lost       \* history: a transfer that undoes something was lost

vars == <<line, run, stage, code, holds, handler, flag, stream, dev, failed, lost>>

-----------------------------------------------------------------------------
(* Command lines                                                           *)

MinArgs ==
    [list |-> 0, info |-> 0, caps |-> 0, mode |-> 2, read |-> 1, write |-> 2, aread |-> 1,
     readall |-> 0, areadall |-> 0, pwm |-> 2, dac |-> 2, status |-> 0, sync |-> 0,
     reset |-> 0, time |-> 0, monitor |-> 0, stream |-> 1, watch |-> 1]
Loops   == {"monitor", "stream", "watch"}
Silent  == {"info", "caps"}          \* answered from what opening has read
Changes == {"mode", "write", "pwm", "dac", "reset"}

(* The arguments a command looks at; the others are ignored.               *)
Used(l) == Range(IF l.cmd = "monitor" THEN l.args ELSE SubSeq(l.args, 1, MinArgs[l.cmd]))
Malformed == "malformed" \in Used(line)    \* the parse_*() functions throw
Has(opt) == opt \in line.opts

(* run() up to the creation of the Context, in its order.                  *)
ParseVerdict ==
    IF Has("unknown") THEN "usage"
    ELSE IF Has("help") THEN "ok"
    ELSE IF \/ Has("badValue")
            \/ line.cmd \notin DOMAIN MinArgs
            \/ Len(line.args) < MinArgs[line.cmd]
            \/ Has("hzZero") \/ Has("debounceLarge") THEN "usage"
    ELSE "none"

(* resolve_stream_period().                                                *)
PeriodIsWrong == Has("hzHuge") \/ (Has("hz") /\ Has("period"))

-----------------------------------------------------------------------------
(* Leaving: main() catches what was thrown once destructors have run.      *)
Leave(c) == code' = c /\ stage' = (IF holds = "nothing" THEN "exit" ELSE "unwind")
LeaveAt(c, what) == code' = c /\ stage' = "exit" /\ failed' = (failed \/ what = "threw")
Go(s) == stage' = s /\ UNCHANGED code

Parse ==
    /\ stage = "parse"
    /\ IF ParseVerdict = "none" THEN Go("open") ELSE Leave(ParseVerdict)
    /\ UNCHANGED <<line, run, holds, handler, flag, stream, dev, failed, lost>>

(* Context, and cmd_list() or open_selected(): each may throw.             *)
Open ==
    /\ stage = "open"
    /\ \/ LeaveAt("device", "threw")
       \/ line.cmd = "list" /\ LeaveAt("ok", "returned")
       \/ /\ line.cmd # "list" /\ Go(IF line.cmd \in Loops THEN "begin" ELSE "call")
          /\ UNCHANGED failed
    /\ UNCHANGED <<line, run, holds, handler, flag, stream, dev, lost>>

(* The commands that make one call, with their arguments parsed before it. *)
CallDevice ==
    /\ stage = "call"
    /\ \/ Malformed /\ LeaveAt("usage", "returned") /\ UNCHANGED dev
       \/ /\ ~Malformed /\ line.cmd \notin Silent
          /\ LeaveAt("device", "threw")
          /\ UNCHANGED dev \/ (Used(line) \subseteq {"good"} /\ line.cmd \in Changes
                               /\ dev' = [dev EXCEPT !.touched = run])
       \/ /\ Used(line) \subseteq {"good"} /\ LeaveAt("ok", "returned")
          /\ dev' = IF line.cmd \in Changes THEN [dev EXCEPT !.touched = run] ELSE dev
    /\ UNCHANGED <<line, run, holds, handler, flag, stream, lost>>

(* cmd_monitor() checks its pins one after another.                        *)
BeginMonitor ==
    /\ stage = "begin" /\ line.cmd = "monitor"
    /\ LET i == SelectInSeq(line.args, LAMBDA a : a # "good") IN
       IF i = 0 THEN Go("csv") /\ UNCHANGED failed
       ELSE IF line.args[i] = "malformed" THEN LeaveAt("usage", "returned")
       ELSE LeaveAt("device", "threw")
    /\ UNCHANGED <<line, run, holds, handler, flag, stream, dev, lost>>

(* start_stream() stops what another process has left running, and takes   *)
(* back what it did when it fails, unless a transfer is lost.              *)
BeginStream ==
    /\ stage = "begin" /\ line.cmd = "stream"
    /\ \/ /\ Malformed \/ PeriodIsWrong
          /\ LeaveAt("usage", "returned") /\ UNCHANGED <<dev, holds, stream, lost>>
       \/ /\ ~Malformed /\ ~PeriodIsWrong
          /\ LeaveAt("device", "threw") /\ UNCHANGED <<holds, stream>>
          /\ \/ dev' \in {dev, [dev EXCEPT !.sampling = 0]} /\ UNCHANGED lost
             \/ dev' = [dev EXCEPT !.sampling = run] /\ lost' = TRUE
       \/ /\ Used(line) \subseteq {"good"} /\ ~PeriodIsWrong
          /\ dev' = [dev EXCEPT !.sampling = run] /\ holds' = "stream"
          /\ stream' = [worker |-> "running", ready |-> FALSE, error |-> FALSE]
          /\ Go("csv") /\ UNCHANGED <<failed, lost>>
    /\ UNCHANGED <<line, run, handler, flag>>

BeginWatch ==
    /\ stage = "begin" /\ line.cmd = "watch"
    /\ \/ Malformed /\ LeaveAt("usage", "returned") /\ UNCHANGED <<dev, holds, lost>>
       \/ /\ ~Malformed /\ LeaveAt("device", "threw") /\ UNCHANGED holds
          /\ \/ UNCHANGED <<dev, lost>>
             \/ dev' = [dev EXCEPT !.armed = run] /\ lost' = TRUE
       \/ /\ Used(line) \subseteq {"good"}
          /\ dev' = [dev EXCEPT !.armed = run] /\ holds' = "watcher"
          /\ Go("signal") /\ UNCHANGED <<failed, lost>>
    /\ UNCHANGED <<line, run, handler, flag, stream>>

(* Bug: the tool exits where it should throw.                              *)
BugExits ==
    /\ stage = "csv"
    /\ IF Has("csvUnopenable") THEN stage' = "exit" /\ code' = "usage" ELSE Go("signal")
    /\ UNCHANGED <<line, run, holds, handler, flag, stream, dev, failed, lost>>

(* open_csv(): stream opens its file once the board samples.               *)
OpenCsv ==
    /\ stage = "csv"
    /\ IF Has("csvUnopenable") THEN Leave("usage") ELSE Go("signal")
    /\ UNCHANGED <<line, run, holds, handler, flag, stream, dev, failed, lost>>

InstallHandler ==
    /\ stage = "signal" /\ handler' = TRUE /\ Go("loop")
    /\ UNCHANGED <<line, run, holds, flag, stream, dev, failed, lost>>

-----------------------------------------------------------------------------
(* The loops, and what follows them                                        *)

(* The test of the flag, then (stream, watch) of the time.  watch sleeps   *)
(* between two tests, monitor in its wait for the next refresh.            *)
TestLoop ==
    /\ stage = "loop"
    /\ \/ flag /\ Go("summary")
       \/ Has("seconds") /\ line.cmd # "monitor" /\ Go("summary")
       \/ ~flag /\ line.cmd # "watch" /\ Go("body")
    /\ UNCHANGED <<line, run, holds, handler, flag, stream, dev, failed, lost>>

Refresh ==
    /\ stage = "body" /\ line.cmd = "monitor"
    /\ \/ Go("loop") /\ UNCHANGED failed
       \/ LeaveAt("device", "threw")
    /\ UNCHANGED <<line, run, holds, handler, flag, stream, dev, lost>>

(* Bug: the loop goes on although the worker has ended.                    *)
BugNeverEnds ==
    /\ stage = "body" /\ line.cmd = "stream"
    /\ stream' = [stream EXCEPT !.ready = FALSE] /\ Go("loop")
    /\ UNCHANGED <<line, run, holds, handler, flag, dev, failed, lost>>

(* read() takes what is ready, or comes back with nothing after 200 ms; the*)
(* loop ends then if the worker has.                                       *)
ReadStream ==
    /\ stage = "body" /\ line.cmd = "stream"
    /\ stream' = [stream EXCEPT !.ready = FALSE]
    /\ Go(IF ~stream.ready /\ stream.worker = "ended" THEN "summary" ELSE "loop")
    /\ UNCHANGED <<line, run, holds, handler, flag, dev, failed, lost>>

(* Bug: the error of the stream is printed only.                           *)
BugIgnoresError ==
    /\ stage = "summary" /\ line.cmd # "watch"
    /\ Leave("ok")
    /\ UNCHANGED <<line, run, holds, handler, flag, stream, dev, failed, lost>>

(* The rate, the statistics and the error of a stream; monitor just ends.  *)
Summarise ==
    /\ stage = "summary" /\ line.cmd # "watch"
    /\ Leave(IF line.cmd = "stream" /\ stream.error THEN "device" ELSE "ok")
    /\ UNCHANGED <<line, run, holds, handler, flag, stream, dev, failed, lost>>

(* watch reads the counts of the pins while they are armed.                *)
ReadCounts ==
    /\ stage = "summary" /\ line.cmd = "watch"
    /\ \/ Leave("ok") /\ UNCHANGED failed
       \/ Leave("device") /\ failed' = TRUE
    /\ UNCHANGED <<line, run, holds, handler, flag, stream, dev, lost>>

(* ~Stream(): the worker is joined, STREAM_STOP; the watcher's stop():     *)
(* every pin OFF.  An error of either is swallowed.                        *)
Undone == IF holds = "stream" THEN [dev EXCEPT !.sampling = 0] ELSE [dev EXCEPT !.armed = 0]
Unwind ==
    /\ stage = "unwind"
    /\ stage' = "exit" /\ holds' = "nothing"
    /\ stream' = [stream EXCEPT !.worker = "none"]
    /\ \/ dev' = Undone /\ UNCHANGED lost
       \/ UNCHANGED dev /\ lost' = TRUE
    /\ UNCHANGED <<line, run, code, handler, flag, failed>>

-----------------------------------------------------------------------------
(* The worker of the Stream queues records, and ends by itself when the    *)
(* transport fails or the device has stopped.                              *)
WorkerQueues ==
    /\ holds = "stream" /\ stream.worker = "running" /\ ~stream.ready
    /\ stream' = [stream EXCEPT !.ready = TRUE]
    /\ UNCHANGED <<line, run, stage, code, holds, handler, flag, dev, failed, lost>>

WorkerEnds ==
    /\ holds = "stream" /\ stream.worker = "running"
    /\ stream' = [stream EXCEPT !.worker = "ended", !.error = TRUE]
    /\ failed' = (failed \/ stage # "unwind")
    /\ UNCHANGED <<line, run, stage, code, holds, handler, flag, dev, lost>>

(* SIGINT.                                                                 *)
Interrupt ==
    /\ stage # "exit"
    /\ \/ handler /\ flag' = TRUE /\ UNCHANGED <<stage, code, holds, stream>>
       \/ /\ ~handler /\ stage' = "exit" /\ code' = "killed" /\ holds' = "nothing"
          /\ stream' = [stream EXCEPT !.worker = "none"] /\ UNCHANGED flag
    /\ UNCHANGED <<line, run, handler, dev, failed, lost>>

-----------------------------------------------------------------------------
NoStream == [worker |-> "none", ready |-> FALSE, error |-> FALSE]

Init ==
    /\ line \in Lines /\ run = 1
    /\ stage = "parse" /\ code = "none" /\ holds = "nothing" /\ handler = FALSE /\ flag = FALSE
    /\ stream = NoStream /\ dev = [sampling |-> 0, armed |-> 0, touched |-> 0]
    /\ failed = FALSE /\ lost = FALSE

(* The tool is called again.                                               *)
NextRun ==
    /\ stage = "exit" /\ run < MaxRuns
    /\ line' \in Lines /\ run' = run + 1
    /\ stage' = "parse" /\ code' = "none" /\ holds' = "nothing" /\ handler' = FALSE /\ flag' = FALSE
    /\ stream' = NoStream /\ failed' = FALSE /\ lost' = FALSE
    /\ UNCHANGED dev

ToolStep ==
    \/ Parse \/ Open \/ CallDevice \/ BeginMonitor \/ BeginStream \/ BeginWatch
    \/ OpenCsv \/ InstallHandler \/ TestLoop \/ Refresh \/ ReadStream
    \/ Summarise \/ ReadCounts \/ Unwind

Next == ToolStep \/ WorkerQueues \/ WorkerEnds \/ Interrupt \/ NextRun

(* The process runs: every call it makes and every wait is bounded.        *)
Spec == Init /\ [][Next]_vars /\ WF_vars(ToolStep)

-----------------------------------------------------------------------------
(* Properties                                                              *)

(* A process that was not killed, and lost no transfer that undoes         *)
(* something, leaves the board neither sampling nor armed on its account,  *)
(* whichever call threw, whatever the command line got wrong, and whatever *)
(* a process killed before it had left ("so an early exception ... still   *)
(* closes" the stream as it does the file, arduino-io.cpp:457).            *)
LeavesDeviceClean ==
    stage = "exit" /\ code # "killed" /\ ~lost => dev.sampling # run /\ dev.armed # run

(* What is wrong with a command line, whatever order it is looked at in.   *)
AtFault ==
    \/ Has("unknown")
    \/ /\ ~Has("help")
       /\ \/ Has("badValue") \/ Has("hzZero") \/ Has("debounceLarge")
          \/ line.cmd \notin DOMAIN MinArgs
          \/ Len(line.args) < MinArgs[line.cmd] \/ Malformed
          \/ line.cmd = "stream" /\ PeriodIsWrong
          \/ line.cmd \in {"monitor", "stream"} /\ Has("csvUnopenable")

(* The exit code says what happened (arduino-io.cpp:5): success only when  *)
(* nothing failed, not even the stream by itself in its last moments, a    *)
(* device error only when something did, and a usage error only for a line *)
(* that is wrong, with no pin changed.                                     *)
ExitTellsTruth ==
    stage = "exit" => /\ code = "ok" => ~failed /\ ~AtFault
                      /\ code = "device" => failed
                      /\ code = "usage" => AtFault /\ dev.touched # run

(* Ctrl-C ends a loop that has installed the handler, whatever it waits    *)
(* for; so does the end of the stream; other commands end by themselves.   *)
ToolEnds ==
    (flag \/ stream.worker = "ended" \/ line.cmd \notin Loops) ~> stage = "exit"
=============================================================================
