------------------------------ MODULE MCHostTool ------------------------------
(***************************************************************************)
(* An instance of HostTool for TLC: right and wrong lines of each command. *)
(***************************************************************************)
EXTENDS HostTool

CmdLine(cmd, args, opts) == [cmd |-> cmd, args |-> args, opts |-> opts]
MCLines ==
    {CmdLine(cmd, args, opts) :
        cmd \in {"list", "info", "write", "status", "monitor", "stream", "watch"},
        args \in {<<>>, <<"good", "good">>, <<"refused", "malformed">>, <<"malformed">>},
        opts \in {{}, {"csvUnopenable"}, {"seconds", "period"}}}
    \cup {CmdLine("stream", <<"good">>, {"hz", "period"}), CmdLine("stream", <<"good">>, {"hz"}),
          CmdLine("stream", <<"good">>, {"hzHuge"}), CmdLine("watch", <<"good">>, {"debounceLarge"}),
          CmdLine("blink", <<>>, {}), CmdLine("reset", <<>>, {}), CmdLine("blink", <<>>, {"help"}),
          CmdLine("reset", <<>>, {"unknown", "help"}), CmdLine("reset", <<>>, {"hzZero"}),
          CmdLine("watch", <<"good">>, {"badValue"})}
===============================================================================
