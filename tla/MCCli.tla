-------------------------------- MODULE MCCli --------------------------------
(***************************************************************************)
(* Two names in every relation a path guard must tell apart, against every *)
(* choice of input and output; and, on one plain file, every kind of       *)
(* command with every combination of flags and standard streams.           *)
(***************************************************************************)
EXTENDS Cli

Pair(left, right) == [n \in Names |-> IF n = "a" THEN left ELSE right]

CliFileSystems ==
    {Pair(File("f"), File("g")), Pair(File("f"), File("f")), Pair(File("f"), Nothing),
     Pair(File("f"), LinkTo("a")), Pair(LinkTo("b"), File("g")),
     Pair(Nothing, LinkTo("a"))}

Invocation(command, flags, in, out, stdin, stdout, stderr) ==
    [command |-> command, flags |-> flags, inputs |-> in, output |-> out,
     stdin |-> stdin,
     streams |-> [s \in Streams |-> IF s = "stdout" THEN stdout ELSE stderr]]

PathInvocations ==
    {Invocation("gated", {"strict_exit"}, in, out, "open", "open", "open") :
        in \in {<<"a">>, <<"b">>, <<"a", "b">>, <<"-", "a">>, <<"-", "-">>},
        out \in Names \cup {"none", "invalid"}}

StreamInvocations ==
    UNION {{Invocation(command, flags, in, "none", stdin, stdout, stderr) :
               flags \in SUBSET Gates[command], in \in {<<"a">>, <<"-">>},
               stdin \in {"open", "closed"}, stdout \in {"open", "closed"},
               stderr \in {"open", "closed"}} : command \in DOMAIN Gates}

CliInvocations == PathInvocations \cup StreamInvocations
=============================================================================
