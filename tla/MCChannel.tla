----------------------------- MODULE MCChannel -----------------------------
(***************************************************************************)
(* One channel per transport: a command run directly that fills both of    *)
(* its output pipes, one behind a sudo that asks, does not, refuses or     *)
(* hangs, and two over SSH, one of which writes an exit-status line of its *)
(* own.                                                                    *)
(***************************************************************************)
EXTENDS Channel

Status == <<"M", "0", "nl">>
Line == <<"c", "nl">>

MCCases ==
    {[mode |-> "direct", password |-> FALSE, asks |-> {"cached"}, killable |-> {TRUE},
      input |-> 2, out |-> 2, err |-> 2, words |-> {<<"c">>},
      kids |-> {"gone", "holds"}, takes |-> {"in", "out"}],
     [mode |-> "sudo", password |-> TRUE, asks |-> {"ask", "cached", "refuse", "hang"},
      killable |-> BOOLEAN, input |-> 1, out |-> 0, err |-> 1, words |-> {<<"c">>},
      kids |-> {"gone"}, takes |-> {"in"}],
     [mode |-> "ssh", password |-> FALSE, asks |-> {"cached"}, killable |-> {TRUE},
      input |-> 0, out |-> 0, err |-> 2, words |-> {Status, Line},
      kids |-> {"gone", "holds"}, takes |-> {}],
     [mode |-> "sshsudo", password |-> TRUE, asks |-> {"ask", "cached"}, killable |-> {TRUE},
      input |-> 1, out |-> 0, err |-> 0, words |-> {<<"c">>},
      kids |-> {"gone"}, takes |-> {"in"}]}
=============================================================================
