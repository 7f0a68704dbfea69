---------------------------- MODULE MCBoundedRun ----------------------------
(***************************************************************************)
(* One case per transport for TLC: a command that fills both pipes         *)
(* directly, one behind sudo with descendants, one over ssh that writes    *)
(* what looks like framing, and one behind both.                           *)
(***************************************************************************)
EXTENDS BoundedRun

MCCases ==
    {[mode |-> "direct", input |-> 2, out |-> 2, err |-> 2, tokens |-> {"c"},
      kids |-> {"none", "group", "escaped"}],
     [mode |-> "sudo", input |-> 1, out |-> 0, err |-> 2, tokens |-> {"c"},
      kids |-> {"none", "escaped"}],
     [mode |-> "ssh", input |-> 0, out |-> 0, err |-> 2, tokens |-> {"c", "R1", "L2"},
      kids |-> {"none", "group"}],
     [mode |-> "sshsudo", input |-> 1, out |-> 0, err |-> 1, tokens |-> {"c"},
      kids |-> {"none"}]}

\* The same transports for the temporal properties.
MCFairCases ==
    {[mode |-> "direct", input |-> 2, out |-> 2, err |-> 0, tokens |-> {"c"},
      kids |-> {"none", "group", "escaped"}],
     [mode |-> "sudo", input |-> 1, out |-> 0, err |-> 0, tokens |-> {"c"},
      kids |-> {"none", "escaped"}],
     [mode |-> "ssh", input |-> 0, out |-> 0, err |-> 1, tokens |-> {"c"},
      kids |-> {"none", "group"}]}
=============================================================================
