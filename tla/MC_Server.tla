------------------------------ MODULE MC_Server ------------------------------
(* Instances of Server for TLC. *)
EXTENDS Server

CONSTANTS c1, c2

Call(mode, n, wait, log) ==
  [mode |-> mode, n_listen_retries |-> n,
   shutdown_wait_for_client_close |-> wait, logGiven |-> log]

\* The modes, with the defaults or with other values of the parameters.
SomeCalls == {Call("stdio", -1, TRUE, TRUE),
              Call("foreground", -1, TRUE, FALSE),
              Call("foreground", 1, FALSE, TRUE),
              Call("background", 1, TRUE, TRUE)}
Foreground == {Call("foreground", -1, TRUE, TRUE)}
Background == {Call("background", -1, TRUE, FALSE)}
=============================================================================
