----------------------- MODULE MCSignalForwarding -----------------------
(***************************************************************************)
(* The instance of SignalForwarding.  A signal never looks at another, but *)
(* for the order in which the handlers are installed: two stand for the    *)
(* three of setup_signal_forwarding.                                       *)
(***************************************************************************)
EXTENDS SignalForwarding

MCTwo == <<"INT", "TERM">>

=========================================================================
