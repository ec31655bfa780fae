--------------------------- MODULE MCConfinement ---------------------------
(***************************************************************************)
(* The instance of Confinement: two capabilities to drop and one to keep   *)
(* beside CAP_SETPCAP, three layers, and three runs with the same pid, so  *)
(* that the second may find a container that is still alive and the third  *)
(* what both have left.                                                    *)
(***************************************************************************)
EXTENDS Confinement

MCCaps == RETAINED_CAPS \cup {"CAP_SETPCAP", "CAP_SYS_ADMIN", "CAP_SYS_PTRACE"}

============================================================================
