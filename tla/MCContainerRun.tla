-------------------------- MODULE MCContainerRun --------------------------
(* The TLC instance of ContainerRun: two exit codes beside 0, one of them  *)
(* the code of an internal error; SIGKILL and SIGSYS, which both processes *)
(* may die of.                                                             *)
EXTENDS ContainerRun

MCCodes == {0, 1, 42}
MCSigs  == {9, 31}

===========================================================================
