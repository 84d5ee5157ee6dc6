----------------------------- MODULE MCEdaDirect ----------------------------
(* Two EDAs, the main loop and two levels of interrupts.                      *)
EXTENDS EdaDirect
=============================================================================
