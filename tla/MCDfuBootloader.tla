-------------------------- MODULE MCDfuBootloader --------------------------
(* A scaled-down bootloader for TLC: a page of two transfers, an area of     *)
(* two pages.                                                                *)
EXTENDS DfuBootloader
=============================================================================
