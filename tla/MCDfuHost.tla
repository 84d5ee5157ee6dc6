----------------------------- MODULE MCDfuHost -----------------------------
(* A download to a scaled-down bootloader: a page of two transfers, a        *)
(* transfer of two packets.                                                  *)
EXTENDS DfuHost, FiniteSetsExt

MCData == 0 .. Max(ImageLens) - 1
=============================================================================
