----------------------------- MODULE MCMessages -----------------------------
(* Messages on a small instance: one caller beside the two threads of the  *)
(* library, an extension with both callbacks and one with one.             *)
EXTENDS Messages

CONSTANTS caller1, both, logger

MCCallers  == {caller1}
MCExts     == {both, logger}
MCOutgoing == {both}
=============================================================================
