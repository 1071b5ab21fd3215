--------------------------- MODULE MCClientCommands ---------------------------
(* ClientCommands with two commands: enough to tell the right one from the  *)
(* one that took its slot.                                                  *)
EXTENDS ClientCommands

CONSTANTS say, vote

=============================================================================
