--------------------------- MODULE MCServerCommands ---------------------------
(* ServerCommands with a window of four commands and four commands of the   *)
(* game: two configuration strings with the same number, of which the last  *)
(* is enough ("d"), one that is never replaced ("x"), and a message that    *)
(* may be ignored ("e").                                                    *)
EXTENDS ServerCommands

CONSTANTS score1, score2, quit, chat

MCLetter ==
  [c \in Commands \cup {DropText} |->
     CASE c \in {score1, score2} -> "d"
       [] c = quit -> "x"
       [] c = chat -> "e"
       [] c = DropText -> "w"]
MCFirstToken == [c \in Commands |-> 1]

=============================================================================
