------------------------------ MODULE MCNetchan ------------------------------
(* Netchan on small messages: with fragments of three bytes, one message is *)
(* sent whole, one is an exact multiple of the fragment size and ends with  *)
(* an empty fragment, one has a shorter last fragment, one is rebuilt but   *)
(* does not fit the message buffer, one overflows the reassembly buffer.    *)
EXTENDS Netchan

CONSTANTS whole, exact, uneven, unfit, huge

MCMessageLength ==
  [m \in Messages |-> CASE m = whole  -> 1
                        [] m = exact  -> 3
                        [] m = uneven -> 4
                        [] m = unfit  -> 5
                        [] m = huge   -> 6]

=============================================================================
