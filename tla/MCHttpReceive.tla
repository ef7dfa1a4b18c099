--------------------------- MODULE MCHttpReceive ---------------------------
(* Requests of one unit, of two (collected: two is the longest that is), and  *)
(* of three, streamed or cut off after the first packet.                      *)
EXTENDS HttpReceive

MCRequest == {[size |-> 1, streams |-> FALSE], [size |-> 2, streams |-> FALSE],
              [size |-> 2, streams |-> TRUE],
              [size |-> 3, streams |-> TRUE], [size |-> 3, streams |-> FALSE]}
============================================================================
