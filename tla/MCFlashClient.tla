--------------------------- MODULE MCFlashClient ---------------------------
(* A chip of four sectors of two bytes, a table with a request that collides *)
(* with two others, and payloads of zero to three bytes.                     *)
EXTENDS FlashClient

CONSTANTS boot, user, conf, x

MCName    == {boot, user, conf}
MCByte    == {Zero, Blank, Magic, x}
MCRequest == {[name |-> boot, start |-> 0, sectors |-> 1],
              [name |-> user, start |-> 1, sectors |-> 2],
              [name |-> conf, start |-> 2, sectors |-> 2]}
MCPayload == {<<>>, <<x>>, <<Magic, x, x>>}
============================================================================
