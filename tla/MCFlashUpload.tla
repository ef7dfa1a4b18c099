--------------------------- MODULE MCFlashUpload ---------------------------
(* Four sectors of two bytes: boot.bin and user1 one, user2 two.  A request has   *)
(* a file too large for user1; one whose size has too many digits; or two files,  *)
(* the second of a sector and a half.                                             *)
EXTENDS FlashUpload

CONSTANTS boot, user1, user2, D0, D1

MCName  == {boot, user1, user2}
MCByte  == MCName \union {Zero, Blank, Magic, Delim, Json, Junk, D0, D1}
             \union ((1 .. MaxUploads) \X (1 .. 5))
MCTable == [r \in MCName |-> CASE r = boot  -> [start |-> 0, sectors |-> 1]
                               [] r = user1 -> [start |-> 1, sectors |-> 1]
                               [] r = user2 -> [start |-> 2, sectors |-> 2]]
MCBinName == <<user1, user2>>
MCDigit   == [d \in {D0, D1} |-> IF d = D0 THEN 0 ELSE 1]
MCUpload  == {<<[name |-> user1, size |-> 3]>>,
              <<[name |-> user2, size |-> 5]>>,
              <<[name |-> boot, size |-> 2], [name |-> user2, size |-> 3]>>}
============================================================================
