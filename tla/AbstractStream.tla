--------------------------- MODULE AbstractStream ---------------------------
(***************************************************************************)
(* What a blob of an archive promises: the bytes come out in the order and *)
(* the number in which they went in, and the end is seen only after the    *)
(* last of them, with the hash of all of them.  A byte is identified with  *)
(* its position, and a hash with the number of bytes hashed.               *)
(***************************************************************************)
EXTENDS Naturals

CONSTANTS Total,  \* bytes there are to write
          None    \* no hash

VARIABLES sent,     \* bytes the writer has taken
          closed,   \* whether it has finished
          got,      \* bytes the reader has handed out
          hash      \* the hash the reader reports, or None

avars == <<sent, closed, got, hash>>

Init == sent = 0 /\ closed = FALSE /\ got = 0 /\ hash = None

Send == /\ ~closed
        /\ \E n \in 1..(Total - sent) : sent' = sent + n
        /\ UNCHANGED <<closed, got, hash>>

Close == /\ ~closed
         /\ closed' = TRUE
         /\ UNCHANGED <<sent, got, hash>>

Receive == /\ hash = None
           /\ \E n \in 1..(sent - got) : got' = got + n
           /\ UNCHANGED <<sent, closed, hash>>

End == /\ closed /\ got = sent /\ hash = None
       /\ hash' = sent
       /\ UNCHANGED <<sent, closed, got>>

Next == Send \/ Close \/ Receive \/ End

Spec == Init /\ [][Next]_avars
=============================================================================
