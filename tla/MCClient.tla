----------------------------- MODULE MCClient -----------------------------
(* An instance of the client small enough for TLC, with bytes of two bits. *)
EXTENDS NetClient, Bitwise

XorOfBits == [pair \in Byte \X Byte |-> pair[1] ^^ pair[2]]

\* A short packet and one that fills the buffer; 2 is 0x32 cut to two bits.
TwoReplies == << [content |-> <<3>>, rand |-> 2], [content |-> <<1, 2>>, rand |-> 3] >>

TwoContents == { <<1>>, <<3, 1>> }
=============================================================================
