----------------------------- MODULE MCReceive -----------------------------
(* Instances of the receive path small enough for TLC. *)
EXTENDS Receive

Packet(code, length, checksum) == [code |-> code, length |-> length, checksum |-> checksum]
Good(length) == Packet(TRUE, length, TRUE)

\* Packets of every size the buffer holds, an empty one among them, and at the
\* end one whose checksum is wrong.
Mixed == <<Good(2), Good(0), Good(3), Good(1), Good(4), Good(2), Packet(TRUE, 1, FALSE), Good(1)>>

\* A length above the maximum, in front of a packet that would be good.
Refused == <<Good(3), Good(0), Good(2), Packet(TRUE, 4, TRUE), Good(1)>>

\* A header whose Code is wrong.
Foreign == <<Good(1), Good(2), Packet(FALSE, 1, TRUE), Good(1)>>

\* A packet longer than the buffer, in front of one that would be good.
TooLong == <<Good(1), Good(3), Good(2), Good(5), Good(1)>>

Deployed(max, sent, ahead) == [mMaxPayloadLength |-> max, packets |-> sent, lead |-> ahead]

\* Each stream sent as fast as TCP takes it, so that a receive may fill the buffer
\* of 7; the two longest also by a peer that always leaves a byte free.
SixDeployments == { Deployed(6, Mixed, 7), Deployed(6, Mixed, 6), Deployed(3, Refused, 7),
                    Deployed(3, Foreign, 7), Deployed(6, TooLong, 7), Deployed(6, TooLong, 6) }
MixedOnly      == { Deployed(6, Mixed, 7) }
=============================================================================
