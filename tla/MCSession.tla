----------------------------- MODULE MCSession -----------------------------
(* Instances of the session protocol small enough for TLC. *)
EXTENDS SessionInvariant, TLC

CONSTANTS k1, acceptor, w1, w2, a1, a2, p1, p2

OneKey     == {k1}
OneWorker  == {w1}
TwoWorkers == {w1, w2}
OneApp     == {a1}
TwoApps    == {a1, a2}
OnePacket  == {p1}
TwoPackets == {p1, p2}
AllOps     == {"send", "disconnect", "sad", "addr"}
NoAddr     == {"send", "disconnect", "sad"}
SendOnly   == {"send"}
SadOnly    == {"sad"}

\* Threads, keys and packets are interchangeable (used by safety runs only).
Interchangeable == Permutations(Keys) \cup Permutations(Workers)
                   \cup Permutations(AppThreads) \cup Permutations(Packets)
=============================================================================
