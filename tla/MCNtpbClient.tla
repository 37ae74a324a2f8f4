---------------------------- MODULE MCNtpbClient ----------------------------
(***************************************************************************)
(* Instances of NtpbClient for TLC.                                        *)
(***************************************************************************)
EXTENDS NtpbClient, TLC
CONSTANTS io1, io2, c1, c2, c3
OneIo == {io1}
TwoIo == {io1, io2}
OneClientSlot == {c1}
TwoClientSlots == {c1, c2}
ThreeClientSlots == {c1, c2, c3}
\* Dump threads and client threads are interchangeable.
ThreadSymmetry == Permutations(IoThreads) \cup Permutations(ClientThreads)
SevenSocks == 1..7
\* Bound: a third client thread is not followed, so none is started when every
\* slot is taken.
SpawnHasSlot ==
    (\E t \in Threads : pc[t] = "spawn") => \E c \in ClientThreads : cpc[c] = "dead"
\* Bound: dump threads are not followed while two client threads live.
LoneAfterAbort ==
    (\A c \in ClientThreads : cpc[c] # "dead") => \A t \in IoThreads : pc[t] = "idle"
LinkLoss == {"reset"}
LinkLossOrGone == {"reset", "gone"}
LinkLossOrReboot == {"reset", "reboot"}
=============================================================================
