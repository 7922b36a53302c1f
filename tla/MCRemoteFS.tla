----------------------------- MODULE MCRemoteFS -----------------------------
(* An instance of RemoteFS for TLC: two ids that share a directory, a disk with a        *)
(* template and one without.                                                            *)
EXTENDS RemoteFS

CONSTANTS c1, c2, shared

TwoIds == {c1, c2}
DirOfId == [c \in TwoIds |-> shared]
DirsOfIds == {shared}
Templates == [d \in {"cpm63k", "blank"} |-> IF d = "cpm63k" THEN 1 ELSE Missing]
=============================================================================
