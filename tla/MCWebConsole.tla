---------------------------- MODULE MCWebConsole ----------------------------
(***************************************************************************)
(* An instance of WebConsole for TLC. It runs the console in two settings, *)
(* each with a bound of its own:                                           *)
(*   - "sessions": two browsers come and go, and one message is published; *)
(*   - "bytes": one browser, and messages of all threads up to MaxBytes.   *)
(***************************************************************************)
EXTENDS WebConsole

CONSTANTS c1, c2

VARIABLE setting

TwoClients == {c1, c2}

Publishing == {t \in Threads : pc[t] = "enqueue"}

Sessions == /\ setting = "sessions"
            /\ Next
            /\ Publishing' \subseteq Publishing \/ stamp + Cardinality(Publishing) < 2

Bytes == /\ setting = "bytes"
         /\ Next
         /\ conn'[c2] = "absent"

ConsoleInit == Init /\ setting \in {"sessions", "bytes"}
ConsoleNext == (Sessions \/ Bytes) /\ UNCHANGED setting
ConsoleSpec == ConsoleInit /\ [][ConsoleNext]_<<vars, setting>> /\ Fairness
=============================================================================
