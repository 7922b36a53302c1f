----------------------------- MODULE MCMachine -----------------------------
(***************************************************************************)
(* An instance of Machine for TLC, with the images that are loaded. It     *)
(* runs the machine in two settings:                                       *)
(*   - "monitor": the session has every command, and nobody moves a lever; *)
(*   - "both": a lever moves, and the session enters a program.            *)
(***************************************************************************)
EXTENDS Machine

VARIABLE setting

RomImage == [a \in Address |-> IF a = Boot THEN 1 ELSE 0]
BasicImage == [a \in Address |-> 0]

Monitor == /\ setting = "monitor"
           /\ Next
           /\ presses' = 0

Both == /\ setting = "both"
        /\ Next
        /\ command' \in Levers \union {NOP, "EXAMINE", "DEPOSIT", "DEPOSIT_NEXT"}

MachineInit == Init /\ setting \in {"monitor", "both"}
MachineNext == (Monitor \/ Both) /\ UNCHANGED setting
MachineSpec == MachineInit /\ [][MachineNext]_<<vars, setting>> /\ StartFairness
=============================================================================
