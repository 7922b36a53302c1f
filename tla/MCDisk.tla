------------------------------- MODULE MCDisk -------------------------------
(***************************************************************************)
(* An instance of DiskController for TLC. It runs both builds of the       *)
(* controller, the one that writes the images and the one with the         *)
(* differencing disk, and keeps the programs of each small:                *)
(*   - "one": one drive, everything the controller can be told;            *)
(*   - "two": two drives, turned to at any byte of a sector, the heads     *)
(*     loaded and on track 0, the second drive with one sector;            *)
(*   - "cloud": one drive over the differencing disk, on track 0.          *)
(***************************************************************************)
EXTENDS DiskController

VARIABLE build

CloudBuild == INSTANCE DiskController WITH Cloud <- TRUE

OnTrack0 == \A d \in Drives : drive'[d].track = 0

One == /\ build = "one"
       /\ Next
       /\ current' \in {NoDrive, 0}

Two == /\ build = "two"
       /\ Next
       /\ OnTrack0 /\ drive'[1].sector <= 1
       /\ \A d \in Drives : "HEAD" \in drive'[d].status

InCloud == /\ build = "cloud"
           /\ CloudBuild!Next
           /\ OnTrack0 /\ current' \in {NoDrive, 0}

DiskInit == Init /\ build \in {"one", "two", "cloud"}
DiskNext == (One \/ Two \/ InCloud) /\ UNCHANGED build
DiskSpec == DiskInit /\ [][DiskNext]_<<vars, build>>
=============================================================================
