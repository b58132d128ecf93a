----------------------------- MODULE ConfigTrial ----------------------------
(***************************************************************************)
(* What the WiFi manager promises of the station configuration: a proposal *)
(* is on trial until it is committed or abandoned; only a network that has *)
(* accepted the device is committed; what is committed is saved, and what  *)
(* is saved is what a crash leaves.                                        *)
(***************************************************************************)
CONSTANTS Stations, Off, NoTrial

VARIABLES current, trial, saved, proven

vars == <<current, trial, saved, proven>>

Init == /\ current \in Stations /\ saved = current
        /\ trial = NoTrial /\ proven = {current}

\* A newer proposal takes the place of an older one.
Propose == /\ \E c \in Stations : trial' = c
           /\ UNCHANGED <<current, saved, proven>>

\* No network at all needs no proof.
Commit == /\ trial \in proven \cup {Off}
          /\ current' = trial /\ trial' = NoTrial
          /\ saved' \in {trial} \cup (IF trial = Off THEN {saved} ELSE {})
          /\ UNCHANGED proven

Abandon == trial' = NoTrial /\ UNCHANGED <<current, saved, proven>>

Reset == /\ current' = Off /\ saved' = Off
         /\ UNCHANGED <<trial, proven>>

Save == saved' = current /\ UNCHANGED <<current, trial, proven>>

Crash == current' = saved /\ trial' = NoTrial /\ UNCHANGED <<saved, proven>>

Accepted == /\ \E n \in Stations : proven' = proven \cup {n}
            /\ UNCHANGED <<current, trial, saved>>

Next == Propose \/ Commit \/ Abandon \/ Reset \/ Save \/ Crash \/ Accepted

Spec == Init /\ [][Next]_vars
=============================================================================
