----------------------------- MODULE MCWifiConfig ---------------------------
(* Values of the constants of WifiConfig for TLC. *)
EXTENDS WifiConfig

CONSTANTS home, guest, none, default, custom

Plain == [enable |-> FALSE, name |-> default]
Kept == [enable |-> TRUE, name |-> default]
Renamed == [enable |-> TRUE, name |-> custom]

Of(points, stations) == [ap : points, sta : stations, ps : PsModes]

\* Every station, and another AP for one of them.
StationConfigs == Of({Plain}, {home, guest, none}) \cup Of({Renamed}, {home})

\* One network, every setting of the AP.
APConfigs == Of({Plain, Kept, Renamed}, {home, none})

\* Every station, and for a device without one every setting of the AP.
LiveConfigs == Of({Plain}, {home, guest, none}) \cup Of({Kept, Renamed}, {none})
=============================================================================
