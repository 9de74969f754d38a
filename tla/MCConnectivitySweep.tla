------------------------- MODULE MCConnectivitySweep -------------------------
(* The rule of rules.json, whose silence is two intervals, and another.    *)
EXTENDS ConnectivitySweep

CONSTANT dev1

OneDevice == {dev1}
DeviceTimes == {-1, 1}
OfflineRules == <<2, 3>>

=============================================================================
