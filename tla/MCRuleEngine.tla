---------------------------- MODULE MCRuleEngine ----------------------------
(***************************************************************************)
(* Two of the rules of rules.json, scaled down: one on the temperature     *)
(* with a sustain window, one on the battery that fires at once.           *)
(***************************************************************************)
EXTENDS RuleEngine

CONSTANTS dev1, dev2, LatestTime

TempCritical ==
    [operator |-> "gt", metric |-> "temp", threshold |-> 1,
     min |-> Undefined, max |-> Undefined, sustainSeconds |-> 1]
BatteryLow ==
    [operator |-> "lt", metric |-> "battery", threshold |-> 1,
     min |-> Undefined, max |-> Undefined, sustainSeconds |-> 0]

BothRules == <<TempCritical, BatteryLow>>
SustainedRule == <<TempCritical>>

OneDevice == {dev1}
TwoDevices == {dev1, dev2}

ReadingsOf(devices, samples) ==
    [device : devices, timestamp : 0 .. LatestTime, sample : samples]
Samples == [temp : {1, 2}, battery : {0, 1}]
TempSamples == [temp : {1, 2}]

OneDeviceReadings == ReadingsOf(OneDevice, Samples)
TempReadings == ReadingsOf(OneDevice, TempSamples)
FleetReadings == ReadingsOf(TwoDevices, Samples)

=============================================================================
