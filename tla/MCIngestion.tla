----------------------------- MODULE MCIngestion -----------------------------
(* A fleet of two devices, one of which reports at two times.              *)
EXTENDS Ingestion

CONSTANTS dev1, dev2

TwoDevices == {dev1, dev2}
FewReadings ==
    {[device |-> dev1, timestamp |-> 0], [device |-> dev1, timestamp |-> 1],
     [device |-> dev2, timestamp |-> 0]}

=============================================================================
