---- MODULE MCDeviceTree ----
EXTENDS DeviceTree

CONSTANTS pad, stick, wheel, keyboard, padContainer
MCParent == [n \in Nodes |-> IF n \in {stick, wheel} THEN pad ELSE NoNode]
MCContainerId == [n \in Nodes |-> IF n = keyboard THEN NoContainerId ELSE padContainer]
====
