------------------------- MODULE MCDeviceDiscovery --------------------------
(* Instances of DeviceDiscovery for TLC. *)
EXTENDS DeviceDiscovery
=============================================================================
