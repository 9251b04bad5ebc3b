------------------------------- MODULE MCDevices -------------------------------
(* DeviceStore with small sets of devices and connections. *)
EXTENDS DeviceStore
=============================================================================
