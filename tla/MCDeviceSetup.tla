--------------------------- MODULE MCDeviceSetup ---------------------------
(* Two networks, one with a longer name and one with a '%' in it; every    *)
(* mode, one restart.                                                      *)
EXTENDS DeviceSetup
=============================================================================
