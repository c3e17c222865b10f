--------------------------- MODULE MCDeviceSessions ----------------------------
(* Small instances of DeviceSessions for TLC: a device that reconnects once   *)
(* with two commands under way, or two devices with a command each.           *)
EXTENDS DeviceSessions, TLC

CONSTANTS k1, k2, d1, d2, i1, i2

OneCommand  == (i1 :> d1)
OneDevice   == (i1 :> d1) @@ (i2 :> d1)
TwoDevices  == (i1 :> d1) @@ (i2 :> d2)

\* connections are interchangeable
SameConns == Permutations({k1, k2})
================================================================================
