------------------------------ MODULE MCLiveClient ------------------------------
EXTENDS LiveClient, TLC

CONSTANTS A, B, a1, b1

OneDeviceEach == (a1 :> A) @@ (b1 :> B)
OnlyOfA == a1 :> A
=============================================================================
