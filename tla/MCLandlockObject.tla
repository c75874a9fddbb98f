--------------------------- MODULE MCLandlockObject --------------------------
(* Instance of LandlockObject for TLC: two inodes, two objects, two rulesets *)
(* and two tasks beside the unmount, all of them model values.               *)
EXTENDS LandlockObject
=============================================================================
