-------------------------------- MODULE Zones --------------------------------
(* The four zones of src/color.rs, in the order of a ZoneColors value; the   *)
(* ZoneId of logig560-api is the same.                                       *)
ZoneIds == {"LeftRear", "LeftFront", "RightFront", "RightRear"}
ZONES == <<"LeftRear", "LeftFront", "RightFront", "RightRear">>
=============================================================================
