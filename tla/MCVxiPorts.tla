----------------------------- MODULE MCVxiPorts -----------------------------
(* A small instance of VxiPorts for TLC: one port, and three with the ends   *)
(* the wrong way round; each kind of request over one of the two transports  *)
(* but "procedure", which is refused like "program".                         *)
EXTENDS VxiPorts

MCRanges == {<<1, 1>>, <<3, 1>>}
MCKindsOnUDP == {"getport", "cut"}
MCKindsOnTCP == {"getport", "program", "brief", "silent"}
=============================================================================
