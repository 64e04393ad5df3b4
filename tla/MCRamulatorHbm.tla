---------------------------- MODULE MCRamulatorHbm ----------------------------
EXTENDS RamulatorHbm

CONSTANT Ports   \* ports that receive bursts

MCShapes(sizes, regions) ==
  [size_bytes : sizes, pc_id : Ports, global : regions]

(* Line reads the caller loads, and nothing else.                          *)
MCLineReads == MCShapes({64}, {FALSE})

(* Gathers of elements of 4 or 8 bytes, local line loads of a core, and    *)
(* writebacks to the global region.                                        *)
MCGathers == MCShapes({4, 8}, {FALSE})
MCLoads == MCShapes({64}, {FALSE})
MCWritebacks == MCShapes({64}, {TRUE})
MCNone == {}
=============================================================================
