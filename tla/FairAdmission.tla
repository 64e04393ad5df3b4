---------------------------- MODULE FairAdmission ----------------------------
(***************************************************************************)
(* The simulator loop with a history of how often a port is passed over in *)
(* the admission phase (src/src/ramulator_hbm.cpp:185-244).                *)
(***************************************************************************)
EXTENDS RamulatorHbm

VARIABLE
  bypass   \* history: admissions from other ports since the port last had
           \* no fitting burst at its head or was itself admitted from

(* The port that the step admits from.                                     *)
Served == Visited(sweep_start, k)

CountBypass ==
  IF tsv_bytes_admitted' > tsv_bytes_admitted
  THEN bypass' = [p \in PC |->
         IF p = Served \/ ports[p] = <<>> \/ ~ Fits(Head(ports[p])) THEN 0
         ELSE bypass[p] + 1]
  ELSE UNCHANGED bypass

PortsInit == Init /\ bypass = [p \in PC |-> 0]

PortsNext == Next /\ CountBypass

PortsSpec ==
  /\ PortsInit
  /\ [][PortsNext]_<<vars, bypass>>
  /\ WF_<<vars, bypass>>(RunStep /\ CountBypass)

(* Among fitting bursts of one size no port waits for more than one burst  *)
(* of every other port, across sweeps, cycles, rejections and cycles in    *)
(* which the cap cuts a sweep short.                                       *)
BoundedBypass == \A p \in PC : bypass[p] <= kNumPseudoChannels - 1
=============================================================================
