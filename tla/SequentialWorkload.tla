-------------------------- MODULE SequentialWorkload --------------------------
(***************************************************************************)
(* The multiplexer used on its own: a driver loads sequential workloads    *)
(* and issues one burst at a time by round robin, the way the class        *)
(* comments of src/src/pseudo_channel.hpp describe its use.                *)
(***************************************************************************)
EXTENDS PseudoChannel

CONSTANTS
  BurstsPerPc,   \* values of bursts_per_pc the driver passes
  BurstBytes,    \* values of burst_bytes the driver passes
  MaxPerPort     \* bound: bursts waiting in one port

ASSUME WorkloadAssumption ==
  /\ BurstsPerPc \subseteq Nat
  /\ BurstBytes \subseteq Nat
  /\ MaxPerPort \in Nat

VARIABLE
  bypass   \* history: issues of other ports since the port last had none
           \* pending or was itself served

vars == <<ports, rr_cursor, bypass>>

Init ==
  /\ MuxInit
  /\ bypass = [p \in PC |-> 0]

Load ==
  \E n \in BurstsPerPc, bytes \in BurstBytes :
    /\ \A p \in PC : Len(ports[p]) + n <= MaxPerPort
    /\ load_sequential_workload(n, bytes)
    /\ UNCHANGED <<rr_cursor, bypass>>

Issue ==
  LET p == pick_next_round_robin IN
    /\ p # -1
    /\ pop(p)
    /\ advance_after_issue(p)
    /\ bypass' = [q \in PC |-> IF q = p \/ ports[q] = <<>> THEN 0
                               ELSE bypass[q] + 1]

Next == Load \/ Issue

Spec == Init /\ [][Next]_vars

-----------------------------------------------------------------------------
(* Ports hold bursts, the cursor names a port.                             *)
TypeOK ==
  /\ MuxTypeOK
  /\ bypass \in [PC -> Nat]

(* A port with a pending burst sees at most one issue of every other port  *)
(* before its own: the arbiter is round robin, whatever the loads          *)
(* (pick_next_round_robin, advance_after_issue).                           *)
BoundedBypass ==
  \A p \in PC : bypass[p] <= kNumPseudoChannels - 1

Overlap(a, b) ==
  /\ a.addr < b.addr + b.size_bytes
  /\ b.addr < a.addr + a.size_bytes

(* Bytes of pending reads of two different ports never overlap, as long as *)
(* no stream is longer than its region: "Disjoint address region per PC so *)
(* streams do not share lines" (pseudo_channel.hpp:16).                    *)
StreamsDisjoint ==
  \A p, q \in PC : p # q =>
    \A i \in DOMAIN ports[p], j \in DOMAIN ports[q] :
      ~ Overlap(ports[p][i], ports[q][j])
=============================================================================
