---------------------------- MODULE PseudoChannel ----------------------------
(***************************************************************************)
(* The logical pseudo-channel front-end (src/src/pseudo_channel.hpp): one  *)
(* FIFO port per pseudo-channel and the round-robin cursor over them.      *)
(*                                                                         *)
(* The module has no specification of its own: its operators are the       *)
(* member functions of the multiplexer, and the modules that drive it      *)
(* (SequentialWorkload, HierarchicalRouter, RamulatorHbm) extend it and    *)
(* call them.                                                              *)
(***************************************************************************)
EXTENDS Integers, Sequences, FiniteSets

CONSTANTS
  kNumPseudoChannels,  \* number of logical ports (16 in the code)
  kRegionSize          \* bytes of the flat address region of one port

ASSUME PseudoChannelAssumption ==
  /\ kNumPseudoChannels \in Nat \ {0}
  /\ kRegionSize \in Nat \ {0}

PC == 0 .. kNumPseudoChannels - 1

(* struct MemoryBurst; on_complete is TRUE when the callback is set.       *)
MemoryBurst ==
  [addr : Nat, size_bytes : Nat, pc_id : PC, on_complete : BOOLEAN]

VARIABLES
  ports,      \* ports_[pc].pending_ : FIFO of bursts
  rr_cursor   \* rr_cursor_

muxVars == <<ports, rr_cursor>>

MuxTypeOK ==
  /\ ports \in [PC -> Seq(MemoryBurst)]
  /\ rr_cursor \in PC

MuxInit ==
  /\ ports = [p \in PC |-> <<>>]
  /\ rr_cursor = 0

(* port(p).enqueue(b) *)
enqueue(p, b) == ports' = [ports EXCEPT ![p] = Append(@, b)]

(* Mutant: the burst stays in the queue.                                   *)
pop_none(p) == UNCHANGED ports

(* port(p).pop() *)
pop(p) == ports' = [ports EXCEPT ![p] = Tail(@)]

(* The k-th port of a scan that starts at `start'.                         *)
Visited(start, k) == (start + k) % kNumPseudoChannels

pick_next_round_robin ==
  LET pending == {k \in 0 .. kNumPseudoChannels - 1 :
                    ports[Visited(rr_cursor, k)] # <<>>}
  IN  IF pending = {} THEN -1
      ELSE Visited(rr_cursor,
                   CHOOSE k \in pending : \A j \in pending : k <= j)

(* Mutant: the cursor stays on the port that was just served.              *)
advance_sticky(p) == rr_cursor' = p

(* Mutant: the cursor is not wrapped.                                      *)
advance_noWrap(p) == rr_cursor' = p + 1

advance_after_issue(p) == rr_cursor' = Visited(p, 1)

(* total_pending_bursts() == 0 *)
NoPendingBursts == \A p \in PC : ports[p] = <<>>

(* Mutant: the region base is left out.                                    *)
SequentialRead_noBase(p, i, burst_bytes) ==
  [addr |-> i * burst_bytes, size_bytes |-> burst_bytes,
   pc_id |-> p, on_complete |-> FALSE]

(* The i-th read (from 0) that load_sequential_workload gives to port p.   *)
SequentialRead(p, i, burst_bytes) ==
  [addr |-> p * kRegionSize + i * burst_bytes, size_bytes |-> burst_bytes,
   pc_id |-> p, on_complete |-> FALSE]

load_sequential_workload(bursts_per_pc, burst_bytes) ==
  ports' = [p \in PC |-> ports[p] \o
              [i \in 1 .. bursts_per_pc |-> SequentialRead(p, i - 1, burst_bytes)]]
=============================================================================
