-------------------------- MODULE HierarchicalRouter --------------------------
(***************************************************************************)
(* The logic-layer router (src/src/hierarchical_router.hpp).  Requests are *)
(* split by address into a local and a global queue; every memory tick     *)
(* each queue earns byte credit and moves requests it can pay for into the *)
(* pseudo-channel ports.                                                   *)
(*                                                                         *)
(* One iteration of either while loop of tick() is one step.  The program  *)
(* is single-threaded: `at' is the point its thread of control has         *)
(* reached, and it is shared with the module that calls the router.        *)
(***************************************************************************)
EXTENDS PseudoChannel

CONSTANTS
  LocalBytesPerTick,       \* local_bytes_per_tick_  (512 GB/s over the clock)
  GlobalBytesPerTick,      \* global_bytes_per_tick_ ( 64 GB/s over the clock)
  kGlobalAddressBoundary   \* 0x80000000 in the code

ASSUME RouterAssumption ==
  /\ LocalBytesPerTick \in Nat
  /\ GlobalBytesPerTick \in Nat
  /\ kGlobalAddressBoundary \in Nat

VARIABLES
  at,            \* control point of the simulation thread
  local_queue,   \* local_queue_
  global_queue,  \* global_queue_
  local_used,    \* local_used : unspent byte credit of the local queue
  global_used    \* global_used

routerVars == <<local_queue, global_queue, local_used, global_used>>

RouterTypeOK ==
  /\ local_queue \in Seq(MemoryBurst)
  /\ global_queue \in Seq(MemoryBurst)
  /\ local_used \in Nat
  /\ global_used \in Nat

RouterInit ==
  /\ local_queue = <<>>
  /\ global_queue = <<>>
  /\ local_used = 0
  /\ global_used = 0

IsGlobal(b) == b.addr >= kGlobalAddressBoundary

(* Mutant: a local request overtakes the ones already waiting.             *)
enqueue_request_front(b) ==
  /\ local_queue' = IF IsGlobal(b) THEN local_queue ELSE <<b>> \o local_queue
  /\ global_queue' = IF IsGlobal(b) THEN Append(global_queue, b) ELSE global_queue
  /\ UNCHANGED <<local_used, global_used>>

enqueue_request(b) ==
  /\ local_queue' = IF IsGlobal(b) THEN local_queue ELSE Append(local_queue, b)
  /\ global_queue' = IF IsGlobal(b) THEN Append(global_queue, b) ELSE global_queue
  /\ UNCHANGED <<local_used, global_used>>

(* Mutant: the global queue earns the local rate.                          *)
AddCredit_fastGlobal ==
  /\ local_used' = local_used + LocalBytesPerTick
  /\ global_used' = global_used + LocalBytesPerTick
  /\ UNCHANGED <<local_queue, global_queue>>

(* Mutant: credit that was not spent is lost.                              *)
AddCredit_reset ==
  /\ local_used' = LocalBytesPerTick
  /\ global_used' = GlobalBytesPerTick
  /\ UNCHANGED <<local_queue, global_queue>>

(* The start of tick(): both queues earn their per-tick credit.            *)
AddCredit ==
  /\ local_used' = local_used + LocalBytesPerTick
  /\ global_used' = global_used + GlobalBytesPerTick
  /\ UNCHANGED <<local_queue, global_queue>>

(* Mutant: a request passes as soon as there is any credit at all.         *)
CanPay_any(queue, used) == queue # <<>> /\ used > 0

(* Loop condition: the head request can be paid for.                       *)
CanPay(queue, used) == queue # <<>> /\ used >= Head(queue).size_bytes

ForwardLocal ==
  /\ at = "router_local"
  /\ CanPay(local_queue, local_used)
  /\ local_used' = local_used - Head(local_queue).size_bytes
  /\ enqueue(Head(local_queue).pc_id, Head(local_queue))
  /\ local_queue' = Tail(local_queue)
  /\ UNCHANGED <<at, rr_cursor, global_queue, global_used>>

(* Mutant: one local request per tick (an `if' for the `while').           *)
LocalDone_once ==
  /\ at = "router_local"
  /\ at' = "router_global"
  /\ UNCHANGED <<muxVars, routerVars>>

LocalDone ==
  /\ at = "router_local"
  /\ ~ CanPay(local_queue, local_used)
  /\ at' = "router_global"
  /\ UNCHANGED <<muxVars, routerVars>>

ForwardGlobal ==
  /\ at = "router_global"
  /\ CanPay(global_queue, global_used)
  /\ global_used' = global_used - Head(global_queue).size_bytes
  /\ enqueue(Head(global_queue).pc_id, Head(global_queue))
  /\ global_queue' = Tail(global_queue)
  /\ UNCHANGED <<at, rr_cursor, local_queue, local_used>>

(* The end of tick(): control goes to `next', the caller's continuation.   *)
GlobalDone(next) ==
  /\ at = "router_global"
  /\ ~ CanPay(global_queue, global_used)
  /\ at' = next
  /\ UNCHANGED <<muxVars, routerVars>>
=============================================================================
