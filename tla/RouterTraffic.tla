----------------------------- MODULE RouterTraffic -----------------------------
(***************************************************************************)
(* The router between requesters that enqueue whenever they like and ports *)
(* that are emptied one burst at a time; tick() runs forever.              *)
(***************************************************************************)
EXTENDS HierarchicalRouter

CONSTANTS
  RequestBytes,   \* sizes of the requests enqueued
  MaxRequests,    \* bound: requests enqueued
  RequestTicks,   \* bound: the requests are enqueued within so many ticks
  MaxTicks        \* bound: router ticks

ASSUME TrafficAssumption ==
  /\ RequestBytes \subseteq Nat
  /\ MaxRequests \in 0 .. kGlobalAddressBoundary   \* so addresses tell the class
  /\ RequestTicks \in Nat
  /\ MaxTicks \in Nat

VARIABLES
  issued,        \* requests enqueued so far; request n has address n, or
                 \* kGlobalAddressBoundary + n
  ticks,         \* calls of tick()
  local_sent,    \* history: bytes forwarded from the local queue
  global_sent    \* history: bytes forwarded from the global queue

vars == <<muxVars, routerVars, at, issued, ticks,
          local_sent, global_sent>>

Init ==
  /\ MuxInit /\ RouterInit
  /\ at = "idle"
  /\ issued = 0 /\ ticks = 0
  /\ local_sent = 0 /\ global_sent = 0

Request ==
  \E p \in PC, bytes \in RequestBytes, region \in {0, kGlobalAddressBoundary} :
    /\ at = "idle"
    /\ issued < MaxRequests /\ ticks <= RequestTicks
    /\ issued' = issued + 1
    /\ enqueue_request([addr |-> region + issued, size_bytes |-> bytes,
                        pc_id |-> p, on_complete |-> FALSE])
    /\ UNCHANGED <<muxVars, at, ticks, local_sent, global_sent>>

StartTick ==
  /\ at = "idle"
  /\ ticks < MaxTicks
  /\ ticks' = ticks + 1
  /\ AddCredit
  /\ at' = "router_local"
  /\ UNCHANGED <<muxVars, issued, local_sent, global_sent>>

Tick ==
  /\ \/ ForwardLocal
     \/ LocalDone
     \/ ForwardGlobal
     \/ GlobalDone("idle")
  /\ local_sent' = local_sent + IF local_queue' = local_queue THEN 0
                                ELSE Head(local_queue).size_bytes
  /\ global_sent' = global_sent + IF global_queue' = global_queue THEN 0
                                  ELSE Head(global_queue).size_bytes
  /\ UNCHANGED <<issued, ticks>>

Consume ==
  \E p \in PC :
    /\ at = "idle"
    /\ ports[p] # <<>>
    /\ pop(p)
    /\ UNCHANGED <<rr_cursor, routerVars, at, issued, ticks,
                   local_sent, global_sent>>

Next == Request \/ StartTick \/ Tick \/ Consume

Spec == Init /\ [][Next]_vars

FairSpec == Spec /\ WF_vars(StartTick \/ Tick)

-----------------------------------------------------------------------------
(* Queues hold requests; the credit of a queue never becomes negative.     *)
TypeOK ==
  /\ MuxTypeOK /\ RouterTypeOK
  /\ at \in {"idle", "router_local", "router_global"}
  /\ issued \in Nat /\ ticks \in Nat
  /\ local_sent \in Nat /\ global_sent \in Nat

(* Over its whole life neither queue forwards more bytes than its rate     *)
(* times the ticks that have passed (hierarchical_router.hpp:31-46).       *)
RateBound ==
  /\ local_sent <= LocalBytesPerTick * ticks
  /\ global_sent <= GlobalBytesPerTick * ticks

(* A tick never ends with a request that its queue could have paid for,    *)
(* and a blocked local request does not hold up the global queue.          *)
WorkConserving ==
  [][ at = "router_global" /\ at' = "idle" =>
        ~ CanPay(local_queue, local_used) /\ ~ CanPay(global_queue, global_used)
    ]_vars

(* Requests of one class keep their order: within a sequence ...           *)
InOrder(s) ==
  \A i, j \in DOMAIN s :
    i < j /\ IsGlobal(s[i]) = IsGlobal(s[j]) => s[i].addr < s[j].addr

(* ... and from one sequence to the next.                                  *)
Before(s, t) ==
  \A i \in DOMAIN s, j \in DOMAIN t :
    IsGlobal(s[i]) = IsGlobal(t[j]) => s[i].addr < t[j].addr

(* The router keeps the order in which requests of a class were enqueued,  *)
(* local or global: a port never holds, and never later receives, an older *)
(* request behind a younger one (hierarchical_router.hpp:35-46).           *)
ClassOrder ==
  /\ InOrder(local_queue) /\ InOrder(global_queue)
  /\ \A p \in PC : /\ InOrder(ports[p])
                   /\ Before(ports[p], local_queue)
                   /\ Before(ports[p], global_queue)

(* Every request enqueued is forwarded in the end, whatever its size: the  *)
(* unspent credit of earlier ticks is kept.                                *)
EveryRequestForwarded ==
  <>[](local_queue = <<>> /\ global_queue = <<>>)
=============================================================================
