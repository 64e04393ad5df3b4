----------------------------- MODULE GatherClient ------------------------------
(***************************************************************************)
(* The gather controller with its two users: a GATHER of the vault's SIMD  *)
(* core (src/src/simd_core.hpp) and the GEN_UPDATE_GATHER phase of the     *)
(* vertex program (src/src/tgn_twophase.hpp), which hold the same          *)
(* controller.  Each starts a batch, polls done() and drains the data      *)
(* buffer; neither knows of the other.  The port is served in order; the   *)
(* memory system answers in any order.                                     *)
(***************************************************************************)
EXTENDS PiccoloGather, FiniteSets

CONSTANTS
  VertexBatches,  \* batches of the vertex program: [elems |-> n, offsets |-> k]
  VertexLanes,    \* values it takes of one: 16
  MaxBatches      \* bound: the vertex program starts none after so many

ASSUME ClientAssumption ==
  /\ VertexBatches \subseteq [elems : Nat, offsets : Nat]
  /\ VertexLanes \in Nat /\ MaxBatches \in Nat

VARIABLES
  memory,    \* reads in the memory system
  batch,     \* batches started
  waiting,   \* the users that wait for the batch to be done
  attached,  \* the simulator ticks this controller (attach_piccolo)
  intact     \* history: no batch has been given up or replaced half-way

gatherVars == <<piccoloVars, memory, batch, waiting, attached, intact>>

GatherInit ==
  /\ PiccoloInit
  /\ memory = {} /\ batch = 0 /\ waiting = {} /\ attached \in BOOLEAN
  /\ intact = TRUE

(* The offset buffer is filled for a new batch, whoever waits for the last. *)
StartBatch(user, elems, offsets) ==
  /\ batch' = batch + 1
  /\ reset_for_new_batch(batch', elems, offsets)
  /\ waiting' = waiting \union {user}
  /\ intact' = (intact /\ waiting = {})
  /\ UNCHANGED <<memory, attached>>

(* By the simulator loop, and by the vertex program while it gathers.      *)
TickIssue ==
  /\ attached \/ "vertex" \in waiting
  /\ tick_issue
  /\ UNCHANGED <<memory, batch, waiting, attached, intact>>

(* The simulator admits the head of the port.                              *)
Send ==
  /\ port # <<>>
  /\ memory' = memory \union {Head(port)}
  /\ port' = Tail(port)
  /\ UNCHANGED <<ob, db, num_elems, issued, completed, outstanding, batch, waiting, attached,
                 intact>>

ReadComplete ==
  \E read \in memory :
    /\ memory' = memory \ {read}
    /\ on_read_complete(read)
    /\ UNCHANGED <<port, batch, waiting, attached, intact>>

(* A poll that finds the batch done and takes the n oldest values.         *)
Drain(user, n) ==
  /\ user \in waiting /\ done
  /\ db' = SubSeq(db, n + 1, Len(db))
  /\ waiting' = waiting \ {user}
  /\ UNCHANGED <<ob, port, num_elems, issued, completed, outstanding, memory, batch, attached,
                 intact>>

(* load_program of a core that waits: the batch goes on without it.        *)
Abandon(user) ==
  /\ waiting' = waiting \ {user}
  /\ intact' = (intact /\ user \notin waiting)
  /\ UNCHANGED <<piccoloVars, memory, batch, attached>>

Lesser(m, n) == IF m < n THEN m ELSE n

StartVertexGather ==
  /\ batch < MaxBatches
  /\ \E b \in VertexBatches : StartBatch("vertex", b.elems, b.offsets)

VertexTakes == Drain("vertex", Lesser(VertexLanes, Len(db)))

(* What the controller sees, whatever its users do.                        *)
GatherNext ==
  \/ TickIssue \/ Send \/ ReadComplete
  \/ \E user \in {"core", "vertex"} :
       \/ \E elems, offsets \in Nat : StartBatch(user, elems, offsets)
       \/ \E n \in 0 .. Len(db) : Drain(user, n)
       \/ Abandon(user)

GatherSpec == GatherInit /\ [][GatherNext]_gatherVars

-----------------------------------------------------------------------------
Element == (1 .. batch) \X Nat

(* Neither buffer exceeds its capacity, outstanding_ never wraps below     *)
(* zero, and every read belongs to a batch that was started.               *)
GatherTypeOK ==
  /\ ob \in Seq(Element) /\ Len(ob) <= ObCap
  /\ db \in Seq(Element) /\ Len(db) <= DbCap
  /\ port \in Seq(Element) /\ memory \subseteq Element
  /\ num_elems \in Nat /\ issued \in Nat /\ completed \in Nat
  /\ outstanding \in 0 .. max_outstanding
  /\ batch \in Nat /\ waiting \subseteq {"core", "vertex"}
  /\ attached \in BOOLEAN /\ intact \in BOOLEAN

InFlight == Len(port) + Cardinality(memory)

(* As long as no batch has been given up or replaced half-way, the         *)
(* controller's counters agree with the reads that are in the port and in  *)
(* the memory system, and there are never more of them than                *)
(* max_outstanding.                                                        *)
CountersExact ==
  intact =>
    /\ outstanding = InFlight
    /\ InFlight <= max_outstanding
    /\ issued = completed + outstanding

Gathered ==
  /\ Len(db) = num_elems
  /\ \A i \in 1 .. Len(db) : \E e \in 1 .. num_elems : db[i] = <<batch, e>>
  /\ \A e \in 1 .. num_elems : \E i \in 1 .. Len(db) : db[i] = <<batch, e>>

(* As long as no batch has been given up or replaced half-way, done() lets *)
(* a user go on only when the data buffer holds every element of its       *)
(* batch, each once and nothing else, although reads complete in any order *)
(* and the buffer drops what it has no room for.                           *)
GatheredAll == intact /\ waiting # {} /\ done => Gathered

Starved == num_elems > issued + Len(ob)

(* A batch that somebody waits for gets done, unless nobody ticks the      *)
(* controller or it lacks offsets; stale completions of a batch that was   *)
(* given up or replaced may be counted for this one, but never cost it its *)
(* own.                                                                    *)
BatchCompletes == waiting # {} /\ (attached \/ "vertex" \in waiting) ~> done \/ Starved
=============================================================================
