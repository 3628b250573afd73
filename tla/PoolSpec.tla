------------------------------ MODULE PoolSpec ------------------------------
(***************************************************************************)
(* What a memory pool promises: a block it hands out lies in the pool and  *)
(* shares no unit, of its data or of the header before it, with a block    *)
(* that is still in use; a block leaves use only when it is given back.    *)
(***************************************************************************)
EXTENDS Naturals

CONSTANTS
  Total,     (* the units behind the handle of the pool: 1..Total            *)
  HeadSize,  (* MEMHEAD_SIZE                                                 *)
  Sizes      (* the sizes that are asked for                                 *)

VARIABLES
  live,      (* the blocks in use: address of the header, size of the data   *)
  out        (* how many times a block was handed out and not given back     *)

Units(b) == b.at .. (b.at + HeadSize + b.size - 1)

Init == live = {} /\ out = 0

Get(b) ==
  /\ Units(b) \subseteq 1..Total
  /\ \A c \in live : Units(b) \cap Units(c) = {}
  /\ live' = live \cup {b}
  /\ out' = out + 1

Put(b) == b \in live /\ live' = live \ {b} /\ out' = out - 1

Next ==
  \/ \E at \in 1..Total, size \in Sizes : Get([at |-> at, size |-> size])
  \/ \E b \in live : Put(b)

Spec == Init /\ [][Next]_<<live, out>>

============================================================================
