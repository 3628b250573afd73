----------------------------- MODULE TimerList -----------------------------
(***************************************************************************)
(* The list of soft timers kept by USER/Server/TimerServer.c on top of the *)
(* singly linked list of USER/Server/IList.c.  A node of the list is a     *)
(* TimerServer struct; the list is the sequence of its nodes from head to  *)
(* tail.  Nodes come from the pool timeMemHandle, which holds PoolNodes of *)
(* them: an append finds no memory once the list has that many nodes, since *)
(* a node leaves the list only when its memory is put back.                *)
(***************************************************************************)
EXTENDS Naturals, Sequences

CONSTANT PoolNodes    (* how many nodes the pool can hold at once *)

ASSUME PoolNodesAssumption == PoolNodes \in Nat \ {0}

(* A node as appendTimerServer fills it in. *)
Timer(tick, func, parameter, reload) ==
  [tick |-> tick, saveTick |-> tick, func |-> func, parameter |-> parameter,
   reload |-> reload, destroy |-> FALSE]

HasRoom(list) == Len(list) < PoolNodes

(* appendTimerServer: without memory it returns and reports nothing. *)
AppendTimer(list, timer) == IF HasRoom(list) THEN Append(list, timer) ELSE list

(* A fired one-shot timer stays in the list, marked, until it is sorted out. *)
Armed(timer) == ~timer.destroy

(* A slip: the tick is tested before it is decremented. *)
DueAfter(timer) == Armed(timer) /\ timer.tick = 0
(* The condition destroy == 0 && --tick == 0 of runTimerServer ... *)
Due(timer) == Armed(timer) /\ timer.tick = 1

(* ... its side effect on a timer that is not due ... *)
CountDown(timer) == IF Armed(timer) THEN [timer EXCEPT !.tick = @ - 1] ELSE timer

(* A slip: a periodic timer is not given its period again. *)
ExpireSpent(timer) == IF timer.reload
                      THEN [timer EXCEPT !.tick = 0]
                      ELSE [timer EXCEPT !.tick = 0, !.destroy = TRUE]
(* ... and what becomes of a due timer before its function is called. *)
Expire(timer) == IF timer.reload
                 THEN [timer EXCEPT !.tick = timer.saveTick]
                 ELSE [timer EXCEPT !.tick = 0, !.destroy = TRUE]

(* A slip: the node after the i-th is unlinked, as removeNumber of IList.c does. *)
DeleteSuccessor(list, i) ==
  [k \in 1..(Len(list) - 1) |-> IF k <= i THEN list[k] ELSE list[k + 1]]

(* deleteObject on the i-th node: unlink it and put its memory back. *)
DeleteTimer(list, i) ==
  [k \in 1..(Len(list) - 1) |-> IF k < i THEN list[k] ELSE list[k + 1]]

============================================================================
