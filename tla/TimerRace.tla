----------------------------- MODULE TimerRace -----------------------------
(***************************************************************************)
(* The list of soft timers as USER/Server/IList.c keeps it: nodes linked    *)
(* by pNext between a head and a tail, with no lock.  The tcpip thread      *)
(* appends a node (artNetCB, runArtNetStatus, appendTimerServer) statement  *)
(* by statement; the server task has the higher priority, and when its      *)
(* millisecond is over it runs a whole pass between two of them.            *)
(* Delays are abstracted: a one-shot timer may be due at any pass.  The     *)
(* pool hands out any node that is free; getMem and putMem are one step.    *)
(***************************************************************************)

CONSTANTS
  Nodes,      (* the nodes timeMemPool holds                                 *)
  Poll,       (* the node of the last periodic timer runArtNet asked for     *)
  Prompt,     (* whether the tcpip thread ends an append before the timer it *)
              (* appends is due: 50 passes later in runArtNetStatus          *)
  NULL

ASSUME RaceAssumption == Poll \in Nodes /\ NULL \notin Nodes /\ Prompt \in BOOLEAN

VARIABLES
  pNext,     (* the link of every node                                       *)
  tail,      (* the node that is taken for the last of the list              *)
  used,      (* the nodes whose memory is taken from the pool                *)
  destroy,   (* the nodes that have fired and wait to be sorted out          *)
  pc,        (* the statement of appendObject the tcpip thread is at         *)
  object,    (* its node                                                     *)
  last,      (* the tail in its register                                     *)
  phase,     (* what the server task is doing                                *)
  cursor     (* the node its loop is at                                      *)

list == <<pNext, tail, used, destroy>>
thread == <<pc, object, last>>
server == <<phase, cursor>>
vars == <<list, thread, server>>

Links == Nodes \cup {NULL}

head == Poll

(* The nodes a walk meets that begins at n: n and the next of every one of them. *)
Closed(S) == \A n \in S : pNext[n] \in S \cup {NULL}
Walk(n) == {m \in Nodes : \A S \in SUBSET Nodes : n \in S /\ Closed(S) => m \in S}
List == Walk(head)

(* The timers runArtNet asks for before a device can reply; the ones before  *)
(* the last of them never move, and are left out.                            *)
Init ==
  /\ pNext = [n \in Nodes |-> NULL]
  /\ tail = Poll
  /\ used = {Poll}
  /\ destroy = {}
  /\ pc = "idle" /\ object = NULL /\ last = NULL
  /\ phase = "sleep" /\ cursor = NULL

----------------------------------------------------------------------------
(* tcpip thread.                                                             *)

TcpipRuns == phase = "sleep"

(* A slip: the link is not cleared, and still leads where the node last stood. *)
CreateKeepsLink ==
  /\ TcpipRuns /\ pc = "idle"
  /\ \E n \in Nodes \ used :
       /\ used' = used \cup {n}
       /\ object' = n
  /\ pc' = "load"
  /\ UNCHANGED <<pNext, tail, destroy, last, server>>

(* createObject and object->pNext = NULL; without memory there is no append. *)
Create ==
  /\ TcpipRuns /\ pc = "idle"
  /\ \E n \in Nodes \ used :
       /\ used' = used \cup {n}
       /\ pNext' = [pNext EXCEPT ![n] = NULL]
       /\ object' = n
  /\ pc' = "load"
  /\ UNCHANGED <<tail, destroy, last, server>>

(* handle->tail != NULL: the list holds the periodic timers. *)
LoadTail ==
  /\ TcpipRuns /\ pc = "load"
  /\ last' = tail
  /\ pc' = "link"
  /\ UNCHANGED <<list, object, server>>

(* handle->tail->pNext = object *)
LinkObject ==
  /\ TcpipRuns /\ pc = "link"
  /\ pNext' = [pNext EXCEPT ![last] = object]
  /\ pc' = "store"
  /\ UNCHANGED <<tail, used, destroy, object, last, server>>

(* handle->tail = object *)
StoreTail ==
  /\ TcpipRuns /\ pc = "store"
  /\ tail' = object
  /\ pc' = "idle"
  /\ object' = NULL /\ last' = NULL
  /\ UNCHANGED <<pNext, used, destroy, server>>

Tcpip == Create \/ LoadTail \/ LinkObject \/ StoreTail

----------------------------------------------------------------------------
(* Server task.                                                              *)

WakeUp ==
  /\ phase = "sleep"
  /\ phase' = "run" /\ cursor' = head
  /\ UNCHANGED <<list, thread>>

(* A node that is not due, or the periodic one, whose callback appends nothing. *)
Pass ==
  /\ phase = "run" /\ cursor # NULL
  /\ cursor' = pNext[cursor]
  /\ UNCHANGED <<list, thread, phase>>

(* A due node is marked and runArtNetStatus is called ... *)
Fire ==
  /\ phase = "run" /\ cursor # NULL /\ cursor # Poll /\ cursor \notin destroy
  /\ Prompt => cursor # object
  /\ destroy' = destroy \cup {cursor}
  /\ phase' = "call"
  /\ UNCHANGED <<pNext, tail, used, thread, cursor>>

(* ... which appends the timer of the next state, ... *)
FireAppend ==
  /\ phase = "call"
  /\ \E n \in Nodes \ used :
       /\ used' = used \cup {n}
       /\ pNext' = [pNext EXCEPT ![n] = NULL, ![tail] = n]
       /\ tail' = n
  /\ phase' = "return"
  /\ UNCHANGED <<destroy, thread, cursor>>

(* ... or nothing, for a device that is gone or a pool that is empty.        *)
FireNothing ==
  /\ phase = "call"
  /\ phase' = "return"
  /\ UNCHANGED <<list, thread, cursor>>

Return ==
  /\ phase = "return"
  /\ phase' = "run" /\ cursor' = pNext[cursor]
  /\ UNCHANGED <<list, thread>>

EndRun ==
  /\ phase = "run" /\ cursor = NULL
  /\ phase' = "sort" /\ cursor' = head
  /\ UNCHANGED <<list, thread>>

(* A slip: the tail becomes what follows the removed node. *)
SortRemoveTailFollows ==
  /\ phase = "sort" /\ cursor \in destroy
  /\ \E before \in List :
       /\ pNext[before] = cursor
       /\ pNext' = [pNext EXCEPT ![before] = pNext[cursor]]
       /\ tail' = IF pNext[cursor] = NULL THEN NULL ELSE tail
  /\ used' = used \ {cursor}
  /\ destroy' = destroy \ {cursor}
  /\ cursor' = pNext[cursor]
  /\ UNCHANGED <<thread, phase>>

(* A slip: the node is put back and stays linked. *)
SortRemoveStaysLinked ==
  /\ phase = "sort" /\ cursor \in destroy
  /\ tail' = IF pNext[cursor] = NULL THEN CHOOSE n \in List : pNext[n] = cursor ELSE tail
  /\ used' = used \ {cursor}
  /\ destroy' = destroy \ {cursor}
  /\ cursor' = pNext[cursor]
  /\ UNCHANGED <<pNext, thread, phase>>

(* deleteObject: the node found from the head is unlinked and given back.     *)
SortRemove ==
  /\ phase = "sort" /\ cursor \in destroy
  /\ \E before \in List :
       /\ pNext[before] = cursor
       /\ pNext' = [pNext EXCEPT ![before] = pNext[cursor]]
       /\ tail' = IF pNext[cursor] = NULL THEN before ELSE tail
  /\ used' = used \ {cursor}
  /\ destroy' = destroy \ {cursor}
  /\ cursor' = pNext[cursor]
  /\ UNCHANGED <<thread, phase>>

SortKeep ==
  /\ phase = "sort" /\ cursor # NULL /\ cursor \notin destroy
  /\ cursor' = pNext[cursor]
  /\ UNCHANGED <<list, thread, phase>>

EndSort ==
  /\ phase = "sort" /\ cursor = NULL
  /\ phase' = "sleep"
  /\ UNCHANGED <<list, thread, cursor>>

Server ==
  \/ WakeUp \/ Pass \/ Fire \/ FireAppend \/ FireNothing \/ Return
  \/ EndRun \/ SortRemove \/ SortKeep \/ EndSort

Next == Tcpip \/ Server

Spec == Init /\ [][Next]_vars /\ WF_vars(Server)

----------------------------------------------------------------------------
(* Properties.                                                               *)

(* Every variable has its type. *)
TypeOK ==
  /\ pNext \in [Nodes -> Links]
  /\ tail \in Nodes
  /\ used \subseteq Nodes /\ destroy \subseteq Nodes
  /\ pc \in {"idle", "load", "link", "store"} /\ object \in Links /\ last \in Links
  /\ phase \in {"sleep", "run", "call", "return", "sort"} /\ cursor \in Links

(* Whatever the race does to the tail, no walk of the server task leaves the   *)
(* memory that is in use: runTimerServer and deleteObject follow no link into  *)
(* a node that was put back.                                                   *)
WalksInUse == List \subseteq used /\ cursor \in used \cup {NULL}

(* And no walk goes round in a circle: every pass of runTimerServer and of     *)
(* sortTimerServer comes to its end, and the threads below the server run on.  *)
PassEnds == phase # "sleep" ~> phase = "sleep"

(* When appendTimerServer has returned, its timer is in the list: a walk from  *)
(* the head meets every node that is in use, so that it can fire and be freed. *)
AppendIsKept == pc = "idle" /\ phase = "sleep" => used \subseteq List

============================================================================
