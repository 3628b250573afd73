---------------------------- MODULE TimerServer ----------------------------
(***************************************************************************)
(* The timer service of USER/Server/TimerServer.c in the loop of runServer, *)
(* with callers that are not looked into: the function of a timer may ask   *)
(* for further timers (runArtNetStatus does), and so may a thread below the *)
(* server task while that sleeps (artNetCB does).  The parameter of a node  *)
(* stands for the request it serves; a caller asks for it anew only when it *)
(* is not pending, as the handshake of a device does.                       *)
(***************************************************************************)
EXTENDS TimerList, FiniteSets

CONSTANTS
  Ids,       (* the requests                                                 *)
  Poll,      (* the one that is periodic, as time1CB is                      *)
  Delays,    (* the delays that are asked for                                *)
  MaxAsked   (* bound: how many requests the functions called in one pass make *)

ASSUME ServerAssumption ==
  /\ IsFiniteSet(Ids) /\ Poll \in Ids
  /\ Delays \subseteq Nat \ {0}
  /\ Delays # {}
  /\ MaxAsked \in Nat

VARIABLES timers, phase, cursor, asked

vars == <<timers, phase, cursor, asked>>

Init ==
  /\ \E d \in Delays : timers = <<Timer(d, "function", Poll, TRUE)>>
  /\ phase = "sleep"
  /\ cursor = 1
  /\ asked = 0

Waiting(id) == \E i \in DOMAIN timers : Armed(timers[i]) /\ timers[i].parameter = id

Ask(id, d) == timers' = AppendTimer(timers, Timer(d, "function", id, FALSE))

(* appendTimerServer called by a thread below the server task. *)
AskAsleep(id, d) ==
  /\ phase = "sleep"
  /\ ~Waiting(id)
  /\ Ask(id, d)
  /\ UNCHANGED <<phase, cursor, asked>>

WakeUp ==
  /\ phase = "sleep"
  /\ phase' = "run" /\ cursor' = 1 /\ asked' = 0
  /\ UNCHANGED timers

AtNode == cursor <= Len(timers)

Count ==
  /\ phase = "run" /\ AtNode
  /\ ~Due(timers[cursor])
  /\ timers' = [timers EXCEPT ![cursor] = CountDown(@)]
  /\ cursor' = cursor + 1
  /\ UNCHANGED <<phase, asked>>

(* The function of the timer is called ... *)
Call ==
  /\ phase = "run" /\ AtNode
  /\ Due(timers[cursor])
  /\ timers' = [timers EXCEPT ![cursor] = Expire(@)]
  /\ phase' = "call"
  /\ UNCHANGED <<cursor, asked>>

(* ... may ask for timers ... *)
AskInCall(id, d) ==
  /\ phase = "call" /\ asked < MaxAsked
  /\ ~Waiting(id)
  /\ Ask(id, d)
  /\ asked' = asked + 1
  /\ UNCHANGED <<phase, cursor>>

(* ... and returns to the loop, which takes the next node. *)
Return ==
  /\ phase = "call"
  /\ phase' = "run" /\ cursor' = cursor + 1
  /\ UNCHANGED <<timers, asked>>

EndRun ==
  /\ phase = "run" /\ ~AtNode
  /\ phase' = "sort" /\ cursor' = 1
  /\ UNCHANGED <<timers, asked>>

(* A slip: the walk goes on behind the node that took the removed one's place. *)
SortRemoveSkips ==
  /\ phase = "sort" /\ AtNode
  /\ timers[cursor].destroy
  /\ timers' = DeleteTimer(timers, cursor)
  /\ cursor' = cursor + 1
  /\ UNCHANGED <<phase, asked>>

SortRemove ==
  /\ phase = "sort" /\ AtNode
  /\ timers[cursor].destroy
  /\ timers' = DeleteTimer(timers, cursor)
  /\ UNCHANGED <<phase, cursor, asked>>

SortKeep ==
  /\ phase = "sort" /\ AtNode
  /\ ~timers[cursor].destroy
  /\ cursor' = cursor + 1
  /\ UNCHANGED <<timers, phase, asked>>

EndSort ==
  /\ phase = "sort" /\ ~AtNode
  /\ phase' = "sleep" /\ cursor' = 1
  /\ UNCHANGED <<timers, asked>>

Server == WakeUp \/ Count \/ Call \/ Return \/ EndRun \/ SortRemove \/ SortKeep \/ EndSort

Next ==
  \/ Server
  \/ \E id \in Ids, d \in Delays : AskAsleep(id, d) \/ AskInCall(id, d)

(* The server task gets the processor again and again. *)
Spec == Init /\ [][Next]_vars /\ WF_vars(Server)

----------------------------------------------------------------------------
(* Properties.                                                              *)

TimerNode == [tick : Nat, saveTick : Nat \ {0}, func : {"function"}, parameter : Ids,
              reload : BOOLEAN, destroy : BOOLEAN]

(* Every variable has its type. *)
TypeOK ==
  /\ timers \in Seq(TimerNode)
  /\ phase \in {"sleep", "run", "call", "sort"}
  /\ cursor \in Nat \ {0}
  /\ asked \in 0..MaxAsked

(* sortTimerServer gives back the node of every served request in the pass    *)
(* that served it: while the server sleeps, the list holds no finished node.  *)
Reclaimed == phase = "sleep" => \A i \in DOMAIN timers : Armed(timers[i])

(* The list never holds more nodes than there are requests, plus those that    *)
(* the functions of the running pass asked for: a pool of that many nodes is   *)
(* never found empty by appendTimerServer.                                     *)
NodesBounded == Len(timers) <= Cardinality(Ids) + asked

(* The ticks the pass in progress has not yet taken off node i count as past. *)
Behind(i) == \/ phase = "run" /\ i >= cursor
             \/ phase = "call" /\ i > cursor

Left(i) == IF Behind(i) THEN timers[i].tick - 1 ELSE timers[i].tick

Pending == {[id |-> timers[i].parameter, left |-> Left(i),
             period |-> IF timers[i].reload THEN timers[i].saveTick ELSE 0] :
            i \in {k \in DOMAIN timers : Armed(timers[k])}}

Promise == INSTANCE TimerSpec WITH pending <- Pending

(* The service keeps its promise: no request is lost, served twice, or served  *)
(* late, and every one is served.                                              *)
KeepsPromise == Promise!Spec

============================================================================
