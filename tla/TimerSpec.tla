----------------------------- MODULE TimerSpec -----------------------------
(***************************************************************************)
(* What USER/Server/TimerServer.c promises to its callers.  A request names *)
(* a delay in milliseconds and, for a periodic timer, keeps it as period.   *)
(* Its function is called once that many milliseconds have begun, never     *)
(* later, and again after every period; a request is forgotten only by      *)
(* being served.  A request made in the middle of a millisecond's work may  *)
(* count that millisecond as its first.                                     *)
(***************************************************************************)
EXTENDS Naturals

CONSTANTS
  Ids,      (* the names of the requests                                     *)
  Delays    (* the delays asked for                                          *)

VARIABLE pending   (* the requests not yet served                            *)

Entry(id, left, period) == [id |-> id, left |-> left, period |-> period]

Init == \E d \in Delays : \E p \in Ids : pending = {Entry(p, d, d)}

IsPending(id) == \E e \in pending : e.id = id

Request(id, d) ==
  /\ ~IsPending(id)
  /\ \E left \in {d - 1, d} : pending' = pending \cup {Entry(id, left, 0)}

(* A one-shot request is served and forgotten, a periodic one starts again. *)
Fire(e) ==
  /\ e \in pending /\ e.left = 0
  /\ pending' = (pending \ {e}) \cup
                (IF e.period = 0 THEN {} ELSE {Entry(e.id, e.period, e.period)})

(* A millisecond passes; it may not pass over a request that is due. *)
Tick ==
  /\ \A e \in pending : e.left > 0
  /\ pending' = {[e EXCEPT !.left = @ - 1] : e \in pending}

Next ==
  \/ \E id \in Ids, d \in Delays : Request(id, d)
  \/ \E e \in pending : Fire(e)
  \/ Tick

Safety == Init /\ [][Next]_pending

(* Time goes on: what is due is served, and then the next millisecond comes. *)
Spec ==
  /\ Safety
  /\ WF_pending(Tick)
  /\ WF_pending(\E e \in pending : Fire(e))

============================================================================
