-------------------------------- MODULE Box --------------------------------
(***************************************************************************)
(* The box from power on: the start of the network (NetworkStart), and the *)
(* effects with the sound driver (Effects) once the ArtNet task is in its  *)
(* loop, which is when it has set the listener of the key panel. The tasks *)
(* of both share one processor: while the ArtNet task handles a message,   *)
(* nothing below it moves, and while Eth_if spins, neither the tcpip       *)
(* thread nor the sound task does.                                         *)
(***************************************************************************)
EXTENDS NetworkStart, Effects

vars == <<netVars, effectVars, soundVars>>

Init == NetInit /\ EffectsInit /\ SoundInit

Network(A) == handler = "idle" /\ A /\ UNCHANGED <<effectVars, soundVars>>

ArtNetLoop == task["ArtNet"] = "up" /\ (Handler \/ RunModel) /\ UNCHANGED netVars

SoundRuns == LowestRun /\ SoundTask /\ UNCHANGED netVars

Next == Network(NetNext) \/ ArtNetLoop \/ SoundRuns

(* A message is handled to its end, and keys are pressed by hand: the tasks *)
(* below get their turn between two of them. Those above Eth_if run when    *)
(* they can. The tcpip thread and the sound task share what it leaves them, *)
(* its sleeps after a frame: if these come again and again, each gets on.   *)
(* Frames, replies and refusals come or do not.                             *)
Fairness ==
  /\ WF_vars(ArtNetLoop /\ handler # "idle")
  /\ \A t \in Waiters : WF_vars(Network(Pend(t)))
  /\ WF_vars(Network(\E end \in {"up", "stuck"} : ArtNetBoots(end)))
  /\ SF_vars(Network(ServerRuns))
  /\ WF_vars(Network(DhcpTask))
  /\ SF_vars(Network(TcpipStep \/ TcpipTimer))
  /\ SF_vars(SoundRuns)

Spec == Init /\ [][Next]_vars /\ Fairness

----------------------------------------------------------------------------
(* The properties.                                                          *)

TypeOK == NetTypeOK /\ EffectsTypeOK

(* What comes from outside. On a silent wire Eth_if spins for ever, and     *)
(* nothing below it runs. A server that refuses for ever, or hosts that     *)
(* have every address it offers, put the tries back to zero each time, and  *)
(* LwIP_DHCP_task never gives up.                                           *)
FramesKeepComing == []<><<Frame>>_eth
RefusalsEnd == <>[][~Refused]_netVars


(* As long as frames come, the recorder comes to run, or to stand, as it    *)
(* was asked to, when no request crosses another.                           *)
RecorderFollows ==
  FramesKeepComing => (recording # enable ~> recording = enable \/ crossed)
=============================================================================
