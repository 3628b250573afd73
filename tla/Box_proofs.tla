----------------------------- MODULE Box_proofs -----------------------------
(***************************************************************************)
(* For every set of messages, whatever the network does: the callback of   *)
(* the recorder is that of the effect of the moment, and the recorder ends *)
(* as it was asked to last.                                                *)
(***************************************************************************)
EXTENDS Box, TLAPS

(* The callback through the steps of a change of effects: the recorder is   *)
(* asked to stop while the old effect is still the one of the moment, and   *)
(* to start when the callback is that of the new one.                       *)
CallbackInv ==
  /\ handler \in {"idle", "destroy", "choose", "setUp", "record", "setting"}
  /\ enable \in BOOLEAN
  /\ enable => runCB = Now /\ Now \in Records
  /\ handler \in {"idle", "setting", "destroy"} => (enable <=> Now \in Records)
  /\ handler \in {"choose", "setUp", "record"} => ~enable
  /\ handler = "record" => runCB = Now /\ Now \in Records

(* What the recorder comes to when nothing more is asked: the request the   *)
(* sound task looks at last wins, else the one it serves, else it stays.    *)
Base == CASE sound = "start" -> TRUE [] sound = "stop" -> FALSE [] OTHER -> recording
OffFirst == sound \in {"pend", "start", "storeOff"}
Outcome ==
  IF OffFirst
  THEN "on" \in event \/ ("off" \notin event /\ Base)
  ELSE "off" \notin event /\ ("on" \in event \/ Base)

SoundInv ==
  /\ SoundTypeOK
  /\ sound = "storeOff" => "off" \in loaded
  /\ sound = "storeOn" => "on" \in loaded
  /\ ~crossed => /\ Outcome = enable
                 /\ sound \in {"storeOff", "storeOn"} => event = loaded

(* The two waiters: asleep at the semaphore when the post comes, awake from *)
(* then on.                                                                 *)
TaskInv ==
  /\ semCtr = 0
  /\ DHCP_state \in {"START", "WAIT_ADDRESS", "ADDRESS_ASSIGNED", "TIMEOUT", "LINK_DOWN"}
  /\ task \in [Waiters -> {"start", "pend", "ready", "up", "stuck"}]
  /\ DHCP_state \in {"START", "LINK_DOWN"} => \A t \in Waiters : task[t] \in {"start", "pend"}
  /\ DHCP_state = "WAIT_ADDRESS" => \A t \in Waiters : task[t] = "pend"
  /\ Settled => \A t \in Waiters : task[t] \in {"ready", "up", "stuck"}

(* The lease: while it is waited for, an address is there from dhcp_bind    *)
(* until dhcp_handle_nak, and the interface is up but for a step of each;   *)
(* once the client has been stopped, it is kept unless it was being given   *)
(* back.                                                                    *)
OfALease == {"BOUND", "RENEWING", "REBINDING"}
Holds ==
  /\ ipaddr = "leased"
  /\ \/ tcpip \in {"address", "up", "down", "unset"}
     \/ tcpip = "idle" /\ state \in OfALease
     \/ tcpip \in {"set", "send"} /\ goal \in OfALease
  /\ up \/ tcpip \in {"up", "unset"}

LeaseInv ==
  /\ DHCP_state \in {"START", "LINK_DOWN"} =>
       ipaddr = "none" /\ tcpip = "idle" /\ state = "OFF" /\ ~pcb /\ ~request
  /\ DHCP_state = "WAIT_ADDRESS" =>
       /\ pcb
       /\ tcpip = "send" => state = goal
       /\ ipaddr # "none" => Holds
  /\ DHCP_state = "ADDRESS_ASSIGNED" =>
       /\ ~pcb
       /\ overtaken # "a return" /\ tcpip # "undefined" =>
            /\ IPaddress = "leased" /\ ipaddr = "leased"
            /\ tcpip \notin {"down", "unset"}
            /\ up \/ tcpip = "up"
  /\ tcpip \in {"address", "up"} => goal = "BOUND"
  /\ tcpip \in {"down", "unset"} => goal = "SELECTING"

----------------------------------------------------------------------------
(* The callback.                                                            *)

LEMMA CallbackStep ==
  ASSUME CallbackInv, EffectsNext
  PROVE  CallbackInv'
  <1> USE DEF CallbackInv
  <1>1. ASSUME NEW m \in Messages, Message(m) PROVE CallbackInv'
    BY <1>1 DEF Message, Now, soundVars
  <1>2. CASE Destroy
    <2>1. handler = "destroy" /\ handler' = "choose" /\ Now' = Now /\ runCB' = runCB
      BY <1>2 DEF Destroy, Now
    <2>2. enable' = FALSE
      BY <1>2 DEF Destroy, SetSound
    <2> QED BY <2>1, <2>2
  <1>3. CASE Choose
    <2>1. handler' = "setUp" /\ enable' = enable /\ enable = FALSE
      BY <1>3 DEF Choose, soundVars
    <2> QED BY <2>1
  <1>4. CASE SetUp
    BY <1>4 DEF SetUp, Now
  <1>5. CASE Record
    <2>1. handler = "record" /\ handler' = "setting" /\ Now' = Now /\ runCB' = runCB
      BY <1>5 DEF Record, Now
    <2>2. enable' = TRUE
      BY <1>5 DEF Record, SetSound
    <2> QED BY <2>1, <2>2
  <1>6. CASE Setting
    <2>1. handler = "setting" /\ handler' = "idle" /\ Now' = Now
      BY <1>6 DEF Setting, Now
    <2>2. CASE Now \in Techo
      <3>1. runCB' = Now /\ enable' = TRUE /\ Now \in Records
        BY <1>6, <2>2 DEF Setting, SetSound, Records
      <3> QED BY <2>1, <3>1
    <2>3. CASE ~(Now \in Techo)
      <3>1. runCB' = runCB /\ enable' = enable
        BY <1>6, <2>3 DEF Setting
      <3> QED BY <2>1, <3>1
    <2> QED BY <2>2, <2>3
  <1>7. CASE RunModel
    BY <1>7 DEF RunModel, Now, soundVars
  <1>8. CASE SoundTask
    <2>1. enable' = enable /\ runCB' = runCB
      BY <1>8 DEF SoundTask, RunSound, Look, Clear, Serve
    <2> QED BY <1>8, <2>1 DEF SoundTask, effectVars, Now
  <1> QED BY <1>1, <1>2, <1>3, <1>4, <1>5, <1>6, <1>7, <1>8 DEF EffectsNext, Handler

(* Every step of the box is one of the network or one of the effects.       *)
LEMMA Steps ==
  ASSUME [Next]_vars
  PROVE  \/ NetNext /\ UNCHANGED <<effectVars, soundVars>>
         \/ EffectsNext /\ UNCHANGED netVars
         \/ UNCHANGED vars
  BY DEF Next, Network, ArtNetLoop, SoundRuns, EffectsNext

LEMMA NowAtFirst ==
  ASSUME Init
  PROVE  Now = "KTV_Soft"
  <1>1. "KTV" \in Groups /\ Effect["KTV"][1] = "KTV_Soft"
    BY DEF Groups, Effect, KTVEffects
  <1> QED BY <1>1 DEF Init, EffectsInit, Now

(* Whenever the recorder may interrupt with enable set, the callback is     *)
(* that of the effect of the moment, for every order of messages.           *)
THEOREM CallbackAlwaysFits == Spec => []CallbackFits
  <1>1. Init => CallbackInv
    <2> SUFFICES ASSUME Init PROVE CallbackInv
      OBVIOUS
    <2>1. Now = "KTV_Soft"
      BY NowAtFirst
    <2>2. Now \notin Records
      BY <2>1 DEF Records, Techo
    <2>3. handler = "idle" /\ enable = FALSE
      BY DEF Init, EffectsInit, SoundInit
    <2>4. enable \in BOOLEAN /\ (enable => runCB = Now)
      BY <2>3
    <2>5. enable <=> (Now \in Records)
      BY <2>2, <2>3
    <2> QED BY <2>3, <2>4, <2>5 DEF CallbackInv
  <1>2. CallbackInv /\ [Next]_vars => CallbackInv'
    <2> SUFFICES ASSUME CallbackInv, [Next]_vars PROVE CallbackInv'
      OBVIOUS
    <2>1. ASSUME UNCHANGED <<effectVars, soundVars>> PROVE CallbackInv'
      BY <2>1 DEF effectVars, soundVars, CallbackInv, Now
    <2> QED BY <2>1, CallbackStep, Steps DEF vars
  <1>3. CallbackInv => CallbackFits
    BY DEF CallbackInv, CallbackFits
  <1> QED BY <1>1, <1>2, <1>3, PTL DEF Spec

----------------------------------------------------------------------------
(* The recorder.                                                            *)

(* A request that does not cross another decides what the recorder comes to.*)
LEMMA SetSoundStep ==
  ASSUME SoundInv, NEW on \in BOOLEAN, SetSound(on), UNCHANGED soundTask
  PROVE  SoundInv'
  <1>1. recording' = recording /\ sound' = sound /\ loaded' = loaded
    BY DEF soundTask
  <1>2. CASE on = enable
    BY <1>1, <1>2 DEF SetSound, SoundInv, SoundTypeOK, Outcome, OffFirst, Base
  <1>3. CASE on # enable
    <2>1. enable' = on /\ event' = event \cup {Request(on)} /\ crossed' = Crosses(on)
      BY <1>3 DEF SetSound
    <2>2. SoundTypeOK'
      <3>1. enable' \in BOOLEAN /\ recording' \in BOOLEAN
        BY <1>1, <2>1 DEF SoundInv, SoundTypeOK
      <3>2. crossed' \in BOOLEAN
        BY <2>1 DEF Crosses
      <3>3. event' \subseteq {"on", "off"} /\ loaded' \subseteq {"on", "off"}
        BY <1>1, <2>1 DEF SoundInv, SoundTypeOK, Request
      <3> QED BY <1>1, <3>1, <3>2, <3>3 DEF SoundInv, SoundTypeOK
    <2>3. ~crossed' => Outcome' = enable'
      <3>1. CASE on = TRUE
        BY <1>1, <2>1, <3>1 DEF Outcome, OffFirst, Crosses, OffNext, Request, SoundInv, SoundTypeOK
      <3>2. CASE on = FALSE
        BY <1>1, <2>1, <3>2 DEF Outcome, OffFirst, Crosses, OffNext, Request, SoundInv, SoundTypeOK
      <3> QED BY <3>1, <3>2
    <2>4. ~crossed' => sound' \notin {"storeOff", "storeOn"}
      BY <1>1, <2>1 DEF Crosses
    <2> QED BY <1>1, <2>2, <2>3, <2>4 DEF SoundInv
  <1> QED BY <1>2, <1>3

LEMMA RunSoundStep ==
  ASSUME SoundInv, RunSound
  PROVE  SoundInv'
  <1> USE DEF SoundInv, SoundTypeOK, Outcome, OffFirst, Base
  <1>1. CASE Look("pend", "off", "storeOff", "lookOn")
    BY <1>1 DEF Look
  <1>2. CASE Clear("storeOff", "off", "stop")
    BY <1>2 DEF Clear
  <1>3. CASE Serve("stop", FALSE, "lookOn")
    BY <1>3 DEF Serve
  <1>4. CASE Look("lookOn", "on", "storeOn", "pend")
    BY <1>4 DEF Look
  <1>5. CASE Clear("storeOn", "on", "start")
    BY <1>5 DEF Clear
  <1>6. CASE Serve("start", TRUE, "pend")
    BY <1>6 DEF Serve
  <1> QED BY <1>1, <1>2, <1>3, <1>4, <1>5, <1>6 DEF RunSound

LEMMA SoundStep ==
  ASSUME SoundInv, EffectsNext
  PROVE  SoundInv'
  <1>1. ASSUME UNCHANGED <<enable, event, crossed, soundTask>> PROVE SoundInv'
    BY <1>1 DEF soundTask, SoundInv, SoundTypeOK, Outcome, OffFirst, Base
  <1>2. ASSUME NEW m \in Messages, Message(m) PROVE SoundInv'
    BY <1>1, <1>2 DEF Message, soundVars
  <1>3. CASE Destroy
    BY <1>1, <1>3, SetSoundStep DEF Destroy
  <1>4. CASE Choose
    BY <1>1, <1>4 DEF Choose, soundVars
  <1>5. CASE SetUp
    BY <1>1, <1>5 DEF SetUp
  <1>6. CASE Record
    BY <1>6, SetSoundStep DEF Record
  <1>7. CASE Setting
    BY <1>1, <1>7, SetSoundStep DEF Setting
  <1>8. CASE RunModel
    BY <1>1, <1>8 DEF RunModel, soundVars
  <1>9. CASE SoundTask
    BY <1>9, RunSoundStep DEF SoundTask
  <1> QED BY <1>2, <1>3, <1>4, <1>5, <1>6, <1>7, <1>8, <1>9 DEF EffectsNext, Handler

(* When the sound task waits with nothing to do, the recorder is as it was  *)
(* asked to be last, unless that request crossed another.                   *)
THEOREM RecorderAlwaysAsAsked == Spec => []RecorderAsAsked
  <1>1. Init => SoundInv
    BY DEF Init, SoundInit, SoundInv, SoundTypeOK, Outcome, OffFirst, Base
  <1>2. SoundInv /\ [Next]_vars => SoundInv'
    <2> SUFFICES ASSUME SoundInv, [Next]_vars PROVE SoundInv'
      OBVIOUS
    <2>1. ASSUME UNCHANGED <<effectVars, soundVars>> PROVE SoundInv'
      BY <2>1 DEF soundVars, soundTask, SoundInv, SoundTypeOK, Outcome, OffFirst, Base
    <2> QED BY <2>1, SoundStep, Steps DEF vars
  <1>3. SoundInv => RecorderAsAsked
    BY DEF SoundInv, SoundTypeOK, RecorderAsAsked, Outcome, OffFirst, Base
  <1> QED BY <1>1, <1>2, <1>3, PTL DEF Spec
----------------------------------------------------------------------------
(* The network.                                                             *)

(* The tcpip thread leaves the tasks above it alone. *)
LEMMA ThreadOnly ==
  ASSUME TcpipThread
  PROVE  UNCHANGED <<DHCP_state, IPaddress, overtaken, waiters, eth>>
  <1>1. ASSUME NEW step, NEW s, GoTo(step, s) PROVE UNCHANGED <<DHCP_state, IPaddress, overtaken, waiters, eth>>
    BY <1>1 DEF GoTo
  <1>2. CASE TcpipStep
    BY <1>2 DEF TcpipStep, SetAddress, SetFlag, SetState, Send
  <1>3. CASE Offer \/ Ack \/ Refused \/ LeaseTimers
    BY <1>1, <1>3 DEF Offer, Ack, Refused, Nak, Conflict, LeaseTimers, Lease
  <1>4. CASE TcpipTimer
    BY <1>1, <1>4 DEF TcpipTimer, Rediscover, Reselect, Recheck, Bind, Renew, Rebind, Expire
  <1> QED BY <1>2, <1>3, <1>4 DEF TcpipThread

LEMMA TaskStep ==
  ASSUME TaskInv, NetNext
  PROVE  TaskInv'
  <1> USE DEF TaskInv, Settled
  (* A post: everyone who waits is told. *)
  <1>1. ASSUME DHCP_state = "WAIT_ADDRESS", PostToAll PROVE semCtr' = 0 /\ task' = [t \in Waiters |-> "ready"]
    BY <1>1 DEF PostToAll, Waiters
  <1>2. ASSUME UNCHANGED <<DHCP_state, task, semCtr>> PROVE TaskInv'
    BY <1>2
  <1>3. ASSUME NEW t \in Waiters, Pend(t) PROVE TaskInv'
    <2>1. task[t] = "start" /\ semCtr' = semCtr /\ task' = [task EXCEPT ![t] = "pend"] /\ DHCP_state' = DHCP_state
      BY <1>3 DEF Pend
    <2>2. DHCP_state \in {"START", "LINK_DOWN"}
      BY <2>1
    <2> QED BY <2>1, <2>2
  <1>4. ASSUME NEW end \in {"up", "stuck"}, ArtNetBoots(end) PROVE TaskInv'
    <2>1. /\ task["ArtNet"] = "ready" /\ semCtr' = semCtr /\ task' = [task EXCEPT !["ArtNet"] = end]
          /\ DHCP_state' = DHCP_state /\ "ArtNet" \in Waiters
      BY <1>4 DEF ArtNetBoots, Waiters
    <2>2. Settled
      BY <2>1
    <2> QED BY <2>1, <2>2
  <1>5. CASE ServerRuns
    <2>1. /\ task["Server"] = "ready" /\ semCtr' = semCtr /\ task' = [task EXCEPT !["Server"] = "up"]
          /\ DHCP_state' = DHCP_state /\ "Server" \in Waiters
      BY <1>5 DEF ServerRuns, Waiters
    <2>2. Settled
      BY <2>1
    <2> QED BY <2>1, <2>2
  <1>6. CASE StartClient
    <2>1. /\ \A t \in Waiters : task[t] \in {"pend", "up"}
          /\ DHCP_state = "START" /\ DHCP_state' = "WAIT_ADDRESS" /\ UNCHANGED <<task, semCtr>>
      BY <1>6 DEF StartClient, BelowRuns, waiters
    <2> QED BY <2>1
  <1>7. CASE KeepWaiting
    BY <1>2, <1>7 DEF KeepWaiting, waiters
  <1>8. CASE Assigned
    <2>1. DHCP_state' = "ADDRESS_ASSIGNED" /\ semCtr' = 0 /\ task' = [t \in Waiters |-> "ready"]
      BY <1>1, <1>8 DEF Assigned, Waiting
    <2> QED BY <2>1
  <1>9. CASE GiveUp
    <2>1. DHCP_state' = "TIMEOUT" /\ semCtr' = 0 /\ task' = [t \in Waiters |-> "ready"]
      BY <1>1, <1>9 DEF GiveUp, Waiting
    <2> QED BY <2>1
  <1>10. CASE TcpipThread
    BY <1>2, <1>10, ThreadOnly DEF waiters
  <1>11. CASE Frame \/ EthWakes
    BY <1>2, <1>11 DEF Frame, EthWakes, waiters
  <1> QED BY <1>3, <1>4, <1>5, <1>6, <1>7, <1>8, <1>9, <1>10, <1>11 DEF NetNext, DhcpTask

(* When the wait for an address ends nobody is left waiting, and no count   *)
(* of the semaphore is left over, whatever is refused to the client.        *)
THEOREM AllAreToldOnce == Spec => []AllToldOnce
  <1>1. Init => TaskInv
    BY DEF Init, NetInit, TaskInv, Settled
  <1>2. TaskInv /\ [Next]_vars => TaskInv'
    <2> SUFFICES ASSUME TaskInv, [Next]_vars PROVE TaskInv'
      OBVIOUS
    <2>1. ASSUME UNCHANGED netVars PROVE TaskInv'
      BY <2>1 DEF netVars, waiters, TaskInv, Settled
    <2> QED BY <2>1, TaskStep, Steps DEF vars
  <1>3. TaskInv => AllToldOnce
    BY DEF TaskInv, AllToldOnce, Settled
  <1> QED BY <1>1, <1>2, <1>3, PTL DEF Spec

(* The client decides on a new state: it has a socket, a timer or a state   *)
(* to go on from; it keeps the lease it has, or gives it back.              *)
LEMMA GoToKeeps ==
  ASSUME LeaseInv, NEW step, NEW s, GoTo(step, s),
         pcb \/ request \/ state # "OFF",
         step \in {"set", "address", "down"},
         step = "address" => s = "BOUND",
         step = "down" => s = "SELECTING" /\ pcb,
         state \in OfALease /\ step = "set" => s \in OfALease
  PROVE  LeaseInv'
  <1>1. /\ UNCHANGED <<DHCP_state, IPaddress, ipaddr, up, pcb, overtaken>>
        /\ tcpip = "idle" /\ tcpip' = step /\ goal' = s
    BY DEF GoTo, interface
  <1>2. DHCP_state \notin {"START", "LINK_DOWN"}
    BY DEF LeaseInv
  <1>3. DHCP_state = "WAIT_ADDRESS" /\ ipaddr # "none" => Holds'
    BY <1>1 DEF LeaseInv, Holds
  <1> QED BY <1>1, <1>2, <1>3 DEF LeaseInv

LEMMA LeaseStep ==
  ASSUME LeaseInv, NetNext
  PROVE  LeaseInv'
  <1> USE DEF LeaseInv, Holds, OfALease
  <1>1. ASSUME UNCHANGED <<DHCP_state, IPaddress, interface, client, thread, overtaken>> PROVE LeaseInv'
    BY <1>1 DEF client, interface, thread
  <1>2. ASSUME NEW t \in Waiters, Pend(t) PROVE LeaseInv'
    BY <1>1, <1>2 DEF Pend
  <1>3. ASSUME NEW end \in {"up", "stuck"}, ArtNetBoots(end) PROVE LeaseInv'
    BY <1>1, <1>3 DEF ArtNetBoots
  <1>4. CASE ServerRuns
    BY <1>1, <1>4 DEF ServerRuns
  <1>5. CASE Frame \/ EthWakes
    BY <1>1, <1>5 DEF Frame, EthWakes
  <1>6. CASE StartClient
    BY <1>6 DEF StartClient, interface, thread
  <1>7. CASE KeepWaiting
    BY <1>7 DEF KeepWaiting, Waiting, client, interface, thread
  <1>8. CASE Assigned
    BY <1>8 DEF Assigned, Waiting, StopClient, Underway, interface, thread
  <1>9. CASE GiveUp
    BY <1>9 DEF GiveUp, Waiting, StopClient, thread
  <1>10. CASE Offer \/ Ack \/ Nak
    BY <1>10, GoToKeeps DEF Offer, Ack, Nak
  <1>11. CASE Conflict \/ LeaseTimers
    BY <1>11, GoToKeeps DEF Conflict, LeaseTimers, Lease
  <1>12. CASE TcpipTimer
    BY <1>12, GoToKeeps DEF TcpipTimer, Rediscover, Reselect, Recheck, Bind, Renew, Rebind, Expire
  <1>13. CASE SetAddress
    BY <1>13 DEF SetAddress, client
  <1>14. CASE SetFlag
    BY <1>14 DEF SetFlag, client
  <1>15. CASE SetState
    BY <1>15 DEF SetState, Idle, interface
  <1>16. CASE Send
    BY <1>16 DEF Send, Idle, interface
  <1> QED BY <1>2, <1>3, <1>4, <1>5, <1>6, <1>7, <1>8, <1>9, <1>10, <1>11, <1>12, <1>13, <1>14, <1>15, <1>16
          DEF NetNext, DhcpTask, TcpipThread, TcpipStep, Refused

LEMMA NetStutter ==
  ASSUME UNCHANGED netVars
  PROVE  /\ LeaseInv => LeaseInv'
         /\ StopsUnlessOvertaken => StopsUnlessOvertaken'
  BY DEF netVars, client, interface, thread, LeaseInv, Holds, OfALease, StopsUnlessOvertaken, Settled

(* With a lease, the ArtNet task broadcasts from the address the interface  *)
(* has and the interface is up, unless the client was giving the lease back *)
(* when it was stopped, and for as long as it sends nothing through the     *)
(* socket it has lost.                                                      *)
THEOREM LeaseStaysInUse == Spec => []LeaseInUse
  <1>1. Init => LeaseInv
    BY DEF Init, NetInit, LeaseInv, Holds, OfALease
  <1>2. LeaseInv /\ [Next]_vars => LeaseInv'
    <2> SUFFICES ASSUME LeaseInv, [Next]_vars PROVE LeaseInv'
      OBVIOUS
    <2>1. ASSUME UNCHANGED netVars PROVE LeaseInv'
      BY <2>1, NetStutter
    <2> QED BY <2>1, LeaseStep, Steps DEF vars
  <1>3. LeaseInv => LeaseInUse
    BY DEF LeaseInv, LeaseInUse
  <1> QED BY <1>1, <1>2, <1>3, PTL DEF Spec

(* What is stopped in the middle of nothing has nothing to go on with.      *)
LEMMA StopStep ==
  ASSUME LeaseInv, StopsUnlessOvertaken, NetNext
  PROVE  StopsUnlessOvertaken'
  <1> USE DEF StopsUnlessOvertaken, Settled
  <1>1. ASSUME UNCHANGED <<DHCP_state, interface, client, thread, overtaken>> PROVE StopsUnlessOvertaken'
    BY <1>1 DEF client, interface, thread
  <1>2. ASSUME NEW t \in Waiters, Pend(t) PROVE StopsUnlessOvertaken'
    BY <1>1, <1>2 DEF Pend
  <1>3. ASSUME NEW end \in {"up", "stuck"}, ArtNetBoots(end) PROVE StopsUnlessOvertaken'
    BY <1>1, <1>3 DEF ArtNetBoots
  <1>4. CASE ServerRuns
    BY <1>1, <1>4 DEF ServerRuns
  <1>5. CASE Frame \/ EthWakes
    BY <1>1, <1>5 DEF Frame, EthWakes
  <1>6. CASE StartClient
    BY <1>6 DEF StartClient
  <1>7. CASE KeepWaiting
    BY <1>1, <1>7 DEF KeepWaiting
  <1>8. CASE Assigned
    BY <1>8 DEF Assigned, Waiting, StopClient, Underway, LeaseInv, Holds, interface, thread
  <1>9. CASE GiveUp
    BY <1>9 DEF GiveUp, Waiting, StopClient, Underway, thread
  <1>10. CASE TcpipThread
    <2>1. UNCHANGED <<DHCP_state, overtaken>>
      BY <1>10, ThreadOnly
    <2>2. CASE TcpipStep
      BY <2>1, <2>2 DEF TcpipStep, SetAddress, SetFlag, SetState, Send
    <2>3. CASE ~TcpipStep
      <3>1. pcb \/ request \/ state # "OFF"
        BY <1>10, <2>3 DEF TcpipThread, TcpipTimer, Offer, Ack, Refused, Nak, Conflict, LeaseTimers, Lease,
                           Rediscover, Reselect, Recheck, Bind, Renew, Rebind, Expire
      <3> QED BY <2>1, <3>1
    <2> QED BY <2>2, <2>3
  <1> QED BY <1>2, <1>3, <1>4, <1>5, <1>6, <1>7, <1>8, <1>9, <1>10 DEF NetNext, DhcpTask

(* Once the client has been stopped it stays stopped and the address stays, *)
(* unless the stop came in the middle of one of its steps.                  *)
THEOREM AlwaysStopsUnlessOvertaken == Spec => []StopsUnlessOvertaken
  <1>1. Init => LeaseInv /\ StopsUnlessOvertaken
    BY DEF Init, NetInit, LeaseInv, Holds, OfALease, StopsUnlessOvertaken, Settled
  <1>2. LeaseInv /\ StopsUnlessOvertaken /\ [Next]_vars => LeaseInv' /\ StopsUnlessOvertaken'
    <2> SUFFICES ASSUME LeaseInv, StopsUnlessOvertaken, [Next]_vars
                 PROVE  LeaseInv' /\ StopsUnlessOvertaken'
      OBVIOUS
    <2>1. ASSUME UNCHANGED netVars PROVE LeaseInv' /\ StopsUnlessOvertaken'
      BY <2>1, NetStutter
    <2> QED BY <2>1, StopStep, LeaseStep, Steps DEF vars
  <1> QED BY <1>1, <1>2, PTL DEF Spec

----------------------------------------------------------------------------
(* The paint.                                                               *)

(* From setUp on, an effect that sets its paint has it.                     *)
PaintInv ==
  handler \in {"idle", "record", "setting"} /\ Now \notin SetsNoPaint =>
    paint = Now \/ (Now = "Normal_Soft" /\ paint = "stack")

LEMMA PaintStep ==
  ASSUME PaintInv, EffectsNext
  PROVE  PaintInv'
  <1> USE DEF PaintInv, Now
  <1>1. ASSUME NEW m \in Messages, Message(m) PROVE PaintInv'
    BY <1>1 DEF Message
  <1>2. CASE Destroy
    BY <1>2 DEF Destroy
  <1>3. CASE Choose
    BY <1>3 DEF Choose
  <1>4. CASE SetUp
    BY <1>4 DEF SetUp
  <1>5. CASE Record
    BY <1>5 DEF Record
  <1>6. CASE Setting
    BY <1>6 DEF Setting
  <1>7. CASE RunModel
    <2>1. handler = "idle" /\ paint' \in PaintLeft /\ Now' = Now
      BY <1>7 DEF RunModel
    <2>2. CASE Now = "Normal_Soft"
      BY <2>1, <2>2 DEF PaintLeft
    <2>3. CASE Now = "KTV_Soft"
      BY <2>1, <2>3 DEF SetsNoPaint
    <2>4. CASE Now \notin {"Normal_Soft", "KTV_Soft"}
      BY <2>1, <2>4 DEF PaintLeft
    <2> QED BY <2>2, <2>3, <2>4
  <1>8. CASE SoundTask
    BY <1>8 DEF SoundTask, effectVars
  <1> QED BY <1>1, <1>2, <1>3, <1>4, <1>5, <1>6, <1>7, <1>8 DEF EffectsNext, Handler

(* Between two messages an effect draws with its own paint, whatever the    *)
(* effects before it left set, Breath and KTV_Soft apart.                   *)
THEOREM AlwaysDrawsWithItsPaint == Spec => []DrawsWithItsPaint
  <1>1. Init => PaintInv
    <2> SUFFICES ASSUME Init PROVE PaintInv
      OBVIOUS
    <2>1. Now = "KTV_Soft"
      BY NowAtFirst
    <2> QED BY <2>1 DEF PaintInv, SetsNoPaint
  <1>2. PaintInv /\ [Next]_vars => PaintInv'
    <2> SUFFICES ASSUME PaintInv, [Next]_vars PROVE PaintInv'
      OBVIOUS
    <2>1. ASSUME UNCHANGED effectVars PROVE PaintInv'
      BY <2>1 DEF effectVars, PaintInv, Now
    <2> QED BY <2>1, PaintStep, Steps DEF vars
  <1>3. PaintInv => DrawsWithItsPaint
    BY DEF PaintInv, DrawsWithItsPaint
  <1> QED BY <1>1, <1>2, <1>3, PTL DEF Spec
----------------------------------------------------------------------------
(* The types. That a new lease is never asked for a sixth time needs the    *)
(* rounds of LwIP_DHCP_task: the sixth would be counted after a round that  *)
(* gives up. The stopped client has two tries left in it, at most.          *)
Renewal == {"RENEWING", "REBINDING"}
Moving == tcpip \in {"set", "unset", "address", "up", "down"}
TriesInv ==
  /\ Moving => goal # "OFF"
  /\ DHCP_state \in {"START", "LINK_DOWN"} => tries = 0
  /\ DHCP_state = "WAIT_ADDRESS" /\ state \notin Renewal =>
       /\ tcpip = "send" => tries <= 4
       /\ Moving /\ goal = state => tries <= 4
  /\ Settled =>
       /\ tries <= 2 /\ ~pcb
       /\ tcpip = "idle" => state \in {"OFF", "CHECKING", "BOUND"}
       /\ tcpip = "send" => state \in {"OFF", goal} /\ tries <= 1
       /\ Moving /\ goal = state => goal = "CHECKING" /\ tries <= 1

NetInv == NetTypeOK /\ TaskInv /\ LeaseInv /\ TriesInv

(* The client goes on from the state it is in, by a datagram or a timer.    *)
LEMMA GoToTypes ==
  ASSUME NetInv, NEW step, NEW s, GoTo(step, s),
         step \in {"set", "down", "address"},
         s \in ClientStates \ {"OFF"},
         request' \in BOOLEAN,
         s = state /\ DHCP_state = "WAIT_ADDRESS" /\ state \notin Renewal => tries <= 4,
         s = state /\ Settled => s = "CHECKING" /\ tries <= 1
  PROVE  NetTypeOK' /\ TriesInv'
  <1>1. /\ UNCHANGED <<DHCP_state, IPaddress, ipaddr, up, state, tries, pcb, overtaken, task, semCtr, eth>>
        /\ tcpip = "idle" /\ tcpip' = step /\ goal' = s
    BY DEF GoTo, interface, waiters
  <1>2. NetTypeOK'
    BY <1>1 DEF NetInv, NetTypeOK
  <1>3. TriesInv'
    BY <1>1 DEF NetInv, TriesInv, Settled, Moving
  <1> QED BY <1>2, <1>3

(* dhcp_timeout: what is asked again has been asked four times at most, or  *)
(* is the renewal of a lease.                                               *)
LEMMA TimerTypes ==
  ASSUME NetInv, TcpipTimer
  PROVE  NetTypeOK' /\ TriesInv'
  <1>1. tries \in Nat /\ (Settled /\ tcpip = "idle" => state \in {"OFF", "CHECKING", "BOUND"})
    <2>1. tries \in 0 .. MaxTries
      BY DEF NetInv, NetTypeOK
    <2>2. tries \in Nat
      BY <2>1 DEF MaxTries
    <2> QED BY <2>2 DEF NetInv, TriesInv
  <1>2. ASSUME NEW step, NEW s, Expire(step, s) PROVE GoTo(step, s) /\ request' \in BOOLEAN /\ tcpip = "idle"
    BY <1>2 DEF Expire, GoTo
  <1>3. CASE Rediscover
    BY <1>1, <1>2, <1>3, GoToTypes DEF Rediscover, InTime, MAX_DHCP_TRIES, ClientStates, Settled
  <1>4. CASE Reselect
    BY <1>1, <1>2, <1>4, GoToTypes DEF Reselect, InTime, MAX_DHCP_TRIES, ClientStates, Settled
  <1>5. CASE Recheck
    BY <1>1, <1>2, <1>5, GoToTypes DEF Recheck, ClientStates
  <1>6. CASE Bind
    BY <1>1, <1>2, <1>6, GoToTypes DEF Bind, ClientStates
  <1>7. CASE Renew
    BY <1>1, <1>2, <1>7, GoToTypes DEF Renew, Renewal, ClientStates
  <1>8. CASE Rebind
    BY <1>1, <1>2, <1>8, GoToTypes DEF Rebind, Renewal, ClientStates
  <1> QED BY <1>3, <1>4, <1>5, <1>6, <1>7, <1>8 DEF TcpipTimer

LEMMA NetTypeStep ==
  ASSUME NetInv, NetNext
  PROVE  NetTypeOK' /\ TriesInv'
  <1>0. /\ NetTypeOK /\ TaskInv /\ LeaseInv /\ TriesInv /\ TaskInv'
    BY TaskStep DEF NetInv
  <1>a. DHCP_state \in {"START", "WAIT_ADDRESS", "ADDRESS_ASSIGNED", "TIMEOUT", "LINK_DOWN"}
    BY <1>0 DEF NetTypeOK
  <1>b. tries \in 0 .. MaxTries /\ tries \in 0 .. 9 /\ (state \notin Renewal => tries <= 5)
    <2>1. tries \in 0 .. MaxTries /\ (state \notin {"RENEWING", "REBINDING"} => tries <= MAX_DHCP_TRIES + 1)
      BY <1>0 DEF NetTypeOK
    <2> QED BY <2>1 DEF MaxTries, MAX_DHCP_TRIES, Renewal
  <1>c. ASSUME NEW n \in 0 .. 9, NEW s, s \notin Renewal => n <= 5
        PROVE  n \in 0 .. MaxTries /\ (s \notin {"RENEWING", "REBINDING"} => n <= MAX_DHCP_TRIES + 1)
    BY <1>c DEF MaxTries, MAX_DHCP_TRIES, Renewal
  <1>1. ASSUME UNCHANGED <<DHCP_state, IPaddress, interface, client, thread, overtaken>>, eth' \in {"spin", "sleep"}
        PROVE  NetTypeOK' /\ TriesInv'
    <2>1. NetTypeOK'
      BY <1>0, <1>1 DEF NetTypeOK, TaskInv, client, interface, thread
    <2>2. TriesInv'
      BY <1>0, <1>1 DEF client, thread, TriesInv, Settled, Moving
    <2> QED BY <2>1, <2>2
  <1>2. eth \in {"spin", "sleep"}
    BY <1>0 DEF NetTypeOK
  <1>3. ASSUME NEW t \in Waiters, Pend(t) PROVE NetTypeOK' /\ TriesInv'
    BY <1>1, <1>2, <1>3 DEF Pend
  <1>4. ASSUME NEW end \in {"up", "stuck"}, ArtNetBoots(end) PROVE NetTypeOK' /\ TriesInv'
    BY <1>1, <1>2, <1>4 DEF ArtNetBoots
  <1>5. CASE ServerRuns
    BY <1>1, <1>2, <1>5 DEF ServerRuns
  <1>6. CASE Frame \/ EthWakes
    BY <1>1, <1>6 DEF Frame, EthWakes
  <1>7. CASE StartClient
    <2>1. NetTypeOK'
      <3>1. tries' \in 0 .. MaxTries /\ tries' <= MAX_DHCP_TRIES + 1 /\ request' \in BOOLEAN /\ pcb' \in BOOLEAN
        BY <1>7 DEF StartClient, MaxTries, MAX_DHCP_TRIES
      <3> QED BY <1>0, <1>7, <3>1 DEF StartClient, NetTypeOK, Addresses, ClientStates, interface, thread, waiters
    <2>2. TriesInv'
      BY <1>0, <1>7 DEF StartClient, TriesInv, Settled, LeaseInv, Moving, thread
    <2> QED BY <2>1, <2>2
  <1>8. CASE KeepWaiting
    <2>1. IPaddress' \in Addresses /\ UNCHANGED <<DHCP_state, interface, client, thread, overtaken, waiters, eth>>
      BY <1>0, <1>8 DEF KeepWaiting, NetTypeOK
    <2>2. NetTypeOK'
      BY <1>0, <2>1 DEF NetTypeOK, client, interface, thread, waiters
    <2>3. TriesInv'
      BY <1>0, <2>1 DEF TriesInv, Settled, Moving, client, thread
    <2> QED BY <2>2, <2>3
  <1>9. CASE Assigned \/ GiveUp
    <2>1. /\ DHCP_state' \in {"ADDRESS_ASSIGNED", "TIMEOUT"} /\ DHCP_state = "WAIT_ADDRESS"
          /\ state' = "OFF" /\ tries' = 0 /\ request' = FALSE /\ pcb' = FALSE
          /\ overtaken' \in {"nothing", "a return", "a step"}
          /\ UNCHANGED <<tcpip, goal, up, eth>> /\ IPaddress' = ipaddr /\ ipaddr' \in {ipaddr, "static"}
      BY <1>9 DEF Assigned, GiveUp, Waiting, StopClient, Underway, thread, interface
    <2>2. NetTypeOK'
      <3>1. tries' \in 0 .. MaxTries /\ tries' <= MAX_DHCP_TRIES + 1 /\ semCtr' \in Nat
        <4>1. 0 \in 0 .. MaxTries /\ 0 <= MAX_DHCP_TRIES + 1
          BY DEF MaxTries, MAX_DHCP_TRIES
        <4>2. semCtr' \in Nat
          BY <1>0 DEF TaskInv
        <4> QED BY <2>1, <4>1, <4>2
      <3>2. request' \in BOOLEAN /\ pcb' \in BOOLEAN
        BY <2>1
      <3> QED BY <1>0, <2>1, <3>1, <3>2 DEF NetTypeOK, TaskInv, Addresses, ClientStates
    <2>3. TriesInv'
      <3>1. Moving => goal # "OFF"
        BY <1>0 DEF TriesInv
      <3>2. (tries <= 1)' /\ (tries <= 2)' /\ (~pcb)' /\ (state = "OFF")'
        <4>1. tries' = 0
          BY <2>1
        <4>2. (~pcb)' /\ (state = "OFF")'
          BY <2>1
        <4> QED BY <4>1, <4>2
      <3>3. (Moving => goal # "OFF")'
        BY <2>1, <3>1 DEF Moving
      <3> QED BY <2>1, <3>2, <3>3 DEF TriesInv, Settled
    <2> QED BY <2>2, <2>3
  <1>10. CASE Offer \/ Ack \/ Nak
    <2>1. pcb /\ ~Settled /\ request' \in BOOLEAN
      BY <1>0, <1>10 DEF Offer, Ack, Nak, NetTypeOK, TriesInv
    <2> QED BY <1>0, <1>10, <2>1, GoToTypes DEF NetInv, Offer, Ack, Nak, ClientStates, Renewal
  <1>11. CASE Conflict \/ LeaseTimers
    <2>1. request' \in BOOLEAN /\ tcpip = "idle"
      BY <1>0, <1>11 DEF Conflict, LeaseTimers, Lease, GoTo, NetTypeOK
    <2>2. Settled => state \in {"OFF", "CHECKING", "BOUND"}
      BY <1>0, <2>1 DEF TriesInv
    <2> QED BY <1>0, <1>11, <2>1, <2>2, GoToTypes DEF NetInv, Conflict, LeaseTimers, Lease, ClientStates, Renewal
  <1>12. CASE TcpipTimer
    BY <1>12, TimerTypes
  <1>13. CASE SetAddress \/ SetFlag
    <2>1. /\ UNCHANGED <<DHCP_state, IPaddress, client, goal, overtaken, waiters, eth>> /\ tcpip \in {"address", "unset", "up", "down"}
          /\ tcpip' \in {"up", "set", "unset"} /\ ipaddr' \in {ipaddr, "leased", "none"} /\ up' \in {up, TRUE, FALSE}
      BY <1>13 DEF SetAddress, SetFlag
    <2>2. NetTypeOK'
      <3>1. UNCHANGED <<DHCP_state, IPaddress, state, tries, request, pcb, goal, overtaken, task, semCtr, eth>>
        BY <2>1 DEF client, waiters
      <3>2. (up \in BOOLEAN)' /\ (ipaddr \in Addresses)'
        BY <1>0, <2>1 DEF NetTypeOK, Addresses
      <3>3. (tcpip \in {"idle", "address", "up", "down", "unset", "set", "send", "undefined"})'
        BY <2>1
      <3> QED BY <1>0, <3>1, <3>2, <3>3 DEF NetTypeOK
    <2>3. TriesInv'
      BY <1>0, <2>1 DEF TriesInv, Settled, client, Moving
    <2> QED BY <2>2, <2>3
  <1>14. CASE SetState
    <2>1. /\ UNCHANGED <<DHCP_state, IPaddress, ipaddr, up, pcb, overtaken, waiters, eth>>
          /\ tcpip = "set" /\ tcpip' \in {"idle", "send"} /\ goal' \in {goal, "OFF"} /\ state' = goal
          /\ tries' = IF state = goal THEN tries ELSE 0
          /\ request' = (state = goal /\ request)
          /\ tcpip' = "idle" <=> goal = "BOUND"
          /\ tcpip' = "send" => goal' = goal
      BY <1>14 DEF SetState, Idle, interface
    <2>2. NetTypeOK'
      <3>1. tries' \in 0 .. MaxTries /\ (state' \notin {"RENEWING", "REBINDING"} => tries' <= MAX_DHCP_TRIES + 1)
        <4>1. tries' \in 0 .. 9 /\ (state' \notin Renewal => tries' <= 5)
          BY <1>b, <2>1
        <4> QED BY <1>c, <4>1
      <3>2. request' \in BOOLEAN
        BY <2>1
      <3> QED BY <1>0, <2>1, <3>1, <3>2 DEF NetTypeOK, ClientStates, waiters
    <2>3. TriesInv'
      <3>1. tcpip' = "send" => state' = goal'
        BY <2>1
      <3>2. Moving /\ ~Moving'
        BY <2>1 DEF Moving
      <3>3. CASE DHCP_state \in {"START", "LINK_DOWN"}
        BY <1>0, <2>1, <3>3 DEF LeaseInv
      <3>4. CASE DHCP_state = "WAIT_ADDRESS"
        <4>1. state' \notin Renewal => (tries <= 4)'
          BY <1>0, <1>b, <2>1, <3>2, <3>4 DEF TriesInv
        <4> QED BY <2>1, <3>2, <3>4, <4>1 DEF TriesInv, Settled
      <3>5. CASE Settled
        <4>1. ~pcb /\ tries <= 2 /\ (goal = state => goal = "CHECKING" /\ tries <= 1)
          BY <1>0, <3>2, <3>5 DEF TriesInv
        <4>2. (tries <= 1)' /\ (tries <= 2)'
          BY <2>1, <4>1
        <4>3. (tcpip = "idle" => state = "BOUND")'
          BY <2>1
        <4> QED BY <2>1, <3>1, <3>2, <3>5, <4>1, <4>2, <4>3 DEF TriesInv, Settled
      <3> QED BY <1>a, <3>3, <3>4, <3>5 DEF Settled
    <2> QED BY <2>2, <2>3
  <1>15. CASE Send
    <2>1. /\ UNCHANGED <<DHCP_state, IPaddress, ipaddr, up, state, pcb, overtaken, waiters, eth>>
          /\ tcpip = "send" /\ tcpip' \in {"idle", "undefined"} /\ goal' = "OFF" /\ request' \in {request, TRUE}
          /\ tries' \in {tries, IF tries < MaxTries THEN tries + 1 ELSE tries}
          /\ tcpip' = "idle" => pcb \/ goal = "CHECKING"
      BY <1>15 DEF Send, Idle, interface
    <2>2. state \notin Renewal => tries <= 4
      <3>1. CASE DHCP_state = "WAIT_ADDRESS"
        BY <1>0, <2>1, <3>1 DEF TriesInv
      <3>2. CASE Settled
        <4>1. tries <= 1
          BY <1>0, <2>1, <3>2 DEF TriesInv
        <4> QED BY <1>b, <4>1
      <3>3. CASE DHCP_state \in {"START", "LINK_DOWN"}
        BY <1>0, <2>1, <3>3 DEF LeaseInv
      <3> QED BY <1>a, <3>1, <3>2, <3>3 DEF Settled
    <2>3. NetTypeOK'
      <3>1. tries' \in 0 .. 9 /\ (state' \notin Renewal => tries' <= 5)
        <4>1. tries' \in {tries, tries + 1} /\ (tries < 9 \/ tries' = tries) /\ state' = state
          BY <2>1 DEF MaxTries
        <4> QED BY <1>b, <2>2, <4>1
      <3>2. request' \in BOOLEAN
        BY <1>0, <2>1 DEF NetTypeOK
      <3>3. UNCHANGED <<task, semCtr>> /\ goal' \in ClientStates
        BY <2>1 DEF waiters, ClientStates
      <3> QED BY <1>0, <1>c, <2>1, <3>1, <3>2, <3>3 DEF NetTypeOK
    <2>4. TriesInv'
      <3>1. ~Moving' /\ tcpip' # "send"
        BY <2>1 DEF Moving
      <3>2. CASE DHCP_state \in {"START", "LINK_DOWN"}
        BY <1>0, <2>1, <3>2 DEF LeaseInv
      <3>3. CASE DHCP_state = "WAIT_ADDRESS"
        BY <2>1, <3>1, <3>3 DEF TriesInv, Settled
      <3>4. CASE Settled
        <4>1. ~pcb /\ tries <= 1 /\ state \in {"OFF", goal}
          BY <1>0, <2>1, <3>4 DEF TriesInv
        <4>2. (tries <= 2)'
          BY <1>b, <2>1, <4>1
        <4>3. (tcpip = "idle" => state \in {"OFF", "CHECKING"})'
          BY <2>1, <4>1
        <4> QED BY <2>1, <3>1, <3>4, <4>1, <4>2, <4>3 DEF TriesInv, Settled
      <3> QED BY <1>a, <3>2, <3>3, <3>4 DEF Settled
    <2> QED BY <2>3, <2>4
  <1> QED BY <1>3, <1>4, <1>5, <1>6, <1>7, <1>8, <1>9, <1>10, <1>11, <1>12, <1>13, <1>14, <1>15
          DEF NetNext, DhcpTask, TcpipThread, TcpipStep, Refused

(* The effect of each group is one of its table, whatever is asked for.     *)
EffectsInv == EffectsTypeOK /\ DOMAIN current = Groups

LEMMA TableTypes ==
  /\ Groups = {"Normal", "KTV", "Techo"}
  /\ DOMAIN Group = 1 .. 3 /\ \A i \in 1 .. 3 : Group[i] \in Groups
  BY DEF Groups, Group, Effect

LEMMA EffectsTypeStep ==
  ASSUME EffectsInv, SoundInv, EffectsNext
  PROVE  EffectsInv'
  <1>1. SoundTypeOK'
    BY SoundStep DEF SoundInv
  <1> USE DEF EffectsInv, EffectsTypeOK
  <1>2. ASSUME UNCHANGED <<modeltype, subType, model, current>>,
               handler' \in {"idle", "destroy", "choose", "setUp", "record", "setting"}
        PROVE  EffectsInv'
    BY <1>1, <1>2
  <1>3. ASSUME NEW m \in Messages, Message(m) PROVE EffectsInv'
    <2> DEFINE sub == IF m[2] = 0 THEN 0 ELSE m[2] - 1
    <2>1. m[1] \in Nat /\ sub \in Nat
      BY EffectsAssumption
    <2>2. /\ modeltype' \in {modeltype, m[1]} /\ subType' \in {subType, sub}
          /\ UNCHANGED <<model, current>> /\ handler' \in {"setting", "destroy"}
      BY <1>3 DEF Message
    <2> HIDE DEF sub
    <2>3. modeltype' \in Nat /\ subType' \in Nat
      BY <2>1, <2>2
    <2> QED BY <1>1, <2>2, <2>3
  <1>4. CASE Destroy
    BY <1>2, <1>4 DEF Destroy
  <1>5. CASE Choose
    <2>1. UNCHANGED <<modeltype, subType>> /\ handler' = "setUp"
      BY <1>5 DEF Choose
    <2>2. CASE modeltype \notin DOMAIN Group \/ subType >= 4
      <3>1. model' \in Groups /\ current' = current
        BY <1>5, <2>2, TableTypes DEF Choose
      <3> QED BY <1>1, <2>1, <3>1
    <2>3. CASE modeltype \in DOMAIN Group /\ subType < 4
      <3> DEFINE g == Group[modeltype]
      <3>1. g \in Groups /\ subType + 1 \in 1 .. 4
        BY <2>3, TableTypes
      <3>2. model' = g /\ current' = [current EXCEPT ![g] = Effect[g][subType + 1]]
        BY <1>5, <2>3 DEF Choose
      <3> HIDE DEF g
      <3>3. DOMAIN current' = Groups
        BY <3>2
      <3>4. ASSUME NEW h \in Groups PROVE \E i \in 1 .. 4 : current'[h] = Effect[h][i]
        <4>1. CASE h = g
          BY <3>1, <3>2, <4>1
        <4>2. CASE h # g
          BY <3>2, <4>2
        <4> QED BY <4>1, <4>2
      <3> QED BY <1>1, <2>1, <3>1, <3>2, <3>3, <3>4
    <2> QED BY <2>2, <2>3
  <1>6. CASE SetUp
    BY <1>2, <1>6 DEF SetUp
  <1>7. CASE Record
    BY <1>2, <1>7 DEF Record
  <1>8. CASE Setting
    BY <1>2, <1>8 DEF Setting
  <1>9. CASE RunModel
    BY <1>2, <1>9 DEF RunModel
  <1>10. CASE SoundTask
    BY <1>2, <1>10 DEF SoundTask, effectVars
  <1> QED BY <1>3, <1>4, <1>5, <1>6, <1>7, <1>8, <1>9, <1>10 DEF EffectsNext, Handler

(* The variables of the box keep their types, however many leases are      *)
(* refused and whatever the panel asks for: a new lease is never asked for  *)
(* a sixth time, and an effect is never taken from past its table.          *)
THEOREM TypeCorrect == Spec => []TypeOK
  <1> DEFINE IInv == NetInv /\ SoundInv /\ EffectsInv
  <1>1. Init => IInv
    <2> SUFFICES ASSUME Init PROVE IInv
      OBVIOUS
    <2>1. NetInv
      <3>1. TaskInv /\ LeaseInv /\ TriesInv
        BY DEF Init, NetInit, TaskInv, LeaseInv, Holds, TriesInv, Settled, Moving
      <3>2. request \in BOOLEAN /\ pcb \in BOOLEAN /\ up \in BOOLEAN
        BY DEF Init, NetInit
      <3>3. tries \in 0 .. MaxTries /\ tries <= MAX_DHCP_TRIES + 1 /\ semCtr \in Nat
        BY DEF Init, NetInit, MaxTries, MAX_DHCP_TRIES
      <3>4. NetTypeOK
        BY <3>1, <3>2, <3>3 DEF Init, NetInit, NetTypeOK, Addresses, ClientStates, TaskInv
      <3> QED BY <3>1, <3>4 DEF NetInv
    <2>2. SoundInv
      BY DEF Init, SoundInit, SoundInv, SoundTypeOK, Outcome, OffFirst, Base
    <2>3. EffectsInv
      BY <2>2, TableTypes DEF Init, EffectsInit, EffectsInv, EffectsTypeOK, SoundInv
    <2> QED BY <2>1, <2>2, <2>3
  <1>2. IInv /\ [Next]_vars => IInv'
    <2> SUFFICES ASSUME IInv, [Next]_vars PROVE IInv'
      OBVIOUS
    <2>1. ASSUME UNCHANGED netVars PROVE NetInv'
      <3>1. LeaseInv' /\ TaskInv' /\ TriesInv'
        BY <2>1, NetStutter DEF netVars, client, thread, waiters, NetInv, TaskInv, TriesInv, Settled, Moving
      <3>2. NetTypeOK'
        BY <2>1 DEF netVars, client, interface, thread, waiters, NetInv, NetTypeOK
      <3> QED BY <3>1, <3>2 DEF NetInv
    <2>2. ASSUME UNCHANGED <<effectVars, soundVars>> PROVE SoundInv' /\ EffectsInv'
      BY <2>2 DEF effectVars, soundVars, soundTask, SoundInv, SoundTypeOK, Outcome, OffFirst, Base,
                  EffectsInv, EffectsTypeOK
    <2>3. ASSUME NetNext PROVE NetInv'
      BY <2>3, NetTypeStep, TaskStep, LeaseStep DEF NetInv
    <2>4. ASSUME EffectsNext PROVE SoundInv' /\ EffectsInv'
      BY <2>4, SoundStep, EffectsTypeStep
    <2> QED BY <2>1, <2>2, <2>3, <2>4, Steps DEF vars
  <1>3. IInv => TypeOK
    BY DEF NetInv, EffectsInv, TypeOK
  <1> QED BY <1>1, <1>2, <1>3, PTL DEF Spec
=============================================================================
