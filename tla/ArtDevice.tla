----------------------------- MODULE ArtDevice -----------------------------
(***************************************************************************)
(* The device table (ArtNet/ArtControl.c), the handshake that brings a     *)
(* device into service (runArtNetStatus, ArtNet/ArtNet.c) and the timers   *)
(* that drive it (USER/Server/TimerServer.c), under the priorities of      *)
(* os_cfg/app_cfg.h.  Three threads work on this state:                    *)
(*   tcpip  (lowest)  artNetCB, on every ArtPollReply: Reply               *)
(*   server           the 1 ms loop of runServer: WakeUp ... EndSort       *)
(*   ArtNet (highest) the time1 event of runArtNet: PollAndAge             *)
(* A thread runs only while the ones above it are blocked: the server      *)
(* blocks in OSTimeDly (phase "sleep"), the ArtNet task when no event is   *)
(* pending.  artNetCB is one step here.                                    *)
(***************************************************************************)
EXTENDS TimerList

CONSTANTS
  IPs,             (* the addresses of the devices on the network            *)
  PollPeriod,      (* period of time1CB, 3000 in the code                    *)
  Delay,           (* Delay[s]: ticks runArtNetStatus waits after status s   *)
  DisconnectTick,  (* DISCONNECTTICK, 10 in the code                         *)
  OldTick,         (* OLDTICK, 10000 in the code                             *)
  Freed,           (* a pointer into the memory of a device that was freed   *)
  NoParameter      (* NULL, the parameter of time1CB                         *)

Status == 0..7     (* the 3-bit field status of ArtDevice *)

ASSUME DeviceAssumption ==
  /\ PollPeriod \in Nat \ {0}
  /\ Delay \in [Status -> Nat \ {0}]
  /\ DisconnectTick \in Nat
  /\ OldTick \in Nat
  /\ Freed \notin IPs
  /\ NoParameter \notin IPs \cup {Freed}

(* A handshake (228 ms in the code) is over long before its device can have     *)
(* missed DISCONNECTTICK polls (33 s) or be restarted (8 hours).                *)
ASSUME TimingAssumption ==
  LET handshake == Delay[0] + Delay[1] + Delay[2] + Delay[3]
                     + Delay[4] + Delay[5] + Delay[6] + Delay[7]
  IN /\ handshake <= (DisconnectTick + 1) * PollPeriod
     /\ handshake <= OldTick * PollPeriod

VARIABLES
  dev,       (* the device table: one record per address                     *)
  timers,    (* the timer list, from head to tail                            *)
  phase,     (* what the server task is doing                                *)
  cursor,    (* the node its loop is at                                      *)
  time1,     (* the time1 bit of taskEvent: the ArtNet task is ready to run  *)
  packets,   (* for every address, what was sent to it since it joined       *)
  isExit     (* the addresses whose nodes are registered for DMX output      *)

vars == <<dev, timers, phase, cursor, time1, packets, isExit>>

----------------------------------------------------------------------------
(* The device table. connected = FALSE is an address that has no node.      *)

NoDevice == [connected |-> FALSE, status |-> 0, start |-> FALSE, tick |-> 0, oldTime |-> 0]
NewDevice == [NoDevice EXCEPT !.connected = TRUE]

(* What runArtNetStatus asks of the device its parameter leads to. *)
Handshaking(ip) == ip \in IPs /\ dev[ip].connected /\ ~dev[ip].start

(* A slip: one state too many. *)
NextStatusRunsOver(d) == IF d.status = 8
                         THEN [d EXCEPT !.status = 0, !.start = TRUE]
                         ELSE [d EXCEPT !.status = @ + 1]

(* runArtNetStatus: the state after the state of d. *)
NextStatus(d) == IF d.status = 7
                 THEN [d EXCEPT !.status = 0, !.start = TRUE]
                 ELSE [d EXCEPT !.status = @ + 1]

(* The packets of one handshake, ... *)
Protocol == <<"TodRequest", "IpProg", "TodControl0", "TodControl1", "TodControl2", "TodControl3">>
(* A slip: the port of a TodControl is counted from the wrong status. *)
PacketsOfWrongPort(s) == IF s \in {0, 3} THEN <<>> ELSE <<Protocol[IF s < 4 THEN s ELSE s - 2]>>
(* A slip: the last state ends the handshake without its packet. *)
PacketsOfButLast(s) == IF s \in {0, 3, 7} THEN <<>> ELSE <<Protocol[IF s < 4 THEN s ELSE s - 1]>>
(* ... and what status s contributes to them. *)
PacketsOf(s) == CASE s \in {0, 3} -> <<>>
                  [] s \in {1, 2} -> <<Protocol[s]>>
                  [] s \in 4..7   -> <<Protocol[s - 1]>>

(* A slip: the delay is counted in polls. *)
StatusTimerInPolls(s, parameter) ==
  Timer(Delay[s] * PollPeriod, "runArtNetStatus", parameter, FALSE)
StatusTimer(s, parameter) == Timer(Delay[s], "runArtNetStatus", parameter, FALSE)

(* oldArtDevice on one node: its tick went past DISCONNECTTICK, ...          *)
Expired(d) == d.connected /\ d.tick > DisconnectTick
(* A slip: the restart is decided with the constant of the disconnect. *)
AgedTooSoon(d) == IF d.oldTime + 1 > DisconnectTick
                  THEN NewDevice
                  ELSE [d EXCEPT !.tick = @ + 1, !.oldTime = @ + 1]
(* ... or it ages, and after OLDTICK polls it is put back to the beginning.  *)
Aged(d) == IF d.oldTime + 1 > OldTick
           THEN NewDevice
           ELSE [d EXCEPT !.tick = @ + 1, !.oldTime = @ + 1]

----------------------------------------------------------------------------
Init ==
  /\ dev = [ip \in IPs |-> NoDevice]
  /\ timers = <<Timer(PollPeriod, "time1CB", NoParameter, TRUE)>>
  /\ phase = "sleep"
  /\ cursor = 1
  /\ time1 = FALSE
  /\ packets = [ip \in IPs |-> <<>>]
  /\ isExit = {}

----------------------------------------------------------------------------
(* tcpip thread: artNetCB.                                                  *)

TcpipRuns == phase = "sleep" /\ ~time1

(* A device that is not in the table: addArtDevice links a new node, and the *)
(* first step of its handshake only asks for a timer.                        *)
Join(ip) ==
  /\ TcpipRuns
  /\ ~dev[ip].connected
  /\ dev' = [dev EXCEPT ![ip] = NextStatus(NewDevice)]
  /\ timers' = AppendTimer(timers, StatusTimer(0, ip))
  /\ packets' = [packets EXCEPT ![ip] = PacketsOf(0)]
  /\ UNCHANGED <<phase, cursor, time1, isExit>>

(* A slip: every reply runs the handshake, not only the first one. *)
RefreshAndStep(ip) ==
  /\ TcpipRuns
  /\ dev[ip].connected
  /\ dev' = [dev EXCEPT ![ip] = IF @.start THEN [@ EXCEPT !.tick = 0]
                                ELSE NextStatus([@ EXCEPT !.tick = 0])]
  /\ timers' = IF dev[ip].start THEN timers
               ELSE AppendTimer(timers, StatusTimer(dev[ip].status, ip))
  /\ UNCHANGED <<phase, cursor, time1, packets, isExit>>

(* A device that is in the table shows it is still there. *)
Refresh(ip) ==
  /\ TcpipRuns
  /\ dev[ip].connected
  /\ dev' = [dev EXCEPT ![ip].tick = 0]
  /\ UNCHANGED <<timers, phase, cursor, time1, packets, isExit>>

Reply(ip) == Join(ip) \/ Refresh(ip)

----------------------------------------------------------------------------
(* Server task: one pass of runTimerServer and one of sortTimerServer.      *)

ServerAt(p) == ~time1 /\ phase = p

(* OSTimeDlyHMSM(1 ms) returns. *)
WakeUp ==
  /\ ServerAt("sleep")
  /\ phase' = "run"
  /\ cursor' = 1
  /\ UNCHANGED <<dev, timers, time1, packets, isExit>>

AtNode == cursor <= Len(timers)

Count ==
  /\ ServerAt("run") /\ AtNode
  /\ ~Due(timers[cursor])
  /\ timers' = [timers EXCEPT ![cursor] = CountDown(@)]
  /\ cursor' = cursor + 1
  /\ UNCHANGED <<dev, phase, time1, packets, isExit>>

Expiry == [timers EXCEPT ![cursor] = Expire(@)]
FireAt(func) ==
  /\ ServerAt("run") /\ AtNode
  /\ Due(timers[cursor])
  /\ timers[cursor].func = func
  /\ cursor' = cursor + 1

(* time1CB: set the event bit and post the semaphore of the ArtNet task. *)
FirePoll ==
  /\ FireAt("time1CB")
  /\ timers' = Expiry
  /\ time1' = TRUE
  /\ UNCHANGED <<dev, phase, packets, isExit>>

(* The addresses a lookup with this pointer may find in the memory it points *)
(* to: a freed node may hold any address, or bytes that are none.            *)
Pointee(parameter) == IF parameter = Freed THEN IPs \cup {Freed} ELSE {parameter}

(* runArtNetStatus finds a device in the middle of its handshake: send what  *)
(* this status sends, ask for the next timer, enter the next status; the     *)
(* last status registers the device for DMX output.                          *)
StatusStep(ip) ==
  /\ FireAt("runArtNetStatus")
  /\ ip \in Pointee(timers[cursor].parameter)
  /\ Handshaking(ip)
  /\ timers' = AppendTimer(Expiry, StatusTimer(dev[ip].status, timers[cursor].parameter))
  /\ dev' = [dev EXCEPT ![ip] = NextStatus(@)]
  /\ packets' = [packets EXCEPT ![ip] = @ \o PacketsOf(dev[ip].status)]
  /\ isExit' = IF dev[ip].status = 7 THEN isExit \cup {ip} ELSE isExit
  /\ UNCHANGED <<phase, time1>>

(* runArtNetStatus finds no such device, or one that is already started. *)
StatusDone(ip) ==
  /\ FireAt("runArtNetStatus")
  /\ ip \in Pointee(timers[cursor].parameter)
  /\ ~Handshaking(ip)
  /\ timers' = Expiry
  /\ UNCHANGED <<dev, phase, time1, packets, isExit>>

EndRun ==
  /\ ServerAt("run") /\ ~AtNode
  /\ phase' = "sort"
  /\ cursor' = 1
  /\ UNCHANGED <<dev, timers, time1, packets, isExit>>

SortRemove ==
  /\ ServerAt("sort") /\ AtNode
  /\ timers[cursor].destroy
  /\ timers' = DeleteTimer(timers, cursor)
  /\ UNCHANGED <<dev, phase, cursor, time1, packets, isExit>>

SortKeep ==
  /\ ServerAt("sort") /\ AtNode
  /\ ~timers[cursor].destroy
  /\ cursor' = cursor + 1
  /\ UNCHANGED <<dev, timers, phase, time1, packets, isExit>>

EndSort ==
  /\ ServerAt("sort") /\ ~AtNode
  /\ phase' = "sleep"
  /\ cursor' = 1
  /\ UNCHANGED <<dev, timers, time1, packets, isExit>>

Server ==
  \/ WakeUp \/ Count \/ FirePoll \/ EndRun \/ SortRemove \/ SortKeep \/ EndSort
  \/ \E ip \in IPs : StatusStep(ip)
  \/ \E ip \in IPs \cup {Freed} : StatusDone(ip)

----------------------------------------------------------------------------
(* ArtNet task: the time1 event. It broadcasts an ArtPoll, to which every    *)
(* device may reply, and ages the table; free() leaves the timers that point *)
(* into a removed node with a dangling parameter.                            *)
PollAndAge ==
  LET gone == {ip \in IPs : Expired(dev[ip])} IN
  /\ time1
  /\ time1' = FALSE
  /\ dev' = [ip \in IPs |-> IF ip \in gone THEN NoDevice
                            ELSE IF dev[ip].connected THEN Aged(dev[ip]) ELSE dev[ip]]
  /\ timers' = [i \in DOMAIN timers |->
                  IF timers[i].parameter \in gone
                  THEN [timers[i] EXCEPT !.parameter = Freed] ELSE timers[i]]
  /\ UNCHANGED <<phase, cursor, packets, isExit>>

----------------------------------------------------------------------------
Next == Server \/ PollAndAge \/ \E ip \in IPs : Reply(ip)

(* The kernel keeps giving the processor to the tasks; the network owes      *)
(* nothing, so no reply is ever promised.                                    *)
Spec == Init /\ [][Next]_vars /\ WF_vars(Server) /\ WF_vars(PollAndAge)

----------------------------------------------------------------------------
(* Properties.                                                              *)

Device == [connected : BOOLEAN, status : Status, start : BOOLEAN, tick : Nat, oldTime : Nat]
TimerNode == [tick : Nat, saveTick : Nat \ {0}, func : {"time1CB", "runArtNetStatus"},
              parameter : IPs \cup {Freed, NoParameter}, reload : BOOLEAN, destroy : BOOLEAN]

Packet == {Protocol[k] : k \in 1..6}

(* Every variable has the shape the code's declarations give it. *)
TypeOK ==
  /\ dev \in [IPs -> Device]
  /\ timers \in Seq(TimerNode)
  /\ phase \in {"sleep", "run", "sort"}
  /\ cursor \in Nat \ {0}
  /\ time1 \in BOOLEAN
  /\ packets \in [IPs -> Seq(Packet)]
  /\ isExit \in SUBSET IPs

TimerOf(ip, i) == Armed(timers[i]) /\ timers[i].parameter = ip

(* runArtNetStatus re-arms itself, and artNetCB starts it again for an address  *)
(* that joined anew: the handshake of one device is never driven by two timers, *)
(* which would run through its states at double speed and never stop.           *)
OneTimerPerDevice ==
  \A ip \in IPs : \A i, j \in DOMAIN timers : TimerOf(ip, i) /\ TimerOf(ip, j) => i = j

(* A device that waits in the middle of its handshake has a timer to wake it.   *)
HandshakeArmed ==
  \A ip \in IPs : dev[ip].connected /\ dev[ip].status # 0
                   => \E i \in DOMAIN timers : TimerOf(ip, i)

(* The parameter of a timer points into a node of the table, which oldArtDevice *)
(* frees without a look at the timers: the handshake is over long before then.  *)
NoDanglingParameter == \A i \in DOMAIN timers : Armed(timers[i]) => timers[i].parameter # Freed

(* A device is sent each packet of the handshake once and in order, and is      *)
(* started exactly when it was sent them all.                                   *)
HandshakeInOrder ==
  \A ip \in IPs :
    /\ packets[ip] = SubSeq(Protocol, 1, Len(packets[ip]))
    /\ dev[ip].start => packets[ip] = Protocol

(* DMX output to an address begins in the step that ends a whole handshake.     *)
RegisteredAfterHandshake ==
  [][\A ip \in isExit' \ isExit : packets'[ip] = Protocol /\ dev'[ip].start]_vars

(* A device that began its handshake gets through it, unless it is dropped.     *)
HandshakeCompletes ==
  \A ip \in IPs : (dev[ip].connected /\ dev[ip].status # 0)
                   ~> (dev[ip].start \/ ~dev[ip].connected)

(* A device that has stopped replying is dropped from the table, whatever the   *)
(* restart of oldArtDevice does to its counters.                                *)
SilentDeviceLeaves ==
  \A ip \in IPs : <>[][~Reply(ip)]_vars => <>[](~dev[ip].connected)

(* ArtControl.c:7 says of OLDTICK that it "restarts the device" (in Chinese): a  *)
(* device of the table that is not started gets started or is dropped.          *)
RestartedDeviceStarts ==
  \A ip \in IPs : (dev[ip].connected /\ ~dev[ip].start)
                   ~> (dev[ip].start \/ ~dev[ip].connected)

============================================================================
