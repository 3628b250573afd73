--------------------------- MODULE NetworkStart ---------------------------
(***************************************************************************)
(* How the box gets its address and wakes the tasks that wait for it       *)
(* (USER/App/netconf.c on lwip-1.4.1/src/core/dhcp.c). By priority:        *)
(*   2 the ArtNet task      waits on semNetworkState, then boots           *)
(*   4 the server task      waits on semNetworkState                       *)
(*   5 LwIP_DHCP_task       looks at the client every 250 ms: StartClient, *)
(*                          KeepWaiting, Assigned, GiveUp                  *)
(*   6 Eth_if               takes the frames in: it sleeps 5 ms after each *)
(*                          and else asks for one again and again          *)
(*   7 the tcpip thread     runs the DHCP client, a step between two       *)
(*                          accesses to what it shares with LwIP_DHCP_task *)
(* A task is cut only by those above it: a round of LwIP_DHCP_task is one  *)
(* step to the tcpip thread, and comes between any two steps of that one,  *)
(* which moves only while Eth_if sleeps.                                   *)
(***************************************************************************)
EXTENDS Naturals

MAX_DHCP_TRIES == 4
MaxTries == 9     (* bound: the tries are counted up to here *)
Waiters == {"ArtNet", "Server"}
Addresses == {"none", "leased", "static"}

VARIABLES
  DHCP_state,   (* what LwIP_DHCP_task is at                                *)
  IPaddress,    (* what getIPAddress tells the ArtNet task                  *)
  ipaddr,       (* the address of the interface, gnetif.ip_addr             *)
  up,           (* its NETIF_FLAG_UP                                        *)
  state, tries, (* the client, gnetif.dhcp                                  *)
  request,      (* its request_timeout is running                           *)
  pcb,          (* it has its socket                                        *)
  tcpip, goal,  (* the step the tcpip thread is at, the state it goes to    *)
  overtaken,    (* history: what the stop of the client came into           *)
  task,         (* how far the two waiting tasks are                        *)
  semCtr,       (* the count of semNetworkState                             *)
  eth           (* Eth_if spins for a frame, or sleeps after one            *)

interface == <<ipaddr, up>>
client == <<state, tries, request, pcb>>
thread == <<tcpip, goal>>
waiters == <<task, semCtr>>
netVars == <<DHCP_state, IPaddress, interface, client, thread, overtaken, waiters, eth>>

(* The cable is in at power on, or it is not and nothing ever looks again:  *)
(* the function that would is not called.                                   *)
NetInit ==
  /\ DHCP_state \in {"START", "LINK_DOWN"}
  /\ IPaddress = "none" /\ ipaddr = "none" /\ up = (DHCP_state = "START")
  /\ state = "OFF" /\ tries = 0 /\ request = FALSE /\ pcb = FALSE
  /\ tcpip = "idle" /\ goal = "OFF" /\ overtaken = "nothing"
  /\ task = [t \in Waiters |-> "start"] /\ semCtr = 0
  /\ eth = "spin"

----------------------------------------------------------------------------
(* The tasks that wait for the network.                                     *)

(* OSSemPend without a limit of time. The server starts when the ArtNet     *)
(* task, above it, waits.                                                   *)
Pend(t) ==
  /\ task[t] = "start"
  /\ t = "Server" => task["ArtNet"] = "pend"
  /\ IF semCtr > 0
     THEN semCtr' = semCtr - 1 /\ task' = [task EXCEPT ![t] = "ready"]
     ELSE UNCHANGED semCtr /\ task' = [task EXCEPT ![t] = "pend"]
  /\ UNCHANGED <<DHCP_state, IPaddress, interface, client, thread, overtaken, eth>>

(* What the ArtNet task does when it is woken ends in its loop, or in a     *)
(* loop of its own for ever: it tests two pointers that nothing has set.    *)
ArtNetBoots(end) ==
  /\ task["ArtNet"] = "ready"
  /\ task' = [task EXCEPT !["ArtNet"] = end]
  /\ UNCHANGED <<DHCP_state, IPaddress, interface, client, thread, overtaken, semCtr, eth>>

(* The server goes on when the ArtNet task, above it, is in its loop.       *)
ServerRuns ==
  /\ task["Server"] = "ready" /\ task["ArtNet"] = "up"
  /\ task' = [task EXCEPT !["Server"] = "up"]
  /\ UNCHANGED <<DHCP_state, IPaddress, interface, client, thread, overtaken, semCtr, eth>>

(* The two are asleep: on the semaphore, or in their loops. *)
BelowRuns == \A t \in Waiters : task[t] \in {"pend", "up"}

----------------------------------------------------------------------------
(* Eth_if, above the tcpip thread and the sound task.                       *)

(* A frame is there: it is handed to the tcpip thread, and Eth_if sleeps.   *)
(* What the frame holds is left open, so the replies below may come in any  *)
(* of these sleeps or in none.                                              *)
Frame ==
  /\ BelowRuns /\ eth = "spin"
  /\ eth' = "sleep"
  /\ UNCHANGED <<DHCP_state, IPaddress, interface, client, thread, overtaken, waiters>>

(* The 5 ms are over: it asks for the next frame, and for as long as there  *)
(* is none it asks again at once.                                           *)
EthWakes ==
  /\ eth = "sleep"
  /\ eth' = "spin"
  /\ UNCHANGED <<DHCP_state, IPaddress, interface, client, thread, overtaken, waiters>>

LowestRun == BelowRuns /\ eth = "sleep"

----------------------------------------------------------------------------
(* LwIP_DHCP_task, every 250 ms.                                            *)

(* A slip: the post wakes the first waiter only. *)
PostToOne ==
  IF task["ArtNet"] = "pend"
  THEN task' = [task EXCEPT !["ArtNet"] = "ready"] /\ UNCHANGED semCtr
  ELSE semCtr' = semCtr + 1 /\ UNCHANGED task

(* OSSemPost with OS_OPT_POST_ALL: everyone who waits, or a count. *)
PostToAll ==
  IF \E t \in Waiters : task[t] = "pend"
  THEN task' = [t \in Waiters |-> IF task[t] = "pend" THEN "ready" ELSE task[t]] /\ UNCHANGED semCtr
  ELSE semCtr' = semCtr + 1 /\ UNCHANGED task

(* What the tcpip thread is at when LwIP_DHCP_task cuts in. *)
Underway ==
  CASE tcpip = "idle" -> "nothing" [] tcpip \in {"down", "unset"} -> "a return" [] OTHER -> "a step"

(* A slip: the client is told to stop and keeps its timer. *)
StopClientOnly ==
  /\ state' = "OFF" /\ tries' = 0 /\ pcb' = FALSE /\ UNCHANGED request
  /\ overtaken' = Underway

(* dhcp_stop, wherever the tcpip thread is in the client. *)
StopClient ==
  /\ state' = "OFF" /\ tries' = 0 /\ request' = FALSE /\ pcb' = FALSE
  /\ overtaken' = Underway

(* dhcp_start sends the first DISCOVER. *)
StartClient ==
  /\ BelowRuns /\ DHCP_state = "START"
  /\ DHCP_state' = "WAIT_ADDRESS"
  /\ IPaddress' = "none"
  /\ state' = "SELECTING" /\ tries' = 1 /\ request' = TRUE /\ pcb' = TRUE
  /\ UNCHANGED <<interface, thread, overtaken, waiters, eth>>

Waiting == BelowRuns /\ DHCP_state = "WAIT_ADDRESS"

KeepWaiting ==
  /\ Waiting /\ ipaddr = "none" /\ tries <= MAX_DHCP_TRIES
  /\ IPaddress' = ipaddr
  /\ UNCHANGED <<DHCP_state, interface, client, thread, overtaken, waiters, eth>>

(* A slip: the address is not kept for the others. *)
AssignedStale ==
  /\ Waiting /\ ipaddr # "none"
  /\ DHCP_state' = "ADDRESS_ASSIGNED"
  /\ StopClient
  /\ PostToAll
  /\ UNCHANGED <<IPaddress, interface, thread, eth>>

Assigned ==
  /\ Waiting /\ ipaddr # "none"
  /\ IPaddress' = ipaddr
  /\ DHCP_state' = "ADDRESS_ASSIGNED"
  /\ StopClient
  /\ PostToAll
  /\ UNCHANGED <<interface, thread, eth>>


(* The static address goes to the interface, which is not set up with it;   *)
(* IPaddress stays what it read.                                            *)
GiveUp ==
  /\ Waiting /\ ipaddr = "none" /\ tries > MAX_DHCP_TRIES
  /\ IPaddress' = ipaddr
  /\ DHCP_state' = "TIMEOUT"
  /\ StopClient
  /\ ipaddr' = "static"
  /\ PostToAll
  /\ UNCHANGED <<up, thread, eth>>

DhcpTask == StartClient \/ KeepWaiting \/ Assigned \/ GiveUp

----------------------------------------------------------------------------
(* The DHCP client in the tcpip thread. A datagram or a timer decides on    *)
(* the state to go to; the steps that take it there follow.                 *)

GoTo(step, s) ==
  /\ LowestRun /\ tcpip = "idle"
  /\ tcpip' = step /\ goal' = s
  /\ UNCHANGED <<DHCP_state, IPaddress, interface, state, tries, pcb, overtaken, waiters, eth>>

(* dhcp_recv: a reply comes through the socket and fits the state. *)
Offer == pcb /\ state = "SELECTING" /\ GoTo("set", "REQUESTING") /\ request' = FALSE

Ack ==
  /\ pcb
  /\ \/ state = "REQUESTING" /\ GoTo("set", "CHECKING")
     \/ state \in {"RENEWING", "REBINDING"} /\ GoTo("address", "BOUND")
  /\ UNCHANGED request

(* dhcp_handle_nak, which goes on to discover at once. *)
Nak ==
  /\ pcb /\ state \in {"REQUESTING", "RENEWING", "REBINDING"}
  /\ GoTo("down", "SELECTING")
  /\ UNCHANGED request

(* dhcp_arp_reply: another host has the address. *)
Conflict == state = "CHECKING" /\ GoTo("set", "BACKING_OFF") /\ UNCHANGED request

(* dhcp_coarse_tmr: the two times of a lease, which a stop leaves running.  *)
(* They count on from zero when no lease has set them, so they may go off   *)
(* in any of these states.                                                  *)
Lease(s) ==
  /\ state \in {"REQUESTING", "BOUND", "RENEWING"}
  /\ GoTo("set", s)
  /\ UNCHANGED request

LeaseTimers == Lease("RENEWING") \/ Lease("REBINDING")

(* dhcp_timeout.                                                            *)
Expire(step, s) == request /\ GoTo(step, s) /\ request' = FALSE

(* The fifth DISCOVER or REQUEST runs for 64 ticks of the fine timer. lwIP  *)
(* may count a tick too many with each message to its thread, that is one   *)
(* in 5 ms, and still a round of LwIP_DHCP_task, which gives up, is first.  *)
InTime == DHCP_state = "WAIT_ADDRESS" => tries <= MAX_DHCP_TRIES

Rediscover == state \in {"SELECTING", "BACKING_OFF"} /\ InTime /\ Expire("set", "SELECTING")
Reselect == state = "REQUESTING" /\ tries <= 5 /\ InTime /\ Expire("set", "REQUESTING")
Recheck == state = "CHECKING" /\ tries <= 1 /\ Expire("set", "CHECKING")
Bind == state = "CHECKING" /\ tries > 1 /\ Expire("address", "BOUND")
Renew == state = "RENEWING" /\ Expire("set", "RENEWING")
Rebind == state = "REBINDING" /\ tries <= 8 /\ Expire("set", "REBINDING")

Idle == tcpip' = "idle" /\ goal' = "OFF"

(* netif_set_ipaddr in dhcp_bind, and in dhcp_handle_nak. *)
SetAddress ==
  /\ LowestRun
  /\ \/ tcpip = "address" /\ ipaddr' = "leased" /\ tcpip' = "up"
     \/ tcpip = "unset" /\ ipaddr' = "none" /\ tcpip' = "set"
  /\ UNCHANGED <<DHCP_state, IPaddress, up, client, goal, overtaken, waiters, eth>>

(* netif_set_up, after the address in dhcp_bind, and netif_set_down, before *)
(* it in dhcp_handle_nak.                                                   *)
SetFlag ==
  /\ LowestRun
  /\ \/ tcpip = "up" /\ up' = TRUE /\ tcpip' = "set"
     \/ tcpip = "down" /\ up' = FALSE /\ tcpip' = "unset"
  /\ UNCHANGED <<DHCP_state, IPaddress, ipaddr, client, goal, overtaken, waiters, eth>>

(* A slip: the tries are not counted from zero in a new state. *)
SetStateOnly ==
  /\ LowestRun /\ tcpip = "set"
  /\ state' = goal
  /\ IF goal = "BOUND" THEN Idle ELSE tcpip' = "send" /\ UNCHANGED goal
  /\ UNCHANGED <<DHCP_state, IPaddress, interface, tries, request, pcb, overtaken, waiters, eth>>

(* dhcp_set_state: a state that is new resets the tries and the timer. *)
SetState ==
  /\ LowestRun /\ tcpip = "set"
  /\ state' = goal
  /\ tries' = IF state = goal THEN tries ELSE 0
  /\ request' = (state = goal /\ request)
  /\ IF goal = "BOUND" THEN Idle ELSE tcpip' = "send" /\ UNCHANGED goal
  /\ UNCHANGED <<DHCP_state, IPaddress, interface, pcb, overtaken, waiters, eth>>

(* The message goes out and the request runs. Only the ARP query of         *)
(* CHECKING does without the socket: what comes of a message sent through   *)
(* the one that dhcp_stop removed is undefined, and the thread ends there.  *)
Send ==
  /\ LowestRun /\ tcpip = "send"
  /\ IF pcb \/ goal = "CHECKING"
     THEN tries' = (IF tries < MaxTries THEN tries + 1 ELSE tries) /\ request' = TRUE /\ Idle
     ELSE tcpip' = "undefined" /\ goal' = "OFF" /\ UNCHANGED <<tries, request>>
  /\ UNCHANGED <<DHCP_state, IPaddress, interface, state, pcb, overtaken, waiters, eth>>

TcpipStep == SetAddress \/ SetFlag \/ SetState \/ Send
TcpipTimer == Rediscover \/ Reselect \/ Recheck \/ Bind \/ Renew \/ Rebind
Refused == Nak \/ Conflict
TcpipThread == Offer \/ Ack \/ Refused \/ LeaseTimers \/ TcpipTimer \/ TcpipStep

----------------------------------------------------------------------------
NetNext ==
  \/ \E t \in Waiters : Pend(t)
  \/ \E end \in {"up", "stuck"} : ArtNetBoots(end)
  \/ ServerRuns
  \/ DhcpTask
  \/ Frame
  \/ EthWakes
  \/ TcpipThread

----------------------------------------------------------------------------
(* The properties.                                                          *)

ClientStates == {"OFF", "SELECTING", "REQUESTING", "CHECKING", "BACKING_OFF", "BOUND", "RENEWING", "REBINDING"}

(* The tries of a request for a new lease stay within those that the wait   *)
(* for one allows, and the one that ends it.                                *)
NetTypeOK ==
  /\ DHCP_state \in {"START", "WAIT_ADDRESS", "ADDRESS_ASSIGNED", "TIMEOUT", "LINK_DOWN"}
  /\ IPaddress \in Addresses /\ ipaddr \in Addresses /\ up \in BOOLEAN
  /\ state \in ClientStates /\ goal \in ClientStates
  /\ tries \in 0 .. MaxTries
  /\ state \notin {"RENEWING", "REBINDING"} => tries <= MAX_DHCP_TRIES + 1
  /\ request \in BOOLEAN /\ pcb \in BOOLEAN
  /\ tcpip \in {"idle", "address", "up", "down", "unset", "set", "send", "undefined"}
  /\ overtaken \in {"nothing", "a return", "a step"}
  /\ task \in [Waiters -> {"start", "pend", "ready", "up", "stuck"}]
  /\ semCtr \in Nat /\ eth \in {"spin", "sleep"}

Settled == DHCP_state \in {"ADDRESS_ASSIGNED", "TIMEOUT"}

(* When the wait for an address ends, nobody is left waiting and no count   *)
(* is left over: both tasks were at the semaphore when it was posted, and   *)
(* the one post woke them both.                                             *)
AllToldOnce == semCtr = 0 /\ (Settled => \A t \in Waiters : task[t] \notin {"start", "pend"})

(* With a lease, the address the ArtNet task makes its broadcasts from is   *)
(* the one of the interface, and the interface is up, also after a lease    *)
(* that was refused before. Not so when LwIP_DHCP_task took the lease while *)
(* the client was giving it back, nor after a message through the socket    *)
(* that was removed: a client that was stopped before it was BOUND goes on  *)
(* to BOUND, and sends one when the time of the lease comes.                *)
LeaseInUse ==
  DHCP_state = "ADDRESS_ASSIGNED" /\ overtaken # "a return" /\ tcpip # "undefined" =>
    /\ IPaddress = "leased" /\ ipaddr = "leased"
    /\ tcpip = "idle" => up

(* Once LwIP_DHCP_task has stopped the client it stays stopped and the      *)
(* address stays, unless the stop came in the middle of one of its steps.   *)
StopsUnlessOvertaken ==
  Settled /\ overtaken = "nothing" =>
    /\ state = "OFF" /\ ~request /\ ~pcb /\ tcpip = "idle"
    /\ ipaddr = IF DHCP_state = "TIMEOUT" THEN "static" ELSE "leased"
=============================================================================
