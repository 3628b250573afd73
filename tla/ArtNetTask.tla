---------------------------- MODULE ArtNetTask ----------------------------
(***************************************************************************)
(* How the ArtNet task (runArtNet, ArtNet/ArtNet.c) is told what to do.    *)
(* Two others set a bit of taskEvent and post a counting semaphore:        *)
(*   the server task    time1CB, time2CB, time3CB: Load, Store, PostEvent  *)
(*   the USART interrupt keyListener, with a message: KeyInterrupt         *)
(* taskEvent is a plain byte: a task changes it by a load and a store.     *)
(* The ArtNet task is above the server task, so the server runs only while *)
(* it is blocked; the interrupt comes between any two steps and is not     *)
(* preempted.                                                              *)
(***************************************************************************)
EXTENDS Naturals, Sequences

CONSTANTS
  Modes, Values,   (* what a key message asks for: a model and its data      *)
  NoKey,           (* keyMsg and settings before the first message           *)
  MaxPosts         (* bound: posts the semaphore counts at once              *)

ASSUME TaskAssumption == NoKey \notin Modes \cup Values /\ MaxPosts \in Nat \ {0}

(* The bits of taskEvent in the order in which runArtNet looks at them. *)
Events == <<"Time1", "Time2", "Calculate", "Keyboard">>
TimeEvents == {"Time1", "Time2", "Calculate"}

VARIABLES
  taskEvent,   (* the bits that are set                                      *)
  Ctr,         (* the count of semArtNetOperator                             *)
  pc, at,      (* where the ArtNet task is, and the event it is at           *)
  reg,         (* what it loaded from taskEvent                              *)
  srv,         (* where a callback in the server task is                     *)
  srvEvent,    (* the event it sets                                          *)
  srvReg,      (* what it loaded from taskEvent                              *)
  keyMsg,      (* the message that was received last                         *)
  settings,    (* the model and data in use                                  *)
  owed,        (* history: the time events set and not handled since         *)
  overtaken    (* history: the last message's bit fell to a store            *)

vars == <<taskEvent, Ctr, pc, at, reg, srv, srvEvent, srvReg, keyMsg, settings, owed, overtaken>>

Blank == [mode |-> NoKey, value |-> NoKey]

Init ==
  /\ taskEvent = {}
  /\ Ctr = 0
  /\ pc = "pend" /\ at = 1 /\ reg = {}
  /\ srv = "idle" /\ srvEvent = "Time1" /\ srvReg = {}
  /\ keyMsg = Blank /\ settings = Blank
  /\ owed = {} /\ overtaken = FALSE

(* A slip: a post that finds nobody waiting is forgotten. *)
PostToWaiter ==
  /\ Ctr' = Ctr
  /\ IF pc = "blocked" THEN pc' = "check" /\ at' = 1 ELSE UNCHANGED <<pc, at>>

(* OSSemPost: the waiting task becomes ready, or the post is counted. *)
Post ==
  IF pc = "blocked"
  THEN pc' = "check" /\ at' = 1 /\ UNCHANGED Ctr
  ELSE Ctr' = Ctr + 1 /\ UNCHANGED <<pc, at>>

----------------------------------------------------------------------------
(* The ArtNet task.                                                         *)

(* OSSemPend takes a counted post, or waits for one. *)
Pend ==
  /\ pc = "pend"
  /\ \/ Ctr > 0 /\ Ctr' = Ctr - 1 /\ pc' = "check" /\ at' = 1
     \/ Ctr = 0 /\ pc' = "blocked" /\ UNCHANGED <<Ctr, at>>
  /\ UNCHANGED <<taskEvent, reg, srv, srvEvent, srvReg, keyMsg, settings, owed, overtaken>>

(* A slip: the loop over the events has one turn too many. *)
NextEventRunsOver == IF at = 5 THEN pc' = "pend" /\ at' = at ELSE pc' = "check" /\ at' = at + 1
NextEvent == IF at = 4 THEN pc' = "pend" /\ at' = at ELSE pc' = "check" /\ at' = at + 1

Skip ==
  /\ pc = "check"
  /\ Events[at] \notin taskEvent
  /\ NextEvent
  /\ UNCHANGED <<taskEvent, Ctr, reg, srv, srvEvent, srvReg, keyMsg, settings, owed, overtaken>>

(* clear...Event() loads the byte ... *)
LoadBits ==
  /\ pc = "check"
  /\ Events[at] \in taskEvent
  /\ reg' = taskEvent
  /\ pc' = "clear"
  /\ UNCHANGED <<taskEvent, Ctr, at, srv, srvEvent, srvReg, keyMsg, settings, owed, overtaken>>

(* ... and stores it without the bit, whatever was set in between. *)
StoreBits ==
  /\ pc = "clear"
  /\ taskEvent' = reg \ {Events[at]}
  /\ pc' = "handle"
  /\ owed' = owed \ {Events[at]}
  /\ overtaken' = (overtaken \/ "Keyboard" \in taskEvent \ reg)
  /\ UNCHANGED <<Ctr, at, reg, srv, srvEvent, srvReg, keyMsg, settings>>

(* The poll, the DMX frame, the run of the model: none touches this state. *)
HandleTime ==
  /\ pc = "handle" /\ Events[at] # "Keyboard"
  /\ NextEvent
  /\ UNCHANGED <<taskEvent, Ctr, reg, srv, srvEvent, srvReg, keyMsg, settings, owed, overtaken>>

(* The keyboard event reads the message piece by piece: the model first ... *)
ApplyMode ==
  /\ pc = "handle" /\ Events[at] = "Keyboard"
  /\ settings' = [settings EXCEPT !.mode = keyMsg.mode]
  /\ pc' = "data"
  /\ UNCHANGED <<taskEvent, Ctr, at, reg, srv, srvEvent, srvReg, keyMsg, owed, overtaken>>

(* ... and then its data. *)
ApplyValue ==
  /\ pc = "data"
  /\ settings' = [settings EXCEPT !.value = keyMsg.value]
  /\ NextEvent
  /\ UNCHANGED <<taskEvent, Ctr, reg, srv, srvEvent, srvReg, keyMsg, owed, overtaken>>

ArtNet == Pend \/ Skip \/ LoadBits \/ StoreBits \/ HandleTime \/ ApplyMode \/ ApplyValue

----------------------------------------------------------------------------
(* The server task: one of the three callbacks.                             *)

(* A slip: the server task is given the priority of the ArtNet task. *)
ServerAlwaysRuns == TRUE
ServerRuns == pc = "blocked"

Load(e) ==
  /\ ServerRuns /\ srv = "idle"
  /\ srv' = "store" /\ srvEvent' = e /\ srvReg' = taskEvent
  /\ UNCHANGED <<taskEvent, Ctr, pc, at, reg, keyMsg, settings, owed, overtaken>>

Store ==
  /\ ServerRuns /\ srv = "store"
  /\ srv' = "post"
  /\ taskEvent' = srvReg \cup {srvEvent}
  /\ owed' = owed \cup {srvEvent}
  /\ UNCHANGED <<Ctr, pc, at, reg, srvEvent, srvReg, keyMsg, settings, overtaken>>

PostEvent ==
  /\ ServerRuns /\ srv = "post"
  /\ srv' = "idle"
  /\ Post
  /\ UNCHANGED <<taskEvent, reg, srvEvent, srvReg, keyMsg, settings, owed, overtaken>>

Callback == Store \/ PostEvent

----------------------------------------------------------------------------
(* A slip: the bit is set and the post left to the next time event. *)
KeyInterruptUnposted(m) ==
  /\ Ctr < MaxPosts
  /\ keyMsg' = m
  /\ taskEvent' = taskEvent \cup {"Keyboard"}
  /\ overtaken' = FALSE
  /\ UNCHANGED <<Ctr, pc, at, reg, srv, srvEvent, srvReg, settings, owed>>

(* A slip: the interrupt assigns the byte instead of setting its bit. *)
KeyInterruptAssigns(m) ==
  /\ Ctr < MaxPosts
  /\ keyMsg' = m
  /\ taskEvent' = {"Keyboard"}
  /\ Post
  /\ overtaken' = FALSE
  /\ UNCHANGED <<reg, srv, srvEvent, srvReg, settings, owed>>

(* keyListener, in the USART interrupt: the last byte of a message came. *)
KeyInterrupt(m) ==
  /\ Ctr < MaxPosts
  /\ keyMsg' = m
  /\ taskEvent' = taskEvent \cup {"Keyboard"}
  /\ Post
  /\ overtaken' = FALSE
  /\ UNCHANGED <<reg, srv, srvEvent, srvReg, settings, owed>>

Messages == [mode : Modes, value : Values]

Next ==
  \/ ArtNet
  \/ Callback
  \/ \E e \in TimeEvents : Load(e)
  \/ \E m \in Messages : KeyInterrupt(m)

(* Both tasks get the processor; nobody has to press a key. *)
Spec == Init /\ [][Next]_vars /\ WF_vars(ArtNet) /\ WF_vars(Callback)

----------------------------------------------------------------------------
(* Properties.                                                              *)

Bits == SUBSET {Events[k] : k \in 1..4}
Settings == [mode : Modes \cup {NoKey}, value : Values \cup {NoKey}]

(* Every variable has its type. *)
TypeOK ==
  /\ taskEvent \in Bits /\ reg \in Bits /\ srvReg \in Bits
  /\ Ctr \in Nat
  /\ pc \in {"pend", "blocked", "check", "clear", "handle", "data"}
  /\ at \in 1..4
  /\ srv \in {"idle", "store", "post"} /\ srvEvent \in TimeEvents
  /\ keyMsg \in Settings /\ settings \in Settings
  /\ owed \in SUBSET TimeEvents
  /\ overtaken \in BOOLEAN

(* The ArtNet task never goes to sleep on a poll, a frame or a calculation: at  *)
(* most the one whose callback is about to post the semaphore is outstanding.   *)
NothingOwedAtRest ==
  pc = "blocked" => owed \subseteq (IF srv = "post" THEN {srvEvent} ELSE {})

(* A message that came in is what is in use once the ArtNet task is at rest,    *)
(* though it may be read in two halves and be replaced in between; only one     *)
(* whose bit fell to a store of the ArtNet task waits for the next message.     *)
KeyInUseAtRest ==
  pc = "blocked" /\ keyMsg # Blank => settings = keyMsg \/ overtaken

(* A bit that is set while the ArtNet task is at rest is the one just stored by *)
(* the callback: no stale byte brings an event back.                            *)
NoStaleBit ==
  [][srv = "store" /\ srv' = "post" => taskEvent' = {srvEvent}]_vars

(* Every time event is handled. *)
EventsHandled == \A e \in TimeEvents : e \in owed ~> e \notin owed

(* Every message comes into use, unless it is overtaken or another one comes.   *)
MessageTakesEffect ==
  \A m \in Messages : keyMsg = m ~> (settings = m \/ overtaken \/ keyMsg # m)

============================================================================
