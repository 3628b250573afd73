------------------------------- MODULE Sound -------------------------------
(***************************************************************************)
(* The sound driver (USER/Bsp/wm8978/bsp_sound.c). An effect that follows  *)
(* the music sets its callback (setSoundCB) and switches the recorder on   *)
(* and off (setSound) from the ArtNet task; the sound task, the lowest of  *)
(* all, does the switching; the interrupt of the recorder calls the        *)
(* callback when enable is set, without a look at what it points to.       *)
(* Requests are bits of event, which both tasks change by a load and a     *)
(* store. The sound task is cut by the ArtNet task between any two of its  *)
(* steps, never the other way round. The bits 4 and 8 are set by nobody:   *)
(* the interrupt that would is left off by StartRecord.                    *)
(***************************************************************************)
CONSTANT NoCB   (* NULL *)

VARIABLES
  enable,      (* what was asked for last                                   *)
  event,       (* the requests not served: "off" is bit 1, "on" is bit 2    *)
  runCB,       (* the callback, by the effect it belongs to                 *)
  recording,   (* the recorder runs and interrupts                          *)
  sound,       (* where the sound task is                                   *)
  loaded,      (* what it loaded from event                                 *)
  crossed      (* history: the last request crossed one being served, or    *)
               (* overtook one that was waiting                             *)

soundTask == <<recording, sound, loaded>>
soundVars == <<enable, event, runCB, soundTask, crossed>>

SoundInit ==
  /\ enable = FALSE /\ event = {} /\ runCB = NoCB
  /\ recording = FALSE /\ sound = "pend" /\ loaded = {}
  /\ crossed = FALSE

----------------------------------------------------------------------------
(* Called by the ArtNet task.                                               *)

Request(on) == IF on THEN "on" ELSE "off"

(* The request comes while a bit is being cleared, or the opposite one      *)
(* still waits and will be served after it.                                 *)
OffNext == sound \in {"pend", "start"}
Crosses(on) ==
  \/ sound \in {"storeOff", "storeOn"}
  \/ on /\ "off" \in event /\ ~OffNext
  \/ ~on /\ "on" \in event /\ OffNext

(* A slip: a request is dropped when another one waits. *)
SetSoundIfFree(on) ==
  IF on = enable
  THEN UNCHANGED <<enable, event, crossed>>
  ELSE /\ enable' = on
       /\ event' = IF event = {} THEN {Request(on)} ELSE event
       /\ crossed' = Crosses(on)

(* The post wakes the sound task, which wakes by itself after a second too. *)
SetSound(on) ==
  IF on = enable
  THEN UNCHANGED <<enable, event, crossed>>
  ELSE /\ enable' = on
       /\ event' = event \cup {Request(on)}
       /\ crossed' = Crosses(on)

----------------------------------------------------------------------------
(* runSound: it looks for "off" first, then for "on".                       *)

(* The bit is tested and the byte loaded to clear it ... *)
Look(place, request, store, next) ==
  /\ sound = place
  /\ IF request \in event
     THEN sound' = store /\ loaded' = event
     ELSE sound' = next /\ UNCHANGED loaded
  /\ UNCHANGED <<enable, event, runCB, recording, crossed>>

(* ... and stored without it, whatever was set in between. *)
Clear(store, request, serve) ==
  /\ sound = store
  /\ event' = loaded \ {request}
  /\ sound' = serve
  /\ loaded' = {}
  /\ UNCHANGED <<enable, runCB, recording, crossed>>

Serve(serve, on, next) ==
  /\ sound = serve
  /\ recording' = on
  /\ sound' = next
  /\ UNCHANGED <<enable, event, runCB, loaded, crossed>>

(* A slip: "on" is looked for first. *)
RunSoundOnFirst ==
  \/ Look("pend", "on", "storeOn", "lookOn") \/ Clear("storeOn", "on", "start") \/ Serve("start", TRUE, "lookOn")
  \/ Look("lookOn", "off", "storeOff", "pend") \/ Clear("storeOff", "off", "stop") \/ Serve("stop", FALSE, "pend")

RunSound ==
  \/ Look("pend", "off", "storeOff", "lookOn")
  \/ Clear("storeOff", "off", "stop")
  \/ Serve("stop", FALSE, "lookOn")
  \/ Look("lookOn", "on", "storeOn", "pend")
  \/ Clear("storeOn", "on", "start")
  \/ Serve("start", TRUE, "pend")

----------------------------------------------------------------------------
(* The properties.                                                          *)

SoundTypeOK ==
  /\ enable \in BOOLEAN /\ recording \in BOOLEAN /\ crossed \in BOOLEAN
  /\ event \subseteq {"on", "off"} /\ loaded \subseteq {"on", "off"}
  /\ sound \in {"pend", "storeOff", "stop", "lookOn", "storeOn", "start"}

(* When the sound task waits and nothing is asked of it, the recorder runs  *)
(* or stands as it was asked to last. Not so when that request came while   *)
(* the task was clearing a bit, which loses it, or when it took back a      *)
(* request that still waited: the two are served the wrong way round.       *)
RecorderAsAsked == sound = "pend" /\ event = {} /\ ~crossed => recording = enable
=============================================================================
