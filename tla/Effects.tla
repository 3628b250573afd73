------------------------------ MODULE Effects ------------------------------
(***************************************************************************)
(* The effects (ArtNet/Model*.c) as the ArtNet task runs them: a message   *)
(* of the key panel changes the type and subtype (setModelType) and then   *)
(* the settings (setCurrentData); every 50 ms the effect of the moment     *)
(* runs. An effect paints with what setPaint was last given, a pointer     *)
(* that outlives the effect that set it. A type selects one of three       *)
(* groups, each of which remembers its own effect. The steps of the        *)
(* message handler are those between which the interrupt of the recorder   *)
(* sees a difference; the sound task runs when the ArtNet task waits.      *)
(***************************************************************************)
EXTENDS Sound, Naturals

CONSTANT Messages   (* the types and subtypes the panel asks for *)

ASSUME EffectsAssumption ==
  /\ Messages \subseteq Nat \X Nat
  (* getModelNormal indexes its table with what it was given *)
  /\ \A m \in Messages : m[1] = 1 => m[2] <= 4

(* MODELTYPE, and the tables of the three groups. *)
Group == <<"Normal", "KTV", "Techo">>
NormalEffects == <<"Normal_Soft", "Normal_Romatic", "Normal_Breath", "Normal_HeartBeat">>
KTVEffects == <<"KTV_Soft", "KTV_Romatic", "KTV_Rythem", "KTV_Dynamic">>
TechoEffects == <<"DubStep", "Trance", "Electp", "DeepHouse">>
Effect == [Normal |-> NormalEffects, KTV |-> KTVEffects, Techo |-> TechoEffects]
Groups == DOMAIN Effect
Techo == {"DubStep", "Trance", "Electp", "DeepHouse"}

(* What the effects do in setUp: some record, all but two set their paint.  *)
Records == Techo \cup {"KTV_Rythem", "KTV_Dynamic"}
SetsNoPaint == {"Normal_Breath", "KTV_Soft"}

VARIABLES
  modeltype, subType,   (* what was asked for last                          *)
  model,                (* the group of the moment                          *)
  current,              (* the effect of each group                         *)
  paint,                (* the effect whose paint is set; "stack" when it   *)
                        (* was a local of a call that has returned          *)
  handler               (* where the handler of a message is                *)

effectVars == <<modeltype, subType, model, current, paint, handler>>

Now == current[model]

(* initModel sets up Normal_Soft; before it waits for the network, the      *)
(* ArtNet task goes on to the first effect of KTV, which sets no paint.     *)
EffectsInit ==
  /\ modeltype = 2 /\ subType = 0
  /\ model = "KTV"
  /\ current = [g \in Groups |-> Effect[g][1]]
  /\ paint = "Normal_Soft"
  /\ handler = "idle"

----------------------------------------------------------------------------
(* A message: setModelType, then setCurrentData twice.                      *)

Message(m) ==
  LET sub == IF m[2] = 0 THEN 0 ELSE m[2] - 1 IN
  /\ handler = "idle"
  /\ IF modeltype = m[1] /\ subType = sub
     THEN handler' = "setting" /\ UNCHANGED <<modeltype, subType>>
     ELSE modeltype' = m[1] /\ subType' = sub /\ handler' = "destroy"
  /\ UNCHANGED <<model, current, paint, soundVars>>

(* A slip: the effect that goes leaves the recorder as it is. *)
DestroyNothing ==
  /\ handler = "destroy"
  /\ handler' = "choose"
  /\ UNCHANGED <<modeltype, subType, model, current, paint, soundVars>>

Destroy ==
  /\ handler = "destroy"
  /\ handler' = "choose"
  /\ IF Now \in Records THEN SetSound(FALSE) ELSE UNCHANGED <<enable, event, crossed>>
  /\ UNCHANGED <<modeltype, subType, model, current, paint, runCB, soundTask>>

(* A type that is not known leaves the group, a subtype that is not in the  *)
(* table leaves its effect.                                                 *)
Choose ==
  /\ handler = "choose"
  /\ handler' = "setUp"
  /\ IF modeltype \in DOMAIN Group
     THEN LET g == Group[modeltype] IN
          /\ model' = g
          /\ current' = IF subType < 4 THEN [current EXCEPT ![g] = Effect[g][subType + 1]] ELSE current
     ELSE UNCHANGED <<model, current>>
  /\ UNCHANGED <<modeltype, subType, paint, soundVars>>

SetUp ==
  /\ handler = "setUp"
  /\ handler' = IF Now \in Records THEN "record" ELSE "setting"
  /\ paint' = IF Now \in SetsNoPaint THEN paint ELSE Now
  /\ runCB' = IF Now \in Records THEN Now ELSE runCB
  /\ UNCHANGED <<modeltype, subType, model, current, enable, event, soundTask, crossed>>

Record ==
  /\ handler = "record"
  /\ handler' = "setting"
  /\ SetSound(TRUE)
  /\ UNCHANGED <<modeltype, subType, model, current, paint, runCB, soundTask>>

(* Only the effects of Techo touch the recorder with a setting. *)
Setting ==
  /\ handler = "setting"
  /\ handler' = "idle"
  /\ IF Now \in Techo
     THEN runCB' = Now /\ SetSound(TRUE)
     ELSE UNCHANGED <<runCB, enable, event, crossed>>
  /\ UNCHANGED <<modeltype, subType, model, current, paint, soundTask>>

Handler == (\E m \in Messages : Message(m)) \/ Destroy \/ Choose \/ SetUp \/ Record \/ Setting

(* A slip: every effect is left with its own paint, Normal_Soft with the    *)
(* local one. *)
PaintLeftByAny == {"stack"}

(* What runModel leaves set: each turn of Normal_Soft draws with one paint  *)
(* of its own or ends with one of its locals; Breath sets its own; KTV_Soft *)
(* does not touch it; the others put their own back.                        *)
PaintLeft ==
  CASE Now = "Normal_Soft" -> {"Normal_Soft", "stack"}
    [] Now = "KTV_Soft" -> {paint}
    [] OTHER -> {Now}

RunModel ==
  /\ handler = "idle"
  /\ paint' \in PaintLeft
  /\ UNCHANGED <<modeltype, subType, model, current, handler, soundVars>>

(* The sound task, when the ArtNet task waits. *)
SoundTask == handler = "idle" /\ RunSound /\ UNCHANGED effectVars

EffectsNext == Handler \/ RunModel \/ SoundTask

----------------------------------------------------------------------------
(* The properties.                                                          *)

EffectsTypeOK ==
  /\ SoundTypeOK
  /\ modeltype \in Nat /\ subType \in Nat
  /\ model \in Groups
  /\ \A g \in Groups : \E i \in 1 .. 4 : current[g] = Effect[g][i]
  /\ handler \in {"idle", "destroy", "choose", "setUp", "record", "setting"}

(* Whenever the recorder may interrupt with enable set, the callback is     *)
(* that of the effect of the moment, through every step of a change from    *)
(* one effect to another, the recorder of the old one still running; and    *)
(* between two messages enable is what that effect wants.                   *)
CallbackFits ==
  /\ enable => runCB = Now /\ Now \in Records
  /\ handler = "idle" => enable = (Now \in Records)

(* Between two messages an effect has its own paint set, or one of its own  *)
(* locals that it sets anew before it draws. Two are told apart: Breath and *)
(* KTV_Soft have whatever the effect before them left. KTV_Soft clears its  *)
(* screen in setUp with it, and after Normal_Soft that may be a local       *)
(* variable of a call that has returned.                                    *)
DrawsWithItsPaint ==
  handler = "idle" /\ Now \notin SetsNoPaint =>
    paint = Now \/ (Now = "Normal_Soft" /\ paint = "stack")
=============================================================================
