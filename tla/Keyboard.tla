----------------------------- MODULE Keyboard -----------------------------
(***************************************************************************)
(* The key panel on the serial line (USER/Server/Keyboard.c). A message is *)
(* sent as Sync Sync len parameter[0] .. parameter[len - 1]; the receive   *)
(* interrupt runs keyboardListener with each byte: it looks for the next   *)
(* message whatever it was left with by the one before. The panel and the  *)
(* line, which loses bytes, are outside the program.                       *)
(***************************************************************************)
EXTENDS Naturals, Sequences

CONSTANTS
  KEYMAX,   (* the longest message, Keyboard.h                              *)
  Sync,     (* the byte 0xa5                                                *)
  Frames    (* what the panel sends: the parameters of a message            *)

(* Bound on the inputs: no parameter is 0xa5. A panel that repeats a        *)
(* message with such a parameter may never be understood.                   *)
ASSUME KeyboardAssumption ==
  /\ KEYMAX \in Nat \ {0}
  /\ Sync \in Nat /\ Sync > KEYMAX
  /\ Frames \subseteq {f \in Seq(Nat \ {Sync}) : Len(f) \in 1 .. KEYMAX}

Bytes == {Sync} \cup {Len(f) : f \in Frames} \cup UNION {{f[i] : i \in 1 .. Len(f)} : f \in Frames}

VARIABLES
  status, len, index,   (* the parser's place                               *)
  msg,                  (* the message it fills                             *)
  pListener,            (* a listener is registered                         *)
  frame, todo,          (* the panel: what it sends, the bytes still to go  *)
  whole,                (* history: the frames in a row no byte of which    *)
                        (* was lost, this one included, counted to 4        *)
  got                   (* history: what was delivered since frame began    *)

parser == <<status, len, index, msg>>
keyVars == <<parser, pListener, frame, todo, whole, got>>

KeyInit ==
  /\ status = 0 /\ len = 0 /\ index = 0
  /\ msg = [len |-> 0, parameter |-> [i \in 0 .. KEYMAX - 1 |-> 0]]
  /\ pListener = FALSE
  /\ frame = <<>> /\ todo = <<>> /\ whole = 0 /\ got = <<>>

----------------------------------------------------------------------------
(* keyboardListener, one disjunct for each value of status.                 *)

FindSync(b) ==
  /\ status \in {0, 1}
  /\ status' = IF b = Sync THEN status + 1 ELSE status
  /\ UNCHANGED <<len, index, msg, got>>

(* A slip: a length that is too long is taken. *)
TakeAnyLength(b) ==
  /\ status = 2
  /\ len' = b /\ msg' = [msg EXCEPT !.len = b] /\ index' = 0
  /\ status' = IF b > 0 THEN 3 ELSE 0
  /\ UNCHANGED got

(* A slip: a message without parameters is taken. *)
TakeNoLength(b) ==
  /\ status = 2
  /\ len' = b /\ msg' = [msg EXCEPT !.len = b] /\ index' = 0
  /\ status' = IF b <= KEYMAX THEN 3 ELSE 0
  /\ UNCHANGED got

TakeLength(b) ==
  /\ status = 2
  /\ len' = b /\ msg' = [msg EXCEPT !.len = b] /\ index' = 0
  /\ status' = IF b \in 1 .. KEYMAX THEN 3 ELSE 0
  /\ UNCHANGED got

(* A slip: the listener is called before the last parameter is stored. *)
DeliverEarly(b) ==
  /\ status = 3
  /\ msg' = [msg EXCEPT !.parameter[index] = b]
  /\ index' = index + 1 /\ len' = len - 1
  /\ status' = IF len = 1 THEN 0 ELSE 3
  /\ got' = IF len = 1 /\ pListener THEN Append(got, msg) ELSE got

(* The listener is called with the message: what it can see of it is its    *)
(* length and every parameter, those of earlier messages included.          *)
TakeParameter(b) ==
  /\ status = 3
  /\ msg' = [msg EXCEPT !.parameter[index] = b]
  /\ index' = index + 1 /\ len' = len - 1
  /\ status' = IF len = 1 THEN 0 ELSE 3
  /\ got' = IF len = 1 /\ pListener THEN Append(got, msg') ELSE got

KeyboardListener(b) == FindSync(b) \/ TakeLength(b) \/ TakeParameter(b)

(* setKeyListener, called by the ArtNet task. *)
SetKeyListener == ~pListener /\ pListener' = TRUE /\ whole' = 0 /\ UNCHANGED <<parser, frame, todo, got>>

----------------------------------------------------------------------------
(* The panel and the line.                                                  *)

StartFrame(f) ==
  /\ todo = <<>>
  /\ frame' = f
  /\ todo' = <<Sync, Sync, Len(f)>> \o f
  /\ whole' = IF whole < 4 THEN whole + 1 ELSE 4
  /\ got' = <<>>
  /\ UNCHANGED <<parser, pListener>>

ByteArrives ==
  /\ todo # <<>>
  /\ KeyboardListener(Head(todo))
  /\ todo' = Tail(todo)
  /\ UNCHANGED <<pListener, frame, whole>>

ByteLost ==
  /\ todo # <<>>
  /\ todo' = Tail(todo)
  /\ whole' = 0
  /\ UNCHANGED <<parser, pListener, frame, got>>

KeyNext == (\E f \in Frames : StartFrame(f)) \/ ByteArrives \/ ByteLost \/ SetKeyListener

Spec == KeyInit /\ [][KeyNext]_keyVars

----------------------------------------------------------------------------
(* The properties.                                                          *)

KeyTypeOK ==
  /\ status \in 0 .. 3
  /\ len \in Nat /\ index \in 0 .. KEYMAX
  /\ msg \in [len : Nat, parameter : [0 .. KEYMAX - 1 -> Nat]]
  /\ pListener \in BOOLEAN
  /\ whole \in 0 .. 4

(* A parameter is stored inside the array, whatever bytes came before it:   *)
(* what is still to come of a message and what has come make its length.    *)
InBounds == status = 3 => len > 0 /\ index + len = msg.len /\ msg.len <= KEYMAX

(* The parser finds its way back: whatever it was left with by a message    *)
(* some bytes of which were lost, the fourth message in a row that comes    *)
(* whole is delivered, and so is every one after it, once, with the         *)
(* parameters it was sent with. Three may be lost on the way when lengths   *)
(* differ as here: what is missing of a long message eats two short ones,   *)
(* and ends on the first Sync of the next.                                  *)
Resync ==
  whole = 4 /\ pListener /\ todo = <<>> =>
    /\ Len(got) = 1
    /\ got[1].len = Len(frame)
    /\ \A i \in 1 .. Len(frame) : got[1].parameter[i - 1] = frame[i]
=============================================================================
