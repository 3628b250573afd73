-------------------------- MODULE Keyboard_proofs --------------------------
(***************************************************************************)
(* For every longest message and whatever bytes arrive: the parser keeps   *)
(* its types, and stores each parameter inside the message. With messages  *)
(* of at most five parameters it finds its way back to the panel's.        *)
(***************************************************************************)
EXTENDS Keyboard, TLAPS

(* The inductive invariant: the bytes to come are bytes. *)
IInv == KeyTypeOK /\ InBounds /\ todo \in Seq(Nat)

LEMMA FrameBytes ==
  ASSUME NEW f \in Frames
  PROVE  f \in Seq(Nat) /\ <<Sync, Sync, Len(f)>> \o f \in Seq(Nat)
  <1>1. f \in Seq(Nat \ {Sync}) /\ Sync \in Nat
    BY KeyboardAssumption
  <1>2. f \in Seq(Nat)
    BY <1>1
  <1>3. <<Sync, Sync, Len(f)>> \in Seq(Nat)
    BY <1>1, <1>2
  <1> QED BY <1>2, <1>3

LEMMA NextByte ==
  ASSUME todo \in Seq(Nat), todo # <<>>
  PROVE  Head(todo) \in Nat /\ Tail(todo) \in Seq(Nat)
  OBVIOUS

LEMMA InitInv == KeyInit => IInv
  <1> SUFFICES ASSUME KeyInit PROVE IInv
    OBVIOUS
  <1>1. KEYMAX \in Nat \ {0}
    BY KeyboardAssumption
  <1>2. msg \in [len : Nat, parameter : [0 .. KEYMAX - 1 -> Nat]]
    BY DEF KeyInit
  <1>3. pListener \in BOOLEAN
    BY DEF KeyInit
  <1>4. status \in 0 .. 3 /\ len \in Nat /\ index \in 0 .. KEYMAX /\ whole \in 0 .. 4 /\ todo \in Seq(Nat) /\ status # 3
    BY <1>1 DEF KeyInit
  <1> QED BY <1>2, <1>3, <1>4 DEF IInv, KeyTypeOK, InBounds

(* A byte, whatever it is. *)
LEMMA ListenerInv ==
  ASSUME IInv, NEW b \in Nat, KeyboardListener(b), UNCHANGED <<pListener, frame, whole>>
  PROVE  KeyTypeOK' /\ InBounds'
  <1>1. /\ KEYMAX \in Nat \ {0} /\ status \in 0 .. 3 /\ len \in Nat /\ index \in 0 .. KEYMAX
        /\ msg \in [len : Nat, parameter : [0 .. KEYMAX - 1 -> Nat]]
    BY KeyboardAssumption DEF IInv, KeyTypeOK
  <1>2. pListener' \in BOOLEAN /\ whole' \in 0 .. 4
    BY DEF IInv, KeyTypeOK
  <1>3. CASE FindSync(b)
    <2>1. status' \in 0 .. 2 /\ UNCHANGED <<len, index, msg>>
      BY <1>3 DEF FindSync
    <2> QED BY <1>1, <1>2, <2>1 DEF KeyTypeOK, InBounds
  <1>4. CASE TakeLength(b)
    <2>1. len' = b /\ msg' = [msg EXCEPT !.len = b] /\ index' = 0 /\ status' = IF b \in 1 .. KEYMAX THEN 3 ELSE 0
      BY <1>4 DEF TakeLength
    <2>2. msg' \in [len : Nat, parameter : [0 .. KEYMAX - 1 -> Nat]] /\ msg'.len = b
      BY <1>1, <2>1
    <2>3. status' \in 0 .. 3 /\ len' \in Nat /\ index' \in 0 .. KEYMAX
      BY <1>1, <2>1
    <2>4. InBounds'
      BY <1>1, <2>1, <2>2 DEF InBounds
    <2> QED BY <1>2, <2>2, <2>3, <2>4 DEF KeyTypeOK
  <1>5. CASE TakeParameter(b)
    <2>1. /\ status = 3 /\ msg' = [msg EXCEPT !.parameter[index] = b]
          /\ index' = index + 1 /\ len' = len - 1 /\ status' = IF len = 1 THEN 0 ELSE 3
      BY <1>5 DEF TakeParameter
    <2>2. len > 0 /\ index + len = msg.len /\ msg.len <= KEYMAX
      BY <2>1 DEF IInv, InBounds
    <2>3. index \in 0 .. KEYMAX - 1
      BY <1>1, <2>2
    <2>4. msg' \in [len : Nat, parameter : [0 .. KEYMAX - 1 -> Nat]] /\ msg'.len = msg.len
      <3> DEFINE p == [msg.parameter EXCEPT ![index] = b]
      <3>1. p \in [0 .. KEYMAX - 1 -> Nat]
        BY <1>1, <2>3
      <3>2. msg' = [msg EXCEPT !.parameter = p]
        BY <2>1
      <3> HIDE DEF p
      <3> QED BY <1>1, <3>1, <3>2
    <2>5. status' \in 0 .. 3 /\ len' \in Nat /\ index' \in 0 .. KEYMAX
      BY <1>1, <2>1, <2>2, <2>3
    <2>6. InBounds'
      BY <1>1, <2>1, <2>2, <2>4 DEF InBounds
    <2> QED BY <1>2, <2>4, <2>5, <2>6 DEF KeyTypeOK
  <1> QED BY <1>3, <1>4, <1>5 DEF KeyboardListener

LEMMA NextInv == IInv /\ [KeyNext]_keyVars => IInv'
  <1> SUFFICES ASSUME IInv, [KeyNext]_keyVars PROVE IInv'
    OBVIOUS
  <1>1. ASSUME NEW f \in Frames, StartFrame(f) PROVE IInv'
    <2>1. todo' \in Seq(Nat)
      BY <1>1, FrameBytes DEF StartFrame
    <2>2. whole' \in 0 .. 4
      BY <1>1 DEF StartFrame, IInv, KeyTypeOK
    <2>3. UNCHANGED <<status, len, index, msg, pListener>>
      BY <1>1 DEF StartFrame, parser
    <2> QED BY <2>1, <2>2, <2>3 DEF IInv, KeyTypeOK, InBounds
  <1>2. CASE ByteArrives
    <2>1. /\ Head(todo) \in Nat /\ KeyboardListener(Head(todo)) /\ todo' \in Seq(Nat)
          /\ UNCHANGED <<pListener, frame, whole>>
      BY <1>2, NextByte DEF ByteArrives, IInv
    <2> QED BY <2>1, ListenerInv DEF IInv
  <1>3. CASE ByteLost
    <2>1. todo' \in Seq(Nat) /\ whole' = 0 /\ UNCHANGED <<status, len, index, msg, pListener>>
      BY <1>3, NextByte DEF ByteLost, IInv, parser
    <2> QED BY <2>1 DEF IInv, KeyTypeOK, InBounds
  <1>4. CASE SetKeyListener
    <2>1. whole' = 0 /\ UNCHANGED <<status, len, index, msg, todo>>
      BY <1>4 DEF SetKeyListener, parser
    <2>2. pListener' \in BOOLEAN
      BY <1>4 DEF SetKeyListener
    <2> QED BY <2>1, <2>2 DEF IInv, KeyTypeOK, InBounds
  <1>5. CASE UNCHANGED keyVars
    BY <1>5 DEF keyVars, parser, IInv, KeyTypeOK, InBounds
  <1> QED BY <1>1, <1>2, <1>3, <1>4, <1>5 DEF KeyNext

(* The parser keeps its types for every longest message and every panel. *)
THEOREM TypeCorrect == Spec => []KeyTypeOK
  <1>1. IInv => KeyTypeOK
    BY DEF IInv
  <1> QED BY <1>1, InitInv, NextInv, PTL DEF Spec

(* Whatever bytes arrive, and whichever are lost, a parameter is stored     *)
(* inside the message.                                                      *)
THEOREM NeverOutside == Spec => []InBounds
  <1>1. IInv => InBounds
    BY DEF IInv
  <1> QED BY <1>1, InitInv, NextInv, PTL DEF Spec

----------------------------------------------------------------------------
(* How the parser finds its way back.                                       *)

(* The byte after which r - 1 more are to come of the message f. *)
Sent(f, r) == IF r > Len(f) + 1 THEN Sync
              ELSE IF r = Len(f) + 1 THEN Len(f) ELSE f[Len(f) - r + 1]

(* Of a message that has lost no byte, the ones still to come are its last. *)
Complete == whole >= 1 =>
  /\ frame \in Frames /\ Len(todo) <= Len(frame) + 3
  /\ \A i \in 1 .. Len(todo) : todo[i] = Sent(frame, Len(todo) + 1 - i)

(* The parser st, that waits for l more parameters if st is 3, before the    *)
(* last r bytes of a message of n parameters. What is missing of an earlier  *)
(* one may reach one byte into the next, ...                                 *)
Overhangs(st, l, r, n) == (st = 2 => r >= n + 1) /\ (st = 3 => l <= r + 1)

(* ... ends within this one, perhaps on its first Sync, so that the second    *)
(* is taken for the first of another, ...                                    *)
Ends(st, l, r, n) == (st = 2 => r >= n + 1) /\ (st = 3 => l <= r)

(* ... or leaves the parser looking for a first Sync when this one is over.  *)
Settles(st, l, r, n) ==
  \/ st = 0 /\ r # n + 2
  \/ st = 1 /\ r >= n + 2
  \/ st = 2 /\ r \in {n + 1, n + 2}
  \/ st = 3 /\ l <= r /\ r # l + n + 2

(* The message m that the parser fills is the beginning of f, ... *)
Copied(m, f, k) == m.len = Len(f) /\ \A i \in 1 .. k : m.parameter[i - 1] = f[i]

(* ... of which r bytes are to come, and is delivered with the last one.     *)
InStep(st, l, r, f, m, g, listens) ==
  LET n == Len(f) IN
  \/ st \in 0 .. 2 /\ r = n + 3 - st /\ g = <<>>
  \/ st = 3 /\ l = r /\ r \in 1 .. n /\ Copied(m, f, n - r) /\ g = <<>>
  \/ st = 0 /\ r = 0 /\ Copied(m, f, n) /\ (listens => g = <<m>>)

WayBack ==
  /\ Complete
  /\ whole = 1 => Overhangs(status, len, Len(todo), Len(frame))
  /\ whole = 2 => Ends(status, len, Len(todo), Len(frame))
  /\ whole = 3 => Settles(status, len, Len(todo), Len(frame))
  /\ whole = 4 => InStep(status, len, Len(todo), frame, msg, got, pListener)

Inv == IInv /\ WayBack

LEMMA Numbers ==
  /\ KEYMAX \in Nat \ {0} /\ Sync \in Nat /\ Sync > KEYMAX
  /\ \A f \in Frames : /\ f \in Seq(Nat) /\ Len(f) \in 1 .. KEYMAX
                       /\ \A i \in 1 .. Len(f) : f[i] # Sync
  BY KeyboardAssumption

(* The byte that arrives, by how many are still to come. *)
Fitting(b, r, f) == /\ r \in 1 .. Len(f) + 3
                    /\ r > Len(f) + 1 => b = Sync
                    /\ r = Len(f) + 1 => b = Len(f)
                    /\ r <= Len(f) => b = f[Len(f) - r + 1] /\ b # Sync
                    /\ r <= Len(f) + 1 => b # Sync

LEMMA ByteFits ==
  ASSUME IInv, Complete, whole >= 1, todo # <<>>
  PROVE  /\ frame \in Frames /\ Len(todo) \in Nat /\ Len(Tail(todo)) = Len(todo) - 1
         /\ Fitting(Head(todo), Len(todo), frame)
         /\ Len(Tail(todo)) <= Len(frame) + 3
         /\ \A i \in 1 .. Len(Tail(todo)) : Tail(todo)[i] = Sent(frame, Len(Tail(todo)) + 1 - i)
  <1>1. /\ frame \in Frames /\ Len(todo) <= Len(frame) + 3
        /\ \A i \in 1 .. Len(todo) : todo[i] = Sent(frame, Len(todo) + 1 - i)
    BY DEF Complete
  <1>2. /\ todo \in Seq(Nat) /\ Len(todo) \in Nat /\ Len(todo) >= 1
        /\ Len(Tail(todo)) = Len(todo) - 1 /\ Head(todo) = todo[1]
        /\ \A i \in 1 .. Len(todo) - 1 : Tail(todo)[i] = todo[i + 1]
    BY DEF IInv
  <1>3. /\ Len(frame) \in 1 .. KEYMAX /\ KEYMAX \in Nat /\ Sync > KEYMAX /\ Sync \in Nat
        /\ \A i \in 1 .. Len(frame) : frame[i] # Sync
    BY <1>1, Numbers
  <1>4. PICK r : r = Len(todo)
    OBVIOUS
  <1>5. PICK n : n = Len(frame)
    OBVIOUS
  <1>6. PICK b : b = Head(todo)
    OBVIOUS
  <1>7. n \in 1 .. KEYMAX /\ r \in 1 .. n + 3
    BY <1>1, <1>2, <1>3, <1>4, <1>5
  <1>8. b = IF r > n + 1 THEN Sync ELSE IF r = n + 1 THEN n ELSE frame[n - r + 1]
    <2>1. b = Sent(frame, Len(todo) + 1 - 1) /\ Len(todo) + 1 - 1 = r
      BY <1>1, <1>2, <1>4, <1>6
    <2> QED BY <1>5, <2>1 DEF Sent
  <1>9. Fitting(b, r, frame)
    <2>1. /\ r > n + 1 => b = Sync
          /\ r = n + 1 => b = n
          /\ r <= n => b = frame[n - r + 1] /\ n - r + 1 \in 1 .. n
      BY <1>3, <1>7, <1>8
    <2>2. r <= n => b # Sync
      BY <1>3, <1>5, <2>1
    <2>3. r = n + 1 => b # Sync
      BY <1>3, <1>7, <2>1
    <2>4. r <= n + 1 => b # Sync
      BY <1>3, <1>7, <2>2, <2>3
    <2> QED BY <1>5, <1>7, <2>1, <2>2, <2>4 DEF Fitting
  <1>10. ASSUME NEW i \in 1 .. r - 1 PROVE Tail(todo)[i] = Sent(frame, r - 1 + 1 - i)
    <2>1. i + 1 \in 1 .. r /\ r + 1 - (i + 1) = r - 1 + 1 - i
      BY <1>7
    <2> QED BY <1>1, <1>2, <1>4, <2>1
  <1> QED BY <1>1, <1>2, <1>3, <1>4, <1>6, <1>9, <1>10

(* What the parser makes of a byte. *)
Moves(b, st, l, st2, l2) ==
  \/ st \in {0, 1} /\ st2 = (IF b = Sync THEN st + 1 ELSE st) /\ l2 = l
  \/ st = 2 /\ l2 = b /\ st2 = IF b \in 1 .. KEYMAX THEN 3 ELSE 0
  \/ st = 3 /\ l >= 1 /\ l2 = l - 1 /\ st2 = IF l = 1 THEN 0 ELSE 3

LEMMA Closer ==
  ASSUME NEW f \in Frames, NEW r \in Nat, NEW b \in Nat, Fitting(b, r, f),
         NEW st \in 0 .. 3, NEW l \in Nat, NEW st2, NEW l2, Moves(b, st, l, st2, l2)
  PROVE  /\ Overhangs(st, l, r, Len(f)) => Overhangs(st2, l2, r - 1, Len(f))
         /\ Ends(st, l, r, Len(f)) => Ends(st2, l2, r - 1, Len(f))
         /\ Settles(st, l, r, Len(f)) => Settles(st2, l2, r - 1, Len(f))
  <1>1. PICK n : n = Len(f)
    OBVIOUS
  <1>2. /\ n \in 1 .. KEYMAX /\ KEYMAX \in Nat /\ Sync > KEYMAX /\ Sync \in Nat
        /\ r \in 1 .. n + 3 /\ (r > n + 1 => b = Sync) /\ (r = n + 1 => b = n)
        /\ (r <= n + 1 => b # Sync)
    BY <1>1, Numbers DEF Fitting
  <1>3. Overhangs(st, l, r, n) => Overhangs(st2, l2, r - 1, n)
    BY <1>2 DEF Overhangs, Moves
  <1>4. Ends(st, l, r, n) => Ends(st2, l2, r - 1, n)
    BY <1>2 DEF Ends, Moves
  <1>5. Settles(st, l, r, n) => Settles(st2, l2, r - 1, n)
    BY <1>2 DEF Settles, Moves
  <1> QED BY <1>1, <1>3, <1>4, <1>5

LEMMA ListenerMoves ==
  ASSUME IInv, NEW b \in Nat, KeyboardListener(b)
  PROVE  Moves(b, status, len, status', len')
  <1>1. status = 3 => len > 0
    BY DEF IInv, InBounds
  <1>2. len \in Nat /\ KEYMAX \in Nat
    BY Numbers DEF IInv, KeyTypeOK
  <1>3. CASE FindSync(b)
    BY <1>3 DEF FindSync, Moves
  <1>4. CASE TakeLength(b)
    BY <1>4 DEF TakeLength, Moves
  <1>5. CASE TakeParameter(b)
    BY <1>1, <1>2, <1>5 DEF TakeParameter, Moves
  <1> QED BY <1>3, <1>4, <1>5 DEF KeyboardListener

(* A message that the parser is in step with is copied byte by byte, and     *)
(* delivered once.                                                           *)
LEMMA StaysInStep ==
  ASSUME IInv, NEW f \in Frames, NEW r \in Nat, NEW b \in Nat, Fitting(b, r, f),
         KeyboardListener(b), InStep(status, len, r, f, msg, got, pListener)
  PROVE  InStep(status', len', r - 1, f, msg', got', pListener)
  <1>1. PICK n : n = Len(f)
    OBVIOUS
  <1>2. /\ n \in 1 .. KEYMAX /\ KEYMAX \in Nat /\ Sync > KEYMAX /\ Sync \in Nat
        /\ r \in 1 .. n + 3 /\ (r > n + 1 => b = Sync) /\ (r = n + 1 => b = n)
        /\ (r <= n => b = f[n - r + 1])
    BY <1>1, Numbers DEF Fitting
  <1>3. /\ status \in 0 .. 3 /\ len \in Nat /\ index \in 0 .. KEYMAX
        /\ msg \in [len : Nat, parameter : [0 .. KEYMAX - 1 -> Nat]]
        /\ status = 3 => len > 0 /\ index + len = msg.len
    BY DEF IInv, KeyTypeOK, InBounds
  <1>4. CASE status \in {0, 1}
    <2>1. r = n + 3 - status /\ got = <<>>
      BY <1>1, <1>2, <1>4 DEF InStep
    <2>2. status' = status + 1 /\ got' = got
      BY <1>2, <1>4, <2>1 DEF KeyboardListener, FindSync, TakeLength, TakeParameter
    <2>3. status' \in 0 .. 2 /\ r - 1 = n + 3 - status'
      BY <1>2, <1>4, <2>1, <2>2
    <2> QED BY <1>1, <2>1, <2>2, <2>3 DEF InStep
  <1>5. CASE status = 2
    <2>1. r = n + 1 /\ got = <<>> /\ b = n
      BY <1>1, <1>2, <1>5 DEF InStep
    <2>2. status' = 3 /\ len' = n /\ got' = got /\ msg'.len = n
      BY <1>2, <1>3, <1>5, <2>1 DEF KeyboardListener, FindSync, TakeLength, TakeParameter
    <2>3. Copied(msg', f, 0)
      BY <1>1, <2>2 DEF Copied
    <2>4. r - 1 = n /\ r - 1 \in 1 .. n /\ n - (r - 1) = 0
      BY <1>2, <2>1
    <2> QED BY <1>1, <2>1, <2>2, <2>3, <2>4 DEF InStep
  <1>6. CASE status = 3
    <2>1. len = r /\ r \in 1 .. n /\ Copied(msg, f, n - r) /\ got = <<>>
      BY <1>1, <1>6 DEF InStep
    <2>2. /\ msg' = [msg EXCEPT !.parameter[index] = b] /\ len' = len - 1
          /\ status' = IF len = 1 THEN 0 ELSE 3
          /\ got' = IF len = 1 /\ pListener THEN Append(got, msg') ELSE got
      BY <1>6 DEF KeyboardListener, FindSync, TakeLength, TakeParameter
    <2>3. index = n - r /\ index \in 0 .. KEYMAX - 1 /\ b = f[index + 1] /\ msg.len = n
      BY <1>1, <1>2, <1>3, <1>6, <2>1 DEF Copied
    <2>4. /\ msg'.len = msg.len /\ msg'.parameter[index] = b
          /\ \A i \in 0 .. KEYMAX - 1 : i # index => msg'.parameter[i] = msg.parameter[i]
      BY <1>3, <2>2, <2>3
    <2>5. Copied(msg', f, n - (r - 1))
      <3>1. \A i \in 1 .. n - r : msg.parameter[i - 1] = f[i]
        BY <2>1 DEF Copied
      <3>2. ASSUME NEW i \in 1 .. n - (r - 1) PROVE msg'.parameter[i - 1] = f[i]
        <4>1. CASE i = index + 1
          <5>1. i - 1 = index
            BY <1>3, <4>1
          <5> QED BY <2>3, <2>4, <4>1, <5>1
        <4>2. CASE i # index + 1
          <5>1. i \in 1 .. n - r /\ i - 1 \in 0 .. KEYMAX - 1 /\ i - 1 # index
            BY <1>2, <2>1, <2>3, <4>2
          <5> QED BY <2>4, <3>1, <5>1
        <4> QED BY <4>1, <4>2
      <3> QED BY <1>1, <2>3, <2>4, <3>2 DEF Copied
    <2>6. CASE r = 1
      <3>1. status' = 0 /\ r - 1 = 0 /\ n - (r - 1) = n
        BY <1>2, <2>1, <2>2, <2>6
      <3>2. pListener => got' = <<msg'>>
        BY <2>1, <2>2, <2>6
      <3> QED BY <1>1, <2>5, <3>1, <3>2 DEF InStep
    <2>7. CASE r # 1
      <3>1. status' = 3 /\ len' = r - 1 /\ r - 1 \in 1 .. n /\ got' = <<>>
        BY <1>2, <2>1, <2>2, <2>7
      <3> QED BY <1>1, <2>5, <3>1 DEF InStep
    <2> QED BY <2>6, <2>7
  <1> QED BY <1>3, <1>4, <1>5, <1>6

LEMMA ByteBack ==
  ASSUME Inv, ByteArrives
  PROVE  WayBack'
  <1> SUFFICES ASSUME whole >= 1 PROVE WayBack'
    BY DEF WayBack, Complete, ByteArrives, Inv, IInv, KeyTypeOK
  <1>1. /\ todo # <<>> /\ KeyboardListener(Head(todo)) /\ todo' = Tail(todo)
        /\ UNCHANGED <<pListener, frame, whole>>
    BY DEF ByteArrives
  <1>2. Complete /\ IInv
    BY DEF Inv, WayBack
  <1>3. PICK r : r = Len(todo)
    OBVIOUS
  <1>4. PICK b : b = Head(todo)
    OBVIOUS
  <1>5. /\ frame \in Frames /\ r \in Nat /\ Len(todo') = r - 1 /\ Fitting(b, r, frame)
        /\ b \in Nat /\ Complete'
    BY <1>1, <1>2, <1>3, <1>4, ByteFits, NextByte DEF Complete, IInv
  <1>6. status \in 0 .. 3 /\ len \in Nat
    BY <1>2 DEF IInv, KeyTypeOK
  <1>7. Moves(b, status, len, status', len')
    BY <1>1, <1>2, <1>4, <1>5, ListenerMoves
  <1>8. /\ Overhangs(status, len, r, Len(frame)) => Overhangs(status', len', r - 1, Len(frame))
        /\ Ends(status, len, r, Len(frame)) => Ends(status', len', r - 1, Len(frame))
        /\ Settles(status, len, r, Len(frame)) => Settles(status', len', r - 1, Len(frame))
    BY <1>5, <1>6, <1>7, Closer
  <1>9. InStep(status, len, r, frame, msg, got, pListener)
        => InStep(status', len', r - 1, frame, msg', got', pListener)
    BY <1>1, <1>2, <1>4, <1>5, StaysInStep
  <1> QED BY <1>1, <1>3, <1>5, <1>8, <1>9 DEF Inv, WayBack

(* The next message: what may be missing of an earlier one is shorter by one *)
(* of the cases.                                                             *)
LEMMA FrameBack ==
  ASSUME Inv, KEYMAX <= 5, NEW f \in Frames, StartFrame(f)
  PROVE  WayBack'
  <1>1. /\ todo = <<>> /\ frame' = f /\ todo' = <<Sync, Sync, Len(f)>> \o f
        /\ whole' = IF whole < 4 THEN whole + 1 ELSE 4
        /\ got' = <<>> /\ UNCHANGED <<status, len, index, msg, pListener>>
    BY DEF StartFrame, parser
  <1>2. PICK n : n = Len(f)
    OBVIOUS
  <1>3. f \in Seq(Nat) /\ n \in 1 .. KEYMAX /\ KEYMAX \in Nat /\ Sync \in Nat
    BY <1>2, Numbers
  <1>4. Len(todo') = n + 3 /\ \A i \in 1 .. n + 3 : todo'[i] = Sent(f, n + 3 + 1 - i)
    <2>1. PICK t : t = <<Sync, Sync, n>> \o f
      OBVIOUS
    <2>2. /\ Len(t) = n + 3 /\ t[1] = Sync /\ t[2] = Sync /\ t[3] = n
          /\ \A i \in 4 .. n + 3 : t[i] = f[i - 3]
      BY <1>2, <1>3, <2>1
    <2>3. ASSUME NEW i \in 1 .. n + 3 PROVE t[i] = Sent(f, n + 3 + 1 - i)
      <3>1. CASE i \in 4 .. n + 3
        <4>1. t[i] = f[i - 3] /\ n - (n + 3 + 1 - i) + 1 = i - 3
          BY <1>3, <2>2, <3>1
        <4>2. ~(n + 3 + 1 - i > n + 1) /\ n + 3 + 1 - i # n + 1
          BY <1>3, <3>1
        <4> QED BY <1>2, <4>1, <4>2 DEF Sent
      <3>2. CASE i = 3
        <4>1. n + 3 + 1 - i = n + 1 /\ ~(n + 3 + 1 - i > n + 1)
          BY <1>3, <3>2
        <4> QED BY <1>2, <2>2, <3>2, <4>1 DEF Sent
      <3>3. CASE i \in {1, 2}
        <4>1. n + 3 + 1 - i > n + 1
          BY <1>3, <3>3
        <4> QED BY <1>2, <2>2, <3>3, <4>1 DEF Sent
      <3> QED BY <1>3, <3>1, <3>2, <3>3
    <2> QED BY <1>1, <1>2, <2>1, <2>2, <2>3
  <1>5. Complete'
    BY <1>1, <1>2, <1>3, <1>4 DEF Complete
  <1>6. /\ status \in 0 .. 3 /\ len \in Nat /\ index \in 0 .. KEYMAX /\ whole \in 0 .. 4
        /\ status = 3 => len > 0 /\ index + len = msg.len /\ msg.len <= KEYMAX
        /\ msg.len \in Nat
    BY DEF Inv, IInv, KeyTypeOK, InBounds
  <1>7. Len(todo) = 0
    BY <1>1
  <1>8. ASSUME whole = 0 PROVE Overhangs(status, len, n + 3, n)
    BY <1>3, <1>6 DEF Overhangs
  <1>9. ASSUME whole = 1 PROVE Ends(status, len, n + 3, n)
    <2>1. PICK k : k = Len(frame) /\ Overhangs(status, len, 0, k)
      BY <1>7, <1>9 DEF Inv, WayBack
    <2>2. status = 3 => len <= 1
      BY <1>6, <2>1 DEF Overhangs
    <2> QED BY <1>3, <1>6, <2>2 DEF Ends
  <1>10. ASSUME whole = 2 PROVE Settles(status, len, n + 3, n)
    <2>1. PICK k : k = Len(frame) /\ Ends(status, len, 0, k)
      BY <1>7, <1>10 DEF Inv, WayBack
    <2>2. k \in Nat
      BY <1>10, <2>1, Numbers DEF Inv, WayBack, Complete
    <2>3. status \in {0, 1}
      BY <1>6, <2>1, <2>2 DEF Ends
    <2> QED BY <1>3, <2>3 DEF Settles
  <1>11. ASSUME whole \in {3, 4} PROVE InStep(status, len, n + 3, f, msg, got', pListener)
    <2>1. /\ whole = 3 => Settles(status, len, 0, Len(frame))
          /\ whole = 4 => InStep(status, len, 0, frame, msg, got, pListener)
      BY <1>7 DEF Inv, WayBack
    <2>2. Len(frame) \in Nat
      BY <1>11, Numbers DEF Inv, WayBack, Complete
    <2>3. status = 0
      <3>1. CASE whole = 3
        BY <1>6, <2>1, <2>2, <3>1 DEF Settles
      <3>2. CASE whole = 4
        BY <1>6, <2>1, <2>2, <3>2 DEF InStep
      <3> QED BY <1>11, <3>1, <3>2
    <2> QED BY <1>1, <1>2, <1>3, <2>3 DEF InStep
  <1>12. /\ whole = 0 => whole' = 1 /\ Overhangs(status, len, n + 3, n)
         /\ whole = 1 => whole' = 2 /\ Ends(status, len, n + 3, n)
         /\ whole = 2 => whole' = 3 /\ Settles(status, len, n + 3, n)
         /\ whole \in {3, 4} => whole' = 4 /\ InStep(status, len, n + 3, f, msg, got', pListener)
    BY <1>1, <1>8, <1>9, <1>10, <1>11
  <1>13. frame' = f /\ Len(frame') = n /\ Len(todo') = n + 3
         /\ UNCHANGED <<status, len, msg, pListener>> /\ whole \in 0 .. 4
    BY <1>1, <1>2, <1>4, <1>6
  <1> QED BY <1>5, <1>12, <1>13 DEF WayBack

LEMMA NextBack ==
  ASSUME Inv, KEYMAX <= 5, [KeyNext]_keyVars
  PROVE  Inv'
  <1> SUFFICES WayBack'
    BY NextInv DEF Inv
  <1>1. ASSUME NEW f \in Frames, StartFrame(f) PROVE WayBack'
    BY <1>1, FrameBack
  <1>2. CASE ByteArrives
    BY <1>2, ByteBack
  <1>3. CASE ByteLost \/ SetKeyListener
    <2>1. whole' = 0
      BY <1>3 DEF ByteLost, SetKeyListener
    <2> QED BY <2>1 DEF WayBack, Complete
  <1>4. CASE UNCHANGED keyVars
    BY <1>4 DEF keyVars, parser, Inv, WayBack, Complete
  <1> QED BY <1>1, <1>2, <1>3, <1>4 DEF KeyNext

(* With messages of at most KEYMAX = 5 parameters, whatever they are, the     *)
(* parser finds its way back: of the messages that come whole one after the   *)
(* other, keyboardListener delivers the fourth and all behind it, each once   *)
(* and as it was sent, whatever bytes were lost before.                       *)
THEOREM FindsBack == ASSUME KEYMAX <= 5 PROVE Spec => []Resync
  <1>1. KeyInit => Inv
    BY InitInv DEF Inv, WayBack, Complete, KeyInit
  <1>2. Inv /\ [KeyNext]_keyVars => Inv'
    BY NextBack
  <1>3. ASSUME Inv PROVE Resync
    <2> SUFFICES ASSUME whole = 4, pListener, todo = <<>>
                 PROVE  /\ Len(got) = 1 /\ got[1].len = Len(frame)
                        /\ \A i \in 1 .. Len(frame) : got[1].parameter[i - 1] = frame[i]
      BY DEF Resync
    <2>1. Len(frame) \in Nat
      <3>1. Complete /\ whole >= 1
        BY <1>3 DEF Inv, WayBack
      <3> QED BY <3>1, Numbers DEF Complete
    <2>2. Len(todo) = 0
      OBVIOUS
    <2>3. InStep(status, len, 0, frame, msg, got, pListener)
      BY <1>3, <2>2 DEF Inv, WayBack
    <2>4. Copied(msg, frame, Len(frame)) /\ got = <<msg>>
      <3>1. status \in 0 .. 3
        BY <1>3 DEF Inv, IInv, KeyTypeOK
      <3> QED BY <2>1, <2>3, <3>1 DEF InStep
    <2> QED BY <2>4 DEF Copied
  <1> QED BY <1>1, <1>2, <1>3, PTL DEF Spec
=============================================================================
