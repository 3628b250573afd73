------------------------- MODULE ArtNetTask_proofs -------------------------
(***************************************************************************)
(* For every set of models and data and every count of the semaphore: no   *)
(* time event and, but for the one window that StoreBits leaves, no message *)
(* is left behind when the ArtNet task goes to rest.                       *)
(***************************************************************************)
EXTENDS ArtNetTask, TLAPS

(* A time event that is owed has its bit set, also in the byte that is about *)
(* to be stored; the loop has handled those it is past.                      *)
OwedIsSet ==
  /\ owed \subseteq taskEvent
  /\ pc = "clear" => owed \subseteq reg

(* The callbacks run only when the task is blocked, so in its loop the time  *)
(* bits that are set are those it has still to look at; the key bit may also  *)
(* be set behind it, but then a post is counted.                             *)
Past(k) == \/ pc \in {"check", "clear"} /\ k < at
           \/ pc = "handle" /\ k <= at
           \/ pc \in {"data", "pend"}
TimeBitsAhead == \A k \in 1..3 : Past(k) => Events[k] \notin taskEvent
KeyBitSeen ==
  "Keyboard" \in taskEvent =>
    Ctr > 0 \/ pc \in {"check", "clear"} \/ (pc = "handle" /\ at < 4)

(* At rest the byte is clean, or holds the bit of the callback that posts. *)
CleanAtRest ==
  /\ pc = "blocked" => taskEvent \subseteq (IF srv = "post" THEN {srvEvent} ELSE {})
  /\ srv = "store" => srvReg = {}

(* The byte in the task's register never has a bit that taskEvent has not. *)
RegOK ==
  /\ pc = "clear" => reg \subseteq taskEvent /\ Events[at] \in reg
  /\ pc = "data" => at = 4

(* The last message is in use, on its way, or overtaken. *)
OnItsWay ==
  \/ "Keyboard" \in taskEvent
  \/ pc = "handle" /\ at = 4
  \/ pc = "data" /\ settings.mode = keyMsg.mode
MessageKept == keyMsg # Blank => settings = keyMsg \/ overtaken \/ OnItsWay

IInv == TypeOK /\ OwedIsSet /\ TimeBitsAhead /\ KeyBitSeen /\ CleanAtRest /\ RegOK /\ MessageKept

----------------------------------------------------------------------------
LEMMA EventFacts ==
  /\ \A k \in 1..4 : Events[k] = "Keyboard" <=> k = 4
  /\ \A k \in 1..4 : Events[k] \in TimeEvents <=> k < 4
  /\ \A k \in 1..4 : Events[k] \in {Events[j] : j \in 1..4}
  /\ \A e \in TimeEvents : \E k \in 1..3 : e = Events[k]
  /\ \A j, k \in 1..4 : Events[j] = Events[k] => j = k
  /\ "Keyboard" \notin TimeEvents
  <1>1. /\ Events[1] = "Time1" /\ Events[2] = "Time2"
        /\ Events[3] = "Calculate" /\ Events[4] = "Keyboard"
    BY DEF Events
  <1>2. \A k \in 1..4 : k = 1 \/ k = 2 \/ k = 3 \/ k = 4
    OBVIOUS
  <1> QED BY <1>1, <1>2 DEF TimeEvents

LEMMA InitIInv == Init => IInv
  <1> SUFFICES ASSUME Init PROVE IInv
    OBVIOUS
  <1>1. Blank \in Settings
    BY DEF Blank, Settings
  <1>2. TypeOK
    <2>1. {} \in Bits /\ {} \in SUBSET TimeEvents /\ "Time1" \in TimeEvents
      BY DEF Bits, TimeEvents
    <2>2. overtaken \in BOOLEAN
      BY DEF Init
    <2> QED BY <1>1, <2>1, <2>2 DEF Init, TypeOK
  <1> QED
    BY <1>2 DEF Init, IInv, OwedIsSet, TimeBitsAhead, KeyBitSeen, CleanAtRest, RegOK, MessageKept

LEMMA NextIInv == IInv /\ [Next]_vars => IInv'
  <1> SUFFICES ASSUME IInv, [Next]_vars PROVE IInv'
    OBVIOUS
  <1> USE DEF IInv, OwedIsSet, TimeBitsAhead, Past, KeyBitSeen, CleanAtRest, RegOK
  <1>1. CASE Pend
    <2>1. TypeOK'
      BY <1>1, EventFacts DEF Pend, TypeOK, Bits, Settings, Messages
    <2>2. OwedIsSet'
      BY <1>1, EventFacts DEF Pend, TypeOK
    <2>3. TimeBitsAhead'
      BY <1>1, EventFacts DEF Pend, TypeOK
    <2>4. KeyBitSeen'
      BY <1>1, EventFacts DEF Pend, TypeOK
    <2>5. CleanAtRest' /\ RegOK'
      <3>1. CASE Ctr = 0
        <4>1. "Keyboard" \notin taskEvent /\ \A k \in 1..3 : Events[k] \notin taskEvent
          BY <1>1, <3>1 DEF Pend
        <4>2. \A k \in 1..4 : Events[k] \notin taskEvent
          BY <4>1, EventFacts
        <4>3. taskEvent = {}
          BY <4>2 DEF TypeOK, Bits
        <4> QED BY <1>1, <3>1, <4>3 DEF Pend
      <3>2. CASE Ctr # 0
        BY <1>1, <3>2 DEF Pend
      <3> QED BY <3>1, <3>2
    <2>6. MessageKept'
      BY <1>1, EventFacts DEF Pend, TypeOK, MessageKept, OnItsWay
    <2> QED BY <2>1, <2>2, <2>3, <2>4, <2>5, <2>6
  <1>2. CASE Skip
    BY <1>2, EventFacts DEF Skip, NextEvent, TypeOK, MessageKept, OnItsWay
  <1>3. CASE LoadBits
    BY <1>3, EventFacts DEF LoadBits, TypeOK, MessageKept, OnItsWay
  <1>4. CASE StoreBits
    <2>1. TypeOK'
      BY <1>4, EventFacts DEF StoreBits, TypeOK, Bits, Settings, Messages
    <2>2. OwedIsSet'
      BY <1>4, EventFacts DEF StoreBits, TypeOK
    <2>3. TimeBitsAhead'
      BY <1>4, EventFacts DEF StoreBits, TypeOK
    <2>4. KeyBitSeen'
      BY <1>4, EventFacts DEF StoreBits, TypeOK
    <2>5. CleanAtRest' /\ RegOK'
      BY <1>4, EventFacts DEF StoreBits, TypeOK
    <2>6. MessageKept'
      BY <1>4, EventFacts DEF StoreBits, TypeOK, MessageKept, OnItsWay
    <2> QED BY <2>1, <2>2, <2>3, <2>4, <2>5, <2>6
  <1>5. CASE HandleTime
    BY <1>5, EventFacts DEF HandleTime, NextEvent, TypeOK, MessageKept, OnItsWay
  <1>6. CASE ApplyMode
    BY <1>6, EventFacts DEF ApplyMode, TypeOK, Settings, MessageKept, OnItsWay
  <1>7. CASE ApplyValue
    BY <1>7, EventFacts DEF ApplyValue, NextEvent, TypeOK, Settings, MessageKept, OnItsWay
  <1>8. ASSUME NEW e \in TimeEvents, Load(e) PROVE IInv'
    BY <1>8, EventFacts DEF Load, ServerRuns, TypeOK, MessageKept, OnItsWay
  <1>9. CASE Store
    BY <1>9, EventFacts DEF Store, ServerRuns, TypeOK, Bits, MessageKept, OnItsWay
  <1>10. CASE PostEvent
    BY <1>10, EventFacts DEF PostEvent, Post, ServerRuns, TypeOK, MessageKept, OnItsWay
  <1>11. ASSUME NEW m \in Messages, KeyInterrupt(m) PROVE IInv'
    <2>1. TypeOK'
      <3>1. m \in Settings
        BY DEF Messages, Settings
      <3>2. taskEvent \cup {"Keyboard"} \in Bits
        BY EventFacts DEF TypeOK, Bits
      <3>3. overtaken' \in BOOLEAN
        BY <1>11 DEF KeyInterrupt
      <3>4. Ctr' \in Nat /\ at' \in 1..4
            /\ pc' \in {"pend", "blocked", "check", "clear", "handle", "data"}
        BY <1>11 DEF KeyInterrupt, Post, TypeOK
      <3> QED BY <1>11, <3>1, <3>2, <3>3, <3>4 DEF KeyInterrupt, TypeOK
    <2>2. OwedIsSet'
      BY <1>11, EventFacts DEF KeyInterrupt, Post, TypeOK
    <2>3. TimeBitsAhead'
      BY <1>11, EventFacts DEF KeyInterrupt, Post, TypeOK
    <2>4. KeyBitSeen'
      BY <1>11, EventFacts DEF KeyInterrupt, Post, TypeOK
    <2>5. CleanAtRest' /\ RegOK'
      BY <1>11, EventFacts DEF KeyInterrupt, Post, TypeOK
    <2>6. MessageKept'
      BY <1>11, EventFacts DEF KeyInterrupt, Post, TypeOK, MessageKept, OnItsWay
    <2> QED BY <2>1, <2>2, <2>3, <2>4, <2>5, <2>6
  <1>12. CASE UNCHANGED vars
    BY <1>12 DEF vars, TypeOK, MessageKept, OnItsWay
  <1> QED
    BY <1>1, <1>2, <1>3, <1>4, <1>5, <1>6, <1>7, <1>8, <1>9, <1>10, <1>11, <1>12
    DEF Next, ArtNet, Callback

(* Every variable keeps its type; the two loads and stores that race leave no  *)
(* bit in the byte that the code does not know.                                *)
THEOREM TypeCorrect == Spec => []TypeOK
  <1>1. IInv => TypeOK
    BY DEF IInv
  <1> QED BY <1>1, InitIInv, NextIInv, PTL DEF Spec

(* The ArtNet task never blocks while a poll, a frame or a calculation that a  *)
(* callback asked for is still to do.                                          *)
THEOREM NothingLeft == Spec => []NothingOwedAtRest
  <1>1. IInv => NothingOwedAtRest
    BY DEF IInv, OwedIsSet, CleanAtRest, NothingOwedAtRest
  <1> QED BY <1>1, InitIInv, NextIInv, PTL DEF Spec

(* When the ArtNet task blocks, the last message is in use as a whole, or its   *)
(* bit was overtaken by the clearing of a time event.                           *)
THEOREM KeyInUse == Spec => []KeyInUseAtRest
  <1>1. IInv => KeyInUseAtRest
    BY EventFacts DEF IInv, TypeOK, CleanAtRest, MessageKept, OnItsWay, KeyInUseAtRest
  <1> QED BY <1>1, InitIInv, NextIInv, PTL DEF Spec

(* A callback that was interrupted between its load and its store brings no     *)
(* handled event back.                                                          *)
THEOREM NeverStale == Spec => NoStaleBit
  <1>1. IInv /\ [Next]_vars => [srv = "store" /\ srv' = "post" => taskEvent' = {srvEvent}]_vars
    <2> SUFFICES ASSUME IInv, Next, srv = "store", srv' = "post"
                 PROVE  taskEvent' = {srvEvent}
      OBVIOUS
    <2>1. Store
      BY DEF Next, ArtNet, Callback, Pend, Skip, LoadBits, StoreBits, HandleTime, ApplyMode,
             ApplyValue, Load, PostEvent, KeyInterrupt
    <2> QED BY <2>1 DEF Store, IInv, CleanAtRest
  <1> QED BY <1>1, InitIInv, NextIInv, PTL DEF Spec, NoStaleBit

=============================================================================
