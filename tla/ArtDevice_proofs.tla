-------------------------- MODULE ArtDevice_proofs --------------------------
(***************************************************************************)
(* For every number of devices, every choice of the periods and delays and *)
(* every size of the timer pool: the variables keep their types, no device *)
(* is ever driven by two timers, none of them leads to a device that was   *)
(* dropped, and a handshake is told in its order. In a pool that is large  *)
(* enough for the devices, each of them has a timer until it is done.      *)
(***************************************************************************)
EXTENDS ArtDevice, TLAPS, SequenceTheorems, FiniteSetTheorems

----------------------------------------------------------------------------
(* What the operators of TimerList return and preserve.                     *)

(* A change of one node leaves a sequence of nodes of the same length.      *)
LEMMA ExceptNode ==
  ASSUME NEW S, NEW list \in Seq(S), NEW i \in DOMAIN list, NEW t \in S
  PROVE  LET new == [list EXCEPT ![i] = t]
         IN /\ new \in Seq(S)
            /\ Len(new) = Len(list)
            /\ DOMAIN new = DOMAIN list
            /\ new[i] = t
            /\ \A j \in DOMAIN list : j # i => new[j] = list[j]
  OBVIOUS

(* appendTimerServer keeps every node in its place and adds at most one,     *)
(* behind them all.                                                          *)
LEMMA AppendTimerNodes ==
  ASSUME NEW S, NEW list \in Seq(S), NEW t \in S
  PROVE  LET new == AppendTimer(list, t)
         IN /\ new \in Seq(S)
            /\ DOMAIN list \subseteq DOMAIN new
            /\ \A j \in DOMAIN list : new[j] = list[j]
            /\ \A j \in DOMAIN new \ DOMAIN list : j = Len(list) + 1 /\ new[j] = t
  <1>1. CASE HasRoom(list)
    BY <1>1 DEF AppendTimer
  <1>2. CASE ~HasRoom(list)
    BY <1>2 DEF AppendTimer
  <1> QED BY <1>1, <1>2

(* The place a node of the list comes from when the i-th one is taken out.   *)
Origin(i, k) == IF k < i THEN k ELSE k + 1

(* deleteObject takes out one node and keeps the others in their order.      *)
LEMMA DeleteTimerNodes ==
  ASSUME NEW S, NEW list \in Seq(S), NEW i \in DOMAIN list
  PROVE  LET new == DeleteTimer(list, i)
         IN /\ new \in Seq(S)
            /\ Len(new) = Len(list) - 1
            /\ \A k \in DOMAIN new : /\ Origin(i, k) \in DOMAIN list \ {i}
                                     /\ new[k] = list[Origin(i, k)]
            /\ \A j, k \in DOMAIN new : Origin(i, j) = Origin(i, k) => j = k
            /\ \A j \in DOMAIN list \ {i} : \E k \in DOMAIN new : Origin(i, k) = j
  <1> DEFINE n == Len(list) - 1
             new == DeleteTimer(list, i)
  <1>1. n \in Nat /\ i \in 1..Len(list) /\ Len(list) \in Nat /\ DOMAIN list = 1..Len(list)
    OBVIOUS
  <1>2. new = [k \in 1..n |-> IF k < i THEN list[k] ELSE list[k + 1]]
    BY DEF DeleteTimer
  <1>3. \A k \in 1..n : new[k] = list[Origin(i, k)] /\ Origin(i, k) \in (1..Len(list)) \ {i}
    BY <1>1, <1>2 DEF Origin
  <1>4. \A k \in 1..n : new[k] \in S
    BY <1>3
  <1>5. new \in [1..n -> S]
    BY <1>2, <1>4
  <1>6. new \in Seq(S) /\ Len(new) = n /\ DOMAIN new = 1..n
    BY <1>1, <1>2, <1>5
  <1>7. \A j, k \in 1..n : Origin(i, j) = Origin(i, k) => j = k
    BY <1>1 DEF Origin
  <1>8. ASSUME NEW j \in (1..Len(list)) \ {i} PROVE \E k \in 1..n : Origin(i, k) = j
    <2>1. CASE j < i
      <3>1. j \in 1..n /\ Origin(i, j) = j
        BY <1>1, <2>1 DEF Origin
      <3> QED BY <3>1
    <2>2. CASE j > i
      <3>1. j - 1 \in 1..n /\ Origin(i, j - 1) = j
        BY <1>1, <2>2 DEF Origin
      <3> QED BY <3>1
    <2> QED BY <1>1, <2>1, <2>2
  <1> QED BY <1>1, <1>3, <1>6, <1>7, <1>8

----------------------------------------------------------------------------
(* The uniqueness of timers.                                                *)

(* A node that may be counted down, and whose function fits its parameter.  *)
NodeOK(t) == /\ Armed(t) => t.tick > 0
             /\ t.func = "runArtNetStatus" => ~t.reload

(* The two facts the uniqueness of a device's timer rests on: an armed timer *)
(* points to a node that is in the table, so that an address that joins has  *)
(* none; and there is at most one.                                           *)
Led(list, d) == \A i \in DOMAIN list : \A ip \in IPs :
                  Armed(list[i]) /\ list[i].parameter = ip => d[ip].connected
Single(list) == \A i, j \in DOMAIN list : \A ip \in IPs :
                  /\ Armed(list[i]) /\ list[i].parameter = ip
                  /\ Armed(list[j]) /\ list[j].parameter = ip
                  => i = j

Sound(list, d) ==
  /\ list \in Seq(TimerNode)
  /\ \A i \in DOMAIN list : NodeOK(list[i])
  /\ Led(list, d)
  /\ Single(list)

(* The inductive invariant. *)
IInv == TypeOK /\ Sound(timers, dev)

----------------------------------------------------------------------------
(* A sound list stays sound when a node is replaced by one that is armed for *)
(* the same device or not at all, ...                                        *)
LEMMA SoundExcept ==
  ASSUME NEW list, NEW d, Sound(list, d), NEW i \in DOMAIN list,
         NEW t \in TimerNode, NodeOK(t),
         Armed(t) => Armed(list[i]) /\ t.parameter = list[i].parameter
  PROVE  Sound([list EXCEPT ![i] = t], d)
  <1> DEFINE new == [list EXCEPT ![i] = t]
  <1>1. /\ new \in Seq(TimerNode) /\ DOMAIN new = DOMAIN list /\ new[i] = t
        /\ \A j \in DOMAIN list : j # i => new[j] = list[j]
    BY ExceptNode DEF Sound
  <1>2. \A j \in DOMAIN new :
          Armed(new[j]) => Armed(list[j]) /\ new[j].parameter = list[j].parameter
    BY <1>1
  <1>3. \A j \in DOMAIN new : NodeOK(new[j])
    BY <1>1 DEF Sound
  <1> HIDE DEF new
  <1>4. Led(new, d) /\ Single(new)
    BY <1>1, <1>2 DEF Sound, Led, Single
  <1>5. Sound(new, d)
    BY <1>1, <1>3, <1>4 DEF Sound
  <1> QED BY <1>5 DEF new

(* ... when a timer is appended for a device of the table that has none, ... *)
LEMMA SoundAppend ==
  ASSUME NEW list, NEW d, Sound(list, d), NEW t \in TimerNode, NodeOK(t),
         t.parameter \in IPs => d[t.parameter].connected,
         t.parameter \in IPs =>
           \A i \in DOMAIN list : Armed(list[i]) => list[i].parameter # t.parameter
  PROVE  Sound(AppendTimer(list, t), d)
  <1> DEFINE new == AppendTimer(list, t)
  <1>1. /\ new \in Seq(TimerNode) /\ DOMAIN list \subseteq DOMAIN new
        /\ \A j \in DOMAIN list : new[j] = list[j]
        /\ \A j \in DOMAIN new \ DOMAIN list : j = Len(list) + 1 /\ new[j] = t
    BY AppendTimerNodes DEF Sound
  <1> HIDE DEF new
  <1>2. \A j \in DOMAIN new : NodeOK(new[j])
    BY <1>1 DEF Sound
  <1>3. Led(new, d)
    BY <1>1 DEF Sound, Led
  <1>4. Single(new)
    BY <1>1 DEF Sound, Single
  <1>5. Sound(new, d)
    BY <1>1, <1>2, <1>3, <1>4 DEF Sound
  <1> QED BY <1>5 DEF new

(* ... when a node is taken out, ...                                         *)
LEMMA SoundDelete ==
  ASSUME NEW list, NEW d, Sound(list, d), NEW i \in DOMAIN list
  PROVE  Sound(DeleteTimer(list, i), d)
  <1> DEFINE new == DeleteTimer(list, i)
  <1>1. /\ new \in Seq(TimerNode)
        /\ \A k \in DOMAIN new : Origin(i, k) \in DOMAIN list /\ new[k] = list[Origin(i, k)]
        /\ \A j, k \in DOMAIN new : Origin(i, j) = Origin(i, k) => j = k
    BY DeleteTimerNodes DEF Sound
  <1> HIDE DEF new
  <1>2. \A k \in DOMAIN new : NodeOK(new[k])
    BY <1>1 DEF Sound
  <1>3. Led(new, d)
    BY <1>1 DEF Sound, Led
  <1>4. Single(new)
    BY <1>1 DEF Sound, Single
  <1>5. Sound(new, d)
    BY <1>1, <1>2, <1>3, <1>4 DEF Sound
  <1> QED BY <1>5 DEF new

(* ... and when the table loses none of its devices.                         *)
LEMMA SoundTable ==
  ASSUME NEW list, NEW d, NEW e, Sound(list, d),
         \A ip \in IPs : d[ip].connected => e[ip].connected
  PROVE  Sound(list, e)
  BY DEF Sound, Led

(* What the parts of a handshake step return. *)
LEMMA NewDeviceType ==
  NoDevice \in Device /\ NewDevice \in Device /\ NewDevice.connected
  <1>1. NoDevice \in Device
    BY DEF NoDevice, Device, Status
  <1> QED BY <1>1 DEF NewDevice, Device

LEMMA NextStatusType ==
  ASSUME NEW d \in Device
  PROVE  NextStatus(d) \in Device /\ NextStatus(d).connected = d.connected
  <1>1. CASE d.status = 7
    <2> DEFINE e == [d EXCEPT !.status = 0]
    <2>1. e \in Device /\ e.connected = d.connected
      BY DEF Device, Status
    <2>2. NextStatus(d) = [e EXCEPT !.start = TRUE]
      BY <1>1 DEF NextStatus
    <2> HIDE DEF e
    <2> QED BY <2>1, <2>2 DEF Device
  <1>2. CASE d.status # 7
    <2>1. NextStatus(d) = [d EXCEPT !.status = d.status + 1]
      BY <1>2 DEF NextStatus
    <2>2. d.status + 1 \in Status
      BY <1>2 DEF Device, Status
    <2> QED BY <2>1, <2>2 DEF Device
  <1> QED BY <1>1, <1>2

LEMMA StatusTimerType ==
  ASSUME NEW s \in Status, NEW p \in IPs \cup {Freed, NoParameter}
  PROVE  /\ StatusTimer(s, p) \in TimerNode /\ NodeOK(StatusTimer(s, p))
         /\ StatusTimer(s, p).parameter = p
  <1>1. Delay[s] \in Nat \ {0}
    BY DeviceAssumption
  <1> QED BY <1>1 DEF StatusTimer, Timer, TimerNode, NodeOK, Armed

LEMMA PacketsOfType ==
  ASSUME NEW s \in Status
  PROVE  PacketsOf(s) \in Seq(Packet)
  <1>1. CASE s \in {0, 3}
    BY <1>1 DEF PacketsOf
  <1>2. CASE s \in {1, 2}
    <2>1. Protocol[s] \in Packet
      BY <1>2 DEF Packet
    <2> QED BY <1>2, <2>1 DEF PacketsOf
  <1>3. CASE s \in 4..7
    <2>1. Protocol[s - 1] \in Packet
      BY <1>3 DEF Packet
    <2> QED BY <1>3, <2>1 DEF PacketsOf
  <1> QED BY <1>1, <1>2, <1>3 DEF Status

(* A node that is counted down or expires stays a good node for its device. *)
LEMMA CountDownNode ==
  ASSUME NEW t \in TimerNode, NodeOK(t), ~Due(t)
  PROVE  /\ CountDown(t) \in TimerNode /\ NodeOK(CountDown(t))
         /\ Armed(CountDown(t)) => Armed(t) /\ CountDown(t).parameter = t.parameter
  BY DEF TimerNode, NodeOK, Due, CountDown, Armed

LEMMA ExpireNode ==
  ASSUME NEW t \in TimerNode, NodeOK(t), Due(t)
  PROVE  /\ Expire(t) \in TimerNode /\ NodeOK(Expire(t))
         /\ Armed(Expire(t)) => Armed(t) /\ Expire(t).parameter = t.parameter
         /\ t.func = "runArtNetStatus" => ~Armed(Expire(t))
  <1>1. CASE t.reload
    <2>1. Expire(t) = [t EXCEPT !.tick = t.saveTick]
      BY <1>1 DEF Expire
    <2> QED BY <1>1, <2>1 DEF TimerNode, NodeOK, Due, Armed
  <1>2. CASE ~t.reload
    <2> DEFINE u == [t EXCEPT !.tick = 0]
    <2>1. u \in TimerNode /\ u.func = t.func /\ u.reload = t.reload
      BY DEF TimerNode
    <2>2. Expire(t) = [u EXCEPT !.destroy = TRUE]
      BY <1>2 DEF Expire
    <2> HIDE DEF u
    <2> QED BY <1>2, <2>1, <2>2 DEF TimerNode, NodeOK, Armed
  <1> QED BY <1>1, <1>2

----------------------------------------------------------------------------
LEMMA InitIInv == Init => IInv
  <1> SUFFICES ASSUME Init PROVE IInv
    OBVIOUS
  <1> DEFINE poll == Timer(PollPeriod, "time1CB", NoParameter, TRUE)
  <1>1. poll \in TimerNode /\ NodeOK(poll) /\ poll.parameter = NoParameter
    BY DeviceAssumption DEF Timer, TimerNode, NodeOK, Armed
  <1> HIDE DEF poll
  <1>2. timers = <<poll>>
    BY DEF Init, poll
  <1>3. Sound(timers, dev)
    BY <1>1, <1>2, DeviceAssumption DEF Sound, Led, Single
  <1>4. TypeOK
    <2>1. timers \in Seq(TimerNode)
      BY <1>3 DEF Sound
    <2>2. dev \in [IPs -> Device]
      BY NewDeviceType DEF Init
    <2>3. packets \in [IPs -> Seq(Packet)]
      BY DEF Init
    <2>4. phase = "sleep" /\ cursor = 1 /\ time1 \in BOOLEAN /\ isExit = {}
      BY DEF Init
    <2> QED BY <2>1, <2>2, <2>3, <2>4 DEF TypeOK
  <1> QED BY <1>3, <1>4 DEF IInv

(* A timer that fires: its node is taken through Expire. *)
LEMMA ExpirySound ==
  ASSUME IInv, AtNode, Due(timers[cursor])
  PROVE  /\ Sound(Expiry, dev)
         /\ DOMAIN Expiry = DOMAIN timers
         /\ Expiry[cursor] = Expire(timers[cursor])
         /\ \A j \in DOMAIN timers : j # cursor => Expiry[j] = timers[j]
  <1>1. cursor \in DOMAIN timers /\ timers \in Seq(TimerNode)
    BY DEF IInv, TypeOK, AtNode
  <1>2. timers[cursor] \in TimerNode /\ NodeOK(timers[cursor])
    BY <1>1 DEF IInv, Sound
  <1>3. Sound(Expiry, dev)
    BY <1>1, <1>2, ExpireNode, SoundExcept DEF IInv, Expiry
  <1> QED BY <1>1, <1>2, <1>3, ExpireNode, ExceptNode DEF Expiry

LEMMA NextIInv == IInv /\ [Next]_vars => IInv'
  <1> SUFFICES ASSUME IInv, [Next]_vars PROVE IInv'
    OBVIOUS
  <1> USE DEF IInv
  <1>1. ASSUME NEW ip \in IPs, Join(ip) PROVE IInv'
    <2> DEFINE t == StatusTimer(0, ip)
               d == NextStatus(NewDevice)
    <2>2. d \in Device /\ d.connected
      BY NewDeviceType, NextStatusType
    <2>3. t \in TimerNode /\ NodeOK(t) /\ t.parameter = ip
      BY StatusTimerType DEF Status
    <2>4. PacketsOf(0) \in Seq(Packet)
      BY PacketsOfType DEF Status
    <2> HIDE DEF t, d
    <2>5. dev' = [dev EXCEPT ![ip] = d] /\ timers' = AppendTimer(timers, t) /\ ~dev[ip].connected
      BY <1>1 DEF Join, t, d
    <2>6. dev' \in [IPs -> Device] /\ \A i \in IPs : dev[i].connected => dev'[i].connected
      BY <2>2, <2>5 DEF TypeOK
    <2>7. dev'[ip].connected
      BY <2>2, <2>5 DEF TypeOK
    <2>8. Sound(timers, dev')
      BY <2>6, SoundTable
    <2>9. \A i \in DOMAIN timers : Armed(timers[i]) => timers[i].parameter # t.parameter
      BY <2>3, <2>5 DEF Sound, Led
    <2>10. Sound(timers, dev)'
      BY <2>3, <2>5, <2>7, <2>8, <2>9, SoundAppend
    <2>11. TypeOK'
      BY <1>1, <2>4, <2>6, <2>10 DEF Join, TypeOK, Sound
    <2> QED BY <2>10, <2>11
  <1>2. ASSUME NEW ip \in IPs, Refresh(ip) PROVE IInv'
    <2>1. dev' \in [IPs -> Device] /\ \A i \in IPs : dev[i].connected => dev'[i].connected
      BY <1>2 DEF Refresh, TypeOK, Device
    <2>2. Sound(timers, dev)'
      BY <1>2, <2>1, SoundTable DEF Refresh
    <2> QED BY <1>2, <2>1, <2>2 DEF Refresh, TypeOK
  <1>3. CASE WakeUp
    BY <1>3 DEF WakeUp, TypeOK
  <1>4. CASE Count
    <2>1. cursor \in DOMAIN timers /\ timers[cursor] \in TimerNode /\ NodeOK(timers[cursor])
      BY <1>4 DEF Count, AtNode, TypeOK, Sound
    <2>2. timers' = [timers EXCEPT ![cursor] = CountDown(timers[cursor])] /\ ~Due(timers[cursor])
      BY <1>4 DEF Count
    <2> DEFINE t == CountDown(timers[cursor])
    <2>3. /\ t \in TimerNode /\ NodeOK(t)
          /\ Armed(t) => Armed(timers[cursor]) /\ t.parameter = timers[cursor].parameter
      BY <2>1, <2>2, CountDownNode
    <2> HIDE DEF t
    <2>4. Sound([timers EXCEPT ![cursor] = t], dev)
      BY <2>1, <2>3, SoundExcept
    <2>5. Sound(timers, dev)'
      BY <1>4, <2>2, <2>4 DEF Count, t
    <2> QED BY <1>4, <2>5 DEF Count, TypeOK, Sound
  <1>5. CASE FirePoll
    <2>1. Sound(timers, dev)'
      BY <1>5, ExpirySound DEF FirePoll, FireAt
    <2> QED BY <1>5, <2>1 DEF FirePoll, FireAt, TypeOK, Sound
  <1>6. ASSUME NEW ip \in IPs, StatusStep(ip) PROVE IInv'
    <2> DEFINE p == timers[cursor].parameter
               t == StatusTimer(dev[ip].status, p)
    <2>1. /\ cursor \in DOMAIN timers /\ timers[cursor] \in TimerNode
          /\ Due(timers[cursor]) /\ AtNode /\ timers[cursor].func = "runArtNetStatus"
      BY <1>6 DEF StatusStep, FireAt, AtNode, TypeOK
    <2>2. dev[ip] \in Device /\ dev[ip].connected /\ dev[ip].status \in Status
      BY <1>6 DEF StatusStep, Handshaking, TypeOK, Device
    <2>3. p \in IPs \cup {Freed, NoParameter} /\ (p \in IPs => p = ip)
      BY <1>6, <2>1, DeviceAssumption DEF StatusStep, Pointee, TimerNode
    <2>4. t \in TimerNode /\ NodeOK(t) /\ t.parameter = p
      BY <2>2, <2>3, StatusTimerType
    <2>5. ~Armed(Expire(timers[cursor]))
      BY <2>1, ExpireNode DEF Sound
    <2>6. /\ Sound(Expiry, dev) /\ DOMAIN Expiry = DOMAIN timers
          /\ Expiry[cursor] = Expire(timers[cursor])
          /\ \A j \in DOMAIN timers : j # cursor => Expiry[j] = timers[j]
      BY <2>1, ExpirySound
    <2>7. timers' = AppendTimer(Expiry, t) /\ dev' = [dev EXCEPT ![ip] = NextStatus(dev[ip])]
      BY <1>6 DEF StatusStep
    <2>8. NextStatus(dev[ip]) \in Device /\ NextStatus(dev[ip]).connected
      BY <2>2, NextStatusType
    <2>9. dev' \in [IPs -> Device] /\ \A i \in IPs : dev[i].connected => dev'[i].connected
      BY <2>7, <2>8 DEF TypeOK
    <2>10. ASSUME p \in IPs, NEW j \in DOMAIN Expiry, Armed(Expiry[j]), Expiry[j].parameter = p
           PROVE  FALSE
      <3>1. j # cursor /\ j \in DOMAIN timers /\ Expiry[j] = timers[j]
        BY <2>5, <2>6, <2>10
      <3>2. Armed(timers[cursor])
        BY <2>1 DEF Due
      <3> QED BY <2>1, <2>10, <3>1, <3>2 DEF Sound, Single
    <2>11. Sound(Expiry, dev') /\ (p \in IPs => dev'[p].connected)
      BY <2>2, <2>3, <2>6, <2>9, SoundTable
    <2> HIDE DEF t, p
    <2>12. Sound(AppendTimer(Expiry, t), dev')
      BY <2>4, <2>10, <2>11, SoundAppend
    <2>13. Sound(timers, dev)'
      BY <2>7, <2>12
    <2>14. packets' \in [IPs -> Seq(Packet)]
      <3>1. PacketsOf(dev[ip].status) \in Seq(Packet) /\ packets[ip] \in Seq(Packet)
        BY <2>2, PacketsOfType DEF TypeOK
      <3>2. packets[ip] \o PacketsOf(dev[ip].status) \in Seq(Packet)
        BY <3>1
      <3> QED BY <1>6, <3>2 DEF StatusStep, TypeOK
    <2>15. isExit' \in SUBSET IPs /\ phase' = phase /\ time1' = time1 /\ cursor' = cursor + 1
      BY <1>6 DEF StatusStep, FireAt, TypeOK
    <2> QED BY <2>9, <2>13, <2>14, <2>15 DEF TypeOK, Sound
  <1>7. ASSUME NEW ip \in IPs \cup {Freed}, StatusDone(ip) PROVE IInv'
    <2>1. Sound(timers, dev)'
      BY <1>7, ExpirySound DEF StatusDone, FireAt
    <2> QED BY <1>7, <2>1 DEF StatusDone, FireAt, TypeOK, Sound
  <1>8. CASE EndRun
    BY <1>8 DEF EndRun, TypeOK
  <1>9. CASE SortRemove
    <2>1. cursor \in DOMAIN timers
      BY <1>9 DEF SortRemove, AtNode, TypeOK
    <2>2. Sound(timers, dev)'
      BY <1>9, <2>1, SoundDelete DEF SortRemove
    <2> QED BY <1>9, <2>2 DEF SortRemove, TypeOK, Sound
  <1>10. CASE SortKeep
    BY <1>10 DEF SortKeep, TypeOK
  <1>11. CASE EndSort
    BY <1>11 DEF EndSort, TypeOK
  <1>12. CASE PollAndAge
    <2> DEFINE gone == {ip \in IPs : Expired(dev[ip])}
    <2>1. /\ dev' = [ip \in IPs |-> IF ip \in gone THEN NoDevice
                                   ELSE IF dev[ip].connected THEN Aged(dev[ip]) ELSE dev[ip]]
          /\ timers' = [i \in DOMAIN timers |->
                          IF timers[i].parameter \in gone
                          THEN [timers[i] EXCEPT !.parameter = Freed] ELSE timers[i]]
          /\ gone \subseteq IPs
      BY <1>12 DEF PollAndAge
    <2> HIDE DEF gone
    <2>3. ASSUME NEW d \in Device PROVE Aged(d) \in Device /\ (d.connected => Aged(d).connected)
      <3>1. CASE d.oldTime + 1 > OldTick
        BY <3>1, NewDeviceType DEF Aged
      <3>2. CASE ~(d.oldTime + 1 > OldTick)
        <4>1. Aged(d) = [[d EXCEPT !.tick = d.tick + 1] EXCEPT !.oldTime = d.oldTime + 1]
          BY <3>2 DEF Aged
        <4> DEFINE e == [d EXCEPT !.tick = d.tick + 1]
        <4>2. e \in Device /\ e.connected = d.connected /\ d.oldTime + 1 \in Nat
          BY DEF Device
        <4> HIDE DEF e
        <4>3. [e EXCEPT !.oldTime = d.oldTime + 1] \in Device
              /\ [e EXCEPT !.oldTime = d.oldTime + 1].connected = e.connected
          BY <4>2 DEF Device
        <4> QED BY <4>1, <4>2, <4>3 DEF e
      <3> QED BY <3>1, <3>2
    <2>4. dev' \in [IPs -> Device]
      BY <2>1, <2>3, NewDeviceType DEF TypeOK
    <2>5. \A ip \in IPs \ gone : dev[ip].connected => dev'[ip].connected
      BY <2>1, <2>3 DEF TypeOK
    <2>6. ASSUME NEW t \in TimerNode, NodeOK(t), NEW u, u = [t EXCEPT !.parameter = Freed]
          PROVE  u \in TimerNode /\ NodeOK(u) /\ u.parameter = Freed
      BY <2>6 DEF TimerNode, NodeOK, Armed
    <2>7. /\ timers' \in Seq(TimerNode) /\ DOMAIN timers' = DOMAIN timers
          /\ \A i \in DOMAIN timers : NodeOK(timers'[i])
          /\ \A i \in DOMAIN timers : timers'[i] = timers[i] \/ timers'[i].parameter = Freed
          /\ \A i \in DOMAIN timers : timers'[i].parameter \notin gone
      <3>1. timers \in Seq(TimerNode) /\ \A i \in DOMAIN timers : NodeOK(timers[i])
        BY DEF Sound
      <3>2. Freed \notin gone
        BY <2>1, DeviceAssumption
      <3>3. ASSUME NEW i \in DOMAIN timers
            PROVE  /\ timers'[i] \in TimerNode /\ NodeOK(timers'[i])
                   /\ timers'[i] = timers[i] \/ timers'[i].parameter = Freed
                   /\ timers'[i].parameter \notin gone
        <4>1. timers[i] \in TimerNode /\ NodeOK(timers[i])
          BY <3>1
        <4>2. CASE timers[i].parameter \in gone
          <5>1. timers'[i] = [timers[i] EXCEPT !.parameter = Freed]
            BY <2>1, <4>2
          <5> QED BY <2>6, <3>2, <4>1, <5>1
        <4>3. CASE timers[i].parameter \notin gone
          BY <2>1, <4>1, <4>3
        <4> QED BY <4>2, <4>3
      <3>4. timers' \in Seq(TimerNode) /\ DOMAIN timers' = DOMAIN timers
        BY <2>1, <3>1, <3>3
      <3> QED BY <3>3, <3>4
    <2>8. Led(timers', dev') /\ Single(timers')
      BY <2>5, <2>7, DeviceAssumption DEF Sound, Led, Single
    <2>9. Sound(timers, dev)'
      BY <2>7, <2>8 DEF Sound
    <2> QED BY <1>12, <2>4, <2>9 DEF PollAndAge, TypeOK, Sound
  <1>13. CASE UNCHANGED vars
    BY <1>13 DEF vars, TypeOK
  <1> QED
    BY <1>1, <1>2, <1>3, <1>4, <1>5, <1>6, <1>7, <1>8, <1>9, <1>10, <1>11, <1>12, <1>13
    DEF Next, Server, Reply

(* Every variable keeps its type in every run: in particular no armed timer is *)
(* ever counted below zero, where the unsigned tick of the code would wrap.    *)
THEOREM TypeCorrect == Spec => []TypeOK
  <1>1. IInv => TypeOK
    BY DEF IInv
  <1> QED BY <1>1, InitIInv, NextIInv, PTL DEF Spec

(* However replies, polls and handshake steps interleave, runArtNetStatus and  *)
(* artNetCB never leave two armed timers for one device of the table.          *)
THEOREM OneTimer == Spec => []OneTimerPerDevice
  <1>1. IInv => OneTimerPerDevice
    BY DEF IInv, Sound, Single, OneTimerPerDevice, TimerOf
  <1> QED BY <1>1, InitIInv, NextIInv, PTL DEF Spec

----------------------------------------------------------------------------
(* Time. A handshake is over before its device can be dropped or restarted:  *)
(* the poll that would count is the first node of the same list, so what a   *)
(* device has still to wait for and what the polls have counted against it   *)
(* add up to less than a handshake and the ticks to the next poll.           *)

(* The delays from status s on. *)
DelayFrom(k, s) == IF k >= s THEN Delay[k] ELSE 0
Rest(s) == DelayFrom(0, s) + DelayFrom(1, s) + DelayFrom(2, s) + DelayFrom(3, s)
             + DelayFrom(4, s) + DelayFrom(5, s) + DelayFrom(6, s) + DelayFrom(7, s)

(* The ticks after which a timer fires, the present pass not counted, ...    *)
Left(i) == IF phase = "run" /\ i >= cursor THEN timers[i].tick - 1 ELSE timers[i].tick
(* ... those its device waits for after that, ...                            *)
StepsLeft(d) == IF d.start THEN 0 ELSE Rest(d.status)
(* ... and those of the polls counted against it.                            *)
Spent(d) == (IF time1 THEN d.oldTime + 1 ELSE d.oldTime) * PollPeriod

InTime(i, d) == /\ d.connected
                /\ d.start \/ d.status # 0
                /\ Left(i) + StepsLeft(d) + Spent(d) < Rest(0) + Left(1)
OnTime == \A i \in DOMAIN timers \ {1} :
            Armed(timers[i]) => InTime(i, dev[timers[i].parameter])

(* The first node is the poll, and the others step handshakes. *)
Poll(t) == /\ t.func = "time1CB" /\ t.reload /\ ~t.destroy
           /\ t.saveTick = PollPeriod /\ t.tick <= PollPeriod /\ t.parameter = NoParameter
Kinds ==
  /\ 1 \in DOMAIN timers /\ Poll(timers[1])
  /\ \A i \in DOMAIN timers \ {1} : timers[i].func = "runArtNetStatus" /\ timers[i].parameter \in IPs

(* Finished nodes lie behind the loop that finishes them and ahead of the    *)
(* one that takes them out; the poll's event is handled right after the poll.*)
Swept ==
  /\ phase = "sleep" => \A i \in DOMAIN timers : Armed(timers[i])
  /\ phase = "run" => \A i \in DOMAIN timers : i >= cursor => Armed(timers[i])
  /\ phase = "sort" => \A i \in DOMAIN timers : i < cursor => Armed(timers[i])
  /\ time1 => phase = "run" /\ cursor = 2

(* Every poll that counts a missed reply counts towards the restart. *)
Ages == \A ip \in IPs : dev[ip].tick <= dev[ip].oldTime

TInv == IInv /\ Kinds /\ Swept /\ Ages /\ OnTime

LEMMA RestFacts ==
  /\ \A s \in Status : Rest(s) = Delay[s] + Rest(s + 1)
  /\ \A s \in 0..8 : Rest(s) \in Nat
  /\ Rest(8) = 0
  <1>1. Delay[0] \in Nat /\ Delay[1] \in Nat /\ Delay[2] \in Nat /\ Delay[3] \in Nat
        /\ Delay[4] \in Nat /\ Delay[5] \in Nat /\ Delay[6] \in Nat /\ Delay[7] \in Nat
    BY DeviceAssumption DEF Status
  <1>2. \A k \in 0..7, s \in 0..8 : DelayFrom(k, s) \in Nat
    BY <1>1 DEF DelayFrom
  <1>3. \A s \in 0..8 : Rest(s) \in Nat
    BY <1>2 DEF Rest
  <1>4. Rest(8) = 0
    BY DEF Rest, DelayFrom
  <1>5. ASSUME NEW s \in Status PROVE Rest(s) = Delay[s] + Rest(s + 1)
    <2>1. s = 0 \/ s = 1 \/ s = 2 \/ s = 3 \/ s = 4 \/ s = 5 \/ s = 6 \/ s = 7
      BY DEF Status
    <2> QED BY <1>1, <2>1 DEF Rest, DelayFrom
  <1> QED BY <1>3, <1>4, <1>5

(* The periods of so many polls. *)
LEMMA Periods ==
  ASSUME NEW a \in Nat, NEW b \in Nat
  PROVE  /\ a * PollPeriod \in Nat
         /\ (a + 1) * PollPeriod = a * PollPeriod + PollPeriod
         /\ a * PollPeriod < b * PollPeriod => a < b
  <1>1. PollPeriod \in Nat /\ PollPeriod > 0
    BY DeviceAssumption
  <1>2. (a + 1) * PollPeriod = a * PollPeriod + PollPeriod /\ a * PollPeriod \in Nat
    BY <1>1
  <1>3. ASSUME a >= b PROVE a * PollPeriod >= b * PollPeriod
    <2>1. PICK c \in Nat : a = b + c
      <3>1. a - b \in Nat /\ a = b + (a - b)
        BY <1>3
      <3> QED BY <3>1
    <2>2. a * PollPeriod = b * PollPeriod + c * PollPeriod /\ c * PollPeriod \in Nat
          /\ b * PollPeriod \in Nat
      BY <1>1, <2>1
    <2> QED BY <2>2
  <1>4. b * PollPeriod \in Nat
    BY <1>1
  <1> QED BY <1>2, <1>3, <1>4

(* What the terms of OnTime are made of. *)
LEMMA TermTypes ==
  ASSUME TInv
  PROVE  /\ \A i \in DOMAIN timers : /\ timers[i] \in TimerNode /\ timers[i].tick \in Nat
                                     /\ Armed(timers[i]) => timers[i].tick > 0 /\ Left(i) \in Nat
         /\ Left(1) \in Nat /\ Left(1) <= PollPeriod
         /\ \A ip \in IPs : /\ dev[ip] \in Device
                            /\ StepsLeft(dev[ip]) \in Nat /\ Spent(dev[ip]) \in Nat
  <1>1. ASSUME NEW i \in DOMAIN timers
        PROVE  /\ timers[i] \in TimerNode /\ timers[i].tick \in Nat
               /\ Armed(timers[i]) => timers[i].tick > 0 /\ Left(i) \in Nat
    <2>1. timers[i] \in TimerNode /\ NodeOK(timers[i])
      BY DEF TInv, IInv, Sound
    <2>2. timers[i].tick \in Nat
      BY <2>1 DEF TimerNode
    <2>3. Armed(timers[i]) => timers[i].tick > 0
      BY <2>1 DEF NodeOK
    <2> QED BY <2>1, <2>2, <2>3 DEF Left
  <1>2. 1 \in DOMAIN timers /\ Armed(timers[1]) /\ timers[1].tick <= PollPeriod
    BY DEF TInv, Kinds, Poll, Armed
  <1>3. Left(1) \in Nat /\ Left(1) <= PollPeriod
    BY <1>1, <1>2, DeviceAssumption DEF Left
  <1>4. ASSUME NEW ip \in IPs
        PROVE  dev[ip] \in Device /\ StepsLeft(dev[ip]) \in Nat /\ Spent(dev[ip]) \in Nat
    <2>1. dev[ip] \in Device
      BY DEF TInv, IInv, TypeOK
    <2>2. dev[ip].status \in Status /\ dev[ip].oldTime \in Nat /\ dev[ip].oldTime + 1 \in Nat
      BY <2>1 DEF Device
    <2>3. StepsLeft(dev[ip]) \in Nat
      BY <2>2, RestFacts DEF StepsLeft, Status
    <2>4. Spent(dev[ip]) \in Nat
      BY <2>2, Periods DEF Spent
    <2> QED BY <2>1, <2>3, <2>4
  <1> QED BY <1>1, <1>3, <1>4

(* The polls neither drop nor restart a device that has an armed timer. *)
LEMMA KeptByPoll ==
  ASSUME TInv, time1, NEW i \in DOMAIN timers \ {1}, NEW d, d = dev[timers[i].parameter]
  PROVE  /\ timers[i].parameter \in IPs /\ d \in Device
         /\ Armed(timers[i]) => d.connected /\ ~Expired(d) /\ ~(d.oldTime + 1 > OldTick)
  <1>1. timers[i].parameter \in IPs /\ d \in Device /\ d.tick <= d.oldTime
        /\ d.oldTime \in Nat /\ d.tick \in Nat
    BY DEF TInv, IInv, TypeOK, Kinds, Ages, Device
  <1> SUFFICES ASSUME Armed(timers[i])
               PROVE  d.connected /\ ~Expired(d) /\ ~(d.oldTime + 1 > OldTick)
    BY <1>1
  <1>2. d.connected /\ Left(i) + StepsLeft(d) + Spent(d) < Rest(0) + Left(1)
    BY DEF TInv, OnTime, InTime
  <1>3. Left(i) \in Nat /\ StepsLeft(d) \in Nat /\ Spent(d) \in Nat
        /\ Left(1) \in Nat /\ Left(1) <= PollPeriod
    BY <1>1, TermTypes
  <1>4. PollPeriod \in Nat /\ Rest(0) \in Nat /\ DisconnectTick + 1 \in Nat /\ OldTick \in Nat
        /\ DisconnectTick \in Nat
    BY DeviceAssumption, RestFacts
  <1>5. Spent(d) = d.oldTime * PollPeriod + PollPeriod /\ d.oldTime * PollPeriod \in Nat
    BY <1>1, Periods DEF Spent
  <1>6. d.oldTime * PollPeriod < Rest(0)
    BY <1>2, <1>3, <1>4, <1>5
  <1>7. Rest(0) <= (DisconnectTick + 1) * PollPeriod /\ Rest(0) <= OldTick * PollPeriod
    BY TimingAssumption DEF Rest, DelayFrom
  <1>8. (DisconnectTick + 1) * PollPeriod \in Nat /\ OldTick * PollPeriod \in Nat
    BY <1>4, Periods
  <1>9. d.oldTime * PollPeriod < (DisconnectTick + 1) * PollPeriod
        /\ d.oldTime * PollPeriod < OldTick * PollPeriod
    BY <1>4, <1>5, <1>6, <1>7, <1>8
  <1>10. d.oldTime < DisconnectTick + 1 /\ d.oldTime < OldTick
    BY <1>1, <1>4, <1>9, Periods
  <1> QED BY <1>1, <1>2, <1>4, <1>10 DEF Expired

(* An armed timer stays in time when what is left of it and the polls spent  *)
(* against its device grow no more than the ticks to the next poll.          *)
LEMMA StaysInTime ==
  ASSUME TInv, NEW i, NEW j \in DOMAIN timers \ {1}, Armed(timers[j]),
         NEW ip \in IPs, timers[j].parameter = ip,
         dev'[ip].connected = dev[ip].connected, dev'[ip].start = dev[ip].start,
         dev'[ip].status = dev[ip].status,
         Left(i)' \in Nat, Left(1)' \in Nat, Spent(dev[ip])' \in Nat,
         Left(i)' + Spent(dev[ip])' + Left(1) <= Left(j) + Spent(dev[ip]) + Left(1)'
  PROVE  InTime(i, dev[ip])'
  <1>1. /\ dev[ip].connected /\ (dev[ip].start \/ dev[ip].status # 0)
        /\ Left(j) + StepsLeft(dev[ip]) + Spent(dev[ip]) < Rest(0) + Left(1)
    BY DEF TInv, OnTime, InTime
  <1>2. /\ Left(j) \in Nat /\ Left(1) \in Nat /\ Spent(dev[ip]) \in Nat
        /\ StepsLeft(dev[ip]) \in Nat /\ Rest(0) \in Nat
    BY TermTypes, RestFacts
  <1>3. StepsLeft(dev'[ip]) = StepsLeft(dev[ip])
    BY DEF StepsLeft
  <1>4. Left(i)' + StepsLeft(dev'[ip]) + Spent(dev[ip])' < Rest(0) + Left(1)'
    BY <1>1, <1>2, <1>3
  <1> QED BY <1>1, <1>4 DEF InTime

(* What a counting step changes: the node at the cursor is passed and has    *)
(* the same time left.                                                       *)
LEMMA CountShape ==
  ASSUME TInv, Count
  PROVE  /\ DOMAIN timers' = DOMAIN timers
         /\ \A i \in DOMAIN timers :
              /\ timers'[i].func = timers[i].func /\ timers'[i].parameter = timers[i].parameter
              /\ timers'[i].reload = timers[i].reload /\ timers'[i].saveTick = timers[i].saveTick
              /\ timers'[i].destroy = timers[i].destroy
              /\ timers'[i].tick <= timers[i].tick
              /\ Left(i)' = Left(i)
  <1>1. cursor \in DOMAIN timers /\ timers \in Seq(TimerNode) /\ phase = "run" /\ phase' = phase
        /\ cursor' = cursor + 1 /\ cursor \in Nat
    BY DEF Count, ServerAt, AtNode, TInv, IInv, TypeOK
  <1>2. Armed(timers[cursor])
    BY <1>1 DEF TInv, Swept
  <1> DEFINE t == timers[cursor]
  <1>3. t \in TimerNode /\ t.tick \in Nat /\ t.tick > 0
    BY <1>1, <1>2, TermTypes
  <1> DEFINE u == [t EXCEPT !.tick = t.tick - 1]
  <1>4. timers' = [timers EXCEPT ![cursor] = u]
    BY <1>2 DEF Count, CountDown
  <1>5. /\ u.func = t.func /\ u.parameter = t.parameter /\ u.reload = t.reload
        /\ u.saveTick = t.saveTick /\ u.destroy = t.destroy /\ u.tick = t.tick - 1
    BY <1>3 DEF TimerNode
  <1> HIDE DEF u
  <1>6. DOMAIN timers' = DOMAIN timers /\ timers'[cursor] = u
        /\ \A i \in DOMAIN timers : i # cursor => timers'[i] = timers[i]
    BY <1>1, <1>4
  <1>7. ASSUME NEW i \in DOMAIN timers
        PROVE  timers'[i].tick <= timers[i].tick /\ Left(i)' = Left(i)
    <2>1. i \in Nat /\ timers[i].tick \in Nat
      BY <1>1, TermTypes
    <2>2. CASE i = cursor
      BY <1>1, <1>3, <1>5, <1>6, <2>1, <2>2 DEF Left
    <2>3. CASE i # cursor
      BY <1>1, <1>6, <2>1, <2>3 DEF Left
    <2> QED BY <2>2, <2>3
  <1> QED BY <1>5, <1>6, <1>7

(* A timer of a handshake that fires: it is not the poll, its time is up and *)
(* its node is finished, and no other node changes.                          *)
LEMMA FireShape ==
  ASSUME TInv, FireAt("runArtNetStatus")
  PROVE  /\ cursor \in DOMAIN timers \ {1} /\ timers[cursor].parameter \in IPs
         /\ phase = "run" /\ ~time1 /\ cursor' = cursor + 1 /\ cursor \in Nat
         /\ Armed(timers[cursor]) /\ Left(cursor) = 0
         /\ Expiry \in Seq(TimerNode) /\ DOMAIN Expiry = DOMAIN timers
         /\ ~Armed(Expiry[cursor])
         /\ Expiry[cursor].func = "runArtNetStatus"
         /\ Expiry[cursor].parameter = timers[cursor].parameter
         /\ \A j \in DOMAIN timers : j # cursor => Expiry[j] = timers[j]
  <1>1. cursor \in DOMAIN timers /\ phase = "run" /\ ~time1 /\ cursor' = cursor + 1
        /\ Due(timers[cursor]) /\ AtNode /\ cursor \in Nat /\ timers[cursor].func = "runArtNetStatus"
    BY DEF FireAt, ServerAt, AtNode, TInv, IInv, TypeOK
  <1>2. cursor # 1 /\ timers[cursor].parameter \in IPs
    BY <1>1 DEF TInv, Kinds, Poll
  <1>3. Armed(timers[cursor]) /\ Left(cursor) = 0
    BY <1>1 DEF Due, Left
  <1>4. timers[cursor] \in TimerNode /\ NodeOK(timers[cursor])
    BY <1>1 DEF TInv, IInv, Sound
  <1>5. /\ Sound(Expiry, dev) /\ DOMAIN Expiry = DOMAIN timers
        /\ Expiry[cursor] = Expire(timers[cursor])
        /\ \A j \in DOMAIN timers : j # cursor => Expiry[j] = timers[j]
    BY <1>1, ExpirySound DEF TInv
  <1>6. ~Armed(Expire(timers[cursor])) /\ ~timers[cursor].reload
    BY <1>1, <1>4, ExpireNode DEF NodeOK
  <1>7. Expire(timers[cursor]).func = timers[cursor].func
        /\ Expire(timers[cursor]).parameter = timers[cursor].parameter
    BY <1>4, <1>6 DEF Expire, TimerNode
  <1> QED BY <1>1, <1>2, <1>3, <1>5, <1>6, <1>7 DEF Sound

LEMMA InitTInv == Init => TInv
  <1> SUFFICES ASSUME Init PROVE TInv
    OBVIOUS
  <1> DEFINE poll == Timer(PollPeriod, "time1CB", NoParameter, TRUE)
  <1>1. poll.func = "time1CB" /\ poll.reload /\ ~poll.destroy /\ poll.saveTick = PollPeriod
        /\ poll.tick = PollPeriod /\ poll.parameter = NoParameter
    BY DEF Timer
  <1> HIDE DEF poll
  <1>2. timers = <<poll>> /\ phase = "sleep" /\ time1 = FALSE
    BY DEF Init, poll
  <1>3. DOMAIN timers = {1} /\ timers[1] = poll
    BY <1>2
  <1>4. Kinds
    BY <1>1, <1>3, DeviceAssumption DEF Kinds, Poll
  <1>5. Swept
    BY <1>1, <1>2, <1>3 DEF Swept, Armed
  <1>6. Ages
    BY DEF Ages, Init, NoDevice
  <1>7. OnTime
    BY <1>3 DEF OnTime
  <1> QED BY <1>4, <1>5, <1>6, <1>7, InitIInv DEF TInv

(* What NextStatus and StatusTimer return. *)
LEMMA NextStatusFields ==
  ASSUME NEW d \in Device, ~d.start
  PROVE  LET e == NextStatus(d)
         IN /\ e.connected = d.connected /\ e.tick = d.tick /\ e.oldTime = d.oldTime
            /\ d.status = 7 => e.start /\ e.status = 0
            /\ d.status # 7 => ~e.start /\ e.status = d.status + 1
            /\ e.start \/ e.status # 0
            /\ StepsLeft(e) = Rest(d.status + 1)
  <1> DEFINE e == NextStatus(d)
  <1>0. d.status \in Status /\ d.start \in BOOLEAN
    BY DEF Device
  <1>1. CASE d.status = 7
    <2> DEFINE c == [d EXCEPT !.status = 0]
    <2>1. c \in Device /\ c.connected = d.connected /\ c.tick = d.tick /\ c.oldTime = d.oldTime
          /\ c.status = 0
      BY DEF Device, Status
    <2>2. e = [c EXCEPT !.start = TRUE]
      BY <1>1 DEF NextStatus
    <2> HIDE DEF c, e
    <2>3. /\ e.connected = c.connected /\ e.tick = c.tick /\ e.oldTime = c.oldTime
          /\ e.start /\ e.status = c.status
      BY <2>1, <2>2 DEF Device
    <2>4. StepsLeft(e) = Rest(d.status + 1)
      BY <1>1, <2>3, RestFacts DEF StepsLeft
    <2> QED BY <1>1, <2>1, <2>3, <2>4 DEF e
  <1>2. CASE d.status # 7
    <2>1. e = [d EXCEPT !.status = d.status + 1] /\ d.status + 1 \in Status /\ d.status + 1 # 0
      BY <1>0, <1>2 DEF NextStatus, Status
    <2> HIDE DEF e
    <2>2. /\ e.connected = d.connected /\ e.tick = d.tick /\ e.oldTime = d.oldTime
          /\ e.start = d.start /\ e.status = d.status + 1
      BY <2>1 DEF Device
    <2>3. StepsLeft(e) = Rest(d.status + 1)
      BY <2>2 DEF StepsLeft
    <2> QED BY <1>2, <2>1, <2>2, <2>3 DEF e
  <1> QED BY <1>1, <1>2

LEMMA StatusTimerFields ==
  ASSUME NEW s \in Status, NEW p
  PROVE  LET t == StatusTimer(s, p)
         IN /\ t.func = "runArtNetStatus" /\ t.parameter = p /\ Armed(t) /\ t.tick = Delay[s]
            /\ Delay[s] \in Nat /\ Delay[s] > 0
  BY DeviceAssumption DEF StatusTimer, Timer, Armed

LEMMA JoinTInv ==
  ASSUME TInv, NEW ip \in IPs, Join(ip)
  PROVE  TInv'
  <1>1. IInv'
    BY NextIInv DEF TInv, Next, Reply
  <1> DEFINE t == StatusTimer(0, ip)
             d == NextStatus(NewDevice)
  <1>2. /\ t.func = "runArtNetStatus" /\ t.parameter = ip /\ Armed(t) /\ t.tick = Delay[0]
        /\ Delay[0] \in Nat /\ Delay[0] > 0 /\ t \in TimerNode
    BY StatusTimerFields, StatusTimerType DEF Status
  <1>3. /\ d.connected /\ d.tick = 0 /\ d.oldTime = 0 /\ (d.start \/ d.status # 0)
        /\ StepsLeft(d) = Rest(1)
    <2>1. NewDevice \in Device /\ ~NewDevice.start /\ NewDevice.connected /\ NewDevice.status = 0
          /\ NewDevice.tick = 0 /\ NewDevice.oldTime = 0
      BY NewDeviceType DEF NewDevice, NoDevice
    <2>2. NewDevice.status + 1 = 1
      BY <2>1
    <2> QED BY <2>1, <2>2, NextStatusFields
  <1> HIDE DEF t, d
  <1>4. /\ dev' = [dev EXCEPT ![ip] = d] /\ timers' = AppendTimer(timers, t) /\ ~dev[ip].connected
        /\ phase = "sleep" /\ ~time1 /\ phase' = phase /\ cursor' = cursor /\ time1' = time1
    BY DEF Join, TcpipRuns, t, d
  <1>5. dev'[ip] = d /\ \A q \in IPs : q # ip => dev'[q] = dev[q]
    BY <1>4 DEF TInv, IInv, TypeOK
  <1>6. /\ timers \in Seq(TimerNode) /\ timers' \in Seq(TimerNode) /\ DOMAIN timers \subseteq DOMAIN timers'
        /\ \A j \in DOMAIN timers : timers'[j] = timers[j]
        /\ \A j \in DOMAIN timers' \ DOMAIN timers : j = Len(timers) + 1 /\ timers'[j] = t
    BY <1>2, <1>4, AppendTimerNodes DEF TInv, IInv, TypeOK
  <1>7. 1 \in DOMAIN timers /\ \A j \in DOMAIN timers : Armed(timers[j])
    BY <1>4 DEF TInv, Kinds, Swept
  <1>8. Kinds'
    BY <1>2, <1>6, <1>7 DEF TInv, Kinds
  <1>9. Swept'
    BY <1>2, <1>4, <1>6, <1>7 DEF Swept
  <1>10. Ages'
    BY <1>3, <1>5 DEF TInv, Ages
  <1>11. Left(1)' = Left(1) /\ Left(1) \in Nat /\ Left(1) > 0
    BY <1>4, <1>6, <1>7, TermTypes DEF Left
  <1>12. ASSUME NEW i \in DOMAIN timers' \ {1}, Armed(timers'[i])
         PROVE  InTime(i, dev[timers[i].parameter])'
    <2>1. CASE i \in DOMAIN timers
      <3> DEFINE q == timers[i].parameter
      <3>1. q \in IPs /\ dev[q].connected /\ q # ip /\ timers'[i] = timers[i]
        BY <1>4, <1>6, <1>7, <2>1 DEF TInv, Kinds, IInv, Sound, Led
      <3>2. dev'[q] = dev[q] /\ Left(i)' = Left(i) /\ Spent(dev[q])' = Spent(dev[q])
        BY <1>4, <1>5, <3>1 DEF Left, Spent
      <3>3. Left(i) \in Nat /\ Spent(dev[q]) \in Nat
        BY <1>7, <2>1, <3>1, TermTypes
      <3>4. InTime(i, dev[q])'
        BY <1>7, <1>11, <2>1, <3>1, <3>2, <3>3, StaysInTime
      <3> QED BY <3>1, <3>4
    <2>2. CASE i \notin DOMAIN timers
      <3>1. timers'[i] = t
        BY <1>6, <2>2
      <3>2. Left(i)' = Delay[0]
        BY <1>2, <1>4, <3>1 DEF Left
      <3>3. Spent(d)' = 0
        <4>1. Spent(d)' = 0 * PollPeriod /\ PollPeriod \in Nat
          BY <1>3, <1>4, DeviceAssumption DEF Spent
        <4> QED BY <4>1
      <3>4. Rest(0) = Delay[0] + Rest(1) /\ Rest(1) \in Nat /\ Rest(0) \in Nat
        BY RestFacts DEF Status
      <3>5. Left(i)' + StepsLeft(d) + Spent(d)' < Rest(0) + Left(1)'
        BY <1>2, <1>3, <1>11, <3>2, <3>3, <3>4
      <3>6. dev'[ip] = d /\ timers'[i].parameter = ip
        BY <1>2, <1>5, <3>1
      <3> QED BY <1>3, <3>5, <3>6 DEF InTime, Spent
    <2> QED BY <2>1, <2>2
  <1>13. OnTime'
    BY <1>12 DEF OnTime
  <1> QED BY <1>1, <1>8, <1>9, <1>10, <1>13 DEF TInv

LEMMA StatusStepTInv ==
  ASSUME TInv, NEW ip \in IPs, StatusStep(ip)
  PROVE  /\ TInv'
         /\ timers[cursor].parameter = ip /\ dev[ip].status # 0
         /\ \A i \in DOMAIN timers : i # cursor /\ Armed(timers[i]) => timers[i].parameter # ip
  <1>1. IInv'
    BY NextIInv DEF TInv, Next, Server
  <1>2. /\ cursor \in DOMAIN timers \ {1} /\ timers[cursor].parameter \in IPs
        /\ phase = "run" /\ ~time1 /\ cursor' = cursor + 1 /\ cursor \in Nat
        /\ Armed(timers[cursor]) /\ Left(cursor) = 0
        /\ Expiry \in Seq(TimerNode) /\ DOMAIN Expiry = DOMAIN timers
        /\ ~Armed(Expiry[cursor])
        /\ Expiry[cursor].func = "runArtNetStatus"
        /\ Expiry[cursor].parameter = timers[cursor].parameter
        /\ \A j \in DOMAIN timers : j # cursor => Expiry[j] = timers[j]
    BY FireShape DEF StatusStep
  <1>3. timers[cursor].parameter = ip
    BY <1>2, DeviceAssumption DEF StatusStep, Pointee
  <1> DEFINE d == dev[ip]
             e == NextStatus(d)
             t == StatusTimer(d.status, ip)
  <1>4. /\ dev' = [dev EXCEPT ![ip] = e] /\ timers' = AppendTimer(Expiry, t)
        /\ phase' = phase /\ time1' = time1 /\ ~d.start /\ d.connected
    BY <1>3 DEF StatusStep, Handshaking
  <1>5. d \in Device /\ d.status \in Status /\ d.oldTime \in Nat /\ d.tick <= d.oldTime
    BY DEF TInv, IInv, TypeOK, Device, Ages
  <1>6. /\ e.connected /\ e.tick = d.tick /\ e.oldTime = d.oldTime /\ (e.start \/ e.status # 0)
        /\ StepsLeft(e) = Rest(d.status + 1)
    BY <1>4, <1>5, NextStatusFields
  <1>7. /\ t.func = "runArtNetStatus" /\ t.parameter = ip /\ Armed(t) /\ t.tick = Delay[d.status]
        /\ Delay[d.status] \in Nat /\ Delay[d.status] > 0 /\ t \in TimerNode
    BY <1>5, StatusTimerFields, StatusTimerType
  <1>8. InTime(cursor, d)
    BY <1>2, <1>3 DEF TInv, OnTime
  <1>9. d.status # 0
    BY <1>4, <1>8 DEF InTime
  <1>10. ASSUME NEW i \in DOMAIN timers, i # cursor, Armed(timers[i]) PROVE timers[i].parameter # ip
    BY <1>2, <1>3, <1>10 DEF TInv, IInv, Sound, Single
  <1> HIDE DEF e, t
  <1>11. dev'[ip] = e /\ \A q \in IPs : q # ip => dev'[q] = dev[q]
    BY <1>4 DEF TInv, IInv, TypeOK
  <1>12. /\ timers' \in Seq(TimerNode) /\ DOMAIN timers \subseteq DOMAIN timers'
         /\ \A j \in DOMAIN timers : timers'[j] = Expiry[j]
         /\ \A j \in DOMAIN timers' \ DOMAIN timers : j = Len(Expiry) + 1 /\ timers'[j] = t
    <2>1. /\ timers' \in Seq(TimerNode) /\ DOMAIN Expiry \subseteq DOMAIN timers'
          /\ \A j \in DOMAIN Expiry : timers'[j] = Expiry[j]
          /\ \A j \in DOMAIN timers' \ DOMAIN Expiry : j = Len(Expiry) + 1 /\ timers'[j] = t
      <3>1. Expiry \in Seq(TimerNode) /\ t \in TimerNode /\ timers' = AppendTimer(Expiry, t)
        BY <1>2, <1>4, <1>7
      <3> QED BY <3>1, AppendTimerNodes
    <2> QED BY <1>2, <2>1
  <1>13. Len(Expiry) = Len(timers) /\ DOMAIN timers = 1..Len(timers) /\ Len(timers) \in Nat
    BY <1>2 DEF TInv, IInv, TypeOK
  <1>14. 1 \in DOMAIN timers /\ timers'[1] = timers[1] /\ cursor > 1
    BY <1>2, <1>12, <1>13 DEF TInv, Kinds
  <1>15. Kinds'
    BY <1>2, <1>3, <1>7, <1>12, <1>14 DEF TInv, Kinds
  <1>16. Swept'
    <2>1. ASSUME NEW i \in DOMAIN timers', i >= cursor' PROVE Armed(timers'[i])
      <3>1. CASE i \in DOMAIN timers
        <4>1. i # cursor /\ i >= cursor
          BY <1>2, <1>13, <2>1, <3>1
        <4> QED BY <1>2, <1>12, <3>1, <4>1 DEF TInv, Swept
      <3>2. CASE i \notin DOMAIN timers
        BY <1>7, <1>12, <3>2
      <3> QED BY <3>1, <3>2
    <2> QED BY <1>2, <1>4, <2>1 DEF Swept
  <1>17. Ages'
    BY <1>5, <1>6, <1>11 DEF TInv, Ages
  <1>18. Left(1)' = Left(1) /\ Left(1) \in Nat
    BY <1>2, <1>4, <1>14, TermTypes DEF Left
  <1>19. ASSUME NEW i \in DOMAIN timers' \ {1}, Armed(timers'[i])
         PROVE  InTime(i, dev[timers[i].parameter])'
    <2>1. CASE i \in DOMAIN timers
      <3> DEFINE q == timers[i].parameter
      <3>1. i # cursor /\ timers'[i] = timers[i]
        BY <1>2, <1>12, <1>19, <2>1
      <3>2. q \in IPs /\ q # ip /\ Armed(timers[i])
        BY <1>10, <1>19, <2>1, <3>1 DEF TInv, Kinds
      <3>3. dev'[q] = dev[q] /\ Spent(dev[q])' = Spent(dev[q])
        BY <1>4, <1>11, <3>1, <3>2 DEF Spent
      <3>4. Left(i)' = Left(i)
        BY <1>2, <1>4, <1>13, <2>1, <3>1 DEF Left
      <3>5. Left(i) \in Nat /\ Spent(dev[q]) \in Nat
        BY <2>1, <3>2, TermTypes
      <3>6. InTime(i, dev[q])'
        BY <1>18, <2>1, <3>1, <3>2, <3>3, <3>4, <3>5, StaysInTime
      <3> QED BY <3>1, <3>6
    <2>2. CASE i \notin DOMAIN timers
      <3>1. timers'[i] = t /\ i = Len(timers) + 1
        BY <1>12, <1>13, <2>2
      <3>2. cursor' <= i
        BY <1>2, <1>13, <3>1
      <3>3. Left(i)' = Delay[d.status] - 1
        BY <1>2, <1>4, <1>7, <3>1, <3>2 DEF Left
      <3>4. Spent(dev[ip])' = Spent(d)
        BY <1>4, <1>6, <1>11 DEF Spent
      <3>5. /\ Left(cursor) + StepsLeft(d) + Spent(d) < Rest(0) + Left(1)
            /\ StepsLeft(d) = Rest(d.status)
        BY <1>4, <1>8 DEF InTime, StepsLeft
      <3>6. /\ Rest(d.status) = Delay[d.status] + Rest(d.status + 1)
            /\ Rest(d.status) \in Nat /\ Rest(d.status + 1) \in Nat /\ Rest(0) \in Nat
            /\ Spent(d) \in Nat
        BY <1>5, RestFacts, TermTypes DEF Status
      <3>7. Left(i)' + StepsLeft(dev'[ip]) + Spent(dev[ip])' < Rest(0) + Left(1)'
        BY <1>2, <1>6, <1>7, <1>11, <1>18, <3>3, <3>4, <3>5, <3>6
      <3>8. dev'[ip] = e /\ timers'[i].parameter = ip
        BY <1>7, <1>11, <3>1
      <3>9. InTime(i, dev[ip])'
        BY <1>6, <3>7, <3>8 DEF InTime
      <3> QED BY <3>8, <3>9
    <2> QED BY <2>1, <2>2
  <1>20. OnTime'
    BY <1>19 DEF OnTime
  <1> QED BY <1>1, <1>3, <1>9, <1>10, <1>15, <1>16, <1>17, <1>20 DEF TInv

(* The steps that change no node, no device and no event. *)
LEMMA IdleTInv ==
  ASSUME TInv, [Next]_vars, UNCHANGED <<dev, timers, time1>>, ~time1,
         Swept', \A i \in DOMAIN timers :
                   Armed(timers[i]) => Left(i)' \in Nat /\ Left(i)' + Left(1) = Left(i) + Left(1)'
  PROVE  TInv'
  <1>1. IInv' /\ Kinds' /\ Ages'
    BY NextIInv DEF TInv, Kinds, Ages
  <1>2. 1 \in DOMAIN timers /\ Armed(timers[1])
    BY DEF TInv, Kinds, Poll, Armed
  <1>3. ASSUME NEW i \in DOMAIN timers \ {1}, Armed(timers[i])
        PROVE  InTime(i, dev[timers[i].parameter])'
    <2> DEFINE q == timers[i].parameter
    <2>1. q \in IPs /\ dev'[q] = dev[q] /\ timers'[i] = timers[i] /\ Left(i)' \in Nat /\ Left(1)' \in Nat
      BY <1>2, <1>3 DEF TInv, Kinds
    <2>2. Spent(dev[q])' = Spent(dev[q]) /\ Spent(dev[q]) \in Nat
      BY <2>1, TermTypes DEF Spent
    <2>3. Left(i)' + Left(1) = Left(i) + Left(1)' /\ Left(i) \in Nat /\ Left(1) \in Nat
      BY <1>2, <1>3, TermTypes
    <2>4. Left(i)' + Spent(dev[q])' + Left(1) <= Left(i) + Spent(dev[q]) + Left(1)'
      BY <2>1, <2>2, <2>3
    <2>5. InTime(i, dev[q])'
      BY <1>3, <2>1, <2>2, <2>4, StaysInTime
    <2> QED BY <2>1, <2>5
  <1>4. OnTime'
    BY <1>3 DEF OnTime
  <1> QED BY <1>1, <1>4 DEF TInv

LEMMA FirePollTInv ==
  ASSUME TInv, FirePoll
  PROVE  TInv'
  <1>1. IInv'
    BY NextIInv DEF TInv, Next, Server
  <1>2. /\ cursor \in DOMAIN timers /\ AtNode /\ Due(timers[cursor]) /\ timers[cursor].func = "time1CB"
        /\ phase = "run" /\ ~time1 /\ phase' = phase /\ cursor' = cursor + 1 /\ time1' = TRUE
        /\ timers' = Expiry /\ dev' = dev
    BY DEF FirePoll, FireAt, ServerAt, AtNode, TInv, IInv, TypeOK
  <1>3. cursor = 1
    BY <1>2 DEF TInv, Kinds
  <1>4. /\ DOMAIN timers' = DOMAIN timers /\ timers'[1] = Expire(timers[1])
        /\ \A j \in DOMAIN timers : j # 1 => timers'[j] = timers[j]
    BY <1>2, <1>3, ExpirySound DEF TInv
  <1>5. Poll(timers[1]) /\ timers[1] \in TimerNode /\ timers[1].tick = 1
    BY <1>2, <1>3, TermTypes DEF TInv, Kinds, Due
  <1>6. timers'[1] = [timers[1] EXCEPT !.tick = PollPeriod]
    BY <1>4, <1>5 DEF Expire, Poll
  <1>7. PollPeriod \in Nat /\ PollPeriod > 0
    BY DeviceAssumption
  <1>8. Poll(timers[1])' /\ timers'[1].tick = PollPeriod
    BY <1>5, <1>6, <1>7 DEF Poll, TimerNode
  <1>9. Kinds'
    BY <1>2, <1>3, <1>4, <1>8 DEF TInv, Kinds
  <1>10. \A i \in DOMAIN timers : Armed(timers[i])
    BY <1>2, <1>3, TermTypes DEF TInv, Swept, IInv, TypeOK
  <1>11. \A i \in DOMAIN timers' : Armed(timers'[i])
    BY <1>4, <1>8, <1>10 DEF Poll, Armed
  <1>12. Swept'
    BY <1>2, <1>3, <1>11 DEF Swept
  <1>13. Ages'
    BY <1>2 DEF TInv, Ages
  <1>14. Left(1) = 0 /\ Left(1)' = PollPeriod
    BY <1>2, <1>3, <1>5, <1>8 DEF Left
  <1>15. ASSUME NEW i \in DOMAIN timers \ {1}
         PROVE  InTime(i, dev[timers[i].parameter])'
    <2> DEFINE q == timers[i].parameter
    <2>1. q \in IPs /\ dev'[q] = dev[q] /\ timers'[i] = timers[i] /\ Armed(timers[i])
      BY <1>2, <1>4, <1>10 DEF TInv, Kinds
    <2>2. i \in Nat /\ i > 1
      BY DEF TInv, IInv, TypeOK
    <2>3. Left(i)' = Left(i) /\ Left(i) \in Nat
      BY <1>2, <1>3, <2>1, <2>2, TermTypes DEF Left
    <2>4. dev[q].oldTime \in Nat
      BY <2>1 DEF TInv, IInv, TypeOK, Device
    <2>5. Spent(dev[q])' = Spent(dev[q]) + PollPeriod /\ Spent(dev[q]) \in Nat
      BY <1>2, <2>1, <2>4, Periods DEF Spent
    <2>6. Spent(dev[q])' \in Nat
      BY <1>7, <2>5
    <2>7. Left(i)' + Spent(dev[q])' + Left(1) <= Left(i) + Spent(dev[q]) + Left(1)'
      BY <1>7, <1>14, <2>3, <2>5
    <2>8. InTime(i, dev[q])'
      BY <1>7, <1>14, <2>1, <2>3, <2>6, <2>7, StaysInTime
    <2> QED BY <2>1, <2>8
  <1>16. OnTime'
    BY <1>4, <1>15 DEF OnTime
  <1> QED BY <1>1, <1>9, <1>12, <1>13, <1>16 DEF TInv

LEMMA PollAndAgeTInv ==
  ASSUME TInv, PollAndAge
  PROVE  /\ TInv' /\ timers' = timers
         /\ \A i \in DOMAIN timers \ {1} :
              LET q == timers[i].parameter
              IN dev'[q] = [dev[q] EXCEPT !.tick = @ + 1, !.oldTime = @ + 1]
         /\ \A ip \in IPs : \/ dev'[ip] = NoDevice \/ dev'[ip] = NewDevice \/ dev'[ip] = dev[ip]
                            \/ /\ dev'[ip].start = dev[ip].start /\ dev'[ip].status = dev[ip].status
                               /\ dev'[ip].connected = dev[ip].connected
  <1>1. IInv'
    BY NextIInv DEF TInv, Next
  <1> DEFINE gone == {ip \in IPs : Expired(dev[ip])}
  <1>2. /\ dev' = [ip \in IPs |-> IF ip \in gone THEN NoDevice
                                  ELSE IF dev[ip].connected THEN Aged(dev[ip]) ELSE dev[ip]]
        /\ timers' = [i \in DOMAIN timers |->
                        IF timers[i].parameter \in gone
                        THEN [timers[i] EXCEPT !.parameter = Freed] ELSE timers[i]]
        /\ time1 /\ ~time1' /\ phase' = phase /\ cursor' = cursor /\ gone \subseteq IPs
    BY DEF PollAndAge
  <1>3. phase = "run" /\ cursor = 2 /\ timers \in Seq(TimerNode) /\ 1 \in DOMAIN timers
    BY <1>2 DEF TInv, Swept, IInv, TypeOK, Kinds
  <1>4. \A i \in DOMAIN timers : Armed(timers[i])
    BY <1>3 DEF TInv, Swept, Kinds, Poll, Armed
  <1>5. ASSUME NEW i \in DOMAIN timers \ {1}, NEW q, q = timers[i].parameter
        PROVE  /\ q \in IPs /\ q \notin gone /\ dev[q] \in Device /\ dev[q].connected
               /\ ~(dev[q].oldTime + 1 > OldTick)
    BY <1>2, <1>4, <1>5, KeptByPoll
  <1>6. timers[1].parameter \notin gone
    BY <1>2, DeviceAssumption DEF TInv, Kinds, Poll
  <1>7. \A i \in DOMAIN timers : timers[i].parameter \notin gone
    BY <1>5, <1>6
  <1> HIDE DEF gone
  <1>8. timers' = timers
    BY <1>2, <1>3, <1>7
  <1>9. ASSUME NEW i \in DOMAIN timers \ {1}, NEW q, q = timers[i].parameter
        PROVE  dev'[q] = [dev[q] EXCEPT !.tick = @ + 1, !.oldTime = @ + 1]
    BY <1>2, <1>5, <1>9 DEF Aged
  <1>10. ASSUME NEW d \in Device, d.tick <= d.oldTime,
                NEW e, e = [d EXCEPT !.tick = @ + 1, !.oldTime = @ + 1]
         PROVE  /\ e.connected = d.connected /\ e.start = d.start /\ e.status = d.status
                /\ e.oldTime = d.oldTime + 1 /\ e.tick = d.tick + 1 /\ e.tick <= e.oldTime
    BY <1>10 DEF Device
  <1>11. ASSUME NEW ip \in IPs
         PROVE  /\ \/ dev'[ip] = NoDevice \/ dev'[ip] = NewDevice \/ dev'[ip] = dev[ip]
                   \/ dev'[ip] = [dev[ip] EXCEPT !.tick = @ + 1, !.oldTime = @ + 1]
    BY <1>2 DEF Aged
  <1>12. \A ip \in IPs : dev[ip] \in Device /\ dev[ip].tick <= dev[ip].oldTime
    BY DEF TInv, IInv, TypeOK, Ages
  <1>13. Ages'
    <2>1. NoDevice.tick <= NoDevice.oldTime /\ NewDevice.tick <= NewDevice.oldTime
      BY DEF NoDevice, NewDevice
    <2> QED BY <1>10, <1>11, <1>12, <2>1 DEF Ages
  <1>14. Kinds' /\ Swept'
    BY <1>2, <1>3, <1>8 DEF TInv, Kinds, Swept
  <1>15. \A i \in DOMAIN timers : Left(i)' = Left(i)
    BY <1>2, <1>8 DEF Left
  <1>16. ASSUME NEW i \in DOMAIN timers \ {1}
         PROVE  InTime(i, dev[timers[i].parameter])'
    <2>1. PICK q \in IPs : q = timers[i].parameter
      BY <1>5
    <2>2. /\ dev'[q].connected = dev[q].connected /\ dev'[q].start = dev[q].start
          /\ dev'[q].status = dev[q].status /\ dev'[q].oldTime = dev[q].oldTime + 1
      BY <1>9, <1>10, <1>12, <2>1
    <2>3. Spent(dev[q])' = Spent(dev[q])
      BY <1>2, <2>2 DEF Spent
    <2>4. /\ Left(i) \in Nat /\ Left(1) \in Nat /\ Spent(dev[q]) \in Nat
          /\ Left(i)' = Left(i) /\ Left(1)' = Left(1)
      BY <1>3, <1>4, <1>15, <2>1, TermTypes
    <2>5. Left(i)' + Spent(dev[q])' + Left(1) <= Left(i) + Spent(dev[q]) + Left(1)'
      BY <2>3, <2>4
    <2>6. InTime(i, dev[q])'
      BY <1>4, <2>1, <2>2, <2>3, <2>4, <2>5, StaysInTime
    <2> QED BY <1>8, <2>1, <2>6
  <1>17. OnTime'
    BY <1>8, <1>16 DEF OnTime
  <1>18. ASSUME NEW ip \in IPs
         PROVE  \/ dev'[ip] = NoDevice \/ dev'[ip] = NewDevice \/ dev'[ip] = dev[ip]
                \/ /\ dev'[ip].start = dev[ip].start /\ dev'[ip].status = dev[ip].status
                   /\ dev'[ip].connected = dev[ip].connected
    BY <1>10, <1>11, <1>12
  <1> QED BY <1>1, <1>8, <1>9, <1>13, <1>14, <1>17, <1>18 DEF TInv

LEMMA RefreshTInv ==
  ASSUME TInv, NEW ip \in IPs, Refresh(ip)
  PROVE  TInv'
  <1>1. IInv'
    BY NextIInv DEF TInv, Next, Reply
  <1>2. /\ dev' = [dev EXCEPT ![ip].tick = 0] /\ timers' = timers /\ phase' = phase
        /\ cursor' = cursor /\ time1' = time1
    BY DEF Refresh
  <1>3. Kinds' /\ Swept'
    BY <1>2 DEF TInv, Kinds, Swept
  <1>4. ASSUME NEW q \in IPs
        PROVE  /\ dev'[q].connected = dev[q].connected /\ dev'[q].start = dev[q].start
               /\ dev'[q].status = dev[q].status /\ dev'[q].oldTime = dev[q].oldTime
               /\ dev'[q].tick <= dev'[q].oldTime
    <2>1. dev[q] \in Device /\ dev[q].tick <= dev[q].oldTime /\ dev[q].oldTime \in Nat
      BY DEF TInv, IInv, TypeOK, Ages, Device
    <2>2. CASE q = ip
      <3>1. dev'[q] = [dev[q] EXCEPT !.tick = 0]
        BY <1>2, <2>2 DEF TInv, IInv, TypeOK
      <3> QED BY <2>1, <3>1 DEF Device
    <2>3. CASE q # ip
      BY <1>2, <2>1, <2>3 DEF TInv, IInv, TypeOK
    <2> QED BY <2>2, <2>3
  <1>5. ASSUME NEW i \in DOMAIN timers \ {1}, Armed(timers[i])
        PROVE  InTime(i, dev[timers[i].parameter])'
    <2>1. PICK q \in IPs : q = timers[i].parameter
      BY DEF TInv, Kinds
    <2>2. /\ Left(i)' = Left(i) /\ Left(1)' = Left(1) /\ Spent(dev[q])' = Spent(dev[q])
      BY <1>2, <1>4 DEF Left, Spent
    <2>3. Left(i) \in Nat /\ Left(1) \in Nat /\ Spent(dev[q]) \in Nat
      BY <1>5, TermTypes
    <2>4. InTime(i, dev[q])'
      BY <1>4, <1>5, <2>1, <2>2, <2>3, StaysInTime
    <2> QED BY <1>2, <2>1, <2>4
  <1>6. OnTime'
    BY <1>2, <1>5 DEF OnTime
  <1> QED BY <1>1, <1>3, <1>4, <1>6 DEF TInv, Ages

LEMMA CountTInv ==
  ASSUME TInv, Count
  PROVE  TInv'
  <1>1. IInv'
    BY NextIInv DEF TInv, Next, Server
  <1>2. /\ DOMAIN timers' = DOMAIN timers
        /\ \A i \in DOMAIN timers :
             /\ timers'[i].func = timers[i].func /\ timers'[i].parameter = timers[i].parameter
             /\ timers'[i].reload = timers[i].reload /\ timers'[i].saveTick = timers[i].saveTick
             /\ timers'[i].destroy = timers[i].destroy
             /\ timers'[i].tick <= timers[i].tick
             /\ Left(i)' = Left(i)
    BY CountShape
  <1>3. /\ dev' = dev /\ phase = "run" /\ phase' = phase /\ ~time1 /\ time1' = time1
        /\ cursor' = cursor + 1 /\ cursor \in Nat /\ timers \in Seq(TimerNode)
    BY DEF Count, ServerAt, TInv, IInv, TypeOK
  <1>4. Kinds'
    <2>1. timers[1].tick \in Nat /\ timers'[1].tick \in Nat /\ timers'[1].tick <= timers[1].tick
          /\ timers[1].tick <= PollPeriod /\ PollPeriod \in Nat
      <3>1. 1 \in DOMAIN timers /\ timers \in Seq(TimerNode) /\ timers' \in Seq(TimerNode)
            /\ timers[1].tick <= PollPeriod
        BY <1>1 DEF TInv, Kinds, Poll, IInv, TypeOK
      <3>2. timers[1] \in TimerNode /\ timers'[1] \in TimerNode
        BY <1>2, <3>1
      <3> QED BY <1>2, <3>1, <3>2, DeviceAssumption DEF TimerNode
    <2>2. timers'[1].tick <= PollPeriod
      BY <2>1
    <2> QED BY <1>2, <2>2 DEF TInv, Kinds, Poll
  <1>5. Swept'
    <2>1. ASSUME NEW i \in DOMAIN timers', i >= cursor' PROVE Armed(timers'[i])
      <3>1. i >= cursor
        BY <1>2, <1>3, <2>1
      <3> QED BY <1>2, <1>3, <2>1, <3>1 DEF TInv, Swept, Armed
    <2> QED BY <1>3, <2>1 DEF Swept
  <1>6. ASSUME NEW i \in DOMAIN timers \ {1}, Armed(timers'[i])
        PROVE  InTime(i, dev[timers[i].parameter])'
    <2>1. PICK q \in IPs : q = timers[i].parameter
      BY DEF TInv, Kinds
    <2>2. Armed(timers[i]) /\ timers'[i].parameter = q /\ 1 \in DOMAIN timers
      BY <1>2, <1>6, <2>1 DEF Armed, TInv, Kinds
    <2>3. /\ Left(i)' = Left(i) /\ Left(1)' = Left(1) /\ Spent(dev[q])' = Spent(dev[q])
      BY <1>2, <1>3, <2>2 DEF Spent
    <2>4. Left(i) \in Nat /\ Left(1) \in Nat /\ Spent(dev[q]) \in Nat
      BY <2>2, TermTypes
    <2>5. InTime(i, dev[q])'
      BY <1>3, <2>1, <2>2, <2>3, <2>4, StaysInTime
    <2> QED BY <2>2, <2>5
  <1>7. OnTime'
    BY <1>2, <1>6 DEF OnTime
  <1> QED BY <1>1, <1>3, <1>4, <1>5, <1>7 DEF TInv, Ages

LEMMA StatusDoneTInv ==
  ASSUME TInv, NEW ip \in IPs \cup {Freed}, StatusDone(ip)
  PROVE  TInv'
  <1>1. IInv'
    BY NextIInv DEF TInv, Next, Server
  <1>2. /\ cursor \in DOMAIN timers \ {1}
        /\ phase = "run" /\ ~time1 /\ cursor' = cursor + 1 /\ cursor \in Nat
        /\ DOMAIN Expiry = DOMAIN timers /\ ~Armed(Expiry[cursor])
        /\ Expiry[cursor].func = "runArtNetStatus"
        /\ Expiry[cursor].parameter = timers[cursor].parameter
        /\ \A j \in DOMAIN timers : j # cursor => Expiry[j] = timers[j]
    BY FireShape DEF StatusDone
  <1>3. timers' = Expiry /\ dev' = dev /\ phase' = phase /\ time1' = time1
    BY DEF StatusDone
  <1>4. timers \in Seq(TimerNode) /\ 1 \in DOMAIN timers /\ timers'[1] = timers[1]
    BY <1>2, <1>3 DEF TInv, IInv, TypeOK, Kinds
  <1>5. Kinds'
    BY <1>2, <1>3, <1>4 DEF TInv, Kinds
  <1>6. Swept'
    <2>1. ASSUME NEW i \in DOMAIN timers', i >= cursor' PROVE Armed(timers'[i])
      <3>1. i >= cursor /\ i # cursor
        BY <1>2, <1>3, <1>4, <2>1
      <3> QED BY <1>2, <1>3, <2>1, <3>1 DEF TInv, Swept
    <2> QED BY <1>2, <1>3, <2>1 DEF Swept
  <1>7. ASSUME NEW i \in DOMAIN timers \ {1}, Armed(timers'[i])
        PROVE  InTime(i, dev[timers[i].parameter])'
    <2>1. PICK q \in IPs : q = timers[i].parameter
      BY DEF TInv, Kinds
    <2>2. Armed(timers[i]) /\ timers'[i] = timers[i] /\ i # cursor
      BY <1>2, <1>3, <1>7
    <2>3. cursor > 1 /\ i \in Nat
      BY <1>2, <1>4
    <2>4. /\ Left(i)' = Left(i) /\ Left(1)' = Left(1) /\ Spent(dev[q])' = Spent(dev[q])
      BY <1>2, <1>3, <1>4, <2>2, <2>3 DEF Left, Spent
    <2>5. Left(i) \in Nat /\ Left(1) \in Nat /\ Spent(dev[q]) \in Nat
      BY <2>2, TermTypes
    <2>6. InTime(i, dev[q])'
      BY <1>3, <2>1, <2>2, <2>4, <2>5, StaysInTime
    <2> QED BY <2>1, <2>2, <2>6
  <1>8. OnTime'
    BY <1>2, <1>3, <1>7 DEF OnTime
  <1> QED BY <1>1, <1>3, <1>5, <1>6, <1>8 DEF TInv, Ages

(* What is left of the list when the finished node at the cursor is deleted. *)
LEMMA RemoveShape ==
  ASSUME TInv, SortRemove
  PROVE  /\ cursor \in DOMAIN timers \ {1} /\ ~Armed(timers[cursor]) /\ cursor \in Nat
         /\ 1 \in DOMAIN timers' /\ timers'[1] = timers[1] /\ Len(timers') = Len(timers) - 1
         /\ \A k \in DOMAIN timers' \ {1} :
              Origin(cursor, k) \in DOMAIN timers \ {1, cursor} /\ timers'[k] = timers[Origin(cursor, k)]
         /\ \A k \in DOMAIN timers' : k < cursor => Origin(cursor, k) = k
         /\ \A j, k \in DOMAIN timers' : Origin(cursor, j) = Origin(cursor, k) => j = k
         /\ \A j \in DOMAIN timers \ {cursor} : \E k \in DOMAIN timers' : Origin(cursor, k) = j
  <1>1. /\ cursor \in DOMAIN timers /\ ~Armed(timers[cursor]) /\ timers' = DeleteTimer(timers, cursor)
        /\ timers \in Seq(TimerNode) /\ 1 \in DOMAIN timers /\ cursor \in Nat
    BY DEF SortRemove, AtNode, Armed, TInv, IInv, TypeOK, Kinds
  <1>2. cursor # 1
    BY <1>1 DEF TInv, Kinds, Poll, Armed
  <1>3. /\ timers' \in Seq(TimerNode) /\ Len(timers') = Len(timers) - 1
        /\ \A k \in DOMAIN timers' : /\ Origin(cursor, k) \in DOMAIN timers \ {cursor}
                                     /\ timers'[k] = timers[Origin(cursor, k)]
        /\ \A j, k \in DOMAIN timers' : Origin(cursor, j) = Origin(cursor, k) => j = k
        /\ \A j \in DOMAIN timers \ {cursor} : \E k \in DOMAIN timers' : Origin(cursor, k) = j
    BY <1>1, DeleteTimerNodes
  <1>4. cursor > 1 /\ DOMAIN timers = 1..Len(timers) /\ DOMAIN timers' = 1..Len(timers')
        /\ Len(timers) \in Nat
    BY <1>1, <1>2, <1>3
  <1>5. Len(timers') \in Nat /\ 1 \in DOMAIN timers'
    BY <1>1, <1>2, <1>3, <1>4
  <1>6. Origin(cursor, 1) = 1
    BY <1>4 DEF Origin
  <1>7. timers'[1] = timers[1]
    BY <1>3, <1>5, <1>6
  <1>8. \A k \in DOMAIN timers' \ {1} : Origin(cursor, k) # 1
    BY <1>3, <1>5, <1>6
  <1> QED BY <1>1, <1>2, <1>3, <1>5, <1>7, <1>8 DEF Origin

LEMMA SortRemoveTInv ==
  ASSUME TInv, SortRemove
  PROVE  TInv'
  <1>1. IInv'
    BY NextIInv DEF TInv, Next, Server
  <1>2. /\ cursor \in DOMAIN timers \ {1} /\ ~Armed(timers[cursor]) /\ cursor \in Nat
        /\ 1 \in DOMAIN timers' /\ timers'[1] = timers[1]
        /\ \A k \in DOMAIN timers' \ {1} :
             Origin(cursor, k) \in DOMAIN timers \ {1, cursor} /\ timers'[k] = timers[Origin(cursor, k)]
        /\ \A k \in DOMAIN timers' : k < cursor => Origin(cursor, k) = k
    BY RemoveShape
  <1>3. phase = "sort" /\ phase' = phase /\ ~time1 /\ time1' = time1 /\ dev' = dev /\ cursor' = cursor
    BY DEF SortRemove, ServerAt, TInv, IInv, TypeOK
  <1>4. Kinds'
    BY <1>2 DEF TInv, Kinds
  <1>5. Swept'
    <2>1. ASSUME NEW k \in DOMAIN timers', k < cursor PROVE Armed(timers'[k])
      <3>1. Armed(timers[1])
        BY DEF TInv, Kinds, Poll, Armed
      <3>2. k # 1 => k \in DOMAIN timers /\ timers'[k] = timers[k]
        BY <1>2, <2>1
      <3> QED BY <1>2, <1>3, <2>1, <3>1, <3>2 DEF TInv, Swept
    <2> QED BY <1>3, <2>1 DEF Swept
  <1>6. ASSUME NEW k \in DOMAIN timers' \ {1}, Armed(timers'[k])
        PROVE  InTime(k, dev[timers[k].parameter])'
    <2>1. PICK i \in DOMAIN timers \ {1} : timers'[k] = timers[i]
      BY <1>2
    <2>2. PICK q \in IPs : q = timers[i].parameter
      BY DEF TInv, Kinds
    <2>3. Left(k)' = Left(i) /\ Left(1)' = Left(1) /\ Spent(dev[q])' = Spent(dev[q])
      BY <1>2, <1>3, <2>1 DEF Left, Spent
    <2>4. Left(i) \in Nat /\ Left(1) \in Nat /\ Spent(dev[q]) \in Nat
      BY <1>6, <2>1, TermTypes
    <2>5. InTime(k, dev[q])'
      BY <1>3, <1>6, <2>1, <2>2, <2>3, <2>4, StaysInTime
    <2> QED BY <2>1, <2>2, <2>5
  <1>7. OnTime'
    BY <1>6 DEF OnTime
  <1> QED BY <1>1, <1>3, <1>4, <1>5, <1>7 DEF TInv, Ages

LEMMA NextTInv == TInv /\ [Next]_vars => TInv'
  <1> SUFFICES ASSUME TInv, [Next]_vars PROVE TInv'
    OBVIOUS
  <1>0. /\ timers \in Seq(TimerNode) /\ cursor \in Nat /\ DOMAIN timers = 1..Len(timers)
        /\ 1 \in DOMAIN timers /\ Len(timers) \in Nat
        /\ \A i \in DOMAIN timers : Armed(timers[i]) =>
             timers[i].tick \in Nat /\ timers[i].tick > 0 /\ timers[i].tick - 1 \in Nat
    <2>1. timers \in Seq(TimerNode) /\ cursor \in Nat /\ 1 \in DOMAIN timers
      BY DEF TInv, IInv, TypeOK, Kinds
    <2>2. ASSUME NEW i \in DOMAIN timers, Armed(timers[i])
          PROVE  timers[i].tick \in Nat /\ timers[i].tick > 0 /\ timers[i].tick - 1 \in Nat
      <3>1. timers[i].tick \in Nat /\ timers[i].tick > 0
        BY <2>2, TermTypes
      <3> QED BY <3>1
    <2> QED BY <2>1, <2>2
  <1>1. CASE WakeUp
    <2>1. /\ phase = "sleep" /\ phase' = "run" /\ cursor' = 1 /\ ~time1
          /\ UNCHANGED <<dev, timers, time1>>
      BY <1>1 DEF WakeUp, ServerAt
    <2>2. \A i \in DOMAIN timers : Armed(timers[i])
      BY <2>1 DEF TInv, Swept
    <2>3. Swept'
      BY <2>1, <2>2 DEF Swept
    <2>4. ASSUME NEW i \in DOMAIN timers, Armed(timers[i])
          PROVE  Left(i)' \in Nat /\ Left(i)' + Left(1) = Left(i) + Left(1)'
      <3>1. Left(i)' = timers[i].tick - 1 /\ Left(1)' = timers[1].tick - 1
            /\ Left(i) = timers[i].tick /\ Left(1) = timers[1].tick
        BY <1>0, <2>1 DEF Left
      <3> QED BY <1>0, <2>2, <3>1
    <2> QED BY <2>1, <2>3, <2>4, IdleTInv
  <1>2. CASE EndRun
    <2>1. /\ phase = "run" /\ phase' = "sort" /\ cursor' = 1 /\ ~time1 /\ cursor > Len(timers)
          /\ UNCHANGED <<dev, timers, time1>>
      BY <1>0, <1>2 DEF EndRun, ServerAt, AtNode
    <2>2. Swept'
      BY <1>0, <2>1 DEF Swept
    <2>3. ASSUME NEW i \in DOMAIN timers, Armed(timers[i])
          PROVE  Left(i)' \in Nat /\ Left(i)' + Left(1) = Left(i) + Left(1)'
      <3>1. Left(i)' = timers[i].tick /\ Left(1)' = timers[1].tick
            /\ Left(i) = timers[i].tick /\ Left(1) = timers[1].tick
        BY <1>0, <2>1 DEF Left
      <3> QED BY <1>0, <2>3, <3>1
    <2> QED BY <2>1, <2>2, <2>3, IdleTInv
  <1>3. CASE SortKeep
    <2>1. /\ phase = "sort" /\ phase' = phase /\ cursor' = cursor + 1 /\ ~time1
          /\ UNCHANGED <<dev, timers, time1>> /\ Armed(timers[cursor])
      BY <1>3 DEF SortKeep, ServerAt, Armed
    <2>2. ASSUME NEW i \in DOMAIN timers, i < cursor + 1 PROVE Armed(timers[i])
      <3>1. i < cursor \/ i = cursor
        BY <1>0, <2>2
      <3> QED BY <2>1, <3>1 DEF TInv, Swept
    <2>3. Swept'
      BY <2>1, <2>2 DEF Swept
    <2>4. ASSUME NEW i \in DOMAIN timers, Armed(timers[i])
          PROVE  Left(i)' \in Nat /\ Left(i)' + Left(1) = Left(i) + Left(1)'
      <3>1. Left(i)' = timers[i].tick /\ Left(1)' = timers[1].tick
            /\ Left(i) = timers[i].tick /\ Left(1) = timers[1].tick
        BY <1>0, <2>1 DEF Left
      <3> QED BY <1>0, <2>4, <3>1
    <2> QED BY <2>1, <2>3, <2>4, IdleTInv
  <1>4. CASE EndSort
    <2>1. /\ phase = "sort" /\ phase' = "sleep" /\ cursor' = 1 /\ ~time1 /\ cursor > Len(timers)
          /\ UNCHANGED <<dev, timers, time1>>
      BY <1>0, <1>4 DEF EndSort, ServerAt, AtNode
    <2>2. \A i \in DOMAIN timers : Armed(timers[i])
      BY <1>0, <2>1 DEF TInv, Swept
    <2>3. Swept'
      BY <2>1, <2>2 DEF Swept
    <2>4. ASSUME NEW i \in DOMAIN timers, Armed(timers[i])
          PROVE  Left(i)' \in Nat /\ Left(i)' + Left(1) = Left(i) + Left(1)'
      <3>1. Left(i)' = timers[i].tick /\ Left(1)' = timers[1].tick
            /\ Left(i) = timers[i].tick /\ Left(1) = timers[1].tick
        BY <1>0, <2>1 DEF Left
      <3> QED BY <1>0, <2>4, <3>1
    <2> QED BY <2>1, <2>3, <2>4, IdleTInv
  <1>5. CASE UNCHANGED vars
    <2>1. IInv'
      BY NextIInv DEF TInv
    <2>2. Kinds' /\ Swept' /\ Ages' /\ OnTime'
      BY <1>5 DEF vars, TInv, Kinds, Swept, Ages, OnTime, InTime, Left, Spent
    <2> QED BY <2>1, <2>2 DEF TInv
  <1> QED
    BY <1>1, <1>2, <1>3, <1>4, <1>5, JoinTInv, RefreshTInv, CountTInv, FirePollTInv, StatusStepTInv,
       StatusDoneTInv, SortRemoveTInv, PollAndAgeTInv
    DEF Next, Server, Reply

(* No armed timer leads into the memory of a device that was freed, although *)
(* oldArtDevice frees without a look at the timers: the delays of a whole    *)
(* handshake are shorter than the polls it takes to drop or restart a device.*)
THEOREM NeverDangling == Spec => []NoDanglingParameter
  <1>1. TInv => NoDanglingParameter
    BY DeviceAssumption DEF TInv, Kinds, Poll, NoDanglingParameter
  <1> QED BY <1>1, InitTInv, NextTInv, PTL DEF Spec

----------------------------------------------------------------------------
(* What a device was sent. *)

(* The first n packets of the protocol, and how many of them are sent before *)
(* status s is entered.                                                      *)
Begun(n) == SubSeq(Protocol, 1, n)
Sent(s) == IF s = 1 THEN 0 ELSE IF s < 4 THEN s - 1 ELSE s - 2

Told(p, d) ==
  \E n \in 0..6 : /\ p = Begun(n)
                  /\ d.start => n = 6
                  /\ d.connected /\ ~d.start /\ d.status # 0 => n = Sent(d.status)

PInv == TInv /\ \A ip \in IPs : Told(packets[ip], dev[ip])

LEMMA BegunFacts ==
  /\ Begun(0) = <<>> /\ Begun(6) = Protocol
  /\ \A n \in 0..6 : Begun(n) \in Seq(Packet) /\ Len(Begun(n)) = n
  /\ \A n \in 1..6 : Begun(n) = Begun(n - 1) \o <<Protocol[n]>>
  <1>0. \A i \in 1..6 : Protocol[i] \in Packet
    BY DEF Packet
  <1>1. Protocol \in Seq(Packet) /\ Len(Protocol) = 6
    <2>1. Len(Protocol) = 6
      BY DEF Protocol
    <2>2. /\ Protocol[1] = "TodRequest" /\ Protocol[2] = "IpProg" /\ Protocol[3] = "TodControl0"
          /\ Protocol[4] = "TodControl1" /\ Protocol[5] = "TodControl2" /\ Protocol[6] = "TodControl3"
      BY DEF Protocol
    <2>3. /\ "TodRequest" \in Packet /\ "IpProg" \in Packet /\ "TodControl0" \in Packet
          /\ "TodControl1" \in Packet /\ "TodControl2" \in Packet /\ "TodControl3" \in Packet
      BY <1>0, <2>2
    <2>4. Protocol \in Seq(Packet)
      BY <2>3 DEF Protocol
    <2> QED BY <2>1, <2>4
  <1>2. Begun(0) = <<>>
    BY SubSeqEmpty DEF Begun
  <1>3. Begun(6) = Protocol
    BY <1>1, SubSeqFull DEF Begun
  <1>4. ASSUME NEW n \in 0..6 PROVE Begun(n) \in Seq(Packet) /\ Len(Begun(n)) = n
    <2>1. \A i \in 1..n : Protocol[i] \in Packet
      BY <1>0
    <2>2. Begun(n) \in Seq(Packet) /\ Len(Begun(n)) = IF 1 <= n THEN n - 1 + 1 ELSE 0
      BY <2>1, SubSeqProperties DEF Begun
    <2> QED BY <2>2
  <1>5. ASSUME NEW n \in 1..6 PROVE Begun(n) = Begun(n - 1) \o <<Protocol[n]>>
    BY <1>1, SubSeqRecursiveSecond DEF Begun
  <1> QED BY <1>2, <1>3, <1>4, <1>5

(* What status s sends is what comes next in the protocol. *)
LEMMA SendsNext ==
  ASSUME NEW s \in 1..7
  PROVE  Begun(Sent(s)) \o PacketsOf(s) = Begun(Sent(s + 1)) /\ Sent(s) \in 0..6 /\ Sent(s + 1) \in 0..6
  <1>1. Sent(s) \in 0..6 /\ Sent(s + 1) \in 0..6
    BY DEF Sent
  <1>2. CASE s = 3
    <2>1. PacketsOf(s) = <<>> /\ Sent(s) = Sent(s + 1)
      BY <1>2 DEF PacketsOf, Sent
    <2>2. Begun(Sent(s)) \o <<>> = Begun(Sent(s))
      BY <1>1, BegunFacts, ConcatEmptySeq
    <2> QED BY <1>1, <2>1, <2>2
  <1>3. CASE s # 3
    <2>1. Sent(s + 1) \in 1..6 /\ Sent(s + 1) - 1 = Sent(s)
      BY <1>3 DEF Sent
    <2>2. PacketsOf(s) = <<Protocol[Sent(s + 1)]>>
      <3>1. CASE s \in {1, 2}
        <4>1. Sent(s + 1) = s
          BY <3>1 DEF Sent
        <4> QED BY <3>1, <4>1 DEF PacketsOf
      <3>2. CASE s \in 4..7
        <4>1. Sent(s + 1) = s - 1
          BY <3>2 DEF Sent
        <4> QED BY <3>2, <4>1 DEF PacketsOf
      <3> QED BY <1>3, <3>1, <3>2
    <2> QED BY <1>1, <2>1, <2>2, BegunFacts
  <1> QED BY <1>2, <1>3

LEMMA InitPInv == Init => PInv
  <1> SUFFICES ASSUME Init PROVE PInv
    OBVIOUS
  <1>1. ASSUME NEW ip \in IPs PROVE Told(packets[ip], dev[ip])
    <2>1. packets[ip] = <<>> /\ ~dev[ip].start /\ ~dev[ip].connected
      BY DEF Init, NoDevice
    <2>2. packets[ip] = Begun(0) /\ 0 \in 0..6
      BY <2>1, BegunFacts
    <2> QED BY <2>1, <2>2 DEF Told
  <1> QED BY <1>1, InitTInv DEF PInv

(* A step of a handshake sends what comes next, and the last one ends it.    *)
LEMMA StatusStepTells ==
  ASSUME PInv, NEW ip \in IPs, StatusStep(ip)
  PROVE  /\ \A q \in IPs : Told(packets[q], dev[q])'
         /\ dev[ip].status = 7 => packets'[ip] = Protocol /\ dev'[ip].start
  <1> DEFINE d == dev[ip]
  <1>1. d \in Device /\ d.status \in 1..7 /\ ~d.start /\ d.connected
    <2>1. d \in Device /\ d.status \in 0..7 /\ ~d.start /\ d.connected
      BY DEF PInv, TInv, IInv, TypeOK, Device, Status, StatusStep, Handshaking
    <2>2. d.status # 0
      BY StatusStepTInv DEF PInv
    <2> QED BY <2>1, <2>2
  <1>2. dev'[ip] = NextStatus(d) /\ \A q \in IPs : q # ip => dev'[q] = dev[q]
    BY DEF StatusStep, PInv, TInv, IInv, TypeOK
  <1>3. packets'[ip] = packets[ip] \o PacketsOf(d.status)
        /\ \A q \in IPs : q # ip => packets'[q] = packets[q]
    BY DEF StatusStep, PInv, TInv, IInv, TypeOK
  <1>4. packets[ip] = Begun(Sent(d.status))
    BY <1>1 DEF PInv, Told
  <1>5. packets'[ip] = Begun(Sent(d.status + 1)) /\ Sent(d.status + 1) \in 0..6
    BY <1>1, <1>3, <1>4, SendsNext
  <1>6. CASE d.status = 7
    <2>1. dev'[ip].start /\ Sent(d.status + 1) = 6
      BY <1>1, <1>2, <1>6, NextStatusFields DEF Sent
    <2>2. packets'[ip] = Protocol /\ Told(packets[ip], dev[ip])'
      BY <1>5, <2>1, BegunFacts DEF Told
    <2> QED BY <1>2, <1>3, <2>1, <2>2 DEF PInv
  <1>7. CASE d.status # 7
    <2>1. ~dev'[ip].start /\ dev'[ip].status = d.status + 1
      BY <1>1, <1>2, <1>7, NextStatusFields
    <2>2. Told(packets[ip], dev[ip])'
      BY <1>5, <2>1 DEF Told
    <2> QED BY <1>2, <1>3, <1>7, <2>2 DEF PInv
  <1> QED BY <1>6, <1>7

LEMMA NextPInv == PInv /\ [Next]_vars => PInv'
  <1> SUFFICES ASSUME PInv, [Next]_vars PROVE PInv'
    OBVIOUS
  <1>1. TInv'
    BY NextTInv DEF PInv
  <1>2. ASSUME NEW ip \in IPs, Join(ip) PROVE \A q \in IPs : Told(packets[q], dev[q])'
    <2> DEFINE d == NextStatus(NewDevice)
    <2>1. ~d.start /\ d.status = 1
      <3>1. NewDevice \in Device /\ ~NewDevice.start /\ NewDevice.status = 0
        BY NewDeviceType DEF NewDevice, NoDevice
      <3> QED BY <3>1, NextStatusFields
    <2> HIDE DEF d
    <2>2. dev' = [dev EXCEPT ![ip] = d] /\ packets' = [packets EXCEPT ![ip] = PacketsOf(0)]
      BY <1>2 DEF Join, d
    <2>3. dev'[ip] = d /\ packets'[ip] = <<>>
          /\ \A q \in IPs : q # ip => dev'[q] = dev[q] /\ packets'[q] = packets[q]
      BY <2>2 DEF PacketsOf, PInv, TInv, IInv, TypeOK
    <2>4. packets'[ip] = Begun(0) /\ Sent(1) = 0 /\ 0 \in 0..6
      BY <2>3, BegunFacts DEF Sent
    <2>5. Told(packets[ip], dev[ip])'
      BY <2>1, <2>3, <2>4 DEF Told
    <2> QED BY <2>3, <2>5 DEF PInv
  <1>3. ASSUME NEW ip \in IPs, Refresh(ip) PROVE \A q \in IPs : Told(packets[q], dev[q])'
    <2>1. dev' = [dev EXCEPT ![ip].tick = 0] /\ packets' = packets /\ dev \in [IPs -> Device]
      BY <1>3 DEF Refresh, PInv, TInv, IInv, TypeOK
    <2>2. ASSUME NEW q \in IPs
          PROVE  /\ dev'[q].start = dev[q].start /\ dev'[q].connected = dev[q].connected
                 /\ dev'[q].status = dev[q].status
      <3>1. dev'[q] = dev[q] \/ dev'[q] = [dev[q] EXCEPT !.tick = 0]
        BY <2>1
      <3>2. dev[q] \in Device
        BY <2>1
      <3> QED BY <3>1, <3>2 DEF Device
    <2> QED BY <2>1, <2>2 DEF PInv, Told
  <1>4. ASSUME PollAndAge PROVE \A q \in IPs : Told(packets[q], dev[q])'
    <2>1. packets' = packets
      BY <1>4 DEF PollAndAge
    <2>2. \A q \in IPs : \/ dev'[q] = NoDevice \/ dev'[q] = NewDevice \/ dev'[q] = dev[q]
                         \/ /\ dev'[q].start = dev[q].start /\ dev'[q].status = dev[q].status
                            /\ dev'[q].connected = dev[q].connected
      BY <1>4, PollAndAgeTInv DEF PInv
    <2>3. ~NoDevice.start /\ ~NewDevice.start /\ NoDevice.status = 0 /\ NewDevice.status = 0
      BY DEF NoDevice, NewDevice
    <2> QED BY <2>1, <2>2, <2>3 DEF PInv, Told
  <1>5. ASSUME UNCHANGED <<dev, packets>> PROVE \A q \in IPs : Told(packets[q], dev[q])'
    BY <1>5 DEF PInv
  <1>6. \A q \in IPs : Told(packets[q], dev[q])'
    <2>1. ASSUME WakeUp \/ Count \/ FirePoll \/ EndRun \/ SortRemove \/ SortKeep \/ EndSort
                 \/ (\E ip \in IPs \cup {Freed} : StatusDone(ip)) \/ UNCHANGED vars
          PROVE  UNCHANGED <<dev, packets>>
      BY <2>1 DEF WakeUp, Count, FirePoll, EndRun, SortRemove, SortKeep, EndSort, StatusDone, vars
    <2> QED BY <1>2, <1>3, <1>4, <1>5, <2>1, StatusStepTells DEF Next, Server, Reply
  <1> QED BY <1>1, <1>6 DEF PInv

(* Whatever replies, polls and timers do, a device is sent the packets of    *)
(* runArtNetStatus in their order, each once, and started after the last.    *)
THEOREM AlwaysInOrder == Spec => []HandshakeInOrder
  <1>1. PInv => HandshakeInOrder
    <2> SUFFICES ASSUME PInv, NEW ip \in IPs
                 PROVE  /\ packets[ip] = SubSeq(Protocol, 1, Len(packets[ip]))
                        /\ dev[ip].start => packets[ip] = Protocol
      BY DEF HandshakeInOrder
    <2>1. PICK n \in 0..6 : packets[ip] = Begun(n) /\ (dev[ip].start => n = 6)
      BY DEF PInv, Told
    <2> QED BY <2>1, BegunFacts DEF Begun
  <1> QED BY <1>1, InitPInv, NextPInv, PTL DEF Spec

(* DMX output to a device begins in the step of runArtNetStatus that ends    *)
(* its handshake, after every packet of it.                                  *)
THEOREM RegistersAfterHandshake == Spec => RegisteredAfterHandshake
  <1>1. PInv /\ [Next]_vars => [\A ip \in isExit' \ isExit : packets'[ip] = Protocol /\ dev'[ip].start]_vars
    <2> SUFFICES ASSUME PInv, Next, NEW ip \in isExit' \ isExit
                 PROVE  packets'[ip] = Protocol /\ dev'[ip].start
      OBVIOUS
    <2>1. ASSUME WakeUp \/ Count \/ FirePoll \/ EndRun \/ SortRemove \/ SortKeep \/ EndSort \/ PollAndAge
                 \/ (\E q \in IPs \cup {Freed} : StatusDone(q)) \/ (\E q \in IPs : Reply(q))
          PROVE  isExit' = isExit
      BY <2>1 DEF WakeUp, Count, FirePoll, EndRun, SortRemove, SortKeep, EndSort, StatusDone, PollAndAge,
                  Reply, Join, Refresh
    <2>2. ASSUME NEW q \in IPs, StatusStep(q) PROVE packets'[ip] = Protocol /\ dev'[ip].start
      <3>1. dev[q].status = 7 /\ ip = q
        BY <2>2 DEF StatusStep
      <3> QED BY <2>2, <3>1, StatusStepTells
    <2> QED BY <2>1, <2>2 DEF Next, Server
  <1> QED BY <1>1, InitPInv, NextPInv, PTL DEF Spec, RegisteredAfterHandshake

----------------------------------------------------------------------------
(* The nodes a handshake needs. Nothing in a node says which status asked    *)
(* for it, so the argument gives every node a label that does.               *)

(* The pool has a node for the poll and five for each device, and status 3   *)
(* waits for more than the pass it is entered in.                            *)
Roomy == /\ IsFiniteSet(IPs)
         /\ PoolNodes >= 1 + 5 * Cardinality(IPs)
         /\ Delay[3] > 1

(* The number of statuses a device has left behind. *)
Asked(d) == IF d.start THEN 8 ELSE d.status

(* No status asks for two nodes, and by the time those behind the long delay *)
(* ask for theirs, the nodes of those before it have gone back to the pool.  *)
Apart(a, b) == a # b /\ ~(a < 3 /\ b > 3) /\ ~(a > 3 /\ b < 3)
Labelled(list, label) ==
  /\ label \in [DOMAIN list -> Status]
  /\ \A i, j \in DOMAIN list \ {1} :
       i # j /\ list[i].parameter = list[j].parameter => Apart(label[i], label[j])

(* An armed node was asked for by the status its device left last, the       *)
(* finished ones by earlier ones; and while nodes from before the long delay *)
(* are still in the list, that delay does not end in this pass.              *)
Latest(label) ==
  \A i \in DOMAIN timers \ {1} :
    /\ label[i] < Asked(dev[timers[i].parameter])
    /\ Armed(timers[i]) => label[i] + 1 = Asked(dev[timers[i].parameter])
LongWait(label) ==
  phase = "run" =>
    \A i, j \in DOMAIN timers \ {1} :
      /\ timers[i].parameter = timers[j].parameter
      /\ ~Armed(timers[i]) /\ label[i] < 3
      /\ Armed(timers[j]) /\ label[j] = 3 /\ j >= cursor
      => Left(j) # 0
Labels(label) == Labelled(timers, label) /\ Latest(label) /\ LongWait(label)

(* A started device is at rest. *)
AtRest == \A ip \in IPs : dev[ip].start => dev[ip].status = 0

HInv == TInv /\ AtRest /\ HandshakeArmed /\ \E label : Labels(label)

(* Labels that are apart leave a device five nodes: fold 5, 6, 7 onto 0, 1, 2. *)
LEMMA FiveNodes ==
  ASSUME IsFiniteSet(IPs), NEW S, NEW list \in Seq(S), 1 \in DOMAIN list,
         \A i \in DOMAIN list \ {1} : list[i].parameter \in IPs,
         NEW label, Labelled(list, label)
  PROVE  Len(list) <= 1 + 5 * Cardinality(IPs)
  <1> DEFINE n == Len(list)
             Fold(a) == IF a >= 5 THEN a - 5 ELSE a
             T == IPs \X (0..4)
             f == [i \in 2..n |-> <<list[i].parameter, Fold(label[i])>>]
  <1>1. n \in Nat /\ n >= 1 /\ DOMAIN list = 1..n /\ 2..n = DOMAIN list \ {1}
    OBVIOUS
  <1>2. \A i \in 2..n : list[i].parameter \in IPs /\ label[i] \in 0..7
    BY <1>1 DEF Labelled, Status
  <1>3. \A a \in 0..7 : Fold(a) \in 0..4
    OBVIOUS
  <1>4. f \in [2..n -> T]
    BY <1>2, <1>3
  <1>5. \A a, b \in 0..7 : Fold(a) = Fold(b) => ~Apart(a, b)
    BY DEF Apart
  <1>6. ASSUME NEW i \in 2..n, NEW j \in 2..n, f[i] = f[j] PROVE i = j
    <2>1. list[i].parameter = list[j].parameter /\ Fold(label[i]) = Fold(label[j])
      BY <1>6
    <2> HIDE DEF Fold
    <2>2. ~Apart(label[i], label[j])
      BY <1>2, <1>5, <2>1
    <2> QED BY <1>1, <2>1, <2>2 DEF Labelled
  <1>7. IsFiniteSet(2..n) /\ Cardinality(2..n) = n - 1
    BY <1>1, FS_Interval
  <1>8. IsFiniteSet(T) /\ Cardinality(T) = Cardinality(IPs) * 5 /\ Cardinality(IPs) \in Nat
    <2>1. IsFiniteSet(0..4) /\ Cardinality(0..4) = 5
      <3>1. IsFiniteSet(0..4) /\ Cardinality(0..4) = IF 0 > 4 THEN 0 ELSE 4 - 0 + 1
        BY FS_Interval, 0 \in Int, 4 \in Int
      <3> QED BY <3>1
    <2> QED BY <2>1, FS_Product, FS_CardinalityType
  <1> HIDE DEF f, T
  <1>9. ~(Cardinality(T) < Cardinality(2..n))
    <2> SUFFICES ASSUME Cardinality(T) < Cardinality(2..n) PROVE FALSE
      OBVIOUS
    <2>1. \E i, j \in 2..n : i # j /\ f[i] = f[j]
      BY <1>4, <1>7, <1>8, FS_PigeonHole
    <2> QED BY <1>6, <2>1
  <1> QED BY <1>1, <1>7, <1>8, <1>9

(* A node asked for by a status that is apart from the others of its device  *)
(* finds memory, and can be labelled.                                        *)
LEMMA FindsRoom ==
  ASSUME Roomy, NEW list \in Seq(TimerNode), 1 \in DOMAIN list,
         \A i \in DOMAIN list \ {1} : list[i].parameter \in IPs,
         NEW label, Labelled(list, label),
         NEW t \in TimerNode, t.parameter \in IPs, NEW s \in Status,
         \A i \in DOMAIN list \ {1} :
           list[i].parameter = t.parameter => Apart(label[i], s) /\ Apart(s, label[i])
  PROVE  /\ AppendTimer(list, t) = Append(list, t)
         /\ Labelled(Append(list, t), [i \in 1..(Len(list) + 1) |-> IF i = Len(list) + 1 THEN s ELSE label[i]])
  <1> DEFINE n == Len(list)
             new == Append(list, t)
             mark == [i \in 1..(n + 1) |-> IF i = n + 1 THEN s ELSE label[i]]
  <1>1. n \in Nat /\ DOMAIN list = 1..n /\ n >= 1
    OBVIOUS
  <1>2. new \in Seq(TimerNode) /\ Len(new) = n + 1 /\ DOMAIN new = 1..(n + 1) /\ new[n + 1] = t
        /\ \A i \in 1..n : new[i] = list[i]
    BY <1>1
  <1>3. mark \in [DOMAIN new -> Status] /\ mark[n + 1] = s /\ \A i \in 1..n : mark[i] = label[i]
    BY <1>1, <1>2 DEF Labelled
  <1> HIDE DEF n, new, mark
  <1>4. ASSUME NEW i \in DOMAIN new \ {1}, NEW j \in DOMAIN new \ {1}, i # j,
               new[i].parameter = new[j].parameter
        PROVE  Apart(mark[i], mark[j])
    <2>1. CASE i = n + 1
      <3>1. j \in DOMAIN list \ {1}
        BY <1>1, <1>2, <1>4, <2>1
      <3> QED BY <1>1, <1>2, <1>3, <1>4, <2>1, <3>1
    <2>2. CASE j = n + 1
      <3>1. i \in DOMAIN list \ {1}
        BY <1>1, <1>2, <1>4, <2>2
      <3> QED BY <1>1, <1>2, <1>3, <1>4, <2>2, <3>1
    <2>3. CASE i # n + 1 /\ j # n + 1
      <3>1. i \in DOMAIN list \ {1} /\ j \in DOMAIN list \ {1}
        BY <1>1, <1>2, <2>3
      <3> QED BY <1>1, <1>2, <1>3, <1>4, <3>1 DEF Labelled
    <2> QED BY <2>1, <2>2, <2>3
  <1>5. Labelled(new, mark)
    BY <1>3, <1>4 DEF Labelled
  <1>6. 1 \in DOMAIN new /\ \A i \in DOMAIN new \ {1} : new[i].parameter \in IPs
    <2>1. \A i \in DOMAIN new : i = n + 1 \/ i \in DOMAIN list
      BY <1>1, <1>2
    <2> QED BY <1>1, <1>2, <2>1
  <1>7. n + 1 <= 1 + 5 * Cardinality(IPs)
    BY <1>2, <1>5, <1>6, FiveNodes DEF Roomy
  <1>8. HasRoom(list)
    <2>1. PoolNodes \in Nat /\ PoolNodes >= 1 + 5 * Cardinality(IPs) /\ Cardinality(IPs) \in Nat
      BY PoolNodesAssumption, FS_CardinalityType DEF Roomy
    <2>2. n < PoolNodes
      BY <1>1, <1>7, <2>1
    <2> QED BY <2>2 DEF HasRoom, n
  <1> QED BY <1>5, <1>8 DEF AppendTimer, new, mark, n

LEMMA InitHInv == Init => HInv
  <1> SUFFICES ASSUME Init PROVE HInv
    OBVIOUS
  <1>1. DOMAIN timers = {1}
    BY DEF Init
  <1>2. \A ip \in IPs : ~dev[ip].start /\ ~dev[ip].connected
    BY DEF Init, NoDevice
  <1>3. Labels([i \in {1} |-> 0])
    BY <1>1 DEF Labels, Labelled, Latest, LongWait, Status
  <1> QED BY <1>2, <1>3, InitTInv DEF HInv, AtRest, HandshakeArmed

(* The steps that neither add nor take nodes, finish none but perhaps the    *)
(* poll's, and leave every device of the list where it is in its handshake.  *)
LEMMA KeepsLabels ==
  ASSUME HInv, DOMAIN timers' = DOMAIN timers,
         \A i \in DOMAIN timers \ {1} :
           /\ timers'[i].parameter = timers[i].parameter /\ timers'[i].destroy = timers[i].destroy
           /\ LET q == timers[i].parameter
              IN dev'[q].start = dev[q].start /\ dev'[q].status = dev[q].status,
         \/ phase' # "run"
         \/ \A i \in DOMAIN timers : Armed(timers[i])
         \/ phase = "run" /\ \A i \in DOMAIN timers \ {1} : i >= cursor' => i >= cursor /\ Left(i)' = Left(i)
  PROVE  (\E label : Labels(label))'
  <1>1. PICK label : Labels(label)
    BY DEF HInv
  <1>2. Labelled(timers', label) /\ Latest(label)'
    BY <1>1 DEF Labels, Labelled, Latest, Asked, Armed
  <1>3. LongWait(label)'
    BY <1>1 DEF Labels, LongWait, Armed
  <1> QED BY <1>2, <1>3 DEF Labels

(* A device in the middle of its handshake keeps its timer in steps that     *)
(* leave it in the table where it was, and keep or move its node.            *)
LEMMA StaysArmed ==
  ASSUME HInv, \A ip \in IPs : dev'[ip].connected /\ dev'[ip].status # 0
                                => dev[ip].connected /\ dev[ip].status # 0,
         \A i \in DOMAIN timers : Armed(timers[i]) =>
           \E k \in DOMAIN timers' : Armed(timers'[k]) /\ timers'[k].parameter = timers[i].parameter
  PROVE  HandshakeArmed'
  BY DEF HInv, HandshakeArmed, TimerOf

LEMMA JoinHInv ==
  ASSUME Roomy, HInv, NEW ip \in IPs, Join(ip)
  PROVE  HInv'
  <1> DEFINE t == StatusTimer(0, ip)
             d == NextStatus(NewDevice)
             n == Len(timers)
  <1>1. TInv'
    BY JoinTInv DEF HInv
  <1>2. t \in TimerNode /\ t.parameter = ip /\ Armed(t)
    BY StatusTimerFields, StatusTimerType DEF Status
  <1>3. ~d.start /\ d.status = 1
    <2>1. NewDevice \in Device /\ ~NewDevice.start /\ NewDevice.status = 0
      BY NewDeviceType DEF NewDevice, NoDevice
    <2> QED BY <2>1, NextStatusFields
  <1> HIDE DEF t, d
  <1>4. /\ dev' = [dev EXCEPT ![ip] = d] /\ timers' = AppendTimer(timers, t) /\ ~dev[ip].connected
        /\ phase = "sleep" /\ phase' = phase
    BY DEF Join, TcpipRuns, t, d
  <1>5. dev'[ip] = d /\ \A q \in IPs : q # ip => dev'[q] = dev[q]
    BY <1>4 DEF HInv, TInv, IInv, TypeOK
  <1>6. /\ timers \in Seq(TimerNode) /\ 1 \in DOMAIN timers /\ DOMAIN timers = 1..n /\ n \in Nat
        /\ \A i \in DOMAIN timers : Armed(timers[i])
        /\ \A i \in DOMAIN timers \ {1} : timers[i].parameter \in IPs
    BY <1>4 DEF HInv, TInv, IInv, TypeOK, Kinds, Swept
  <1>7. \A i \in DOMAIN timers \ {1} : timers[i].parameter # ip
    BY <1>4, <1>6 DEF HInv, TInv, IInv, Sound, Led
  <1>8. PICK label : Labels(label)
    BY DEF HInv
  <1>0. PICK mark : mark = [i \in 1..(n + 1) |-> IF i = n + 1 THEN 0 ELSE label[i]]
    OBVIOUS
  <1>9. timers' = Append(timers, t) /\ Labelled(Append(timers, t), mark)
    <2>1. 0 \in Status
      BY DEF Status
    <2> QED BY <1>0, <1>2, <1>4, <1>6, <1>7, <1>8, <2>1, FindsRoom DEF Labels
  <1>10. DOMAIN timers' = 1..(n + 1) /\ timers'[n + 1] = t
         /\ \A i \in 1..n : timers'[i] = timers[i] /\ mark[i] = label[i]
    BY <1>0, <1>2, <1>6, <1>9
  <1>11. mark[n + 1] = 0
    BY <1>0, <1>6
  <1> HIDE DEF n
  <1>12. Latest(mark)'
    <2> SUFFICES ASSUME NEW i \in DOMAIN timers' \ {1}
                 PROVE  /\ mark[i] < Asked(dev'[timers'[i].parameter])
                        /\ Armed(timers'[i]) => mark[i] + 1 = Asked(dev'[timers'[i].parameter])
      BY DEF Latest
    <2>1. CASE i = n + 1
      BY <1>2, <1>3, <1>5, <1>10, <1>11, <2>1 DEF Asked
    <2>2. CASE i # n + 1
      <3>1. i \in DOMAIN timers \ {1} /\ timers'[i] = timers[i] /\ mark[i] = label[i]
        BY <1>6, <1>10, <2>2
      <3>2. dev'[timers[i].parameter] = dev[timers[i].parameter]
        BY <1>5, <1>6, <1>7, <3>1
      <3> QED BY <1>8, <3>1, <3>2 DEF Labels, Latest
    <2> QED BY <2>1, <2>2
  <1>13. LongWait(mark)'
    BY <1>4 DEF LongWait
  <1>14. AtRest'
    BY <1>3, <1>5 DEF HInv, AtRest
  <1>15. HandshakeArmed'
    <2> SUFFICES ASSUME NEW q \in IPs, dev'[q].connected, dev'[q].status # 0
                 PROVE  \E i \in DOMAIN timers' : TimerOf(q, i)'
      BY DEF HandshakeArmed
    <2>1. CASE q = ip
      <3>1. n + 1 \in DOMAIN timers'
        BY <1>6, <1>10
      <3> QED BY <1>2, <1>10, <2>1, <3>1 DEF TimerOf
    <2>2. CASE q # ip
      <3>1. PICK i \in DOMAIN timers : TimerOf(q, i)
        BY <1>5, <2>2 DEF HInv, HandshakeArmed
      <3>2. i \in DOMAIN timers' /\ timers'[i] = timers[i]
        BY <1>6, <1>10
      <3> QED BY <3>1, <3>2 DEF TimerOf
    <2> QED BY <2>1, <2>2
  <1> QED BY <1>1, <1>9, <1>12, <1>13, <1>14, <1>15 DEF HInv, Labels

LEMMA StatusStepHInv ==
  ASSUME Roomy, HInv, NEW ip \in IPs, StatusStep(ip)
  PROVE  HInv'
  <1>1. /\ TInv' /\ timers[cursor].parameter = ip /\ dev[ip].status # 0
        /\ \A i \in DOMAIN timers : i # cursor /\ Armed(timers[i]) => timers[i].parameter # ip
    BY StatusStepTInv DEF HInv
  <1>2. /\ cursor \in DOMAIN timers \ {1} /\ phase = "run" /\ cursor' = cursor + 1 /\ cursor \in Nat
        /\ Armed(timers[cursor]) /\ Left(cursor) = 0
        /\ Expiry \in Seq(TimerNode) /\ DOMAIN Expiry = DOMAIN timers
        /\ ~Armed(Expiry[cursor])
        /\ Expiry[cursor].parameter = timers[cursor].parameter
        /\ \A j \in DOMAIN timers : j # cursor => Expiry[j] = timers[j]
    BY FireShape DEF StatusStep, HInv
  <1> DEFINE s == dev[ip].status
             e == NextStatus(dev[ip])
             t == StatusTimer(s, ip)
             n == Len(timers)
  <1>3. /\ dev' = [dev EXCEPT ![ip] = e] /\ timers' = AppendTimer(Expiry, t)
        /\ phase' = phase /\ ~dev[ip].start /\ dev[ip] \in Device /\ s \in 0..7
    BY <1>1 DEF StatusStep, Handshaking, HInv, TInv, IInv, TypeOK, Device, Status
  <1>4. Asked(dev[ip]) = s /\ Asked(e) = s + 1 /\ (e.start => e.status = 0)
    BY <1>3, NextStatusFields DEF Asked
  <1>5. t \in TimerNode /\ t.parameter = ip /\ Armed(t) /\ t.tick = Delay[s] /\ Delay[s] \in Nat
    BY <1>3, StatusTimerFields, StatusTimerType DEF Status
  <1> HIDE DEF t, e
  <1>6. dev'[ip] = e /\ \A q \in IPs : q # ip => dev'[q] = dev[q]
    BY <1>3 DEF HInv, TInv, IInv, TypeOK
  <1>7. /\ timers \in Seq(TimerNode) /\ 1 \in DOMAIN timers /\ DOMAIN timers = 1..n /\ n \in Nat
        /\ \A i \in DOMAIN timers \ {1} : timers[i].parameter \in IPs
    BY DEF HInv, TInv, IInv, TypeOK, Kinds
  <1>8. Len(Expiry) = n /\ \A i \in DOMAIN timers : Expiry[i].parameter = timers[i].parameter
    BY <1>2, <1>7
  <1>9. PICK label : Labels(label)
    BY DEF HInv
  <1>10. \A i \in DOMAIN timers : label[i] \in 0..7
    BY <1>9 DEF Labels, Labelled, Status
  <1>11. label[cursor] + 1 = s
    BY <1>1, <1>2, <1>4, <1>9 DEF Labels, Latest
  <1>12. ASSUME NEW i \in DOMAIN timers \ {1}, timers[i].parameter = ip
         PROVE  Apart(label[i], s) /\ Apart(s, label[i])
    <2>1. label[i] < s /\ label[i] \in 0..7
      BY <1>4, <1>9, <1>10, <1>12 DEF Labels, Latest
    <2>2. ~(label[i] < 3 /\ s > 3)
      <3> SUFFICES ASSUME label[i] < 3, s > 3 PROVE FALSE
        OBVIOUS
      <3>1. i # cursor /\ ~Armed(timers[i])
        BY <1>1, <1>3, <1>10, <1>11, <1>12
      <3>2. Apart(label[i], label[cursor])
        BY <1>1, <1>2, <1>9, <1>12, <3>1 DEF Labels, Labelled
      <3>3. label[cursor] = 3
        BY <1>2, <1>3, <1>10, <1>11, <3>2 DEF Apart
      <3> QED BY <1>1, <1>2, <1>9, <1>12, <3>1, <3>3 DEF Labels, LongWait
    <2> QED BY <1>3, <2>1, <2>2 DEF Apart
  <1>13. Labelled(Expiry, label)
    BY <1>2, <1>8, <1>9 DEF Labels, Labelled
  <1>0. PICK mark : mark = [i \in 1..(n + 1) |-> IF i = n + 1 THEN s ELSE label[i]]
    OBVIOUS
  <1> HIDE DEF s
  <1>14. AppendTimer(Expiry, t) = Append(Expiry, t) /\ Labelled(Append(Expiry, t), mark)
    <2>1. s \in Status /\ 1 \in DOMAIN Expiry
      BY <1>2, <1>3, <1>7 DEF Status
    <2>2. \A i \in DOMAIN Expiry \ {1} : Expiry[i].parameter \in IPs
      BY <1>2, <1>7, <1>8
    <2>3. \A i \in DOMAIN Expiry \ {1} :
            Expiry[i].parameter = t.parameter => Apart(label[i], s) /\ Apart(s, label[i])
      BY <1>2, <1>5, <1>8, <1>12
    <2>4. mark = [i \in 1..(Len(Expiry) + 1) |-> IF i = Len(Expiry) + 1 THEN s ELSE label[i]]
      BY <1>0, <1>8
    <2>5. Expiry \in Seq(TimerNode) /\ t \in TimerNode /\ t.parameter \in IPs
      BY <1>2, <1>5
    <2> QED BY <1>13, <2>1, <2>2, <2>3, <2>4, <2>5, FindsRoom
  <1>15. timers' = Append(Expiry, t)
    BY <1>3, <1>14
  <1>16. DOMAIN timers' = 1..(n + 1) /\ timers'[n + 1] = t
         /\ \A i \in 1..n : timers'[i] = Expiry[i] /\ mark[i] = label[i]
    BY <1>0, <1>2, <1>5, <1>7, <1>8, <1>15
  <1>17. mark[n + 1] = s
    BY <1>0, <1>7
  <1> HIDE DEF n
  <1>18. \A i \in DOMAIN timers' \ {1} : i # n + 1 => i \in DOMAIN timers \ {1}
    BY <1>7, <1>16
  <1>19. Latest(mark)'
    <2> SUFFICES ASSUME NEW i \in DOMAIN timers' \ {1}
                 PROVE  /\ mark[i] < Asked(dev'[timers'[i].parameter])
                        /\ Armed(timers'[i]) => mark[i] + 1 = Asked(dev'[timers'[i].parameter])
      BY DEF Latest
    <2>1. CASE i = n + 1
      BY <1>3, <1>4, <1>5, <1>6, <1>16, <1>17, <2>1
    <2>2. CASE i # n + 1
      <3>1. i \in DOMAIN timers \ {1} /\ timers'[i] = Expiry[i] /\ mark[i] = label[i]
            /\ timers'[i].parameter = timers[i].parameter
        BY <1>7, <1>8, <1>16, <1>18, <2>2
      <3>2. CASE timers[i].parameter = ip
        <4>1. label[i] < s /\ label[i] \in 0..7
          BY <1>4, <1>9, <1>10, <3>1, <3>2 DEF Labels, Latest
        <4>2. ~Armed(timers'[i])
          BY <1>1, <1>2, <3>1, <3>2
        <4> QED BY <1>3, <1>4, <1>6, <3>1, <3>2, <4>1, <4>2
      <3>3. CASE timers[i].parameter # ip
        <4>1. dev'[timers[i].parameter] = dev[timers[i].parameter] /\ timers'[i] = timers[i]
          BY <1>1, <1>2, <1>6, <1>7, <3>1, <3>3
        <4> QED BY <1>9, <3>1, <4>1 DEF Labels, Latest
      <3> QED BY <3>2, <3>3
    <2> QED BY <2>1, <2>2
  <1>20. LongWait(mark)'
    <2> SUFFICES ASSUME NEW i \in DOMAIN timers' \ {1}, NEW j \in DOMAIN timers' \ {1},
                        timers'[i].parameter = timers'[j].parameter,
                        ~Armed(timers'[i]), mark[i] < 3,
                        Armed(timers'[j]), mark[j] = 3, j >= cursor'
                 PROVE  Left(j)' # 0
      BY DEF LongWait
    <2>1. CASE j = n + 1
      <3>1. Left(j)' = timers'[j].tick - 1
        BY <1>2, <1>3 DEF Left
      <3>2. timers'[j].tick = Delay[3] /\ Delay[3] > 1 /\ Delay[3] \in Nat
        BY <1>5, <1>16, <1>17, <2>1 DEF Roomy
      <3> QED BY <3>1, <3>2
    <2>2. CASE j # n + 1
      <3>1. j \in DOMAIN timers \ {1} /\ timers'[j] = Expiry[j] /\ j # cursor /\ j >= cursor
            /\ mark[j] = label[j]
        BY <1>2, <1>7, <1>16, <1>18, <2>2
      <3>2. timers'[j] = timers[j]
        BY <1>2, <3>1
      <3>3. i # n + 1
        BY <1>5, <1>16
      <3>4. i \in DOMAIN timers \ {1} /\ timers'[i] = Expiry[i] /\ mark[i] = label[i]
            /\ timers[i].parameter = timers[j].parameter
        BY <1>7, <1>8, <1>16, <1>18, <3>2, <3>3
      <3>5. i # cursor
        BY <1>1, <3>1, <3>2, <3>4
      <3>6. ~Armed(timers[i])
        BY <1>2, <3>4, <3>5
      <3>7. Left(j) # 0
        BY <1>2, <1>9, <3>1, <3>2, <3>4, <3>6 DEF Labels, LongWait
      <3>8. Left(j)' = Left(j)
        BY <1>2, <1>3, <3>1, <3>2 DEF Left
      <3> QED BY <3>7, <3>8
    <2> QED BY <2>1, <2>2
  <1>21. AtRest'
    BY <1>4, <1>6 DEF HInv, AtRest
  <1>22. HandshakeArmed'
    <2> SUFFICES ASSUME NEW q \in IPs, dev'[q].connected, dev'[q].status # 0
                 PROVE  \E i \in DOMAIN timers' : TimerOf(q, i)'
      BY DEF HandshakeArmed
    <2>1. CASE q = ip
      <3>1. n + 1 \in DOMAIN timers'
        BY <1>7, <1>16
      <3> QED BY <1>5, <1>16, <2>1, <3>1 DEF TimerOf
    <2>2. CASE q # ip
      <3>1. PICK i \in DOMAIN timers : TimerOf(q, i)
        BY <1>6, <2>2 DEF HInv, HandshakeArmed
      <3>2. i # cursor
        BY <1>1, <2>2, <3>1 DEF TimerOf
      <3>3. i \in DOMAIN timers' /\ timers'[i] = timers[i]
        BY <1>2, <1>7, <1>16, <3>2
      <3> QED BY <3>1, <3>3 DEF TimerOf
    <2> QED BY <2>1, <2>2
  <1> QED BY <1>1, <1>14, <1>15, <1>19, <1>20, <1>21, <1>22 DEF HInv, Labels

LEMMA StatusDoneHInv ==
  ASSUME HInv, NEW ip \in IPs \cup {Freed}, StatusDone(ip)
  PROVE  HInv'
  <1>1. TInv'
    BY StatusDoneTInv DEF HInv
  <1>2. /\ cursor \in DOMAIN timers \ {1} /\ phase = "run" /\ cursor' = cursor + 1 /\ cursor \in Nat
        /\ Armed(timers[cursor]) /\ timers[cursor].parameter \in IPs
        /\ DOMAIN Expiry = DOMAIN timers /\ ~Armed(Expiry[cursor])
        /\ Expiry[cursor].parameter = timers[cursor].parameter
        /\ \A j \in DOMAIN timers : j # cursor => Expiry[j] = timers[j]
    BY FireShape DEF StatusDone, HInv
  <1>3. timers' = Expiry /\ dev' = dev /\ phase' = phase
    BY DEF StatusDone
  <1>4. timers[cursor].parameter = ip
    BY <1>2, DeviceAssumption DEF StatusDone, Pointee
  <1>5. \A i \in DOMAIN timers : i # cursor /\ Armed(timers[i]) => timers[i].parameter # ip
    BY <1>2, <1>4 DEF HInv, TInv, IInv, Sound, Single
  <1>6. timers \in Seq(TimerNode)
    BY DEF HInv, TInv, IInv, TypeOK
  <1>7. PICK label : Labels(label)
    BY DEF HInv
  <1>8. Labelled(timers', label)
    BY <1>2, <1>3, <1>7 DEF Labels, Labelled
  <1>9. Latest(label)'
    BY <1>2, <1>3, <1>7 DEF Labels, Latest
  <1>10. LongWait(label)'
    <2> SUFFICES ASSUME NEW i \in DOMAIN timers \ {1}, NEW j \in DOMAIN timers \ {1},
                        timers'[i].parameter = timers'[j].parameter,
                        ~Armed(timers'[i]), label[i] < 3,
                        Armed(timers'[j]), label[j] = 3, j >= cursor'
                 PROVE  Left(j)' # 0
      BY <1>2, <1>3 DEF LongWait
    <2>1. j # cursor /\ timers'[j] = timers[j] /\ j >= cursor
      BY <1>2, <1>3, <1>6
    <2>2. i # cursor /\ timers'[i] = timers[i]
      BY <1>2, <1>3, <1>4, <1>5, <2>1
    <2>3. Left(j) # 0 /\ Left(j)' = Left(j)
      BY <1>2, <1>3, <1>7, <2>1, <2>2 DEF Labels, LongWait, Left
    <2> QED BY <2>3
  <1>11. HandshakeArmed'
    <2> SUFFICES ASSUME NEW q \in IPs, dev[q].connected, dev[q].status # 0
                 PROVE  \E i \in DOMAIN timers' : TimerOf(q, i)'
      BY <1>3 DEF HandshakeArmed
    <2>1. ip \in IPs /\ dev[ip].connected
      BY <1>2, <1>4 DEF HInv, TInv, IInv, Sound, Led
    <2>2. dev[ip].start /\ dev[ip].status = 0
      BY <2>1 DEF StatusDone, Handshaking, HInv, AtRest
    <2>3. PICK i \in DOMAIN timers : TimerOf(q, i)
      BY DEF HInv, HandshakeArmed
    <2>4. i # cursor
      BY <1>4, <2>2, <2>3 DEF TimerOf
    <2> QED BY <1>2, <1>3, <2>3, <2>4 DEF TimerOf
  <1> QED BY <1>1, <1>3, <1>8, <1>9, <1>10, <1>11 DEF HInv, Labels, AtRest

LEMMA SortRemoveHInv ==
  ASSUME HInv, SortRemove
  PROVE  HInv'
  <1>1. TInv'
    BY SortRemoveTInv DEF HInv
  <1>2. /\ cursor \in DOMAIN timers \ {1} /\ ~Armed(timers[cursor])
        /\ 1 \in DOMAIN timers' /\ timers'[1] = timers[1]
        /\ \A k \in DOMAIN timers' \ {1} :
             Origin(cursor, k) \in DOMAIN timers \ {1, cursor} /\ timers'[k] = timers[Origin(cursor, k)]
        /\ \A j, k \in DOMAIN timers' : Origin(cursor, j) = Origin(cursor, k) => j = k
        /\ \A j \in DOMAIN timers \ {cursor} : \E k \in DOMAIN timers' : Origin(cursor, k) = j
    BY RemoveShape DEF HInv
  <1>3. dev' = dev /\ phase' # "run" /\ cursor' = cursor
    BY DEF SortRemove, ServerAt
  <1>4. PICK label : Labels(label)
    BY DEF HInv
  <1>5. PICK mark : mark = [k \in DOMAIN timers' |-> IF k = 1 THEN 0 ELSE label[Origin(cursor, k)]]
    OBVIOUS
  <1>6. \A k \in DOMAIN timers' \ {1} : mark[k] = label[Origin(cursor, k)]
    BY <1>5
  <1>7. Labelled(timers', mark)
    <2>1. mark \in [DOMAIN timers' -> Status]
      <3>1. 0 \in Status /\ \A i \in DOMAIN timers : label[i] \in Status
        BY <1>4 DEF Labels, Labelled, Status
      <3>2. \A k \in DOMAIN timers' : (IF k = 1 THEN 0 ELSE label[Origin(cursor, k)]) \in Status
        BY <1>2, <3>1
      <3> QED BY <1>5, <3>2
    <2>2. ASSUME NEW j \in DOMAIN timers' \ {1}, NEW k \in DOMAIN timers' \ {1}, j # k,
                 timers'[j].parameter = timers'[k].parameter
          PROVE  Apart(mark[j], mark[k])
      <3>1. PICK oj, ok \in DOMAIN timers \ {1} :
              /\ oj = Origin(cursor, j) /\ ok = Origin(cursor, k) /\ oj # ok
              /\ timers[oj].parameter = timers[ok].parameter
        BY <1>2, <2>2
      <3> QED BY <1>4, <1>6, <3>1 DEF Labels, Labelled
    <2> QED BY <2>1, <2>2 DEF Labelled
  <1>8. Latest(mark)'
    BY <1>2, <1>3, <1>4, <1>6 DEF Labels, Latest
  <1>9. LongWait(mark)'
    BY <1>3 DEF LongWait
  <1>10. HandshakeArmed'
    <2>1. ASSUME NEW i \in DOMAIN timers, Armed(timers[i])
          PROVE  \E k \in DOMAIN timers' : Armed(timers'[k]) /\ timers'[k].parameter = timers[i].parameter
      <3>1. CASE i = 1
        BY <1>2, <2>1, <3>1
      <3>2. CASE i # 1
        <4>1. PICK k \in DOMAIN timers' : Origin(cursor, k) = i
          BY <1>2, <2>1
        <4>2. k # 1
          <5>1. cursor > 1
            BY <1>2 DEF HInv, TInv, IInv, TypeOK
          <5> QED BY <3>2, <4>1, <5>1 DEF Origin
        <4> QED BY <1>2, <2>1, <4>1, <4>2
      <3> QED BY <3>1, <3>2
    <2> QED BY <1>3, <2>1, StaysArmed
  <1> QED BY <1>1, <1>3, <1>7, <1>8, <1>9, <1>10 DEF HInv, Labels, AtRest

LEMMA PollAndAgeHInv ==
  ASSUME HInv, PollAndAge
  PROVE  HInv'
  <1>1. /\ TInv' /\ timers' = timers
        /\ \A i \in DOMAIN timers \ {1} :
             LET q == timers[i].parameter
             IN dev'[q] = [dev[q] EXCEPT !.tick = @ + 1, !.oldTime = @ + 1]
        /\ \A ip \in IPs : \/ dev'[ip] = NoDevice \/ dev'[ip] = NewDevice \/ dev'[ip] = dev[ip]
                           \/ /\ dev'[ip].start = dev[ip].start /\ dev'[ip].status = dev[ip].status
                              /\ dev'[ip].connected = dev[ip].connected
    BY PollAndAgeTInv DEF HInv
  <1>2. /\ ~NoDevice.start /\ NoDevice.status = 0 /\ ~NewDevice.start /\ NewDevice.status = 0
    BY DEF NoDevice, NewDevice
  <1>3. phase = "run" /\ cursor' = cursor /\ phase' = phase
    BY DEF PollAndAge, HInv, TInv, Swept
  <1>4. ASSUME NEW i \in DOMAIN timers \ {1}, NEW q, q = timers[i].parameter
        PROVE  dev'[q].start = dev[q].start /\ dev'[q].status = dev[q].status
    <2>1. dev[q] \in Device
      BY <1>4 DEF HInv, TInv, Kinds, IInv, TypeOK
    <2>2. dev'[q] = [dev[q] EXCEPT !.tick = @ + 1, !.oldTime = @ + 1]
      BY <1>1, <1>4
    <2> QED BY <2>1, <2>2 DEF Device
  <1>5. \A i \in DOMAIN timers : Left(i)' = Left(i)
    BY <1>1, <1>3 DEF Left
  <1>6. (\E label : Labels(label))'
    BY <1>1, <1>3, <1>4, <1>5, KeepsLabels
  <1>7. AtRest'
    BY <1>1, <1>2 DEF HInv, AtRest
  <1>8. HandshakeArmed'
    <2>1. \A ip \in IPs : dev'[ip].connected /\ dev'[ip].status # 0
                            => dev[ip].connected /\ dev[ip].status # 0
      BY <1>1, <1>2
    <2> QED BY <1>1, <2>1, StaysArmed
  <1> QED BY <1>1, <1>6, <1>7, <1>8 DEF HInv

LEMMA NextHInv == Roomy /\ HInv /\ [Next]_vars => HInv'
  <1> SUFFICES ASSUME Roomy, HInv, [Next]_vars PROVE HInv'
    OBVIOUS
  <1>1. TInv'
    BY NextTInv DEF HInv
  <1>2. timers \in Seq(TimerNode) /\ cursor \in Nat /\ 1 \in DOMAIN timers
    BY DEF HInv, TInv, IInv, TypeOK, Kinds
  <1>3. ASSUME NEW ip \in IPs, Refresh(ip) PROVE HInv'
    <2>1. /\ dev' = [dev EXCEPT ![ip].tick = 0] /\ dev \in [IPs -> Device]
          /\ UNCHANGED <<timers, phase, cursor>>
      BY <1>3 DEF Refresh, HInv, TInv, IInv, TypeOK
    <2>2. ASSUME NEW q \in IPs
          PROVE  /\ dev'[q].start = dev[q].start /\ dev'[q].connected = dev[q].connected
                 /\ dev'[q].status = dev[q].status
      <3>1. dev'[q] = dev[q] \/ dev'[q] = [dev[q] EXCEPT !.tick = 0]
        BY <2>1
      <3>2. dev[q] \in Device
        BY <2>1
      <3> QED BY <3>1, <3>2 DEF Device
    <2>3. \A i \in DOMAIN timers : Left(i)' = Left(i)
      BY <2>1 DEF Left
    <2>4. \A i \in DOMAIN timers \ {1} : timers[i].parameter \in IPs
      BY DEF HInv, TInv, Kinds
    <2>5. phase = "sleep"
      BY <1>3 DEF Refresh, TcpipRuns
    <2>6. (\E label : Labels(label))'
      BY <2>1, <2>2, <2>4, <2>5, KeepsLabels
    <2>7. HandshakeArmed' /\ AtRest'
      BY <2>1, <2>2, StaysArmed DEF HInv, AtRest
    <2> QED BY <1>1, <2>6, <2>7 DEF HInv
  <1>4. CASE Count
    <2>1. /\ DOMAIN timers' = DOMAIN timers
          /\ \A i \in DOMAIN timers :
               /\ timers'[i].parameter = timers[i].parameter /\ timers'[i].destroy = timers[i].destroy
               /\ Left(i)' = Left(i)
      BY <1>4, CountShape DEF HInv
    <2>2. dev' = dev /\ phase = "run" /\ cursor' = cursor + 1
      BY <1>4 DEF Count, ServerAt
    <2>3. \A i \in DOMAIN timers : i >= cursor' => i >= cursor
      BY <1>2, <2>2
    <2>4. (\E label : Labels(label))'
      BY <2>1, <2>2, <2>3, KeepsLabels
    <2>5. HandshakeArmed'
      BY <2>1, <2>2, StaysArmed DEF Armed
    <2> QED BY <1>1, <2>2, <2>4, <2>5 DEF HInv, AtRest
  <1>5. CASE FirePoll
    <2>1. /\ cursor \in DOMAIN timers /\ AtNode /\ Due(timers[cursor]) /\ timers[cursor].func = "time1CB"
          /\ phase = "run" /\ phase' = phase /\ cursor' = cursor + 1
          /\ timers' = Expiry /\ dev' = dev
      BY <1>5 DEF FirePoll, FireAt, ServerAt, AtNode, HInv, TInv, IInv, TypeOK
    <2>2. cursor = 1
      BY <2>1 DEF HInv, TInv, Kinds
    <2>3. DOMAIN timers' = DOMAIN timers /\ \A j \in DOMAIN timers : j # 1 => timers'[j] = timers[j]
      BY <2>1, <2>2, ExpirySound DEF HInv, TInv
    <2>4. Armed(timers[1]) /\ timers[1].parameter = NoParameter
          /\ Armed(timers'[1]) /\ timers'[1].parameter = NoParameter
      BY <1>1 DEF HInv, TInv, Kinds, Poll, Armed
    <2>5. \A i \in DOMAIN timers : Armed(timers[i])
      BY <1>2, <2>1, <2>2 DEF HInv, TInv, Swept
    <2>6. (\E label : Labels(label))'
      BY <2>1, <2>3, <2>5, KeepsLabels
    <2>7. \A i \in DOMAIN timers : Armed(timers'[i]) /\ timers'[i].parameter = timers[i].parameter
      BY <2>3, <2>4, <2>5
    <2>8. HandshakeArmed'
      BY <2>1, <2>3, <2>7, StaysArmed
    <2> QED BY <1>1, <2>1, <2>6, <2>8 DEF HInv, AtRest
  <1>6. ASSUME WakeUp \/ EndRun \/ SortKeep \/ EndSort \/ UNCHANGED vars PROVE HInv'
    <2>1. UNCHANGED <<dev, timers>>
      BY <1>6 DEF WakeUp, EndRun, SortKeep, EndSort, vars
    <2>2. HandshakeArmed'
      BY <2>1, StaysArmed
    <2>3. \/ phase' # "run"
          \/ \A i \in DOMAIN timers : Armed(timers[i])
          \/ phase = "run" /\ \A i \in DOMAIN timers \ {1} : i >= cursor' => i >= cursor /\ Left(i)' = Left(i)
      <3>1. CASE WakeUp
        BY <3>1 DEF WakeUp, ServerAt, HInv, TInv, Swept
      <3>2. CASE EndRun \/ SortKeep \/ EndSort
        BY <3>2 DEF EndRun, SortKeep, EndSort, ServerAt
      <3>3. CASE UNCHANGED vars
        BY <3>3 DEF vars, Left
      <3> QED BY <1>6, <3>1, <3>2, <3>3
    <2>4. (\E label : Labels(label))'
      BY <2>1, <2>3, KeepsLabels
    <2> QED BY <1>1, <2>1, <2>2, <2>4 DEF HInv, AtRest
  <1> QED
    BY <1>3, <1>4, <1>5, <1>6, JoinHInv, StatusStepHInv, StatusDoneHInv, SortRemoveHInv, PollAndAgeHInv
    DEF Next, Server, Reply

(* With five nodes per device in the pool, appendTimerServer never finds it  *)
(* empty, so that a device in its handshake always has a timer to wake it,   *)
(* for every number of devices that join in whatever order.                  *)
THEOREM AlwaysArmed ==
  ASSUME Roomy
  PROVE  Spec => []HandshakeArmed
  <1>1. HInv => HandshakeArmed
    BY DEF HInv
  <1>2. HInv /\ [Next]_vars => HInv'
    BY NextHInv
  <1> QED BY <1>1, <1>2, InitHInv, PTL DEF Spec

=============================================================================
