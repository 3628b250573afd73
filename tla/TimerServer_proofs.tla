------------------------- MODULE TimerServer_proofs -------------------------
(***************************************************************************)
(* For every set of requests and delays and every size of the pool: the    *)
(* list machine of TimerServer.c implements TimerSpec (its safety part),   *)
(* and it leaves no finished node in the list.                             *)
(***************************************************************************)
EXTENDS TimerServer, TLAPS, FiniteSetTheorems

----------------------------------------------------------------------------
(* What the operators of TimerList return and preserve.                     *)

(* A change of one node leaves a sequence of nodes of the same length.      *)
LEMMA ExceptNode ==
  ASSUME NEW S, NEW list \in Seq(S), NEW i \in DOMAIN list, NEW t \in S
  PROVE  LET new == [list EXCEPT ![i] = t]
         IN /\ new \in Seq(S)
            /\ Len(new) = Len(list)
            /\ DOMAIN new = DOMAIN list
            /\ new[i] = t
            /\ \A j \in DOMAIN list : j # i => new[j] = list[j]
  OBVIOUS

(* appendTimerServer keeps every node in its place and adds at most one,     *)
(* behind them all.                                                          *)
LEMMA AppendTimerNodes ==
  ASSUME NEW S, NEW list \in Seq(S), NEW t \in S
  PROVE  LET new == AppendTimer(list, t)
         IN /\ new \in Seq(S)
            /\ DOMAIN list \subseteq DOMAIN new
            /\ \A j \in DOMAIN list : new[j] = list[j]
            /\ \A j \in DOMAIN new \ DOMAIN list : j = Len(list) + 1 /\ new[j] = t
  <1>1. CASE HasRoom(list)
    BY <1>1 DEF AppendTimer
  <1>2. CASE ~HasRoom(list)
    BY <1>2 DEF AppendTimer
  <1> QED BY <1>1, <1>2

(* The place a node of the list comes from when the i-th one is taken out.   *)
Origin(i, k) == IF k < i THEN k ELSE k + 1

(* deleteObject takes out one node and keeps the others in their order.      *)
LEMMA DeleteTimerNodes ==
  ASSUME NEW S, NEW list \in Seq(S), NEW i \in DOMAIN list
  PROVE  LET new == DeleteTimer(list, i)
         IN /\ new \in Seq(S)
            /\ Len(new) = Len(list) - 1
            /\ \A k \in DOMAIN new : /\ Origin(i, k) \in DOMAIN list \ {i}
                                     /\ new[k] = list[Origin(i, k)]
            /\ \A j, k \in DOMAIN new : Origin(i, j) = Origin(i, k) => j = k
            /\ \A j \in DOMAIN list \ {i} : \E k \in DOMAIN new : Origin(i, k) = j
  <1> DEFINE n == Len(list) - 1
             new == DeleteTimer(list, i)
  <1>1. n \in Nat /\ i \in 1..Len(list) /\ Len(list) \in Nat /\ DOMAIN list = 1..Len(list)
    OBVIOUS
  <1>2. new = [k \in 1..n |-> IF k < i THEN list[k] ELSE list[k + 1]]
    BY DEF DeleteTimer
  <1>3. \A k \in 1..n : new[k] = list[Origin(i, k)] /\ Origin(i, k) \in (1..Len(list)) \ {i}
    BY <1>1, <1>2 DEF Origin
  <1>4. \A k \in 1..n : new[k] \in S
    BY <1>3
  <1>5. new \in [1..n -> S]
    BY <1>2, <1>4
  <1>6. new \in Seq(S) /\ Len(new) = n /\ DOMAIN new = 1..n
    BY <1>1, <1>2, <1>5
  <1>7. \A j, k \in 1..n : Origin(i, j) = Origin(i, k) => j = k
    BY <1>1 DEF Origin
  <1>8. ASSUME NEW j \in (1..Len(list)) \ {i} PROVE \E k \in 1..n : Origin(i, k) = j
    <2>1. CASE j < i
      <3>1. j \in 1..n /\ Origin(i, j) = j
        BY <1>1, <2>1 DEF Origin
      <3> QED BY <3>1
    <2>2. CASE j > i
      <3>1. j - 1 \in 1..n /\ Origin(i, j - 1) = j
        BY <1>1, <2>2 DEF Origin
      <3> QED BY <3>1
    <2> QED BY <1>1, <2>1, <2>2
  <1> QED BY <1>1, <1>3, <1>6, <1>7, <1>8

----------------------------------------------------------------------------
(* The invariant.                                                           *)

NodeOK(t) == Armed(t) => t.tick > 0

(* A request is served by one node. *)
Distinct(list) == \A i, j \in DOMAIN list :
  Armed(list[i]) /\ Armed(list[j]) /\ list[i].parameter = list[j].parameter => i = j

Good(list) ==
  /\ list \in Seq(TimerNode)
  /\ \A i \in DOMAIN list : NodeOK(list[i])
  /\ Distinct(list)

(* The inductive invariant: the list is good, the timer whose function runs is *)
(* in it, and sorting has left nothing finished behind its cursor.             *)
IInv ==
  /\ TypeOK
  /\ Good(timers)
  /\ phase = "call" => cursor \in DOMAIN timers
  /\ phase = "sort" => \A i \in DOMAIN timers : i < cursor => Armed(timers[i])
  /\ Reclaimed

----------------------------------------------------------------------------
LEMMA GoodExcept ==
  ASSUME NEW list, Good(list), NEW i \in DOMAIN list, NEW t \in TimerNode, NodeOK(t),
         Armed(t) => Armed(list[i]) /\ t.parameter = list[i].parameter
  PROVE  Good([list EXCEPT ![i] = t])
  <1> DEFINE new == [list EXCEPT ![i] = t]
  <1>1. /\ new \in Seq(TimerNode) /\ DOMAIN new = DOMAIN list /\ new[i] = t
        /\ \A j \in DOMAIN list : j # i => new[j] = list[j]
    BY ExceptNode DEF Good
  <1> HIDE DEF new
  <1>2. \A j \in DOMAIN new : NodeOK(new[j])
    BY <1>1 DEF Good
  <1>3. Distinct(new)
    <2>1. \A j \in DOMAIN new :
            Armed(new[j]) => Armed(list[j]) /\ new[j].parameter = list[j].parameter
      BY <1>1
    <2> QED BY <1>1, <2>1 DEF Good, Distinct
  <1>4. Good(new)
    BY <1>1, <1>2, <1>3 DEF Good
  <1> QED BY <1>4 DEF new

LEMMA GoodAppend ==
  ASSUME NEW list, Good(list), NEW t \in TimerNode, NodeOK(t),
         \A i \in DOMAIN list : Armed(list[i]) => list[i].parameter # t.parameter
  PROVE  Good(AppendTimer(list, t))
  <1> DEFINE new == AppendTimer(list, t)
  <1>1. /\ new \in Seq(TimerNode) /\ DOMAIN list \subseteq DOMAIN new
        /\ \A j \in DOMAIN list : new[j] = list[j]
        /\ \A j \in DOMAIN new \ DOMAIN list : j = Len(list) + 1 /\ new[j] = t
    BY AppendTimerNodes DEF Good
  <1> HIDE DEF new
  <1>2. \A j \in DOMAIN new : NodeOK(new[j])
    BY <1>1 DEF Good
  <1>3. Distinct(new)
    BY <1>1 DEF Good, Distinct
  <1>4. Good(new)
    BY <1>1, <1>2, <1>3 DEF Good
  <1> QED BY <1>4 DEF new

LEMMA GoodDelete ==
  ASSUME NEW list, Good(list), NEW i \in DOMAIN list
  PROVE  Good(DeleteTimer(list, i))
  <1> DEFINE new == DeleteTimer(list, i)
  <1>1. /\ new \in Seq(TimerNode)
        /\ \A k \in DOMAIN new : Origin(i, k) \in DOMAIN list /\ new[k] = list[Origin(i, k)]
        /\ \A j, k \in DOMAIN new : Origin(i, j) = Origin(i, k) => j = k
    BY DeleteTimerNodes DEF Good
  <1> HIDE DEF new
  <1>2. \A k \in DOMAIN new : NodeOK(new[k])
    BY <1>1 DEF Good
  <1>3. Distinct(new)
    BY <1>1 DEF Good, Distinct
  <1>4. Good(new)
    BY <1>1, <1>2, <1>3 DEF Good
  <1> QED BY <1>4 DEF new

LEMMA TimerType ==
  ASSUME NEW d \in Delays, NEW id \in Ids, NEW r \in BOOLEAN
  PROVE  /\ Timer(d, "function", id, r) \in TimerNode
         /\ NodeOK(Timer(d, "function", id, r)) /\ Armed(Timer(d, "function", id, r))
         /\ Timer(d, "function", id, r).parameter = id
         /\ Timer(d, "function", id, r).tick = d
         /\ Timer(d, "function", id, r).reload = r
         /\ d \in Nat \ {0}
  <1>1. d \in Nat \ {0}
    BY ServerAssumption
  <1> QED BY <1>1 DEF Timer, TimerNode, NodeOK, Armed

LEMMA CountDownNode ==
  ASSUME NEW t \in TimerNode, NodeOK(t), ~Due(t)
  PROVE  /\ CountDown(t) \in TimerNode /\ NodeOK(CountDown(t))
         /\ Armed(CountDown(t)) <=> Armed(t)
         /\ CountDown(t).parameter = t.parameter
         /\ CountDown(t).saveTick = t.saveTick
         /\ CountDown(t).reload <=> t.reload
         /\ Armed(t) => CountDown(t).tick = t.tick - 1
  BY DEF TimerNode, NodeOK, Due, CountDown, Armed

LEMMA ExpireNode ==
  ASSUME NEW t \in TimerNode, NodeOK(t), Due(t)
  PROVE  /\ Expire(t) \in TimerNode /\ NodeOK(Expire(t))
         /\ Expire(t).parameter = t.parameter /\ Expire(t).saveTick = t.saveTick
         /\ Expire(t).reload <=> t.reload
         /\ Armed(Expire(t)) <=> t.reload
         /\ t.reload => Expire(t).tick = t.saveTick
         /\ Armed(t) /\ t.tick = 1
  <1>1. CASE t.reload
    <2> DEFINE u == [t EXCEPT !.tick = t.saveTick]
    <2>1. /\ u \in TimerNode /\ u.parameter = t.parameter /\ u.saveTick = t.saveTick
          /\ u.reload <=> t.reload
          /\ u.destroy <=> t.destroy
          /\ u.tick = t.saveTick /\ t.saveTick > 0
      BY DEF TimerNode
    <2>2. Expire(t) = u
      BY <1>1 DEF Expire
    <2> HIDE DEF u
    <2> QED BY <1>1, <2>1, <2>2 DEF NodeOK, Due, Armed
  <1>2. CASE ~t.reload
    <2> DEFINE u == [t EXCEPT !.tick = 0]
    <2>1. /\ u \in TimerNode /\ u.parameter = t.parameter /\ u.saveTick = t.saveTick
          /\ u.reload <=> t.reload
      BY DEF TimerNode
    <2>2. Expire(t) = [u EXCEPT !.destroy = TRUE]
      BY <1>2 DEF Expire
    <2> HIDE DEF u
    <2> QED BY <1>2, <2>1, <2>2 DEF TimerNode, NodeOK, Armed, Due
  <1> QED BY <1>1, <1>2

----------------------------------------------------------------------------
LEMMA InitIInv == Init => IInv
  <1> SUFFICES ASSUME Init PROVE IInv
    OBVIOUS
  <1>1. PICK d \in Delays : timers = <<Timer(d, "function", Poll, TRUE)>>
    BY DEF Init
  <1> DEFINE t == Timer(d, "function", Poll, TRUE)
  <1>2. t \in TimerNode /\ NodeOK(t) /\ Armed(t)
    BY TimerType, ServerAssumption
  <1>3. timers = <<t>>
    BY <1>1
  <1> HIDE DEF t
  <1>4. Good(timers)
    BY <1>2, <1>3 DEF Good, Distinct
  <1>5. TypeOK
    <2>1. timers \in Seq(TimerNode) /\ 0 \in 0..MaxAsked
      BY <1>4, ServerAssumption DEF Good
    <2>2. phase = "sleep" /\ cursor = 1 /\ asked = 0
      BY DEF Init
    <2> QED BY <2>1, <2>2 DEF TypeOK
  <1>6. Reclaimed
    BY <1>2, <1>3 DEF Reclaimed
  <1> QED BY <1>4, <1>5, <1>6 DEF Init, IInv

(* The three things a step may do to the list. *)
LEMMA AskGood ==
  ASSUME IInv, NEW id \in Ids, NEW d \in Delays, ~Waiting(id), Ask(id, d)
  PROVE  /\ Good(timers') /\ DOMAIN timers \subseteq DOMAIN timers'
         /\ \A i \in DOMAIN timers : timers'[i] = timers[i]
         /\ \A i \in DOMAIN timers' \ DOMAIN timers :
              i = Len(timers) + 1 /\ timers'[i] = Timer(d, "function", id, FALSE)
  <1> DEFINE t == Timer(d, "function", id, FALSE)
  <1>1. t \in TimerNode /\ NodeOK(t) /\ t.parameter = id
    BY TimerType
  <1>2. timers' = AppendTimer(timers, t)
    BY DEF Ask
  <1> HIDE DEF t
  <1>3. Good(timers')
    BY <1>1, <1>2, GoodAppend DEF IInv, Waiting
  <1>4. /\ DOMAIN timers \subseteq DOMAIN timers'
        /\ \A i \in DOMAIN timers : timers'[i] = timers[i]
        /\ \A i \in DOMAIN timers' \ DOMAIN timers : i = Len(timers) + 1 /\ timers'[i] = t
    BY <1>1, <1>2, AppendTimerNodes DEF IInv, TypeOK
  <1> QED BY <1>3, <1>4 DEF t

LEMMA CountGood ==
  ASSUME IInv, Count
  PROVE  LET t == timers[cursor]
         IN  /\ Good(timers') /\ DOMAIN timers' = DOMAIN timers /\ cursor \in DOMAIN timers
             /\ \A i \in DOMAIN timers : i # cursor => timers'[i] = timers[i]
             /\ timers'[cursor] = CountDown(t) /\ t \in TimerNode /\ NodeOK(t) /\ ~Due(t)
  <1> DEFINE t == CountDown(timers[cursor])
  <1>1. /\ cursor \in DOMAIN timers /\ timers[cursor] \in TimerNode
        /\ NodeOK(timers[cursor]) /\ ~Due(timers[cursor])
        /\ timers' = [timers EXCEPT ![cursor] = t] /\ timers \in Seq(TimerNode) /\ Good(timers)
    BY DEF IInv, Good, Count, AtNode, TypeOK
  <1>2. /\ t \in TimerNode /\ NodeOK(t)
        /\ Armed(t) => Armed(timers[cursor]) /\ t.parameter = timers[cursor].parameter
    BY <1>1, CountDownNode
  <1> HIDE DEF t
  <1>3. Good(timers')
    BY <1>1, <1>2, GoodExcept
  <1> QED BY <1>1, <1>2, <1>3, ExceptNode DEF t

LEMMA CallGood ==
  ASSUME IInv, Call
  PROVE  LET t == timers[cursor]
         IN  /\ Good(timers') /\ DOMAIN timers' = DOMAIN timers /\ cursor \in DOMAIN timers
             /\ \A i \in DOMAIN timers : i # cursor => timers'[i] = timers[i]
             /\ timers'[cursor] = Expire(t) /\ t \in TimerNode /\ NodeOK(t) /\ Due(t)
  <1> DEFINE t == Expire(timers[cursor])
  <1>1. /\ cursor \in DOMAIN timers /\ timers[cursor] \in TimerNode
        /\ NodeOK(timers[cursor]) /\ Due(timers[cursor])
        /\ timers' = [timers EXCEPT ![cursor] = t] /\ timers \in Seq(TimerNode) /\ Good(timers)
    BY DEF IInv, Good, Call, AtNode, TypeOK
  <1>2. /\ t \in TimerNode /\ NodeOK(t)
        /\ Armed(t) => Armed(timers[cursor]) /\ t.parameter = timers[cursor].parameter
    BY <1>1, ExpireNode
  <1> HIDE DEF t
  <1>3. Good(timers')
    BY <1>1, <1>2, GoodExcept
  <1> QED BY <1>1, <1>2, <1>3, ExceptNode DEF t

LEMMA NextIInv == IInv /\ [Next]_vars => IInv'
  <1> SUFFICES ASSUME IInv, [Next]_vars PROVE IInv'
    OBVIOUS
  <1>1. ASSUME NEW id \in Ids, NEW d \in Delays, AskAsleep(id, d) PROVE IInv'
    <2> DEFINE t == Timer(d, "function", id, FALSE)
    <2>1. Armed(t)
      BY TimerType
    <2> HIDE DEF t
    <2>2. /\ Good(timers') /\ DOMAIN timers \subseteq DOMAIN timers'
          /\ \A i \in DOMAIN timers : timers'[i] = timers[i]
          /\ \A i \in DOMAIN timers' \ DOMAIN timers : timers'[i] = t
      BY <1>1, AskGood DEF AskAsleep, t
    <2>3. Reclaimed'
      BY <1>1, <2>1, <2>2 DEF IInv, Reclaimed, AskAsleep
    <2> QED BY <1>1, <2>2, <2>3 DEF IInv, AskAsleep, TypeOK, Good
  <1>2. ASSUME NEW id \in Ids, NEW d \in Delays, AskInCall(id, d) PROVE IInv'
    <2>1. Good(timers') /\ DOMAIN timers \subseteq DOMAIN timers'
      BY <1>2, AskGood DEF AskInCall
    <2>2. asked' \in 0..MaxAsked
      BY <1>2, ServerAssumption DEF AskInCall, IInv, TypeOK
    <2> QED BY <1>2, <2>1, <2>2 DEF IInv, AskInCall, TypeOK, Good, Reclaimed
  <1>3. CASE WakeUp
    BY <1>3, ServerAssumption DEF WakeUp, IInv, TypeOK, Reclaimed
  <1>4. CASE Count
    <2>1. Good(timers')
      BY <1>4, CountGood
    <2> QED BY <1>4, <2>1 DEF Count, IInv, TypeOK, Good, Reclaimed
  <1>5. CASE Call
    <2>1. Good(timers') /\ DOMAIN timers' = DOMAIN timers /\ cursor \in DOMAIN timers
      BY <1>5, CallGood
    <2> QED BY <1>5, <2>1 DEF Call, IInv, TypeOK, Good, Reclaimed
  <1>6. CASE Return
    BY <1>6 DEF Return, IInv, TypeOK, Reclaimed
  <1>7. CASE EndRun
    BY <1>7 DEF EndRun, IInv, TypeOK, Reclaimed
  <1>8. CASE SortRemove
    <2>1. cursor \in DOMAIN timers
      BY <1>8 DEF SortRemove, AtNode, IInv, TypeOK
    <2>2. Good(timers')
      BY <1>8, <2>1, GoodDelete DEF SortRemove, IInv
    <2>3. \A i \in DOMAIN timers' : i < cursor => Armed(timers'[i])
      <3>1. \A i \in DOMAIN timers' : i < cursor => i \in DOMAIN timers /\ timers'[i] = timers[i]
        BY <1>8, <2>1, DeleteTimerNodes DEF SortRemove, IInv, TypeOK, Origin
      <3> QED BY <1>8, <3>1 DEF SortRemove, IInv
    <2> QED BY <1>8, <2>2, <2>3 DEF SortRemove, IInv, TypeOK, Good, Reclaimed
  <1>9. CASE SortKeep
    <2>1. Armed(timers[cursor]) /\ cursor \in Nat
      BY <1>9 DEF SortKeep, Armed, IInv, TypeOK
    <2>2. \A i \in DOMAIN timers : i < cursor + 1 => Armed(timers[i])
      BY <1>9, <2>1 DEF SortKeep, IInv, TypeOK
    <2> QED BY <1>9, <2>2 DEF SortKeep, IInv, TypeOK, Reclaimed
  <1>10. CASE EndSort
    <2>1. \A i \in DOMAIN timers : i < cursor
      BY <1>10 DEF EndSort, AtNode, IInv, TypeOK
    <2> QED BY <1>10, <2>1 DEF EndSort, IInv, TypeOK, Reclaimed
  <1>11. CASE UNCHANGED vars
    BY <1>11 DEF vars, IInv, TypeOK, Good, Reclaimed
  <1> QED
    BY <1>1, <1>2, <1>3, <1>4, <1>5, <1>6, <1>7, <1>8, <1>9, <1>10, <1>11 DEF Next, Server

(* While the server sleeps, sortTimerServer has left no finished node in the   *)
(* list, so its length is the number of requests that are waiting.             *)
THEOREM AlwaysReclaimed == Spec => []Reclaimed
  <1>1. IInv => Reclaimed
    BY DEF IInv
  <1> QED BY <1>1, InitIInv, NextIInv, PTL DEF Spec

(* The variables keep their types: no armed timer is counted below zero.       *)
THEOREM TypeCorrect == Spec => []TypeOK
  <1>1. IInv => TypeOK
    BY DEF IInv
  <1> QED BY <1>1, InitIInv, NextIInv, PTL DEF Spec

(* Each node that waits serves a request of its own.                           *)
LEMMA NodesWaiting ==
  ASSUME NEW list, Good(list), \A i \in DOMAIN list : Armed(list[i])
  PROVE  Len(list) <= Cardinality(Ids)
  <1> DEFINE S == 1 .. Len(list)
             f == [i \in S |-> list[i].parameter]
  <1>1. list \in Seq(TimerNode) /\ Len(list) \in Nat /\ DOMAIN list = S
    BY DEF Good
  <1>2. \A i \in S : list[i].parameter \in Ids
    <2> SUFFICES ASSUME NEW i \in S PROVE list[i].parameter \in Ids
      OBVIOUS
    <2>1. list[i] \in TimerNode
      BY <1>1
    <2> QED BY <2>1 DEF TimerNode
  <1>3. f \in [S -> Ids]
    BY <1>2
  <1>4. ASSUME NEW i \in S, NEW j \in S, f[i] = f[j] PROVE i = j
    BY <1>1, <1>4 DEF Good, Distinct
  <1>5. Cardinality(S) = Len(list) /\ IsFiniteSet(S)
    BY <1>1, FS_Interval
  <1>6. IsFiniteSet(Ids) /\ Cardinality(Ids) \in Nat
    BY ServerAssumption, FS_CardinalityType
  <1> HIDE DEF f, S
  <1>7. ~(Cardinality(Ids) < Cardinality(S))
    <2> SUFFICES ASSUME Cardinality(Ids) < Cardinality(S) PROVE FALSE
      OBVIOUS
    <2>1. \E i, j \in S : i # j /\ f[i] = f[j]
      BY <1>3, <1>5, <1>6, FS_PigeonHole
    <2> QED BY <1>4, <2>1
  <1> QED BY <1>1, <1>5, <1>6, <1>7

(* A pass adds to the nodes of the requests no more than its functions asked   *)
(* for: a pool of that many nodes is never found empty.                        *)
THEOREM AlwaysNodesBounded == Spec => []NodesBounded
  <1>1. Cardinality(Ids) \in Nat
    BY ServerAssumption, FS_CardinalityType
  <1>2. IInv /\ phase = "sleep" => NodesBounded
    <2> SUFFICES ASSUME IInv, phase = "sleep" PROVE NodesBounded
      OBVIOUS
    <2>1. Len(timers) \in Nat /\ asked \in Nat
      BY DEF IInv, TypeOK
    <2>2. Len(timers) <= Cardinality(Ids)
      BY NodesWaiting DEF IInv, Reclaimed
    <2> QED BY <1>1, <2>1, <2>2 DEF NodesBounded
  <1>3. Init => IInv /\ NodesBounded
    BY <1>2, InitIInv DEF Init
  <1>4. IInv /\ NodesBounded /\ [Next]_vars => IInv' /\ NodesBounded'
    <2> SUFFICES ASSUME IInv, NodesBounded, [Next]_vars PROVE IInv' /\ NodesBounded'
      OBVIOUS
    <2>1. IInv'
      BY NextIInv
    <2>2. /\ Len(timers) \in Nat /\ asked \in Nat /\ timers \in Seq(TimerNode)
          /\ Len(timers') \in Nat /\ asked' \in Nat /\ timers' \in Seq(TimerNode)
          /\ Len(timers) <= Cardinality(Ids) + asked
      BY <2>1 DEF IInv, TypeOK, NodesBounded
    <2>3. ASSUME Len(timers') <= Len(timers), asked' = asked PROVE NodesBounded'
      BY <1>1, <2>2, <2>3 DEF NodesBounded
    <2>4. ASSUME phase' = "sleep" PROVE NodesBounded'
      <3>1. Good(timers') /\ \A i \in DOMAIN timers' : Armed(timers'[i])
        BY <2>1, <2>4 DEF IInv, Reclaimed
      <3>2. Len(timers') <= Cardinality(Ids)
        BY <3>1, NodesWaiting
      <3> QED BY <1>1, <2>2, <3>2 DEF NodesBounded
    <2>5. CASE \E id \in Ids, d \in Delays : AskAsleep(id, d)
      BY <2>1, <2>4, <2>5 DEF AskAsleep
    <2>6. CASE \E id \in Ids, d \in Delays : AskInCall(id, d)
      <3>1. Len(timers') <= Len(timers) + 1 /\ asked' = asked + 1
        BY <2>2, <2>6 DEF AskInCall, Ask, AppendTimer
      <3> QED BY <1>1, <2>2, <3>1, <2>1 DEF NodesBounded
    <2>7. CASE WakeUp
      <3>1. phase = "sleep" /\ timers' = timers /\ asked' = 0
        BY <2>7 DEF WakeUp
      <3>2. Len(timers) <= Cardinality(Ids)
        BY <3>1, NodesWaiting DEF IInv, Reclaimed
      <3> QED BY <1>1, <2>1, <2>2, <3>1, <3>2 DEF NodesBounded
    <2>8. CASE Count \/ Call
      <3>1. asked' = asked /\ Len(timers') = Len(timers)
        BY <2>2, <2>8 DEF Count, Call
      <3> QED BY <2>1, <2>2, <2>3, <3>1
    <2>9. CASE SortRemove
      <3>1. cursor \in DOMAIN timers /\ asked' = asked
        BY <2>9 DEF SortRemove, AtNode, IInv, TypeOK
      <3>2. Len(timers') = Len(timers) - 1
        BY <2>2, <2>9, <3>1, DeleteTimerNodes DEF SortRemove
      <3> QED BY <2>1, <2>2, <2>3, <3>1, <3>2
    <2>10. CASE Return \/ EndRun \/ SortKeep \/ EndSort \/ UNCHANGED vars
      <3>1. timers' = timers /\ asked' = asked
        BY <2>10 DEF Return, EndRun, SortKeep, EndSort, vars
      <3> QED BY <2>1, <2>2, <2>3, <3>1
    <2> QED BY <2>1, <2>5, <2>6, <2>7, <2>8, <2>9, <2>10 DEF Next, Server
  <1> QED BY <1>3, <1>4, PTL DEF Spec

----------------------------------------------------------------------------
(* The refinement: what each step does to the requests that are pending.     *)
Waits == {k \in DOMAIN timers : Armed(timers[k])}
Entry(i) == [id |-> timers[i].parameter, left |-> Left(i),
             period |-> IF timers[i].reload THEN timers[i].saveTick ELSE 0]

LEMMA PendingEntries == Pending = {Entry(i) : i \in Waits}
  BY DEF Pending, Entry, Waits

(* A step that takes no node in or out of service and moves no deadline. *)
LEMMA SamePending ==
  ASSUME Waits' = Waits, \A i \in Waits : Entry(i)' = Entry(i)
  PROVE  UNCHANGED Pending
  <1>1. Pending' = {Entry(i)' : i \in Waits'}
    BY DEF Pending, Entry, Waits
  <1>2. {Entry(i)' : i \in Waits'} = {Entry(i) : i \in Waits}
    OBVIOUS
  <1> QED BY <1>1, <1>2, PendingEntries

(* The entries of two nodes differ, in their names at least. *)
LEMMA EntriesDiffer ==
  ASSUME IInv, NEW i \in Waits, NEW j \in Waits, Entry(i).id = Entry(j).id
  PROVE  i = j
  BY DEF IInv, Good, Distinct, Waits, Entry

(* appendTimerServer is a request, or, with no node left in the pool, nothing. *)
LEMMA AskRefines ==
  ASSUME IInv, NEW id \in Ids, NEW d \in Delays, ~Waiting(id), Ask(id, d),
         phase \in {"sleep", "call"}, UNCHANGED <<phase, cursor>>
  PROVE  Promise!Request(id, d) \/ UNCHANGED Pending
  <1> DEFINE t == Timer(d, "function", id, FALSE)
             n == Len(timers) + 1
             left == IF phase = "call" THEN d - 1 ELSE d
             new == [id |-> id, left |-> left, period |-> 0]
  <1>1. /\ DOMAIN timers \subseteq DOMAIN timers'
        /\ \A i \in DOMAIN timers : timers'[i] = timers[i]
        /\ \A i \in DOMAIN timers' \ DOMAIN timers : i = n /\ timers'[i] = t
    BY AskGood
  <1>2. t.parameter = id /\ t.tick = d /\ ~t.reload /\ Armed(t) /\ d \in Nat \ {0}
    BY TimerType
  <1>3. n > cursor \/ phase = "sleep"
    BY DEF IInv, TypeOK
  <1> HIDE DEF t, n
  <1>4. \A i \in Waits : i \in Waits' /\ Entry(i)' = Entry(i)
    BY <1>1 DEF Waits, Entry, Left, Behind
  <1>5. \A i \in Waits' \ Waits : i = n /\ Entry(i)' = new
    <2>1. ASSUME NEW i \in Waits' \ Waits PROVE i = n /\ Entry(i)' = new
      <3>1. i \in DOMAIN timers' \ DOMAIN timers
        BY <1>1, <2>1 DEF Waits
      <3>2. i = n /\ timers'[i] = t
        BY <1>1, <3>1
      <3> QED BY <1>2, <1>3, <3>2 DEF Entry, Left, Behind
    <2> QED BY <2>1
  <1>6. Pending' = {Entry(i)' : i \in Waits'}
    BY DEF Pending, Entry, Waits
  <1>7. CASE Waits' = Waits
    BY <1>4, <1>7, SamePending
  <1>8. CASE Waits' # Waits
    <2>1. \E i \in Waits' \ Waits : Entry(i)' = new
      BY <1>4, <1>5, <1>8
    <2>2. Pending' = {Entry(i) : i \in Waits} \cup {new}
      BY <1>4, <1>5, <1>6, <2>1
    <2>3. Pending' = Pending \cup {new}
      BY <2>2, PendingEntries
    <2>4. \A e \in Pending : e.id # id
      BY PendingEntries DEF Waiting, Waits, Entry
    <2>5. left \in {d - 1, d}
      OBVIOUS
    <2> HIDE DEF left
    <2> QED BY <2>3, <2>4, <2>5 DEF Promise!Request, Promise!IsPending, Promise!Entry
  <1> QED BY <1>7, <1>8

(* A pass of runTimerServer begins: one more millisecond counts as past. *)
LEMMA WakeUpRefines ==
  ASSUME IInv, WakeUp
  PROVE  Promise!Tick
  <1>1. /\ phase = "sleep" /\ phase' = "run" /\ cursor' = 1 /\ timers' = timers
        /\ Waits' = Waits /\ timers \in Seq(TimerNode)
    BY DEF WakeUp, Waits, IInv, TypeOK
  <1>2. ASSUME NEW i \in Waits
        PROVE  /\ Entry(i).left > 0
               /\ Entry(i)' = [Entry(i) EXCEPT !.left = Entry(i).left - 1]
    <2>1. i \in DOMAIN timers /\ timers[i].tick > 0 /\ i >= 1 /\ timers[i].tick \in Nat
      <3>1. i \in DOMAIN timers /\ timers[i] \in TimerNode /\ NodeOK(timers[i]) /\ Armed(timers[i])
        BY <1>1 DEF Waits, IInv, Good
      <3>2. i >= 1
        BY <1>1, <3>1
      <3> QED BY <3>1, <3>2 DEF NodeOK, TimerNode
    <2>2. Left(i) = timers[i].tick /\ Left(i)' = timers[i].tick - 1
      BY <1>1, <2>1 DEF Left, Behind
    <2> QED BY <1>1, <2>1, <2>2 DEF Entry
  <1>3. Pending' = {Entry(i)' : i \in Waits}
    BY <1>1 DEF Pending, Entry, Waits
  <1>4. \A e \in Pending : e.left > 0
    BY <1>2, PendingEntries
  <1>5. {Entry(i)' : i \in Waits} = {[e EXCEPT !.left = e.left - 1] : e \in {Entry(i) : i \in Waits}}
    BY <1>2
  <1>6. Pending' = {[e EXCEPT !.left = e.left - 1] : e \in Pending}
    BY <1>3, <1>5, PendingEntries
  <1> QED BY <1>4, <1>6 DEF Promise!Tick

(* A node that is counted down has its deadline where it was. *)
LEMMA CountRefines ==
  ASSUME IInv, Count
  PROVE  UNCHANGED Pending
  <1>1. /\ DOMAIN timers' = DOMAIN timers /\ cursor \in DOMAIN timers
        /\ \A i \in DOMAIN timers : i # cursor => timers'[i] = timers[i]
        /\ timers'[cursor] = CountDown(timers[cursor])
        /\ timers[cursor] \in TimerNode /\ NodeOK(timers[cursor]) /\ ~Due(timers[cursor])
    BY CountGood
  <1>2. phase = "run" /\ phase' = "run" /\ cursor' = cursor + 1 /\ DOMAIN timers \subseteq Nat
    BY DEF Count, IInv, TypeOK
  <1>3. Waits' = Waits
    BY <1>1, CountDownNode DEF Waits
  <1>4. ASSUME NEW i \in Waits PROVE Entry(i)' = Entry(i)
    <2>1. CASE i = cursor
      <3>1. timers'[i].tick = timers[i].tick - 1
        BY <1>1, <2>1, CountDownNode DEF Waits
      <3>2. Left(i)' = Left(i)
        BY <1>1, <1>2, <2>1, <3>1 DEF Left, Behind, TimerNode
      <3> QED BY <1>1, <2>1, <3>2, CountDownNode DEF Entry
    <2>2. CASE i # cursor
      <3>1. i \in Nat /\ cursor \in Nat /\ timers'[i] = timers[i]
        BY <1>1, <1>2, <2>2 DEF Waits
      <3> QED BY <1>2, <2>2, <3>1 DEF Entry, Left, Behind
    <2> QED BY <2>1, <2>2
  <1> QED BY <1>3, <1>4, SamePending

(* A timer that is due is served; a periodic one has a whole period before it. *)
LEMMA CallRefines ==
  ASSUME IInv, Call
  PROVE  \E e \in Pending : Promise!Fire(e)
  <1> DEFINE t == timers[cursor]
             again == [id |-> t.parameter, left |-> t.saveTick, period |-> t.saveTick]
  <1>1. /\ DOMAIN timers' = DOMAIN timers /\ cursor \in DOMAIN timers
        /\ \A i \in DOMAIN timers : i # cursor => timers'[i] = timers[i]
        /\ timers'[cursor] = Expire(t)
        /\ t \in TimerNode /\ NodeOK(t) /\ Due(t)
    BY CallGood
  <1>2. phase = "run" /\ phase' = "call" /\ cursor' = cursor /\ DOMAIN timers \subseteq Nat
    BY DEF Call, IInv, TypeOK
  <1>3. /\ Armed(t) /\ t.tick = 1
        /\ Armed(Expire(t)) <=> t.reload
        /\ Expire(t).parameter = t.parameter /\ Expire(t).saveTick = t.saveTick
        /\ Expire(t).reload <=> t.reload
        /\ t.reload => Expire(t).tick = t.saveTick
    BY <1>1, ExpireNode
  <1>4. cursor \in Waits /\ Entry(cursor) \in Pending
    BY <1>1, <1>3, PendingEntries DEF Waits
  <1>5. Entry(cursor).left = 0
    BY <1>1, <1>2, <1>3 DEF Entry, Left, Behind
  <1>6. \A i \in Waits \ {cursor} : i \in Waits' /\ Entry(i)' = Entry(i)
    <2>1. ASSUME NEW i \in Waits \ {cursor} PROVE i \in Waits' /\ Entry(i)' = Entry(i)
      <3>1. i \in Nat /\ cursor \in Nat /\ timers'[i] = timers[i] /\ i \in DOMAIN timers
        BY <1>1, <1>2 DEF Waits
      <3> QED BY <1>1, <1>2, <3>1 DEF Waits, Entry, Left, Behind
    <2> QED BY <2>1
  <1>7. \A i \in Waits' : i # cursor => i \in Waits
    BY <1>1 DEF Waits
  <1>8. cursor \in Waits' <=> t.reload
    BY <1>1, <1>3 DEF Waits
  <1>9. t.reload => \A i \in DOMAIN timers : i = cursor => Entry(i)' = again
    BY <1>1, <1>2, <1>3 DEF Entry, Left, Behind
  <1>10. Pending \ {Entry(cursor)} = {Entry(i) : i \in Waits \ {cursor}}
    <2>1. \A i \in Waits \ {cursor} : Entry(i) # Entry(cursor)
      BY <1>4, EntriesDiffer
    <2> QED BY <1>4, <2>1, PendingEntries
  <1>11. Pending' = {Entry(i)' : i \in Waits'}
    BY DEF Pending, Entry, Waits
  <1>12. t.saveTick \in Nat \ {0} /\ Entry(cursor).id = t.parameter
         /\ Entry(cursor).period = IF t.reload THEN t.saveTick ELSE 0
    BY <1>1 DEF TimerNode, Entry
  <1> HIDE DEF t
  <1>13. CASE t.reload
    <2>1. {Entry(i)' : i \in Waits'} = {Entry(i) : i \in Waits \ {cursor}} \cup {again}
      <3>1. PICK c \in Waits' : c = cursor /\ Entry(c)' = again
        BY <1>1, <1>8, <1>9, <1>13
      <3>2. \A i \in Waits' : i = cursor \/ (i \in Waits \ {cursor} /\ Entry(i)' = Entry(i))
        BY <1>6, <1>7
      <3>3. \A i \in Waits \ {cursor} : i \in Waits' /\ Entry(i)' = Entry(i)
        BY <1>6
      <3> DEFINE before == {Entry(i)' : i \in Waits'}
                 after == {Entry(i) : i \in Waits \ {cursor}} \cup {again}
      <3> HIDE DEF again
      <3>4. ASSUME NEW e \in before PROVE e \in after
        BY <3>1, <3>2
      <3>5. ASSUME NEW e \in after PROVE e \in before
        <4>1. CASE e = again
          BY <3>1, <4>1
        <4>2. ASSUME NEW i \in Waits \ {cursor}, e = Entry(i) PROVE e \in before
          BY <3>3, <4>2
        <4> QED BY <3>5, <4>1, <4>2
      <3> HIDE DEF before, after
      <3>6. before = after
        BY <3>4, <3>5
      <3> QED BY <3>6 DEF before, after
    <2>2. Entry(cursor).period = t.saveTick /\ t.saveTick # 0
      BY <1>12, <1>13
    <2>3. Promise!Fire(Entry(cursor))
      BY <1>4, <1>5, <1>10, <1>11, <1>12, <2>1, <2>2 DEF Promise!Fire, Promise!Entry
    <2> QED BY <1>4, <2>3
  <1>14. CASE ~t.reload
    <2>1. {Entry(i)' : i \in Waits'} = {Entry(i) : i \in Waits \ {cursor}}
      BY <1>6, <1>7, <1>8, <1>14
    <2>2. Promise!Fire(Entry(cursor))
      BY <1>4, <1>5, <1>10, <1>11, <1>12, <1>14, <2>1 DEF Promise!Fire, Promise!Entry
    <2> QED BY <1>4, <2>2
  <1> QED BY <1>13, <1>14

(* Taking a finished node out of the list moves the others, not their deadlines. *)
LEMMA SortRemoveRefines ==
  ASSUME IInv, SortRemove
  PROVE  UNCHANGED Pending
  <1>1. /\ cursor \in DOMAIN timers /\ ~Armed(timers[cursor]) /\ phase = "sort" /\ phase' = "sort"
        /\ timers' = DeleteTimer(timers, cursor)
    BY DEF SortRemove, AtNode, Armed, IInv, TypeOK
  <1>2. /\ \A k \in DOMAIN timers' : /\ Origin(cursor, k) \in DOMAIN timers \ {cursor}
                                     /\ timers'[k] = timers[Origin(cursor, k)]
        /\ \A j \in DOMAIN timers \ {cursor} : \E k \in DOMAIN timers' : Origin(cursor, k) = j
    BY <1>1, DeleteTimerNodes DEF IInv, TypeOK
  <1>3. \A k \in Waits' : Origin(cursor, k) \in Waits /\ Entry(k)' = Entry(Origin(cursor, k))
    BY <1>1, <1>2 DEF Waits, Entry, Left, Behind
  <1>4. \A j \in Waits : \E k \in Waits' : Entry(k)' = Entry(j)
    <2>1. ASSUME NEW j \in Waits PROVE \E k \in Waits' : Entry(k)' = Entry(j)
      <3>1. j \in DOMAIN timers \ {cursor} /\ Armed(timers[j])
        BY <1>1 DEF Waits
      <3>2. PICK k \in DOMAIN timers' : Origin(cursor, k) = j
        BY <1>2, <3>1
      <3>3. k \in Waits'
        BY <1>2, <3>1, <3>2 DEF Waits
      <3> QED BY <1>3, <3>2, <3>3
    <2> QED BY <2>1
  <1>5. Pending' = {Entry(k)' : k \in Waits'}
    BY DEF Pending, Entry, Waits
  <1> QED BY <1>3, <1>4, <1>5, PendingEntries

LEMMA StepRefines == IInv /\ [Next]_vars => [Promise!Next]_Pending
  <1> SUFFICES ASSUME IInv, [Next]_vars PROVE [Promise!Next]_Pending
    OBVIOUS
  <1>1. ASSUME NEW id \in Ids, NEW d \in Delays, AskAsleep(id, d) \/ AskInCall(id, d)
        PROVE  [Promise!Next]_Pending
    BY <1>1, AskRefines DEF AskAsleep, AskInCall, Promise!Next
  <1>2. CASE WakeUp
    BY <1>2, WakeUpRefines DEF Promise!Next
  <1>3. CASE Count
    BY <1>3, CountRefines
  <1>4. CASE Call
    BY <1>4, CallRefines DEF Promise!Next
  <1>5. CASE Return
    <2>1. Waits' = Waits /\ \A i \in Waits : Entry(i)' = Entry(i)
      BY <1>5 DEF Return, Waits, Entry, Left, Behind, IInv, TypeOK
    <2> QED BY <2>1, SamePending
  <1>6. CASE EndRun
    <2>1. \A i \in DOMAIN timers : ~(i >= cursor)
      BY <1>6 DEF EndRun, AtNode, IInv, TypeOK
    <2>2. Waits' = Waits /\ \A i \in Waits : Entry(i)' = Entry(i)
      BY <1>6, <2>1 DEF EndRun, Waits, Entry, Left, Behind
    <2> QED BY <2>2, SamePending
  <1>7. CASE SortRemove
    BY <1>7, SortRemoveRefines
  <1>8. CASE SortKeep \/ EndSort \/ UNCHANGED vars
    <2>1. Waits' = Waits /\ \A i \in Waits : Entry(i)' = Entry(i)
      BY <1>8 DEF SortKeep, EndSort, vars, Waits, Entry, Left, Behind
    <2> QED BY <2>1, SamePending
  <1> QED BY <1>1, <1>2, <1>3, <1>4, <1>5, <1>6, <1>7, <1>8 DEF Next, Server

LEMMA InitRefines == Init => Promise!Init
  <1> SUFFICES ASSUME Init PROVE Promise!Init
    OBVIOUS
  <1>1. PICK d \in Delays : timers = <<Timer(d, "function", Poll, TRUE)>>
    BY DEF Init
  <1> DEFINE t == Timer(d, "function", Poll, TRUE)
  <1>2. t.tick = d /\ t.saveTick = d /\ t.parameter = Poll /\ t.reload /\ Armed(t)
    BY DEF Timer, Armed
  <1>3. timers = <<t>> /\ phase = "sleep"
    BY <1>1 DEF Init
  <1> HIDE DEF t
  <1>4. Waits = {1}
    BY <1>2, <1>3 DEF Waits
  <1>5. Entry(1) = [id |-> Poll, left |-> d, period |-> d]
    BY <1>2, <1>3 DEF Entry, Left, Behind
  <1>6. Pending = {[id |-> Poll, left |-> d, period |-> d]}
    BY <1>4, <1>5, PendingEntries
  <1> QED BY <1>6, ServerAssumption DEF Promise!Init, Promise!Entry

(* The timer service does what its callers may count on: no request is lost or *)
(* served twice, none is served late, none more than a millisecond early.      *)
THEOREM KeepsPromiseSafely == Spec => Promise!Safety
  <1> QED BY InitIInv, NextIInv, InitRefines, StepRefines, PTL DEF Spec, Promise!Safety

=============================================================================
