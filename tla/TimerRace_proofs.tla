-------------------------- MODULE TimerRace_proofs --------------------------
(***************************************************************************)
(* However many nodes the pool holds, and wherever the server task cuts    *)
(* into an append of the tcpip thread: no walk of the list leaves the      *)
(* memory that is in use.                                                  *)
(***************************************************************************)
EXTENDS TimerRace, TLAPS

----------------------------------------------------------------------------
(* Walks over the links p, and what a change of a link makes of them.       *)

ClosedUnder(p, S) == \A n \in S : p[n] \in S \cup {NULL}
Reach(p, n) == {m \in Nodes : \A S \in SUBSET Nodes : n \in S /\ ClosedUnder(p, S) => m \in S}

(* The nodes of S are in use, each is led to by at most one of the others,   *)
(* and none leads to n.                                                     *)
Line(p, u, n, S) ==
  /\ n \in S /\ S \subseteq Nodes /\ S \subseteq u
  /\ ClosedUnder(p, S)
  /\ \A a, b \in S : p[a] = p[b] /\ p[a] # NULL => a = b
  /\ \A a \in S : p[a] # n
Lined(p, u, n) == Line(p, u, n, Reach(p, n))

Linking == [Nodes -> Links]

(* A walk is the smallest set that begins with n and follows the links. *)
LEMMA Reaches ==
  ASSUME NEW p \in Linking, NEW n \in Nodes
  PROVE  /\ n \in Reach(p, n) /\ Reach(p, n) \in SUBSET Nodes /\ ClosedUnder(p, Reach(p, n))
         /\ \A S \in SUBSET Nodes : n \in S /\ ClosedUnder(p, S) => Reach(p, n) \subseteq S
         /\ \A m \in Reach(p, n) : Reach(p, m) \subseteq Reach(p, n)
  <1>1. n \in Reach(p, n) /\ Reach(p, n) \in SUBSET Nodes
    BY DEF Reach
  <1>2. ClosedUnder(p, Reach(p, n))
    <2> SUFFICES ASSUME NEW m \in Reach(p, n), p[m] # NULL PROVE p[m] \in Reach(p, n)
      BY DEF ClosedUnder
    <2>1. m \in Nodes /\ p[m] \in Nodes
      BY DEF Reach, Linking, Links
    <2>2. ASSUME NEW S \in SUBSET Nodes, n \in S, ClosedUnder(p, S) PROVE p[m] \in S
      <3>1. m \in S
        BY <2>2 DEF Reach
      <3> QED BY <2>2, <3>1 DEF ClosedUnder
    <2> QED BY <2>1, <2>2 DEF Reach
  <1>3. \A S \in SUBSET Nodes : n \in S /\ ClosedUnder(p, S) => Reach(p, n) \subseteq S
    BY DEF Reach
  <1>4. \A m \in Reach(p, n) : Reach(p, m) \subseteq Reach(p, n)
    BY <1>1, <1>2 DEF Reach
  <1> QED BY <1>1, <1>2, <1>3, <1>4

(* It is enough to find a line that covers the walk. *)
LEMMA Covered ==
  ASSUME NEW p \in Linking, NEW n \in Nodes, NEW u, NEW S, Line(p, u, n, S)
  PROVE  Lined(p, u, n) /\ Reach(p, n) \subseteq S
  <1>1. Reach(p, n) \subseteq S
    BY Reaches DEF Line
  <1>2. n \in Reach(p, n) /\ Reach(p, n) \subseteq Nodes /\ ClosedUnder(p, Reach(p, n))
    BY Reaches
  <1> QED BY <1>1, <1>2 DEF Lined, Line

(* No node of a line leads to itself: the walk would not have come to it. *)
LEMMA NoLoop ==
  ASSUME NEW p \in Linking, NEW n \in Nodes, NEW u, Lined(p, u, n),
         NEW c \in Reach(p, n), c # n
  PROVE  p[c] # c
  <1> SUFFICES ASSUME p[c] = c PROVE FALSE
    OBVIOUS
  <1> DEFINE W == Reach(p, n)
  <1>1. /\ n \in W /\ W \in SUBSET Nodes /\ ClosedUnder(p, W) /\ c \in Nodes
        /\ \A S \in SUBSET Nodes : n \in S /\ ClosedUnder(p, S) => W \subseteq S
    BY Reaches
  <1>2. c # NULL
    BY <1>1, RaceAssumption
  <1> HIDE DEF W
  <1>3. \A a \in W : p[a] = c => a = c
    BY <1>2 DEF Lined, Line, W
  <1>4. ClosedUnder(p, W \ {c})
    BY <1>1, <1>3 DEF ClosedUnder
  <1>5. W \subseteq W \ {c}
    BY <1>1, <1>4
  <1> QED BY <1>5 DEF W

(* A free node is taken: nothing in use leads to it. *)
TakenFree(p, x) == [p EXCEPT ![x] = NULL]
LinesStay(p, u, q, v) ==
  \A n \in Nodes : Lined(p, u, n) => Lined(q, v, n) /\ Reach(q, n) \subseteq Reach(p, n)

LEMMA Taken ==
  ASSUME NEW p \in Linking, NEW u \in SUBSET Nodes, NEW x \in Nodes, x \notin u,
         NEW q, q = TakenFree(p, x)
  PROVE  /\ q \in Linking
         /\ Lined(q, u \cup {x}, x) /\ Reach(q, x) \subseteq {x}
         /\ LinesStay(p, u, q, u \cup {x})
  <1>1. q \in Linking /\ q[x] = NULL /\ \A a \in Nodes : a # x => q[a] = p[a]
    BY DEF TakenFree, Linking, Links
  <1>2. Line(q, u \cup {x}, x, {x})
    BY <1>1, RaceAssumption DEF Line, ClosedUnder
  <1>3. ASSUME NEW n \in Nodes, Lined(p, u, n)
        PROVE  Lined(q, u \cup {x}, n) /\ Reach(q, n) \subseteq Reach(p, n)
    <2>1. PICK S : S = Reach(p, n)
      OBVIOUS
    <2>2. Line(p, u, n, S)
      BY <1>3, <2>1 DEF Lined
    <2>3. Line(q, u \cup {x}, n, S)
      BY <1>1, <2>2 DEF Line, ClosedUnder
    <2> QED BY <1>1, <2>1, <2>3, Covered
  <1> QED BY <1>1, <1>2, <1>3, Covered DEF LinesStay

(* A free node is taken and appended to some node t. *)
Appended(p, x, t) == [p EXCEPT ![x] = NULL, ![t] = x]
LinesGrow(p, u, q, v, t, x) ==
  \A n \in Nodes : Lined(p, u, n) =>
    /\ Lined(q, v, n)
    /\ Reach(q, n) \subseteq IF t \in Reach(p, n) THEN Reach(p, n) \cup {x} ELSE Reach(p, n)
StaysInUse(p, u, q, v) == \A n \in Nodes : Reach(p, n) \subseteq u => Reach(q, n) \subseteq v

LEMMA AppendedFacts ==
  ASSUME NEW p \in Linking, NEW u \in SUBSET Nodes, NEW x \in Nodes, x \notin u, NEW t \in Nodes,
         NEW q, q = Appended(p, x, t)
  PROVE  /\ q \in Linking
         /\ LinesGrow(p, u, q, u \cup {x}, t, x) /\ StaysInUse(p, u, q, u \cup {x})
  <1>1. /\ q \in Linking /\ q[t] = x /\ (t # x => q[x] = NULL)
        /\ \A a \in Nodes : a # x /\ a # t => q[a] = p[a]
    BY DEF Appended, Linking, Links
  <1>2. ASSUME NEW n \in Nodes, Lined(p, u, n)
        PROVE  /\ Lined(q, u \cup {x}, n)
               /\ Reach(q, n) \subseteq IF t \in Reach(p, n) THEN Reach(p, n) \cup {x} ELSE Reach(p, n)
    <2>1. PICK S : S = Reach(p, n)
      OBVIOUS
    <2>2. Line(p, u, n, S) /\ x \notin S /\ n # x
      BY <1>2, <2>1 DEF Lined, Line
    <2>3. CASE t \in S
      <3>1. t # x /\ q[x] = NULL /\ \A a \in S : IF a = t THEN q[a] = x ELSE q[a] = p[a]
        BY <1>1, <2>2, <2>3 DEF Line
      <3>2. \A a \in S : p[a] # x
        BY <2>2, RaceAssumption DEF Line, ClosedUnder
      <3>3. ClosedUnder(q, S \cup {x})
        BY <2>2, <3>1 DEF Line, ClosedUnder
      <3>4. \A a, b \in S \cup {x} : q[a] = q[b] /\ q[a] # NULL => a = b
        BY <2>2, <3>1, <3>2 DEF Line
      <3>5. \A a \in S \cup {x} : q[a] # n
        BY <2>2, <3>1, RaceAssumption DEF Line
      <3>6. Line(q, u \cup {x}, n, S \cup {x})
        BY <2>2, <3>3, <3>4, <3>5 DEF Line
      <3> QED BY <1>1, <2>1, <2>3, <3>6, Covered
    <2>4. CASE t \notin S
      <3>1. \A a \in S : q[a] = p[a]
        BY <1>1, <2>2, <2>4 DEF Line
      <3>2. Line(q, u \cup {x}, n, S)
        BY <2>2, <3>1 DEF Line, ClosedUnder
      <3> QED BY <1>1, <2>1, <2>4, <3>2, Covered
    <2> QED BY <2>3, <2>4
  <1>3. ASSUME NEW n \in Nodes, Reach(p, n) \subseteq u PROVE Reach(q, n) \subseteq u \cup {x}
    <2>1. PICK S : S = Reach(p, n)
      OBVIOUS
    <2>2. n \in S /\ S \in SUBSET Nodes /\ ClosedUnder(p, S) /\ x \notin S /\ S \subseteq u
      BY <1>3, <2>1, Reaches
    <2>3. ClosedUnder(q, S \cup {x})
      <3>1. q[x] \in {x, NULL} /\ \A a \in S : q[a] = x \/ q[a] = p[a]
        BY <1>1, <2>2
      <3> QED BY <2>2, <3>1 DEF ClosedUnder
    <2>4. Reach(q, n) \subseteq S \cup {x}
      BY <1>1, <2>2, <2>3, Reaches
    <2> QED BY <2>2, <2>4
  <1> QED BY <1>1, <1>2, <1>3 DEF LinesGrow, StaysInUse

(* A line is linked behind some node l, wherever that node is. *)
LinkedTo(p, l, o) == [p EXCEPT ![l] = o]
LEMMA LinkedToFacts ==
  ASSUME NEW p \in Linking, NEW u \in SUBSET Nodes, NEW n \in Nodes, NEW o \in Nodes, NEW l \in Nodes,
         Lined(p, u, n), Lined(p, u, o), Reach(p, o) \cap Reach(p, n) = {},
         NEW q, q = LinkedTo(p, l, o)
  PROVE  q \in Linking /\ Lined(q, u, n)
  <1>1. q \in Linking /\ q[l] = o /\ \A a \in Nodes : a # l => q[a] = p[a]
    BY DEF LinkedTo, Linking, Links
  <1>2. PICK S : S = Reach(p, n)
    OBVIOUS
  <1>3. PICK T : T = Reach(p, o)
    OBVIOUS
  <1>4. Line(p, u, n, S) /\ Line(p, u, o, T) /\ S \cap T = {} /\ NULL \notin S \cup T
    BY <1>2, <1>3, RaceAssumption DEF Lined, Line
  <1>5. CASE l \in S
    <2>1. /\ \A a \in S : IF a = l THEN q[a] = o ELSE q[a] = p[a]
          /\ \A a \in T : q[a] = p[a]
      BY <1>1, <1>4, <1>5 DEF Line
    <2>2. (\A a \in S : p[a] \in S \cup {NULL}) /\ (\A a \in T : p[a] \in T \cup {NULL} /\ p[a] # o)
      BY <1>4 DEF Line, ClosedUnder
    <2>3. o \in T /\ n \in S
      BY <1>4 DEF Line
    <2>4. ClosedUnder(q, S \cup T)
      BY <2>1, <2>2, <2>3 DEF ClosedUnder
    <2>5. ASSUME NEW a \in S \cup T, NEW b \in S \cup T, q[a] = q[b], q[a] # NULL PROVE a = b
      <3>1. (a \in S /\ b \in S => (p[a] = p[b] /\ p[a] # NULL => a = b))
            /\ (a \in T /\ b \in T => (p[a] = p[b] /\ p[a] # NULL => a = b))
        BY <1>4 DEF Line
      <3> QED BY <1>4, <2>1, <2>2, <2>3, <2>5, <3>1
    <2>6. \A a \in S \cup T : q[a] # n
      BY <1>4, <2>1, <2>2, <2>3 DEF Line
    <2>7. Line(q, u, n, S \cup T)
      BY <1>4, <2>4, <2>5, <2>6 DEF Line
    <2> QED BY <1>1, <2>7, Covered
  <1>6. CASE l \notin S
    <2>1. \A a \in S : q[a] = p[a]
      BY <1>1, <1>4, <1>6 DEF Line
    <2>2. Line(q, u, n, S)
      BY <1>4, <2>1 DEF Line, ClosedUnder
    <2> QED BY <1>1, <2>2, Covered
  <1> QED BY <1>5, <1>6

(* A node of a line is taken out. *)
TakenOut(p, b, c) == [p EXCEPT ![b] = p[c]]
LEMMA TakenOutFacts ==
  ASSUME NEW p \in Linking, NEW u \in SUBSET Nodes, NEW n \in Nodes, Lined(p, u, n),
         NEW c \in Reach(p, n), c # n, NEW b \in Reach(p, n), p[b] = c,
         NEW q, q = TakenOut(p, b, c)
  PROVE  /\ q \in Linking /\ Lined(q, u \ {c}, n) /\ Reach(q, n) \subseteq Reach(p, n) \ {c}
         /\ p[c] \in Reach(q, n) \cup {NULL}
  <1>1. PICK S : S = Reach(p, n)
    OBVIOUS
  <1>2. /\ Line(p, u, n, S) /\ c \in S /\ b \in S /\ S \in SUBSET Nodes /\ c \in Nodes /\ b \in Nodes
        /\ c # NULL /\ n # NULL /\ p[c] # c
    BY <1>1, NoLoop, RaceAssumption DEF Lined, Line
  <1>3. q \in Linking /\ q[b] = p[c] /\ \A a \in Nodes : a # b => q[a] = p[a]
    BY <1>2 DEF TakenOut, Linking, Links
  <1>4. \A a \in S : p[a] = c => a = b
    BY <1>2 DEF Line
  <1>5. b # c
    BY <1>2
  <1>6. ClosedUnder(q, S \ {c})
    <2>1. \A a \in S : p[a] \in S \cup {NULL}
      BY <1>2 DEF Line, ClosedUnder
    <2> QED BY <1>2, <1>3, <1>4, <2>1 DEF ClosedUnder
  <1>7. ASSUME NEW a \in S \ {c}, NEW d \in S \ {c}, q[a] = q[d], q[a] # NULL PROVE a = d
    <2>1. \A x, y \in S : p[x] = p[y] /\ p[x] # NULL => x = y
      BY <1>2 DEF Line
    <2> QED BY <1>2, <1>3, <1>7, <2>1
  <1>8. \A a \in S \ {c} : q[a] # n
    BY <1>2, <1>3 DEF Line
  <1>9. Line(q, u \ {c}, n, S \ {c})
    BY <1>2, <1>6, <1>7, <1>8 DEF Line
  <1>10. Lined(q, u \ {c}, n) /\ Reach(q, n) \subseteq S \ {c}
    BY <1>3, <1>9, Covered
  <1>11. b \in Reach(q, n)
    <2> SUFFICES ASSUME b \notin Reach(q, n) PROVE FALSE
      OBVIOUS
    <2>1. PICK W : W = Reach(q, n)
      OBVIOUS
    <2>2. n \in W /\ W \in SUBSET Nodes /\ ClosedUnder(q, W)
      BY <1>3, <2>1, Reaches
    <2>3. ClosedUnder(p, W)
      BY <1>3, <2>1, <2>2 DEF ClosedUnder
    <2>4. S \subseteq W
      BY <1>1, <2>2, <2>3, Reaches
    <2> QED BY <1>2, <2>1, <2>4
  <1>12. q[b] \in Reach(q, n) \cup {NULL}
    BY <1>3, <1>11, Reaches DEF ClosedUnder
  <1> QED BY <1>1, <1>3, <1>10, <1>12

----------------------------------------------------------------------------
(* The invariant.                                                           *)

Met == Reach(pNext, Poll)

(* A node that is on its way into the list heads a line of its own, which    *)
(* does not meet the list: what it leads to was appended to it by a callback, *)
(* when the tail that was put back is the node that was taken anew.           *)
OnItsWay == pc \in {"load", "link"} => /\ Lined(pNext, used, object)
                                       /\ Reach(pNext, object) \cap Met = {}

(* Where the server task is: a callback may cut off the part of the list     *)
(* that the loop is in, but not lead it out of the memory in use; the sort    *)
(* starts from the head again.                                               *)
CursorOK == /\ phase = "sleep" => cursor = NULL
            /\ phase = "sort" => cursor \in Met \cup {NULL}
            /\ phase \in {"call", "return"} => cursor # NULL
            /\ cursor # NULL => Reach(pNext, cursor) \subseteq used

IInv ==
  /\ TypeOK
  /\ Poll \notin destroy
  /\ pc # "idle" => object \in Nodes
  /\ pc \in {"link", "store"} => last \in Nodes
  /\ Lined(pNext, used, Poll)
  /\ OnItsWay
  /\ CursorOK

LEMMA WalkIsReach ==
  /\ List = Met
  /\ Met = Reach(pNext, Poll) /\ Met' = Reach(pNext', Poll)
  BY DEF List, Walk, head, Met, Reach, Closed, ClosedUnder

LEMMA Known ==
  ASSUME IInv
  PROVE  /\ pNext \in Linking /\ used \in SUBSET Nodes /\ Poll \in Nodes /\ NULL \notin Nodes
         /\ Poll \in Met /\ Met \subseteq used /\ ClosedUnder(pNext, Met)
         /\ Lined(pNext, used, Poll) /\ tail \in Nodes /\ destroy \subseteq Nodes
         /\ cursor \in Links
  BY RaceAssumption DEF IInv, TypeOK, Lined, Line, Met, Linking

LEMMA InitInv == Init => IInv
  <1> SUFFICES ASSUME Init PROVE IInv
    OBVIOUS
  <1>1. Poll \in Nodes /\ NULL \notin Nodes
    BY RaceAssumption
  <1>2. TypeOK
    BY <1>1 DEF Init, TypeOK, Links
  <1>3. Line(pNext, used, Poll, {Poll})
    BY <1>1 DEF Init, Line, ClosedUnder
  <1>4. Lined(pNext, used, Poll)
    BY <1>1, <1>2, <1>3, Covered DEF TypeOK, Linking
  <1> QED BY <1>1, <1>2, <1>4 DEF Init, IInv, OnItsWay, CursorOK

(* The steps of the tcpip thread, between two of which the server sleeps. *)
LEMMA TcpipInv ==
  ASSUME IInv, Tcpip
  PROVE  IInv'
  <1>1. /\ pNext \in Linking /\ used \in SUBSET Nodes /\ Poll \in Nodes /\ NULL \notin Nodes
        /\ Lined(pNext, used, Poll) /\ tail \in Nodes
    BY Known
  <1>2. /\ Met = Reach(pNext, Poll) /\ Met' = Reach(pNext', Poll)
    BY WalkIsReach
  <1>3. phase = "sleep" /\ cursor = NULL /\ phase' = "sleep" /\ cursor' = NULL /\ destroy' = destroy
    BY DEF Tcpip, Create, LoadTail, LinkObject, StoreTail, TcpipRuns, server, list, IInv, CursorOK
  <1>4. CursorOK' /\ Poll \notin destroy'
    BY <1>3 DEF CursorOK, IInv
  <1>5. CASE Create
    <2>1. PICK n \in Nodes \ used : used' = used \cup {n} /\ pNext' = TakenFree(pNext, n) /\ object' = n
      BY <1>5 DEF Create, TakenFree
    <2>2. /\ pNext' \in Linking /\ Lined(pNext', used', n) /\ Reach(pNext', n) \subseteq {n}
          /\ Lined(pNext', used', Poll) /\ Met' \subseteq Met
      <3>1. PICK q : q = pNext'
        OBVIOUS
      <3>2. q = TakenFree(pNext, n) /\ n \in Nodes /\ n \notin used
        BY <2>1, <3>1
      <3>3. /\ q \in Linking
            /\ Lined(q, used \cup {n}, n) /\ Reach(q, n) \subseteq {n}
            /\ LinesStay(pNext, used, q, used \cup {n})
        BY <1>1, <3>2, Taken
      <3> QED BY <1>1, <1>2, <2>1, <3>1, <3>3 DEF LinesStay
    <2>3. n \notin Met
      BY <2>1, Known
    <2>4. OnItsWay'
      BY <2>1, <2>2, <2>3 DEF OnItsWay
    <2>5. /\ pc' = "load" /\ tail' = tail /\ last' = last /\ object' \in Nodes /\ used' \subseteq Nodes
      BY <1>1, <1>5, <2>1 DEF Create
    <2>6. TypeOK'
      BY <1>3, <2>2, <2>5 DEF IInv, TypeOK, Linking, Links
    <2> QED BY <1>4, <2>2, <2>4, <2>5, <2>6 DEF IInv
  <1>6. CASE LoadTail
    <2>1. /\ UNCHANGED <<pNext, tail, used, destroy, object, phase, cursor>>
          /\ last' = tail /\ pc' = "link" /\ pc = "load"
      BY <1>6 DEF LoadTail, list, server
    <2>2. TypeOK'
      BY <1>1, <2>1 DEF IInv, TypeOK, Links
    <2>3. OnItsWay'
      BY <1>2, <2>1 DEF IInv, OnItsWay
    <2> QED BY <1>1, <1>4, <2>1, <2>2, <2>3 DEF IInv
  <1>7. CASE LinkObject
    <2>1. /\ UNCHANGED <<tail, used, destroy, object, last, phase, cursor>>
          /\ pNext' = LinkedTo(pNext, last, object) /\ pc' = "store" /\ pc = "link"
      BY <1>7 DEF LinkObject, server, LinkedTo
    <2>2. last \in Nodes /\ object \in Nodes
      BY <2>1 DEF IInv
    <2>3. Lined(pNext, used, object) /\ Reach(pNext, object) \cap Reach(pNext, Poll) = {}
      BY <1>2, <2>1 DEF IInv, OnItsWay
    <2>4. pNext' \in Linking /\ Lined(pNext', used, Poll)
      BY <1>1, <2>1, <2>2, <2>3, LinkedToFacts
    <2>5. TypeOK'
      BY <2>1, <2>4 DEF IInv, TypeOK, Linking
    <2>6. OnItsWay'
      BY <2>1 DEF OnItsWay
    <2> QED BY <1>4, <2>1, <2>2, <2>4, <2>5, <2>6 DEF IInv
  <1>8. CASE StoreTail
    <2>1. /\ UNCHANGED <<pNext, used, destroy, phase, cursor>>
          /\ tail' = object /\ object' = NULL /\ last' = NULL /\ pc' = "idle" /\ pc = "store"
      BY <1>8 DEF StoreTail, server
    <2>2. TypeOK'
      BY <2>1 DEF IInv, TypeOK, Links
    <2>3. OnItsWay'
      BY <2>1 DEF OnItsWay
    <2> QED BY <1>1, <1>4, <2>1, <2>2, <2>3 DEF IInv
  <1> QED BY <1>5, <1>6, <1>7, <1>8 DEF Tcpip

(* A step of the server task that moves its cursor and changes no link. *)
LEMMA CursorInv ==
  ASSUME IInv, UNCHANGED <<pNext, tail, used, thread>>, CursorOK',
         destroy' \subseteq Nodes, Poll \notin destroy',
         phase' \in {"sleep", "run", "call", "return", "sort"}, cursor' \in Links
  PROVE  IInv'
  <1>1. /\ UNCHANGED <<pNext, tail, used, pc, object, last>> /\ Met' = Met
    BY DEF thread, Met
  <1>2. TypeOK'
    BY <1>1 DEF IInv, TypeOK
  <1>3. OnItsWay'
    BY <1>1 DEF IInv, OnItsWay
  <1> QED BY <1>1, <1>2, <1>3 DEF IInv

(* Where a loop comes to from a node. *)
LEMMA NextCursor ==
  ASSUME IInv, cursor # NULL
  PROVE  /\ pNext[cursor] \in Links
         /\ pNext[cursor] # NULL => Reach(pNext, pNext[cursor]) \subseteq used
         /\ cursor \in Met => pNext[cursor] \in Met \cup {NULL}
  <1>1. pNext \in Linking /\ cursor \in Nodes /\ ClosedUnder(pNext, Met)
    BY Known DEF Links
  <1>2. Reach(pNext, cursor) \subseteq used
    BY DEF IInv, CursorOK
  <1>3. cursor \in Reach(pNext, cursor) /\ ClosedUnder(pNext, Reach(pNext, cursor))
        /\ \A m \in Reach(pNext, cursor) : Reach(pNext, m) \subseteq Reach(pNext, cursor)
    BY <1>1, Reaches
  <1> QED BY <1>1, <1>2, <1>3 DEF ClosedUnder, Linking

(* The callback appends, to a tail that may be any node. *)
LEMMA FireAppendInv ==
  ASSUME IInv, FireAppend
  PROVE  IInv'
  <1>1. /\ pNext \in Linking /\ used \in SUBSET Nodes /\ Poll \in Nodes /\ NULL \notin Nodes
        /\ Lined(pNext, used, Poll) /\ tail \in Nodes /\ cursor \in Links
    BY Known
  <1>2. /\ Met = Reach(pNext, Poll) /\ Met' = Reach(pNext', Poll)
    BY WalkIsReach
  <1>3. PICK n \in Nodes \ used : /\ used' = used \cup {n} /\ tail' = n
                                  /\ pNext' = Appended(pNext, n, tail)
    BY DEF FireAppend, Appended
  <1>4. /\ UNCHANGED <<destroy, pc, object, last, cursor>> /\ phase = "call" /\ phase' = "return"
    BY DEF FireAppend, thread
  <1>5. /\ pNext' \in Linking /\ LinesGrow(pNext, used, pNext', used', tail, n)
        /\ StaysInUse(pNext, used, pNext', used')
    <2>1. PICK q : q = pNext'
      OBVIOUS
    <2>2. q = Appended(pNext, n, tail) /\ n \in Nodes /\ n \notin used
      BY <1>3, <2>1
    <2>3. /\ q \in Linking
          /\ LinesGrow(pNext, used, q, used \cup {n}, tail, n)
          /\ StaysInUse(pNext, used, q, used \cup {n})
      BY <1>1, <2>2, AppendedFacts
    <2> QED BY <1>3, <2>1, <2>3
  <1>6. TypeOK'
    BY <1>1, <1>3, <1>4, <1>5 DEF IInv, TypeOK, Linking
  <1>7. Lined(pNext', used', Poll)
    BY <1>1, <1>5 DEF LinesGrow
  <1>8. OnItsWay'
    <2> SUFFICES ASSUME pc \in {"load", "link"}
                 PROVE  Lined(pNext', used', object) /\ Reach(pNext', object) \cap Met' = {}
      BY <1>4 DEF OnItsWay
    <2>1. Lined(pNext, used, object) /\ Reach(pNext, object) \cap Met = {} /\ object \in Nodes
      BY DEF IInv, OnItsWay
    <2>2. n \notin Reach(pNext, object) /\ n \notin Met
      BY <1>2, <1>3, <1>1, <2>1 DEF Lined, Line
    <2> QED BY <1>1, <1>2, <1>5, <2>1, <2>2 DEF LinesGrow
  <1>9. CursorOK'
    BY <1>1, <1>4, <1>5 DEF StaysInUse, IInv, CursorOK, Links
  <1> QED BY <1>4, <1>6, <1>7, <1>8, <1>9 DEF IInv

(* The sort takes a node out. *)
LEMMA SortRemoveInv ==
  ASSUME IInv, SortRemove
  PROVE  IInv'
  <1>1. /\ pNext \in Linking /\ used \in SUBSET Nodes /\ Poll \in Nodes /\ NULL \notin Nodes
        /\ Lined(pNext, used, Poll) /\ tail \in Nodes /\ destroy \subseteq Nodes /\ Poll \notin destroy
        /\ Met \in SUBSET Nodes
    BY Known DEF IInv
  <1>2. /\ Met = Reach(pNext, Poll) /\ Met' = Reach(pNext', Poll) /\ List = Met
    BY WalkIsReach
  <1>3. /\ phase = "sort" /\ phase' = "sort" /\ cursor \in destroy
        /\ UNCHANGED <<pc, object, last>> /\ cursor' = pNext[cursor]
        /\ used' = used \ {cursor} /\ destroy' = destroy \ {cursor}
    BY DEF SortRemove, thread
  <1>4. cursor \in Met /\ cursor # Poll /\ cursor \in Nodes
    BY <1>1, <1>3 DEF IInv, CursorOK
  <1>5. PICK before \in Met : /\ pNext[before] = cursor
                              /\ pNext' = TakenOut(pNext, before, cursor)
                              /\ tail' \in {before, tail}
    BY <1>2 DEF SortRemove, TakenOut
  <1>6. /\ pNext' \in Linking /\ Lined(pNext', used', Poll) /\ Met' \subseteq Met \ {cursor}
        /\ cursor' \in Met' \cup {NULL}
    <2>1. PICK q : q = pNext'
      OBVIOUS
    <2>2. /\ q = TakenOut(pNext, before, cursor) /\ pNext[before] = cursor
          /\ cursor \in Reach(pNext, Poll) /\ before \in Reach(pNext, Poll)
      BY <1>2, <1>4, <1>5, <2>1
    <2>3. /\ q \in Linking /\ Lined(q, used \ {cursor}, Poll)
          /\ Reach(q, Poll) \subseteq Reach(pNext, Poll) \ {cursor}
          /\ pNext[cursor] \in Reach(q, Poll) \cup {NULL}
      BY <1>1, <1>4, <2>2, TakenOutFacts
    <2> QED BY <1>2, <1>3, <2>1, <2>3
  <1>7. TypeOK'
    <2>1. tail' \in Nodes /\ cursor' \in Links
      BY <1>1, <1>5, <1>6 DEF Links
    <2> QED BY <1>1, <1>3, <1>6, <2>1 DEF IInv, TypeOK, Linking
  <1>8. OnItsWay'
    <2> SUFFICES ASSUME pc \in {"load", "link"}
                 PROVE  Lined(pNext', used', object) /\ Reach(pNext', object) \cap Met' = {}
      BY <1>3 DEF OnItsWay
    <2>1. PICK S : S = Reach(pNext, object)
      OBVIOUS
    <2>2. Line(pNext, used, object, S) /\ S \cap Met = {} /\ object \in Nodes
      BY <2>1 DEF IInv, OnItsWay, Lined
    <2>3. cursor \notin S /\ \A a \in S : pNext'[a] = pNext[a]
      BY <1>1, <1>4, <1>5, <2>2 DEF TakenOut, Linking, Line
    <2>4. Line(pNext', used', object, S)
      BY <1>3, <2>2, <2>3 DEF Line, ClosedUnder
    <2>5. Lined(pNext', used', object) /\ Reach(pNext', object) \subseteq S
      BY <1>6, <2>2, <2>4, Covered
    <2> QED BY <1>6, <2>2, <2>5
  <1>9. CursorOK'
    <2>1. \A m \in Met' : Reach(pNext', m) \subseteq Met'
      BY <1>1, <1>2, <1>6, Reaches
    <2>2. Met' \subseteq used'
      BY <1>2, <1>6 DEF Lined, Line
    <2> QED BY <1>3, <1>6, <2>1, <2>2 DEF CursorOK
  <1> QED BY <1>1, <1>3, <1>6, <1>7, <1>8, <1>9 DEF IInv

LEMMA ServerInv ==
  ASSUME IInv, Server
  PROVE  IInv'
  <1>1. /\ Poll \in Nodes /\ NULL \notin Nodes /\ Poll \in Met /\ Met \subseteq used
        /\ pNext \in Linking /\ destroy \subseteq Nodes /\ Poll \notin destroy
        /\ Met = Reach(pNext, Poll) /\ cursor \in Links
    BY Known, WalkIsReach DEF IInv
  <1>2. \A m \in Met : Reach(pNext, m) \subseteq used
    BY <1>1, Reaches
  <1>3. CASE WakeUp \/ EndRun
    <2>1. /\ UNCHANGED <<pNext, tail, used, destroy, thread>> /\ phase' \in {"run", "sort"} /\ cursor' = Poll
      BY <1>3 DEF WakeUp, EndRun, list, head
    <2>2. CursorOK'
      BY <1>1, <1>2, <2>1 DEF CursorOK, Met
    <2> QED BY <1>1, <2>1, <2>2, CursorInv DEF Links
  <1>4. CASE Pass \/ Return \/ SortKeep
    <2>1. /\ UNCHANGED <<pNext, tail, used, destroy, thread>> /\ cursor' = pNext[cursor] /\ cursor # NULL
          /\ \/ phase' = "run"
             \/ phase' = "sort" /\ phase = "sort"
      BY <1>4 DEF Pass, Return, SortKeep, list, IInv, CursorOK
    <2>2. /\ cursor' \in Links
          /\ cursor' # NULL => Reach(pNext, cursor') \subseteq used
          /\ cursor \in Met => cursor' \in Met \cup {NULL}
      BY <2>1, NextCursor
    <2>3. CursorOK'
      BY <2>1, <2>2 DEF IInv, CursorOK, Met
    <2> QED BY <1>1, <2>1, <2>2, <2>3, CursorInv
  <1>5. CASE Fire
    <2>1. /\ UNCHANGED <<pNext, tail, used, thread, cursor>> /\ destroy' = destroy \cup {cursor}
          /\ phase' = "call" /\ cursor # NULL /\ cursor # Poll
      BY <1>5 DEF Fire
    <2>2. CursorOK'
      BY <2>1 DEF IInv, CursorOK, Met
    <2> QED BY <1>1, <2>1, <2>2, CursorInv DEF Links
  <1>6. CASE FireAppend
    BY <1>6, FireAppendInv
  <1>7. CASE FireNothing
    <2>1. /\ UNCHANGED <<pNext, tail, used, destroy, thread, cursor>> /\ phase = "call" /\ phase' = "return"
      BY <1>7 DEF FireNothing, list
    <2>2. CursorOK'
      BY <2>1 DEF IInv, CursorOK, Met
    <2> QED BY <1>1, <2>1, <2>2, CursorInv
  <1>8. CASE SortRemove
    BY <1>8, SortRemoveInv
  <1>9. CASE EndSort
    <2>1. /\ UNCHANGED <<pNext, tail, used, destroy, thread, cursor>> /\ cursor = NULL /\ phase' = "sleep"
      BY <1>9 DEF EndSort, list
    <2>2. CursorOK'
      BY <2>1 DEF CursorOK
    <2> QED BY <1>1, <2>1, <2>2, CursorInv
  <1> QED BY <1>3, <1>4, <1>5, <1>6, <1>7, <1>8, <1>9 DEF Server

LEMMA NextInv ==
  ASSUME IInv, [Next]_vars
  PROVE  IInv'
  <1>1. CASE UNCHANGED vars
    <2>1. UNCHANGED <<pNext, tail, used, destroy, pc, object, last, phase, cursor>>
      BY <1>1 DEF vars, list, thread, server
    <2> QED BY <2>1 DEF IInv, TypeOK, OnItsWay, CursorOK, Met
  <1> QED BY <1>1, TcpipInv, ServerInv DEF Next

----------------------------------------------------------------------------
(* The theorems.                                                            *)

THEOREM InductiveInvariant == Spec => []IInv
  BY InitInv, NextInv, PTL DEF Spec

(* Every variable of the race has its type: the tail is never lost, though   *)
(* it may be a node that is not in the list.                                 *)
THEOREM TypeCorrect == Spec => []TypeOK
  <1>1. IInv => TypeOK
    BY DEF IInv
  <1> QED BY <1>1, InductiveInvariant, PTL

(* appendObject may be cut into by runTimerServer and sortTimerServer between *)
(* any two of its statements, and lose nodes by it, but every link that       *)
(* runTimerServer and deleteObject follow leads to a node that is in use.     *)
THEOREM AlwaysInUse == Spec => []WalksInUse
  <1>1. ASSUME IInv PROVE WalksInUse
    <2>1. List \subseteq used
      BY <1>1, Known, WalkIsReach
    <2>2. cursor # NULL => cursor \in used
      <3>1. cursor # NULL => cursor \in Reach(pNext, cursor)
        BY <1>1, Known, Reaches DEF Links
      <3> QED BY <1>1, <3>1 DEF IInv, CursorOK
    <2> QED BY <2>1, <2>2 DEF WalksInUse
  <1> QED BY <1>1, InductiveInvariant, PTL

=============================================================================
