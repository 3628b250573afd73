-------------------------- MODULE PixelLine_proofs --------------------------
(***************************************************************************)
(* A row is exact for every width, every chain of lines and every row that *)
(* is asked for. The invariant ties the place in the present line (pStart, *)
(* count) to the numbers of the pixels in the chain (before) and to the    *)
(* rows that have been skipped (asked - left).                             *)
(***************************************************************************)
EXTENDS PixelLine, TLAPS

(* The head: before holds the sums of the lengths, heigh and dlt the rows   *)
(* they make.                                                               *)
HeadInv ==
  /\ width \in Nat \ {0} /\ heigh \in Nat /\ dlt \in 0 .. width - 1
  /\ lines \in Seq(Nat)
  /\ before \in Seq(Nat) /\ Len(before) = Len(lines) + 1
  /\ before[1] = 0
  /\ \A i \in 1 .. Len(lines) : before[i + 1] = before[i] + lines[i]
  /\ \A i \in 1 .. Len(before) : before[i] <= Pixels
  /\ Pixels = heigh * width + dlt

WalkTypes ==
  /\ place \in {"idle", "line", "rows", "copy", "done"}
  /\ asked \in Nat /\ flag \in BOOLEAN /\ left \in 0 .. asked
  /\ ptemp \in Nat \ {0} /\ count \in Nat /\ pStart \in Int /\ len \in Nat
  /\ row \in [0 .. width - 1 -> [line : Nat, at : Int]]

(* What the walk has skipped, in pixels. *)
Skipped == (asked - left) * width

AtLine ==
  place = "line" =>
    /\ ptemp \in 1 .. Len(lines) + 1
    /\ before[ptemp] = Skipped + count
    /\ count < width
    /\ left = 0 => count = 0
    /\ row = Empty

AtRows ==
  place = "rows" =>
    /\ ptemp \in 1 .. Len(lines)
    /\ before[ptemp + 1] = Skipped + count
    /\ pStart = lines[ptemp] - count
    /\ left = 0 => pStart >= 0
    /\ pStart > -width
    /\ row = Empty

(* Place i of row r has the pixel of the chain that it should have.         *)
Exact(r, i) ==
  /\ r[i].line \in 1 .. Len(lines)
  /\ r[i].at \in 0 .. lines[r[i].line] - 1
  /\ before[r[i].line] + r[i].at = Wanted(i)

AtCopy ==
  place = "copy" =>
    /\ ptemp \in 1 .. Len(lines)
    /\ len \in 0 .. width /\ count <= len
    /\ pStart >= 0 /\ pStart + count <= lines[ptemp]
    /\ count = len \/ pStart + count = lines[ptemp]
    /\ len > 0 => before[ptemp] + pStart = First + (width - len)
    /\ \A i \in 0 .. width - 1 :
         IF PlaceOf(i) < width - len THEN Exact(row, i) ELSE row[i] = Untouched

AtDone ==
  place = "done" =>
    \A i \in 0 .. width - 1 : IF Wanted(i) < Pixels THEN Exact(row, i) ELSE row[i] = Untouched

IInv == HeadInv /\ WalkTypes /\ AtLine /\ AtRows /\ AtCopy /\ AtDone
----------------------------------------------------------------------------
LEMMA NextRow ==
  ASSUME NEW a \in Int, NEW w \in Int
  PROVE  (a + 1) * w = a * w + w
  OBVIOUS

LEMMA InitInv == Init => IInv
  <1> SUFFICES ASSUME Init PROVE IInv
    OBVIOUS
  <1>1. width \in Nat \ {0} /\ heigh * width = 0
    BY PixelAssumption DEF Init
  <1>2. HeadInv
    BY <1>1 DEF Init, HeadInv, Pixels
  <1>3. row \in [0 .. width - 1 -> [line : Nat, at : Int]]
    BY DEF Init, Empty, Untouched
  <1>4. /\ place \in {"idle", "line", "rows", "copy", "done"}
        /\ asked \in Nat /\ left \in 0 .. asked
        /\ ptemp \in Nat \ {0} /\ count \in Nat /\ pStart \in Int /\ len \in Nat
    BY DEF Init
  <1>5. flag \in BOOLEAN
    BY DEF Init
  <1>6. WalkTypes
    BY <1>3, <1>4, <1>5 DEF WalkTypes
  <1> QED BY <1>2, <1>6 DEF Init, IInv, AtLine, AtRows, AtCopy, AtDone

(* A line more: the rows it makes are counted. *)
LEMMA AddInv ==
  ASSUME IInv, NEW n \in Lengths, AddPixelMember(n)
  PROVE  IInv'
  <1> USE DEF IInv
  <1>1. n \in Nat
    BY PixelAssumption
  <1>2. PICK c \in 0 .. n + dlt : /\ c * width <= n + dlt /\ n + dlt < (c + 1) * width
                                 /\ heigh' = heigh + c /\ dlt' = n + dlt - c * width
    BY DEF AddPixelMember
  <1>3. /\ lines' \in Seq(Nat) /\ Len(lines') = Len(lines) + 1
        /\ \A i \in 1 .. Len(lines) : lines'[i] = lines[i]
        /\ lines'[Len(lines) + 1] = n
    BY <1>1 DEF AddPixelMember, HeadInv
  <1>4. Pixels \in Nat
    BY DEF HeadInv, Pixels
  <1>5. /\ before' \in Seq(Nat) /\ Len(before') = Len(before) + 1
        /\ \A i \in 1 .. Len(before) : before'[i] = before[i]
        /\ before'[Len(before) + 1] = Pixels + n
    BY <1>1, <1>4 DEF AddPixelMember, HeadInv
  <1>6. Pixels' = Pixels + n
    BY <1>5 DEF Pixels
  <1>7. \A i \in 1 .. Len(lines') : before'[i + 1] = before'[i] + lines'[i]
    <2> SUFFICES ASSUME NEW i \in 1 .. Len(lines') PROVE before'[i + 1] = before'[i] + lines'[i]
      OBVIOUS
    <2>1. CASE i \in 1 .. Len(lines)
      <3>1. i \in 1 .. Len(before) /\ i + 1 \in 1 .. Len(before)
        BY <2>1 DEF HeadInv
      <3>2. before[i + 1] = before[i] + lines[i]
        BY <2>1 DEF HeadInv
      <3> QED BY <2>1, <3>1, <3>2, <1>3, <1>5
    <2>2. CASE i = Len(lines) + 1
      <3>1. Len(lines) \in Nat /\ Len(before) = Len(lines) + 1 /\ Len(before) \in 1 .. Len(before)
        BY DEF HeadInv
      <3>2. before'[i] = before[Len(before)] /\ before'[i + 1] = Pixels + n /\ lines'[i] = n
        BY <2>2, <3>1, <1>3, <1>5
      <3> QED BY <3>2 DEF Pixels
    <2> QED BY <2>1, <2>2, <1>3 DEF HeadInv
  <1>8. \A i \in 1 .. Len(before') : before'[i] <= Pixels'
    <2>1. \A i \in 1 .. Len(before) : before'[i] <= Pixels /\ before'[i] \in Nat
      BY <1>5 DEF HeadInv
    <2>2. \A i \in 1 .. Len(before') : i \in 1 .. Len(before) \/ i = Len(before) + 1
      BY <1>5 DEF HeadInv
    <2> QED BY <2>1, <2>2, <1>1, <1>4, <1>5, <1>6
  <1>9. Pixels' = heigh' * width + dlt'
    <2>1. Pixels = heigh * width + dlt /\ heigh \in Nat /\ width \in Nat
      BY DEF HeadInv
    <2>2. (heigh + c) * width = heigh * width + c * width
      BY <2>1
    <2>3. dlt \in Int /\ c * width \in Int /\ heigh * width \in Int
      BY <2>1 DEF HeadInv
    <2> QED BY <2>1, <2>2, <2>3, <1>1, <1>2, <1>6
  <1>10. heigh' \in Nat /\ dlt' \in 0 .. width - 1
    <2>1. c \in Nat /\ width \in Nat /\ dlt \in Nat
      BY <1>1 DEF HeadInv
    <2>2. (c + 1) * width = c * width + width /\ c * width \in Nat
      BY <2>1, NextRow
    <2> QED BY <2>1, <2>2, <1>1, <1>2 DEF HeadInv
  <1>11. width' \in Nat \ {0} /\ Len(before') = Len(lines') + 1 /\ before'[1] = 0
    BY <1>3, <1>5 DEF HeadInv, AddPixelMember
  <1>12. dlt' \in 0 .. width' - 1 /\ Pixels' = heigh' * width' + dlt'
    BY <1>9, <1>10 DEF AddPixelMember
  <1>13. HeadInv'
    BY <1>3, <1>5, <1>7, <1>8, <1>10, <1>11, <1>12 DEF HeadInv
  <1>14. WalkTypes' /\ place' = "idle"
    BY DEF WalkTypes, AddPixelMember, walk
  <1> QED BY <1>13, <1>14 DEF AtLine, AtRows, AtCopy, AtDone

LEMMA HeadKept ==
  ASSUME HeadInv, UNCHANGED head
  PROVE  HeadInv' /\ Pixels' = Pixels /\ Empty' = Empty
  BY DEF HeadInv, head, Pixels, Empty

LEMMA EmptyRow ==
  ASSUME HeadInv
  PROVE  Empty \in [0 .. width - 1 -> [line : Nat, at : Int]] /\ \A i \in 0 .. width - 1 : Empty[i] = Untouched
  BY DEF Empty, Untouched

LEMMA CallInv ==
  ASSUME IInv, NEW h \in Rows, Call(h)
  PROVE  IInv'
  <1>1. HeadInv' /\ Empty' = Empty
    BY HeadKept DEF Call, IInv
  <1>2. h \in Nat
    BY PixelAssumption
  <1>3. WalkTypes'
    BY <1>1, <1>2, EmptyRow DEF Call, IInv, WalkTypes, head
  <1>4. AtLine'
    <2>1. Skipped' = 0
      <3>1. asked' - left' = 0 /\ width' \in Int
        BY <1>1, <1>2 DEF Call, HeadInv
      <3> QED BY <3>1 DEF Skipped
    <2> QED BY <1>1, <2>1 DEF Call, AtLine, HeadInv
  <1> QED BY <1>1, <1>3, <1>4 DEF Call, IInv, AtRows, AtCopy, AtDone

(* What the steps of the walk need of the head. *)
LEMMA HeadFacts ==
  ASSUME HeadInv
  PROVE  /\ width \in Nat \ {0} /\ Len(lines) \in Nat /\ Pixels \in Nat
         /\ Pixels = before[Len(lines) + 1] /\ before[1] = 0
         /\ \A i \in 1 .. Len(lines) : lines[i] \in Nat /\ before[i + 1] = before[i] + lines[i]
         /\ \A i \in 1 .. Len(lines) + 1 : before[i] \in Nat /\ before[i] <= Pixels
  BY DEF HeadInv, Pixels

LEMMA NextLineInv ==
  ASSUME IInv, NextLine
  PROVE  IInv'
  <1>1. HeadInv' /\ Pixels' = Pixels /\ Empty' = Empty
    BY HeadKept DEF NextLine, IInv
  <1>2. UNCHANGED <<head, asked, flag, left, ptemp, len, row>> /\ place = "line"
    BY DEF NextLine
  <1>3. asked \in Nat /\ left \in 0 .. asked /\ count \in Nat /\ count < width /\ row = Empty
        /\ before[ptemp] = Skipped + count /\ (left = 0 => count = 0) /\ ptemp \in 1 .. Len(lines) + 1
    BY <1>2 DEF IInv, WalkTypes, AtLine
  <1>4. Skipped \in Nat /\ Skipped' = Skipped
    <2>1. asked - left \in Nat /\ width \in Nat
      BY <1>3, HeadFacts DEF IInv
    <2> QED BY <2>1, <1>2 DEF Skipped, head
  <1>5. CASE ptemp > Len(lines)
    <2>1. place' = "done" /\ UNCHANGED <<count, pStart>>
      BY <1>5 DEF NextLine
    <2>2. WalkTypes'
      BY <2>1, <1>2 DEF WalkTypes, IInv, head
    <2>3. Pixels = Skipped + count
      BY <1>3, <1>5, HeadFacts DEF IInv
    <2>4. Pixels <= First
      <3>1. CASE left = 0
        BY <3>1, <2>3, <1>3, HeadFacts DEF Skipped, First, IInv
      <3>2. CASE left > 0
        <4>1. First = Skipped + left * width
          BY <1>3, HeadFacts DEF Skipped, First, IInv
        <4>2. left * width >= width
          <5>1. left - 1 \in Nat /\ width \in Nat
            BY <3>2, <1>3, HeadFacts DEF IInv
          <5>2. ((left - 1) + 1) * width = (left - 1) * width + width /\ (left - 1) * width \in Nat
            BY <5>1, NextRow
          <5>3. (left - 1) + 1 = left
            BY <1>3
          <5> QED BY <5>1, <5>2, <5>3
        <4>3. left * width \in Nat /\ width \in Nat
          BY <1>3, HeadFacts DEF IInv
        <4> QED BY <4>1, <4>2, <4>3, <2>3, <1>3, <1>4
      <3> QED BY <3>1, <3>2, <1>3
    <2>5. \A i \in 0 .. width - 1 : ~(Wanted(i) < Pixels) /\ row[i] = Untouched
      <3> SUFFICES ASSUME NEW i \in 0 .. width - 1 PROVE ~(Wanted(i) < Pixels) /\ row[i] = Untouched
        OBVIOUS
      <3>1. PlaceOf(i) \in Nat
        BY HeadFacts DEF PlaceOf, IInv
      <3>2. First \in Nat
        BY <1>3, HeadFacts DEF First, IInv
      <3> QED BY <3>1, <3>2, <2>4, <1>3, HeadFacts, EmptyRow DEF Wanted, IInv
    <2>6. AtDone'
      BY <2>5, <1>1, <1>2 DEF AtDone, Wanted, First, PlaceOf, head
    <2> QED BY <2>1, <2>2, <2>6, <1>1 DEF IInv, AtLine, AtRows, AtCopy
  <1>6. CASE ~(ptemp > Len(lines))
    <2>1. place' = "rows" /\ pStart' = -count /\ count' = count + lines[ptemp]
      BY <1>6 DEF NextLine
    <2>2. ptemp \in 1 .. Len(lines) /\ lines[ptemp] \in Nat /\ before[ptemp + 1] = before[ptemp] + lines[ptemp]
      BY <1>3, <1>6, HeadFacts DEF IInv
    <2>3. WalkTypes'
      BY <2>1, <2>2, <1>2, <1>3 DEF WalkTypes, IInv, head
    <2>4. AtRows'
      BY <2>1, <2>2, <1>1, <1>2, <1>3, <1>4, HeadFacts DEF AtRows, IInv, head
    <2> QED BY <2>1, <2>3, <2>4, <1>1 DEF IInv, AtLine, AtCopy, AtDone
  <1> QED BY <1>5, <1>6

LEMMA SkipRowInv ==
  ASSUME IInv, SkipRow
  PROVE  IInv'
  <1>1. HeadInv' /\ Empty' = Empty
    BY HeadKept DEF SkipRow, IInv
  <1>2. /\ place = "rows" /\ count >= width /\ left > 0
        /\ left' = left - 1 /\ count' = count - width /\ pStart' = pStart + width
        /\ UNCHANGED <<head, place, asked, flag, ptemp, len, row>>
    BY DEF SkipRow
  <1>3. /\ asked \in Nat /\ left \in 0 .. asked /\ count \in Nat /\ pStart \in Int
        /\ ptemp \in 1 .. Len(lines) /\ before[ptemp + 1] = Skipped + count
        /\ pStart = lines[ptemp] - count /\ pStart > -width /\ row = Empty
    BY <1>2 DEF IInv, WalkTypes, AtRows
  <1>4. width \in Nat \ {0} /\ lines[ptemp] \in Nat
    BY <1>3, HeadFacts DEF IInv
  <1>5. Skipped' = Skipped + width /\ Skipped \in Nat
    <2>1. asked - left \in Nat /\ width \in Nat /\ asked' - left' = (asked - left) + 1 /\ width' = width
      BY <1>2, <1>3, <1>4 DEF head
    <2>2. ((asked - left) + 1) * width = (asked - left) * width + width /\ (asked - left) * width \in Nat
      BY <2>1, NextRow
    <2> QED BY <2>1, <2>2 DEF Skipped
  <1>6. WalkTypes'
    <2>1. left' \in 0 .. asked' /\ count' \in Nat /\ pStart' \in Int
      BY <1>2, <1>3, <1>4
    <2> QED BY <2>1, <1>2 DEF WalkTypes, IInv, head
  <1>7. AtRows'
    <2>1. before' = before /\ lines' = lines /\ width' = width
      BY <1>2 DEF head
    <2> QED BY <2>1, <1>1, <1>2, <1>3, <1>4, <1>5 DEF AtRows
  <1> QED BY <1>1, <1>2, <1>6, <1>7 DEF IInv, AtLine, AtCopy, AtDone

LEMMA Places ==
  ASSUME HeadInv, flag \in BOOLEAN, NEW i \in 0 .. width - 1
  PROVE  PlaceOf(i) \in 0 .. width - 1
  BY HeadFacts DEF PlaceOf

(* A pixel that is exact is one of the chain. *)
LEMMA ExactInChain ==
  ASSUME HeadInv, NEW r, NEW i, Exact(r, i)
  PROVE  Wanted(i) < Pixels /\ r[i] # Untouched
  <1> DEFINE l == r[i].line
  <1>1. l \in 1 .. Len(lines) /\ r[i].at \in 0 .. lines[l] - 1 /\ before[l] + r[i].at = Wanted(i)
    BY DEF Exact
  <1>2. r[i] # Untouched
    BY <1>1 DEF Untouched
  <1> HIDE DEF l
  <1>3. l \in 1 .. Len(lines) + 1 /\ l + 1 \in 1 .. Len(lines) + 1
    BY <1>1, HeadFacts
  <1>4. lines[l] \in Nat /\ before[l] \in Nat /\ before[l + 1] = before[l] + lines[l] /\ before[l + 1] <= Pixels /\ Pixels \in Nat
    BY <1>1, <1>3, HeadFacts
  <1> QED BY <1>1, <1>2, <1>3, <1>4

(* A copy makes n places of the row exact and leaves the others. *)
LEMMA CopyExact ==
  ASSUME HeadInv, WalkTypes, ptemp \in 1 .. Len(lines),
         NEW k \in 0 .. width, NEW n \in Nat, k + n <= width, Copy(k, n),
         pStart >= 0, pStart + n <= lines[ptemp],
         before[ptemp] + pStart = First + k,
         \A i \in 0 .. width - 1 : IF PlaceOf(i) < k THEN Exact(row, i) ELSE row[i] = Untouched
  PROVE  /\ row' \in [0 .. width - 1 -> [line : Nat, at : Int]]
         /\ \A i \in 0 .. width - 1 : IF PlaceOf(i) < k + n THEN Exact(row', i) ELSE row'[i] = Untouched
  <1>1. width \in Nat /\ lines[ptemp] \in Nat /\ before[ptemp] \in Nat /\ asked \in Nat /\ pStart \in Int
        /\ ptemp \in Nat /\ flag \in BOOLEAN /\ row \in [0 .. width - 1 -> [line : Nat, at : Int]]
    BY HeadFacts DEF WalkTypes
  <1>2. \A i \in 0 .. width - 1 : PlaceOf(i) \in 0 .. width - 1
    BY <1>1, Places
  <1>3. row' \in [0 .. width - 1 -> [line : Nat, at : Int]]
    <2>1. \A i \in 0 .. width - 1 :
            (IF PlaceOf(i) \in k .. k + n - 1 THEN [line |-> ptemp, at |-> pStart + PlaceOf(i) - k] ELSE row[i])
              \in [line : Nat, at : Int]
      BY <1>1, <1>2
    <2> QED BY <2>1 DEF Copy
  <1>4. ASSUME NEW i \in 0 .. width - 1
        PROVE  IF PlaceOf(i) < k + n THEN Exact(row', i) ELSE row'[i] = Untouched
    <2> DEFINE p == PlaceOf(i)
    <2>1. p \in Int /\ p >= 0 /\ p < width /\ k \in Int /\ k >= 0 /\ n \in Int /\ n >= 0 /\ width \in Int
      BY <1>1, <1>2
    <2>2. Wanted(i) = First + p /\ First \in Int
      BY <1>1 DEF Wanted, First
    <2>3. row'[i] = IF p \in k .. k + n - 1 THEN [line |-> ptemp, at |-> pStart + p - k] ELSE row[i]
      BY DEF Copy
    <2>4. IF p < k THEN Exact(row, i) ELSE row[i] = Untouched
      OBVIOUS
    <2> HIDE DEF p
    <2>5. CASE p \in k .. k + n - 1
      <3>1. row'[i].line = ptemp /\ row'[i].at = pStart + p - k
        BY <2>3, <2>5
      <3>2. before[ptemp] + (pStart + p - k) = Wanted(i)
        <4> DEFINE b == before[ptemp]
        <4>1. b \in Int /\ pStart \in Int /\ First \in Int /\ b + pStart = First + k /\ Wanted(i) = First + p
          BY <1>1, <2>2
        <4> HIDE DEF b
        <4>2. b + (pStart + p - k) = Wanted(i)
          BY <2>1, <4>1
        <4> QED BY <4>2 DEF b
      <3>3. pStart + p - k \in 0 .. lines[ptemp] - 1 /\ p < k + n
        BY <1>1, <2>1, <2>5
      <3> QED BY <3>1, <3>2, <3>3 DEF Exact, p
    <2>6. CASE ~(p \in k .. k + n - 1)
      <3>1. row'[i] = row[i]
        BY <2>3, <2>6
      <3>2. p < k + n <=> p < k
        BY <2>1, <2>6
      <3> QED BY <3>1, <3>2, <2>4 DEF Exact, p
    <2> QED BY <2>5, <2>6
  <1> QED BY <1>3, <1>4

LEMMA WholeRowInv ==
  ASSUME IInv, WholeRow
  PROVE  IInv'
  <1>1. HeadInv' /\ Pixels' = Pixels
    BY HeadKept DEF WholeRow, IInv
  <1>2. /\ place = "rows" /\ count >= width /\ left = 0 /\ Copy(0, width) /\ place' = "done"
        /\ UNCHANGED <<head, asked, flag, left, ptemp, count, pStart, len>>
    BY DEF WholeRow
  <1>3. /\ ptemp \in 1 .. Len(lines) /\ before[ptemp + 1] = Skipped + count
        /\ pStart = lines[ptemp] - count /\ pStart >= 0 /\ row = Empty
    BY <1>2 DEF IInv, AtRows
  <1>4. /\ width \in Nat \ {0} /\ lines[ptemp] \in Nat /\ before[ptemp] \in Nat
        /\ before[ptemp + 1] = before[ptemp] + lines[ptemp] /\ asked \in Nat /\ count \in Nat /\ flag \in BOOLEAN
    BY <1>3, HeadFacts DEF IInv, WalkTypes
  <1>5. Skipped = First /\ First \in Int
    <2>1. asked - left = asked
      BY <1>2, <1>4
    <2> QED BY <2>1, <1>4 DEF Skipped, First
  <1>6. before[ptemp] + pStart = First + 0 /\ pStart + width <= lines[ptemp]
    <2> DEFINE b == before[ptemp]
               c == before[ptemp + 1]
               l == lines[ptemp]
    <2>1. /\ b \in Int /\ l \in Int /\ count \in Int /\ width \in Int /\ First \in Int /\ c = First + count
          /\ c = b + l /\ pStart = l - count /\ count >= width
      BY <1>2, <1>3, <1>4, <1>5
    <2> HIDE DEF b, c, l
    <2>2. b + pStart = First + 0 /\ pStart + width <= l
      BY <2>1
    <2> QED BY <2>2 DEF b, l
  <1>7. \A i \in 0 .. width - 1 : PlaceOf(i) \in 0 .. width - 1
    BY <1>4, Places DEF IInv
  <1>8. \A i \in 0 .. width - 1 : IF PlaceOf(i) < 0 THEN Exact(row, i) ELSE row[i] = Untouched
    BY <1>3, <1>7, EmptyRow DEF IInv
  <1>9. /\ row' \in [0 .. width - 1 -> [line : Nat, at : Int]]
        /\ \A i \in 0 .. width - 1 : IF PlaceOf(i) < 0 + width THEN Exact(row', i) ELSE row'[i] = Untouched
    <2>1. 0 \in 0 .. width /\ 0 + width <= width /\ width \in Nat
      BY <1>4
    <2> QED BY <2>1, <1>2, <1>3, <1>6, <1>8, CopyExact DEF IInv
  <1>10. WalkTypes'
    BY <1>2, <1>9 DEF WalkTypes, IInv, head
  <1>11. \A i \in 0 .. width - 1 : Exact(row', i) /\ Wanted(i) < Pixels
    <2>1. \A i \in 0 .. width - 1 : PlaceOf(i) < 0 + width
      BY <1>4, <1>7
    <2>2. \A i \in 0 .. width - 1 : Exact(row', i)
      BY <2>1, <1>9
    <2> QED BY <2>2, ExactInChain DEF IInv
  <1>12. AtDone'
    BY <1>1, <1>2, <1>11 DEF AtDone, Exact, Wanted, First, PlaceOf, head
  <1> QED BY <1>1, <1>2, <1>10, <1>12 DEF IInv, AtLine, AtRows, AtCopy

LEMMA EndOfLineInv ==
  ASSUME IInv, EndOfLine
  PROVE  IInv'
  <1>1. HeadInv' /\ Empty' = Empty
    BY HeadKept DEF EndOfLine, IInv
  <1>2. place = "rows" /\ count < width /\ UNCHANGED <<head, asked, flag, left, count, pStart, row>>
    BY DEF EndOfLine
  <1>3. /\ ptemp \in 1 .. Len(lines) /\ before[ptemp + 1] = Skipped + count
        /\ pStart = lines[ptemp] - count /\ (left = 0 => pStart >= 0) /\ row = Empty
    BY <1>2 DEF IInv, AtRows
  <1>4. /\ width \in Nat \ {0} /\ lines[ptemp] \in Nat /\ before[ptemp] \in Nat
        /\ before[ptemp + 1] = before[ptemp] + lines[ptemp] /\ asked \in Nat /\ left \in 0 .. asked /\ count \in Nat
        /\ flag \in BOOLEAN /\ Len(lines) \in Nat
    BY <1>3, HeadFacts DEF IInv, WalkTypes
  <1>5. CASE left = 0
    <2>1. place' = "copy" /\ len' = width /\ ptemp' = ptemp
      BY <1>5 DEF EndOfLine
    <2>2. WalkTypes'
      BY <1>2, <1>4, <2>1 DEF WalkTypes, IInv, head
    <2>3. Skipped = First /\ First \in Int
      <3>1. asked - left = asked
        BY <1>5, <1>4
      <3> QED BY <3>1, <1>4 DEF Skipped, First
    <2>4. before[ptemp] + pStart = First + (width - width)
      <3> DEFINE b == before[ptemp]
                 c == before[ptemp + 1]
                 l == lines[ptemp]
      <3>1. /\ b \in Int /\ l \in Int /\ count \in Int /\ width \in Int /\ First \in Int /\ c = First + count
            /\ c = b + l /\ pStart = l - count
        BY <1>3, <1>4, <2>3
      <3> HIDE DEF b, c, l
      <3>2. b + pStart = First + (width - width)
        BY <3>1
      <3> QED BY <3>2 DEF b
    <2>5. \A i \in 0 .. width - 1 : ~(PlaceOf(i) < width - width) /\ row[i] = Untouched
      <3>1. \A i \in 0 .. width - 1 : PlaceOf(i) \in 0 .. width - 1
        BY <1>4, Places DEF IInv
      <3>2. \A i \in 0 .. width - 1 : row[i] = Untouched
        BY <1>3, EmptyRow DEF IInv
      <3> QED BY <3>1, <3>2, <1>4
    <2>6. \A i \in 0 .. width' - 1 : (IF PlaceOf(i) < width - len THEN Exact(row, i) ELSE row[i] = Untouched)'
      BY <2>5, <2>1, <1>2 DEF PlaceOf, head
    <2>7. len' > 0 => (before[ptemp] + pStart = First + (width - len))'
      BY <2>4, <2>1, <1>2 DEF First, head
    <2>8. AtCopy'
      <3>1. /\ len' \in 0 .. width' /\ count' <= len' /\ ptemp' \in 1 .. Len(lines')
            /\ pStart' >= 0 /\ pStart' + count' = lines'[ptemp']
        BY <1>2, <1>3, <1>4, <1>5, <2>1 DEF head
      <3>2. pStart' + count' <= lines'[ptemp']
        BY <3>1, <1>2, <1>4, <2>1 DEF head
      <3> QED BY <3>1, <3>2, <2>6, <2>7 DEF AtCopy
    <2> QED BY <2>1, <2>2, <2>8, <1>1 DEF IInv, AtLine, AtRows, AtDone
  <1>6. CASE ~(left = 0)
    <2>1. place' = "line" /\ ptemp' = ptemp + 1 /\ len' = len
      BY <1>6 DEF EndOfLine
    <2>2. WalkTypes'
      BY <1>2, <1>3, <1>4, <2>1 DEF WalkTypes, IInv, head
    <2>3. AtLine'
      BY <1>1, <1>2, <1>3, <1>4, <1>6, <2>1 DEF AtLine, Skipped, head
    <2> QED BY <2>1, <2>2, <2>3, <1>1 DEF IInv, AtRows, AtCopy, AtDone
  <1> QED BY <1>5, <1>6

LEMMA CopyEndsInv ==
  ASSUME IInv, CopyEnds
  PROVE  IInv'
  <1>1. HeadInv' /\ Pixels' = Pixels
    BY HeadKept DEF CopyEnds, IInv
  <1>2. place = "copy" /\ len = 0 /\ place' = "done" /\ UNCHANGED <<head, asked, flag, left, ptemp, count, pStart, len, row>>
    BY DEF CopyEnds
  <1>3. WalkTypes'
    BY <1>2 DEF WalkTypes, IInv, head
  <1>4. \A i \in 0 .. width - 1 : PlaceOf(i) < width - len
    BY <1>2, HeadFacts, Places DEF IInv, WalkTypes
  <1>5. \A i \in 0 .. width - 1 : Exact(row, i) /\ Wanted(i) < Pixels
    <2>1. \A i \in 0 .. width - 1 : Exact(row, i)
      BY <1>2, <1>4 DEF IInv, AtCopy
    <2> QED BY <2>1, ExactInChain DEF IInv
  <1>6. AtDone'
    BY <1>1, <1>2, <1>5 DEF AtDone, Exact, Wanted, First, PlaceOf, head
  <1> QED BY <1>1, <1>2, <1>3, <1>6 DEF IInv, AtLine, AtRows, AtCopy

LEMMA CopyPartInv ==
  ASSUME IInv, CopyPart
  PROVE  IInv'
  <1>1. HeadInv' /\ Pixels' = Pixels
    BY HeadKept DEF CopyPart, IInv
  <1>2. place = "copy" /\ len > 0 /\ Copy(width - len, count) /\ len' = len - count /\ UNCHANGED <<head, asked, flag, left>>
    BY DEF CopyPart
  <1>3. /\ ptemp \in 1 .. Len(lines) /\ len \in 0 .. width /\ count <= len
        /\ pStart >= 0 /\ pStart + count <= lines[ptemp] /\ (count = len \/ pStart + count = lines[ptemp])
        /\ before[ptemp] + pStart = First + (width - len)
        /\ \A i \in 0 .. width - 1 : IF PlaceOf(i) < width - len THEN Exact(row, i) ELSE row[i] = Untouched
    BY <1>2 DEF IInv, AtCopy
  <1>4. /\ width \in Nat \ {0} /\ lines[ptemp] \in Nat /\ before[ptemp] \in Nat
        /\ before[ptemp + 1] = before[ptemp] + lines[ptemp] /\ asked \in Nat /\ count \in Nat
        /\ flag \in BOOLEAN /\ Len(lines) \in Nat /\ len \in Nat /\ pStart \in Int
    BY <1>3, HeadFacts DEF IInv, WalkTypes
  <1>5. First \in Int
    BY <1>4 DEF First
  <1>6. /\ row' \in [0 .. width - 1 -> [line : Nat, at : Int]]
        /\ \A i \in 0 .. width - 1 : IF PlaceOf(i) < (width - len) + count THEN Exact(row', i) ELSE row'[i] = Untouched
    <2>1. width - len \in 0 .. width /\ (width - len) + count <= width
      BY <1>3, <1>4
    <2> QED BY <2>1, <1>2, <1>3, <1>4, CopyExact DEF IInv
  <1>7. (width - len) + count = width - len' /\ len' \in 0 .. width
    BY <1>2, <1>3, <1>4
  (* The line is at its end, unless the row is. *)
  <1>8. len' > 0 => before[ptemp + 1] = First + (width - len')
    <2> DEFINE b == before[ptemp]
               c == before[ptemp + 1]
               l == lines[ptemp]
    <2>1. /\ b \in Int /\ l \in Int /\ c = b + l /\ b + pStart = First + (width - len)
          /\ len' = len - count /\ (count = len \/ pStart + count = l)
      BY <1>2, <1>3, <1>4
    <2> HIDE DEF b, c, l
    <2>2. len' > 0 => c = First + (width - len')
      BY <2>1, <1>4, <1>5
    <2> QED BY <2>2 DEF c
  <1>9. CASE ptemp < Len(lines)
    <2>1. /\ ptemp' = ptemp + 1 /\ pStart' = 0 /\ place' = "copy"
          /\ count' = IF lines[ptemp + 1] > len' THEN len' ELSE lines[ptemp + 1]
      BY <1>2, <1>9 DEF CopyPart
    <2>2. ptemp + 1 \in 1 .. Len(lines) /\ lines[ptemp + 1] \in Nat /\ before[ptemp + 1] \in Nat
      BY <1>3, <1>4, <1>9, HeadFacts DEF IInv
    <2>3. count' \in Nat /\ count' <= len' /\ count' <= lines[ptemp + 1] /\ (count' = len' \/ count' = lines[ptemp + 1])
      BY <2>1, <2>2, <1>7
    <2>4. WalkTypes'
      <3>1. len' \in Nat /\ pStart' \in Int /\ ptemp' \in Nat \ {0}
        BY <1>7, <2>1, <2>2
      <3> QED BY <3>1, <1>2, <1>6, <2>1, <2>3 DEF WalkTypes, IInv, head
    <2>5. \A i \in 0 .. width' - 1 : (IF PlaceOf(i) < width - len THEN Exact(row, i) ELSE row[i] = Untouched)'
      BY <1>2, <1>6, <1>7 DEF Exact, Wanted, First, PlaceOf, head
    <2>6. len' > 0 => (before[ptemp] + pStart = First + (width - len))'
      BY <1>2, <1>8, <2>1, <2>2 DEF First, head
    <2>7. AtCopy'
      <3>1. ptemp' \in 1 .. Len(lines') /\ len' \in 0 .. width' /\ pStart' >= 0 /\ pStart' + count' <= lines'[ptemp']
            /\ (count' = len' \/ pStart' + count' = lines'[ptemp'])
        BY <1>2, <1>7, <2>1, <2>2, <2>3 DEF head
      <3> QED BY <3>1, <2>3, <2>5, <2>6 DEF AtCopy
    <2> QED BY <2>1, <2>4, <2>7, <1>1 DEF IInv, AtLine, AtRows, AtDone
  <1>10. CASE ~(ptemp < Len(lines))
    <2>1. place' = "done" /\ UNCHANGED <<ptemp, pStart, count>>
      BY <1>2, <1>10 DEF CopyPart
    <2>2. WalkTypes'
      <3>1. len' \in Nat
        BY <1>7
      <3> QED BY <3>1, <1>2, <1>6, <2>1 DEF WalkTypes, IInv, head
    <2>3. len' > 0 => Pixels = First + (width - len')
      BY <1>3, <1>4, <1>8, <1>10, HeadFacts DEF IInv
    <2>4. \A i \in 0 .. width - 1 : IF Wanted(i) < Pixels THEN Exact(row', i) ELSE row'[i] = Untouched
      <3> SUFFICES ASSUME NEW i \in 0 .. width - 1
                   PROVE  IF Wanted(i) < Pixels THEN Exact(row', i) ELSE row'[i] = Untouched
        OBVIOUS
      <3>1. PlaceOf(i) \in 0 .. width - 1
        BY <1>4, Places DEF IInv
      <3>2. CASE PlaceOf(i) < width - len'
        <4>1. Exact(row', i)
          BY <3>2, <1>6, <1>7
        <4> QED BY <4>1, ExactInChain DEF IInv
      <3>3. CASE ~(PlaceOf(i) < width - len')
        <4>1. row'[i] = Untouched
          BY <3>3, <1>6, <1>7
        <4>2. len' > 0
          BY <3>1, <3>3, <1>4, <1>7
        <4>3. ~(Wanted(i) < Pixels)
          BY <4>2, <2>3, <3>1, <3>3, <1>4, <1>5, <1>7 DEF Wanted
        <4> QED BY <4>1, <4>3
      <3> QED BY <3>2, <3>3
    <2>5. AtDone'
      BY <1>1, <1>2, <2>4 DEF AtDone, Exact, Wanted, First, PlaceOf, head
    <2> QED BY <2>1, <2>2, <2>5, <1>1 DEF IInv, AtLine, AtRows, AtCopy
  <1> QED BY <1>9, <1>10

----------------------------------------------------------------------------
(* Every state has its head and its walk as IInv says, for all widths,      *)
(* lengths, chains and rows.                                                *)
THEOREM InductiveInvariant == Spec => []IInv
  <1>1. Init => IInv
    BY InitInv
  <1>2. IInv /\ [Next]_vars => IInv'
    <2> SUFFICES ASSUME IInv, [Next]_vars PROVE IInv'
      OBVIOUS
    <2>1. ASSUME NEW n \in Lengths, AddPixelMember(n) PROVE IInv'
      BY <2>1, AddInv
    <2>2. ASSUME NEW h \in Rows, Call(h) PROVE IInv'
      BY <2>2, CallInv
    <2>3. CASE Walk
      BY <2>3, NextLineInv, SkipRowInv, WholeRowInv, EndOfLineInv, CopyPartInv, CopyEndsInv DEF Walk
    <2>4. CASE UNCHANGED vars
      BY <2>4 DEF vars, head, walk, IInv, HeadInv, Pixels, WalkTypes, AtLine, AtRows, AtCopy, AtDone, Skipped, Empty,
                  Exact, Wanted, First, PlaceOf
    <2> QED BY <2>1, <2>2, <2>3, <2>4 DEF Next
  <1> QED BY <1>1, <1>2, PTL DEF Spec

(* The rows that heigh counts lie in the chain. *)
LEMMA WholeRows ==
  ASSUME HeadInv, asked \in Nat, asked < heigh, flag \in BOOLEAN, NEW i \in 0 .. width - 1
  PROVE  Wanted(i) < Pixels
  <1>1. width \in Nat /\ heigh \in Nat /\ dlt \in Nat /\ Pixels = heigh * width + dlt
    BY DEF HeadInv
  <1>2. PICK d \in Nat : heigh = (asked + 1) + d
    <2>1. heigh - (asked + 1) \in Nat /\ heigh = (asked + 1) + (heigh - (asked + 1))
      BY <1>1
    <2> QED BY <2>1
  <1>3. heigh * width = (asked * width + width) + d * width
    <2>1. heigh * width = (asked + 1) * width + d * width
      BY <1>1, <1>2
    <2> QED BY <2>1, <1>1, NextRow
  <1>4. PlaceOf(i) \in 0 .. width - 1
    BY Places
  <1>5. asked * width \in Nat /\ d * width \in Nat
    BY <1>1
  <1> DEFINE f == asked * width
             g == d * width
  <1>6. Pixels = ((f + width) + g) + dlt /\ f \in Nat /\ g \in Nat /\ Wanted(i) = f + PlaceOf(i)
    BY <1>1, <1>3, <1>5 DEF Wanted, First
  <1> HIDE DEF f, g
  <1> QED BY <1>1, <1>4, <1>6

(* When getPixelLine or setPixelLine returns, each place of the row has met *)
(* the pixel of the chain that belongs there and no other, for every width, *)
(* every chain of lines and every row that is asked for.                    *)
THEOREM RowsAreExact == Spec => []RowExact
  <1>1. IInv => RowExact
    <2> SUFFICES ASSUME IInv, place = "done" PROVE RowExact
      BY DEF RowExact
    <2>1. \A i \in 0 .. width - 1 : IF Wanted(i) < Pixels THEN Exact(row, i) ELSE row[i] = Untouched
      BY DEF IInv, AtDone
    <2>2. ASSUME asked < heigh, NEW i \in 0 .. width - 1 PROVE row[i] # Untouched
      <3>1. Wanted(i) < Pixels
        BY <2>2, WholeRows DEF IInv, WalkTypes
      <3> QED BY <3>1, <2>1, ExactInChain DEF IInv
    <2> QED BY <2>1, <2>2 DEF RowExact, Exact
  <1> QED BY <1>1, InductiveInvariant, PTL
=============================================================================
