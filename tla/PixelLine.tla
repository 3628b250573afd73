----------------------------- MODULE PixelLine -----------------------------
(***************************************************************************)
(* The floor and the diamond wall (ArtNet/DmxOut.c): lamps on a chain of   *)
(* line nodes, each the data of one universe, laid out in rows of equal    *)
(* width that take no notice of where a line ends, every other row from    *)
(* right to left. getPixelLine copies a row out of the lines and           *)
(* setPixelLine copies one into them; both walk the chain in the same      *)
(* steps, one turn of a loop each, and row says which pixel of which line  *)
(* each place of the row is copied from, or to.                            *)
(***************************************************************************)
EXTENDS Integers, Sequences

CONSTANTS
  Widths,    (* the widths of the rows                                      *)
  Lengths,   (* the numbers of pixels of a line                             *)
  MaxLines,  (* bound: the lines of the chain                               *)
  Rows       (* the rows that are asked for                                 *)

ASSUME PixelAssumption ==
  Widths \subseteq Nat \ {0} /\ Lengths \subseteq Nat /\ MaxLines \in Nat /\ Rows \subseteq Nat

VARIABLES
  width, heigh, dlt,   (* the PixelHead: heigh rows and dlt pixels more     *)
  lines,               (* the lines of its chain, each by its length        *)
  before,              (* history: the pixels of the chain before each line *)
                       (* and, last, all of them                            *)
  place,               (* where the call is                                 *)
  asked, flag,         (* the row it is for, and whether that is odd        *)
  left,                (* the rows before it, counted down                  *)
  ptemp, count, pStart, len,
  row

head == <<width, heigh, dlt, lines, before>>
walk == <<place, asked, flag, left, ptemp, count, pStart, len, row>>
vars == <<head, walk>>

Untouched == [line |-> 0, at |-> 0]
Empty == [i \in 0 .. width - 1 |-> Untouched]

(* createPixelHead *)
Init ==
  /\ width \in Widths /\ heigh = 0 /\ dlt = 0 /\ lines = <<>> /\ before = <<0>>
  /\ place = "idle" /\ asked = 0 /\ flag = FALSE /\ left = 0
  /\ ptemp = 1 /\ count = 0 /\ pStart = 0 /\ len = 0
  /\ row = Empty

Pixels == before[Len(before)]

(* A line whose record finds no room in the pool is not in the chain. *)
AddPixelMember(n) ==
  /\ place = "idle" /\ Len(lines) < MaxLines
  /\ lines' = Append(lines, n)
  /\ before' = Append(before, Pixels + n)
  /\ \E c \in 0 .. n + dlt :
       /\ c * width <= n + dlt /\ n + dlt < (c + 1) * width
       /\ heigh' = heigh + c
       /\ dlt' = n + dlt - c * width
  /\ UNCHANGED <<width, walk>>

Call(h) ==
  /\ place \in {"idle", "done"}
  /\ asked' = h /\ flag' = (h % 2 = 1) /\ left' = h
  /\ ptemp' = 1 /\ count' = 0 /\ pStart' = 0 /\ len' = 0
  /\ row' = Empty
  /\ place' = "line"
  /\ UNCHANGED head

----------------------------------------------------------------------------
(* The loops.                                                               *)

(* while (ptemp): count becomes the pixels that are left up to the end of   *)
(* this line, pStart the place in it where the present row begins, which is *)
(* before its first pixel when the row began in a line before it.           *)
NextLine ==
  /\ place = "line"
  /\ IF ptemp > Len(lines)
     THEN place' = "done" /\ UNCHANGED <<count, pStart>>
     ELSE place' = "rows" /\ pStart' = -count /\ count' = count + lines[ptemp]
  /\ UNCHANGED <<head, asked, flag, left, ptemp, len, row>>

(* while (count >= width): a row that is not the one asked for. *)
SkipRow ==
  /\ place = "rows" /\ count >= width /\ left > 0
  /\ left' = left - 1
  /\ count' = count - width
  /\ pStart' = pStart + width
  /\ UNCHANGED <<head, place, asked, flag, ptemp, len, row>>

(* The k-th pixel of a row goes to this place of it. *)
PlaceOf(k) == IF flag THEN width - 1 - k ELSE k

(* A slip: every row is copied from left to right. *)
CopyForward(k, n) ==
  row' = [i \in 0 .. width - 1 |->
            IF i \in k .. k + n - 1 THEN [line |-> ptemp, at |-> pStart + i - k] ELSE row[i]]

(* n pixels from pStart on, the k-th of the row and those after it. *)
Copy(k, n) ==
  row' = [i \in 0 .. width - 1 |->
            IF PlaceOf(i) \in k .. k + n - 1 THEN [line |-> ptemp, at |-> pStart + PlaceOf(i) - k] ELSE row[i]]

(* The row lies in one line. The branch for one that does not is never      *)
(* taken here: it repeats the condition of the loop.                        *)
WholeRow ==
  /\ place = "rows" /\ count >= width /\ left = 0
  /\ Copy(0, width)
  /\ place' = "done"
  /\ UNCHANGED <<head, asked, flag, left, ptemp, count, pStart, len>>

(* The line ends: in the row asked for, or before it. *)
EndOfLine ==
  /\ place = "rows" /\ count < width
  /\ IF left = 0
     THEN place' = "copy" /\ len' = width /\ UNCHANGED ptemp
     ELSE place' = "line" /\ ptemp' = ptemp + 1 /\ UNCHANGED len
  /\ UNCHANGED <<head, asked, flag, left, count, pStart, row>>

(* A slip: the next line gives all its pixels. *)
CopyPartOver ==
  /\ place = "copy" /\ len > 0
  /\ Copy(width - len, count)
  /\ len' = len - count
  /\ IF ptemp < Len(lines)
     THEN /\ ptemp' = ptemp + 1 /\ pStart' = 0
          /\ count' = lines[ptemp + 1]
          /\ UNCHANGED place
     ELSE place' = "done" /\ UNCHANGED <<ptemp, pStart, count>>
  /\ UNCHANGED <<head, asked, flag, left>>

(* while (len): what the line has of the row, then the next line. *)
CopyPart ==
  /\ place = "copy" /\ len > 0
  /\ Copy(width - len, count)
  /\ len' = len - count
  /\ IF ptemp < Len(lines)
     THEN /\ ptemp' = ptemp + 1 /\ pStart' = 0
          /\ count' = IF lines[ptemp + 1] > len' THEN len' ELSE lines[ptemp + 1]
          /\ UNCHANGED place
     ELSE place' = "done" /\ UNCHANGED <<ptemp, pStart, count>>
  /\ UNCHANGED <<head, asked, flag, left>>

CopyEnds ==
  /\ place = "copy" /\ len = 0
  /\ place' = "done"
  /\ UNCHANGED <<head, asked, flag, left, ptemp, count, pStart, len, row>>

Walk == NextLine \/ SkipRow \/ WholeRow \/ EndOfLine \/ CopyPart \/ CopyEnds

Next == (\E n \in Lengths : AddPixelMember(n)) \/ (\E h \in Rows : Call(h)) \/ Walk

(* The loops are run by one task and wait for nobody. *)
Spec == Init /\ [][Next]_vars /\ WF_vars(Walk)

----------------------------------------------------------------------------
(* The properties.                                                          *)

(* The pixels of the chain are numbered through: First is the number of the *)
(* first one of the row asked for, Wanted that of the one at its place i.   *)
First == asked * width
Wanted(i) == First + PlaceOf(i)

(* When a call returns, each place of the row has been copied from, or to,  *)
(* the pixel of the chain that belongs there, inside the line that holds    *)
(* it, however the row lies across the lines; the places past the end of    *)
(* the chain are untouched, and the rows that heigh counts have none.       *)
RowExact ==
  place = "done" =>
    /\ \A i \in 0 .. width - 1 :
         IF Wanted(i) < Pixels
         THEN /\ row[i].line \in 1 .. Len(lines)
              /\ row[i].at \in 0 .. lines[row[i].line] - 1
              /\ before[row[i].line] + row[i].at = Wanted(i)
         ELSE row[i] = Untouched
    /\ asked < heigh => \A i \in 0 .. width - 1 : row[i] # Untouched

(* Every call returns, whatever the lengths: the counters are unsigned and  *)
(* the loops wait for them to be exactly zero.                              *)
Returns == place # "idle" ~> place = "done"
=============================================================================
