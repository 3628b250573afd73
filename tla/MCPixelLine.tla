---------------------------- MODULE MCPixelLine ----------------------------
EXTENDS PixelLine

(* Rows of one line and of three, lines of several rows, rows past the end. *)
MCWidths == {1, 2, 5}
MCLengths == {1, 2, 3, 7}
MCRows == 0 .. 4
=============================================================================
