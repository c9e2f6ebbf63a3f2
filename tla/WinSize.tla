------------------------------ MODULE WinSize ------------------------------
(***************************************************************************)
(* clampWinsize of internal/server/session.go: the size of a terminal as a *)
(* client may ask for it, with sides of 32 bits, and as the kernel keeps   *)
(* it, with sides of 16 bits.                                              *)
(***************************************************************************)
EXTENDS Integers

Cells == 65536   \* the number of values of a 16-bit side
MaxSide == Cells - 1

Size(rows, cols) == [rows |-> rows, cols |-> cols]

\* The sizes that have 16-bit sides, and those a program can be shown in.
Representable(size) == size.rows \in 0..MaxSide /\ size.cols \in 0..MaxSide
Usable(size) == size.rows \in 1..MaxSide /\ size.cols \in 1..MaxSide

\* Mutant: a missing side is not replaced.
Clamp_Keeps(size) ==
    Size(IF size.rows > MaxSide THEN MaxSide ELSE size.rows,
         IF size.cols > MaxSide THEN MaxSide ELSE size.cols)

\* A side of 0 gets its default, and then the other one is converted and not
\* clamped: it loses its upper bits.
Clamp(size) ==
    IF size.rows = 0 \/ size.cols = 0
    THEN Size(IF size.rows = 0 THEN 24 ELSE size.rows % Cells,
              IF size.cols = 0 THEN 80 ELSE size.cols % Cells)
    ELSE Size(IF size.rows > MaxSide THEN MaxSide ELSE size.rows,
              IF size.cols > MaxSide THEN MaxSide ELSE size.cols)
=============================================================================
