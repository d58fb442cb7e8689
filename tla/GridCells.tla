------------------------------ MODULE GridCells ------------------------------
(***************************************************************************)
(* The cells of a grid map, and the lines of cells that rm::nav draws.     *)
(***************************************************************************)
EXTENDS Integers, SequencesExt

CONSTANTS Width, Height

Cells == (0 .. Width - 1) \X (0 .. Height - 1)

AbsDiff(a, b) == IF a < b THEN b - a ELSE a - b
Toward(a, b) == IF a < b THEN 1 ELSE -1

(* The line from a to b, step by step; a tie takes it in both directions   *)
(* if it is inclusive, and it stays at b when it is there.                 *)
Steps(a, b, inclusive) ==
  LET dx == AbsDiff(b[1], a[1])
      dy == AbsDiff(b[2], a[2])
      Onward(line) ==
        LET c == Last(line.cells)
            right == 2 * line.error > -dy \/ (inclusive /\ 2 * line.error = -dy)
            up == 2 * line.error < dx \/ (inclusive /\ 2 * line.error = dx)
        IN  IF c = b THEN line
            ELSE [cells |-> Append(line.cells,
                              <<IF right THEN c[1] + Toward(a[1], b[1]) ELSE c[1],
                                IF up THEN c[2] + Toward(a[2], b[2]) ELSE c[2]>>),
                  error |-> line.error - (IF right THEN dy ELSE 0) + (IF up THEN dx ELSE 0)]
      steps[i \in 0 .. dx + dy] ==
        IF i = 0 THEN [cells |-> <<a>>, error |-> dx - dy] ELSE Onward(steps[i - 1])
  IN  steps

Line(a, b, inclusive) ==
  Steps(a, b, inclusive)[AbsDiff(b[1], a[1]) + AbsDiff(b[2], a[2])].cells

(* rasterLine, of a line that is clipped to the grid.                      *)
Raster(a, b) == Line(a, b, TRUE)

=============================================================================
