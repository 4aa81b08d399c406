--------------------------- MODULE MCSwingStops ---------------------------
(* Bounds of the run of SwingStops: sessions with the gate on and off, an    *)
(* entry with and without an ATR, a name rotated out and without a bar.      *)
EXTENDS SwingStops
View(gate, rank, close, atr) == [gate |-> gate, rank |-> rank, close |-> close, atr |-> atr]
MCViews ==
    {View(TRUE, "entry", 2, 1), View(FALSE, "entry", 2, 0), View(TRUE, "out", 2, 2),
     View(FALSE, "gap", 1, 2)}
=============================================================================
