------------------------------- MODULE MCDfu -------------------------------
(***************************************************************************)
(* An instance of Dfu for TLC: two pages of Flash below the boot loader,   *)
(* and blocks that are short, full (three bytes, so that they straddle     *)
(* words and pages), and too long.                                         *)
(***************************************************************************)
EXTENDS Dfu, TLC

\* Enough downloads to fill the application section, to be refused, and to end.
Bounds == ("dnload" :> 4) @@ ("other" :> 2)
=============================================================================
