------------------------------- MODULE MCLimits -------------------------------
(* Two transfers of one sender, either of which the limit of a day lets      *)
(* through, and both of which together are too much.                        *)
EXTENDS Limits, TLC

CONSTANTS r1, r2

TooMuch == r1 :> 2 @@ r2 :> 1
AllFaults == {{"outage", "command", "loss", "reply", "error", "crash", "midnight"}}
=============================================================================
