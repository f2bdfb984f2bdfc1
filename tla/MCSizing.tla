------------------------------- MODULE MCSizing -------------------------------
(***************************************************************************)
(* Sizing over words of 10 bits: every n of the API's signed range, and    *)
(* the bits per item of two error rates, about a half and a hundredth.     *)
(***************************************************************************)
EXTENDS Sizing

MCNs == 1 .. 2 ^ 9 - 1

MCPs == {"half", "hundredth"}

(* Tenths of a bit: 6.2 and 14.4 at stage 0, 0.2 more at each later one. *)
MCBitsNum(pp, i) == (IF pp = "half" THEN 62 ELSE 144) + 2 * i
=============================================================================
