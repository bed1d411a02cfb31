----------------------------- MODULE MCExitSignals -----------------------------
EXTENDS ExitSignals

Reading(pnl, priced, gain, out, poor, far) ==
  [pnl |-> pnl, priced |-> priced, gain |-> gain, out |-> out, flag |-> out,
   poor |-> poor, far |-> far]

MCStopLoss == -1

(* The first position gains, by percent or in dollars too, shows a suspect  *)
(* gain and too little yield, or leaves its range with less; the second    *)
(* shows a loss, a suspect one, or nothing.                                *)
MCReadings ==
  <<{Reading(3, TRUE, gain, FALSE, FALSE, ~gain) : gain \in BOOLEAN}
      \cup {Reading(3, FALSE, TRUE, FALSE, TRUE, FALSE), Reading(1, TRUE, TRUE, TRUE, FALSE, FALSE)},
    {Reading(-2, priced, FALSE, FALSE, FALSE, FALSE) : priced \in BOOLEAN}
      \cup {Reading(NoPnl, FALSE, TRUE, FALSE, FALSE, FALSE)}>>
=============================================================================
