----------------------------- MODULE MCSettings -----------------------------
(* Besides the menu: a key that is unknown or has a bad value among others, *)
(* and a call that is applied only up to its screening key.                 *)
EXTENDS Settings

MCCalls == {<<"interval", "unknown">>, <<"plain", "screening">>, <<"plain", "market">>, <<"plain", "bad">>,
            <<"poll">>}
=============================================================================
