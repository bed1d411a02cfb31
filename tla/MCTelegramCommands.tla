------------------------ MODULE MCTelegramCommands ------------------------
(* Three messages.  A menu is answered at once and changes nothing, so it  *)
(* is worth sending only between two others; a view makes no agent busy,   *)
(* so it is worth sending only behind another message.                     *)
EXTENDS TelegramCommands

MCScripts == {k \in [Ids -> Kinds] : k[1] \notin {"menu", "view"} /\ k[3] # "menu"}
=============================================================================
