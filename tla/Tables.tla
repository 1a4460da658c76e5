------------------------------- MODULE Tables -------------------------------
(***************************************************************************)
(* What sccp.conf becomes in memory: the settings (Settings), the keys of  *)
(* a phone (Buttons) and its soft keys (SoftKeys); and what is kept with a *)
(* call: the codecs it may use (Codecs) and its parties (CallInfo).  They  *)
(* share no state; the one that is followed is chosen at the beginning.    *)
(***************************************************************************)
EXTENDS Settings, Buttons, SoftKeys, Codecs, CallInfo

VARIABLE part   \* what is followed

Init ==
  /\ part \in {"settings", "buttons", "soft keys", "codecs", "parties"}
  /\ IF part = "settings" THEN SettingsInit ELSE SettingsIdle
  /\ IF part = "buttons" THEN ButtonsInit ELSE ButtonsIdle
  /\ IF part = "soft keys" THEN KeysInit ELSE KeysIdle
  /\ IF part = "codecs" THEN CodecsInit ELSE CodecsIdle
  /\ IF part = "parties" THEN InfoInit ELSE InfoIdle

Next ==
  \/ /\ part = "settings" /\ SettingsNext
     /\ UNCHANGED <<part, buttonVars, keyVars, codecVars, infoVars>>
  \/ /\ part = "buttons" /\ ButtonsNext
     /\ UNCHANGED <<part, setVars, keyVars, codecVars, infoVars>>
  \/ /\ part = "soft keys" /\ KeysNext
     /\ UNCHANGED <<part, setVars, buttonVars, codecVars, infoVars>>
  \/ /\ part = "codecs" /\ CodecsNext
     /\ UNCHANGED <<part, setVars, buttonVars, keyVars, infoVars>>
  \/ /\ part = "parties" /\ InfoNext
     /\ UNCHANGED <<part, setVars, buttonVars, keyVars, codecVars>>

Spec == Init /\ [][Next]_<<part, setVars, buttonVars, keyVars, codecVars, infoVars>>
=============================================================================
