------------------------------- MODULE MCHud -------------------------------
(* Instances of Hud for TLC. *)
EXTENDS Hud, TLC

NoPanels  == {}
OnePanel  == {1}
NoFaults  == {}
BeginFails  == {"begin"}
UploadFails == {"upload"}
=============================================================================
