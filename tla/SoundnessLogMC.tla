--------------------------- MODULE SoundnessLogMC ---------------------------
(* Model-checking instances of SoundnessLog: the two files of the board. *)
EXTENDS SoundnessLog

Board == <<"jupiter", "kamino">>
RedGreen == {"RED", "GREEN"}
AllFlags == {"RED", "GREEN", "broken"}
=============================================================================
