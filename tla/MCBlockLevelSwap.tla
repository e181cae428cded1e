------------------------- MODULE MCBlockLevelSwap -------------------------
(* Constants of the model-checking runs of BlockLevelSwap. *)
EXTENDS BlockLevelSwap

MCPrompt  == <<1, 2, 1, 2>>
MCFullLen == <<4, 4, 4, 4>>
MCFirst   == {<<"vanilla", Absent>>, <<"v4", Absent>>}
MCUpgrade == {<<"v4", "vanilla">>}
=============================================================================
