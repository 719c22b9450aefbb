------------------------------ MODULE MCGuiTab ------------------------------
(* GuiTab for TLC: its constants are given in the configurations.          *)
EXTENDS GuiTab

=============================================================================
