--------------------------- MODULE MCPromptMatch ---------------------------
(***************************************************************************)
(* PromptMatch for TLC: a scaled-down "assword:".                          *)
(***************************************************************************)
EXTENDS PromptMatch

Default == <<"a", "s", "s", "w">>
Letters == {"a", "s", "w", "x"}
=============================================================================
