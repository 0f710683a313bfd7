--------------------------- MODULE MCAddressBook ---------------------------
(***************************************************************************)
(* AddressBook for TLC: people of one cell and of two.                     *)
(***************************************************************************)
EXTENDS AddressBook

Sizes == [x \in People |-> IF x \in {"a", "c"} THEN 2 ELSE 1]
=============================================================================
