---------------------------- MODULE MCEcuCommands -----------------------------
(* Pages of two bytes; contents that fit, that end a page and that do not. *)
EXTENDS EcuCommands

MCText == <<1, 1, 0>>
MCOutpc == {<<0, 1, 1>>}
MCContents == {<<0>>, <<1>>, <<1, 1>>, <<1, 0>>}
===============================================================================
