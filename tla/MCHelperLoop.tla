---------------------------- MODULE MCHelperLoop ----------------------------
(* A small instance of HelperLoop: a record that is no command, two configurations, and a *)
(* record that is too long and ends like a configuration.                                 *)
EXTENDS HelperLoop

SomeRecords == {<<>>, <<2>>, <<4>>, <<4, 4, 2>>}

Halves == <<2, 4>>

=============================================================================
