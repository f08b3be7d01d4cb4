---------------------------- MODULE MCLoggerTree ----------------------------
EXTENDS LoggerTree

(* The names of the example in the header. *)
MCRoot == <<"root">>
MCLowerOf == [p \in Part |-> p]
MCPlainName == {MCRoot, <<"a">>, <<"a", "b">>, <<"a", "b", "c">>}
=============================================================================
