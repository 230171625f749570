----------------------------- MODULE MCTomlTables -----------------------------
(***************************************************************************)
(* An instance of TomlTables for TLC: two bare names and the quoted name   *)
(* "a.b", whose string is that of a path.                                  *)
(***************************************************************************)
EXTENDS TomlTables

ThreeNames == {"a", "b", "a.b"}
TheirWords == [k \in ThreeNames |-> IF k = "a.b" THEN <<"a", "b">> ELSE <<k>>]

FewHeaders ==
  {<<"a">>, <<"b">>, <<"a", "b">>, <<"a", "b", "a">>, <<"a.b">>, <<"a.b", "a">>}

FewInlines == {<<"a", "a">>, <<"b">>}
=============================================================================
