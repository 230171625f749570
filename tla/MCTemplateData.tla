---------------------------- MODULE MCTemplateData ----------------------------
(***************************************************************************)
(* An instance of TemplateData for TLC: every resource with one or two of  *)
(* some keys under some prefixes, and one with a deeper store.  "n" stands *)
(* for naming.                                                             *)
(***************************************************************************)
EXTENDS TemplateData, FiniteSets

Characters ==
  [c \in {"*", ".", "/", "a", "b", "n"} |->
     CASE c = "*" -> 1 [] c = "." -> 2 [] c = "/" -> 3
       [] c = "a" -> 4 [] c = "b" -> 5 [] c = "n" -> 6]

FilePrefixes ==
  {<<>>, <<"/">>, <<"a">>, <<"/", "a">>, <<"/", "a", "/">>, <<"/", "a", "b">>,
   <<"/", "/", "a">>, <<"/", "a", "/", "b">>}
OverridingPrefixes == {<<>>, <<"/", "b">>}

Keys ==
  {<<>>, <<"/">>, <<"a">>, <<"/", "a">>, <<"/", "a", "b">>, <<"/", "a", "/", "b">>,
   <<"a", ".", "b">>, <<".", "/", "a">>, <<"/", "n", "/", "a">>,
   <<"/", ".", ".", "/", "a", "b">>}

DeepKeys ==
  <<<<"/", "a">>, <<"/", "a", "/", "b">>, <<"/", "a", "/", "b", "/", "a">>,
    <<"/", "a", "b", "/", "a">>, <<"/", "b", "/", "a", "/", "b">>>>

SomeResources ==
  [config : OverridingPrefixes, file : FilePrefixes,
   keys : {<<j, k>> : j, k \in Keys}]
    \cup [config : {<<>>}, file : FilePrefixes, keys : {DeepKeys}]

SomePaths ==
  {<<"/">>, <<"/", "a">>, <<"/", "a", "/">>, <<"/", "a", "/", "b">>,
   <<"/", "b">>, <<"/", "a", "b">>, <<"a">>}

SomePatterns ==
  {<<"/", "*">>, <<"/", "a", "/", "*">>, <<"/", "*", "/", "b">>, <<"/", "a">>}

Smallest == -2   \* an int of two bits
=============================================================================
