------------------------------ MODULE MCLoading ------------------------------
(***************************************************************************)
(* An instance of Loading for TLC: a file, a directory with a file, a      *)
(* directory whose name matches and a link, in conf.d, and a directory     *)
(* elsewhere that conf.d may be a link to.                                 *)
(***************************************************************************)
EXTENDS Loading

InOrder ==
  <<"a.toml", "b", "c.toml", "conf.d", "confd.toml", "real", "x.toml">>
TomlNames == {"a.toml", "c.toml", "confd.toml", "x.toml"}

A == Append(Root, "a.toml")
B == Append(Root, "b")
BX == Append(B, "x.toml")
C == Append(Root, "c.toml")
CA == Append(C, "a.toml")
Real == <<"real">>
RealX == <<"real", "x.toml">>
SomePlaces == {<<>>, ConfigFile, Root, A, B, BX, C, CA, Real, RealX}

SomeFields ==
  <<[name |-> "Keys", type |-> "strings"], [name |-> "FileMode", type |-> "uint32"],
    [name |-> "Src", type |-> "string"], [name |-> "Uid", type |-> "int"]>>
SomeSettings ==
  <<[name |-> "Backend", type |-> "string"], [name |-> "nodes", type |-> "strings"],
    [name |-> "SecretKeyring", type |-> "string"], [name |-> "LogLevel", type |-> "string"]>>
Usual == <<"nacos", {"http://h:8848"}, "", "">>
SomeFlags ==
  {<<b, n, "", "">> : b \in {"etcd", "nacos"}, n \in {{}, {"http://h:8848"}}}
    \cup {<<"nacos", {"http://h:8848"}, "ring", "debug">>,
          <<"nacos", {"http://h:8848"}, "", "loud">>}

Folding ==
  [n \in {"Keys", "FileMode", "Src", "Uid", "src", "SRC", "uid", "keys",
          "filemode", "odd", "Backend", "backend", "nodes", "SecretKeyring", "LogLevel"} |->
     CASE n \in {"Src", "SRC"} -> "src" [] n = "Uid" -> "uid"
       [] n = "Keys" -> "keys" [] n = "FileMode" -> "filemode"
       [] n = "Backend" -> "backend" [] OTHER -> n]

SomeUrls == {"http://h:8848"}
SomeLevels == {"debug"}

Str(v) == [kind |-> "string", value |-> v]
Num(v) == [kind |-> "integer", value |-> v]
Arr(of, v) == [kind |-> "array", of |-> of, value |-> v]

(* Contents: good ones, and one for each way to be refused or to be        *)
(* decoded in two ways.                                                    *)
Plain == ("src" :> Str("s")) @@ ("uid" :> Num(-1)) @@ ("keys" :> Arr("string", {"k"}))
Owned == ("Src" :> Str("t")) @@ ("uid" :> Num(5)) @@ ("odd" :> Num(1))
Twice == ("src" :> Str("s")) @@ ("SRC" :> Str("t"))
Either == ("src" :> Str("s")) @@ ("SRC" :> Str(""))
NoSrc == ("uid" :> Num(5))
Unfit == ("src" :> Str("s")) @@ ("keys" :> Arr("integer", {1}))
Negative == ("src" :> Str("s")) @@ ("filemode" :> Num(-1))
NoTable == [none |-> "not toml"]
Panics == [none |-> "parser panics"]

Dir == [kind |-> "dir"]
File(c) == [kind |-> "file", content |-> c]
Link(p) == [kind |-> "link", to |-> p]

(* What may be at a, in b, in c; or no confdir, or nothing in it, or a     *)
(* file or a link for conf.d; or a configuration file.                     *)
Bare == <<>> :> Dir
Full(a, x, c, ca) ==
  Bare @@ (Root :> Dir) @@ (A :> a) @@ (B :> Dir) @@ (BX :> x)
    @@ (C :> c) @@ (IF c = Dir THEN CA :> ca ELSE <<>>)
Configs ==
  {"backend" :> Str("nacos"), ("backend" :> Str("nacos")) @@ ("nodes" :> Arr("string", {"h:8848"})),
   "nodes" :> Arr("none", {}), "nodes" :> Str("http://h:8848"), NoTable, Panics}
FullTrees ==
  {Full(a, x, c, File(Plain)) :
      a \in {File(c) : c \in {Plain, Owned, Twice, Either, NoSrc, Unfit, Negative, NoTable, Panics}}
              \cup {Link(BX), Link(B), Link(CA)},
      x \in {File(Owned), File(NoTable)},
      c \in {Dir, File(Plain)}}
SmallTrees ==
  {<<>>, Bare, Bare @@ (Root :> File(Plain)),
          Bare @@ (Root :> Link(Real)) @@ (Real :> Dir) @@ (RealX :> File(Plain))}
    \cup {Bare @@ (ConfigFile :> File(c)) @@ (Root :> File(Plain)) : c \in Configs}
SomeStarts ==
  [tree : FullTrees, flags : {Usual}] \cup [tree : SmallTrees, flags : SomeFlags]

SomeNews == {File(Owned), File(NoTable), Dir, Link(BX)}
=============================================================================
