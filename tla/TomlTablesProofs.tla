--------------------------- MODULE TomlTablesProofs ---------------------------
(***************************************************************************)
(* Theorems about TomlTables: whatever lines a text has, the mapping hangs *)
(* together and no line takes anything away from it; and unless the text   *)
(* does one of the unusual things, the parser does not lose its context,   *)
(* refuses what TOML refuses and keeps the values of what it takes.  They  *)
(* hold for texts of any length, keys of any length and any names.         *)
(***************************************************************************)
EXTENDS TomlTables, SequenceTheorems, FiniteSetTheorems, WellFoundedInduction, TLAPS

Steps == Names \X Nat
Hashes == Seq(Steps)

(* Nodes that hang together, with arrays of at most m elements: above each *)
(* node there is a table, an array has all its elements and an element has *)
(* its array.                                                              *)
NodeFits(t, m, p) ==
  /\ t[p] \in [kind : {"table", "array", "value"}, n : 0 .. m]
  /\ t[p].kind = "table" => t[p].n = 0
  /\ Last(p)[2] = 0 \/ t[p].kind = "table"
  /\ Len(p) > 1 => Front(p) \in DOMAIN t /\ t[Front(p)].kind = "table"
  /\ Last(p)[2] > 0 =>
       /\ At(Front(p), Last(p)[1]) \in DOMAIN t
       /\ t[At(Front(p), Last(p)[1])].kind = "array"
       /\ Last(p)[2] <= t[At(Front(p), Last(p)[1])].n
  /\ t[p].kind = "array" =>
       /\ t[p].n > 0
       /\ \A i \in 1 .. t[p].n : Append(Front(p), <<Last(p)[1], i>>) \in DOMAIN t
Sound(t, m) ==
  /\ DOMAIN t \subseteq Hashes \ {<<>>}
  /\ \A p \in DOMAIN t : NodeFits(t, m, p)

(* Where names may be put: the root, or a table.                           *)
IsHash(t, h) == h = <<>> \/ (h \in DOMAIN t /\ t[h].kind = "table")

(* Nothing is taken away, and only arrays change: they get more elements.  *)
Grows(t, u) ==
  \A p \in DOMAIN t :
    /\ p \in DOMAIN u /\ u[p].kind = t[p].kind
    /\ u[p] = t[p] \/ (t[p].kind = "array" /\ t[p].n < u[p].n)
-----------------------------------------------------------------------------
(* Each set of naturals has a least element, and what holds of 0 and, if   *)
(* of a number, of the next holds of all numbers.                          *)
LEMMA Least ==
  ASSUME NEW T \in SUBSET Nat, T # {}
  PROVE  \E n \in T : \A m \in T : n <= m
<1> DEFINE R == {ss \in Nat \X Nat : ss[1] < ss[2]}
<1>1. OpToRel(<, Nat) = R
  BY DEF OpToRel
<1>2. IsWellFoundedOn(R, Nat)
  BY <1>1, NatLessThanWellFounded
<1>3. PICK n \in T : \A m \in T : <<m, n>> \notin R
  <2> HIDE DEF R
  <2> QED
    BY <1>2, WFMin
<1>4. ASSUME NEW m \in T
      PROVE  n <= m
  <2>1. m \in Nat /\ n \in Nat
    BY <1>3
  <2>2. ~(m < n)
    <3>1. <<m, n>> \in Nat \X Nat /\ <<m, n>> \notin R
      BY <1>3, <2>1
    <3> QED
      BY <3>1
  <2> QED
    BY <2>1, <2>2
<1> HIDE DEF R
<1> QED
  BY <1>3, <1>4

LEMMA Induction ==
  ASSUME NEW S, 0 \in S, \A n \in Nat : n \in S => n + 1 \in S
  PROVE  Nat \subseteq S
<1>1. SUFFICES ASSUME Nat \ S # {} PROVE FALSE
  OBVIOUS
<1>2. PICK n \in Nat \ S : \A m \in Nat \ S : n <= m
  BY <1>1, Least
<1>3. n # 0 /\ n - 1 \in Nat /\ n - 1 \in S
  BY <1>2
<1> QED
  BY <1>2, <1>3

-----------------------------------------------------------------------------
(* A sequence that is not empty has a front and a last element, and one to *)
(* which an element is appended has these.                                 *)
LEMMA FrontAndLast ==
  ASSUME NEW S, NEW s \in Seq(S), s # <<>>
  PROVE /\ Front(s) \in Seq(S) /\ Last(s) \in S /\ s = Append(Front(s), Last(s))
        /\ Len(Front(s)) = Len(s) - 1 /\ \A i \in 1 .. Len(s) - 1 : Front(s)[i] = s[i]
<1>1. Len(s) \in Nat \ {0}
  BY LenProperties, EmptySeq
<1>2. ASSUME NEW m \in 0 .. Len(s)
      PROVE /\ SubSeq(s, 1, m) \in Seq(S) /\ Len(SubSeq(s, 1, m)) = m
            /\ \A i \in 1 .. m : SubSeq(s, 1, m)[i] = s[i]
  BY <1>1
<1>3. /\ Front(s) \in Seq(S) /\ Len(Front(s)) = Len(s) - 1
      /\ \A i \in 1 .. Len(s) - 1 : Front(s)[i] = s[i]
  <2>1. Len(s) - 1 \in 0 .. Len(s)
    BY <1>1
  <2> QED
    BY <1>2, <2>1, Zenon DEF Front
<1>4. Last(s) = s[Len(s)] /\ Last(s) \in S
  BY <1>1, ElementOfSeq DEF Last
<1> DEFINE a == Append(Front(s), Last(s))
<1>5. /\ a \in Seq(S) /\ Len(a) = Len(s)
      /\ a[Len(s)] = Last(s) /\ \A i \in 1 .. Len(s) - 1 : a[i] = s[i]
  BY <1>1, <1>3, <1>4, AppendProperties
<1> HIDE DEF a
<1>6. \A i \in 1 .. Len(s) : i \in 1 .. Len(s) - 1 \/ i = Len(s)
  BY <1>1
<1>7. a = s
  BY <1>4, <1>5, <1>6, SeqEqual
<1> QED
  BY <1>3, <1>4, <1>7 DEF a

LEMMA AppendedIs ==
  ASSUME NEW S, NEW s \in Seq(S), NEW x \in S
  PROVE  /\ Append(s, x) \in Seq(S) /\ Append(s, x) # <<>> /\ Len(Append(s, x)) = Len(s) + 1
         /\ Front(Append(s, x)) = s /\ Last(Append(s, x)) = x
         /\ Append(s, x)[Len(s) + 1] = x /\ \A i \in 1 .. Len(s) : Append(s, x)[i] = s[i]
<1> DEFINE a == Append(s, x)
<1>1. Len(s) \in Nat /\ s \in [1 .. Len(s) -> S]
  BY LenProperties
<1>2. /\ a \in Seq(S) /\ Len(a) = Len(s) + 1
      /\ a[Len(s) + 1] = x /\ \A i \in 1 .. Len(s) : a[i] = s[i]
  BY AppendProperties
<1> HIDE DEF a
<1>3. a # <<>>
  BY <1>1, <1>2, EmptySeq
<1>4. Front(a) \in Seq(S) /\ Len(Front(a)) = Len(s) /\ \A i \in 1 .. Len(s) : Front(a)[i] = a[i]
  BY <1>1, <1>2, <1>3, FrontAndLast
<1>5. Front(a) = s
  BY <1>2, <1>4, SeqEqual
<1>6. Last(a) = x
  BY <1>2 DEF Last
<1> QED
  BY <1>2, <1>3, <1>5, <1>6 DEF a

LEMMA ElementIs ==
  ASSUME NEW h \in Hashes, NEW k \in Names, NEW i \in Nat
  PROVE  LET e == Append(h, <<k, i>>)
         IN /\ e \in Hashes /\ e # <<>> /\ Len(e) = Len(h) + 1 /\ Front(e) = h
            /\ Last(e) = <<k, i>> /\ Last(e)[1] = k /\ Last(e)[2] = i
<1> DEFINE x == <<k, i>>
<1>1. x \in Steps /\ x[1] = k /\ x[2] = i
  BY DEF Steps
<1> HIDE DEF x, Steps
<1>2. /\ Append(h, x) \in Hashes /\ Append(h, x) # <<>> /\ Len(Append(h, x)) = Len(h) + 1
      /\ Front(Append(h, x)) = h /\ Last(Append(h, x)) = x
  BY <1>1, AppendedIs DEF Hashes
<1> QED
  BY <1>1, <1>2 DEF x

LEMMA AtIs ==
  ASSUME NEW h \in Hashes, NEW k \in Names
  PROVE  /\ At(h, k) \in Hashes /\ At(h, k) # <<>> /\ Len(At(h, k)) = Len(h) + 1
         /\ Front(At(h, k)) = h /\ At(h, k) = Append(h, <<k, 0>>)
         /\ Last(At(h, k)) = <<k, 0>> /\ Last(At(h, k))[1] = k /\ Last(At(h, k))[2] = 0
BY ElementIs DEF At

(* Different steps lead to different places.                               *)
LEMMA ElementsDiffer ==
  ASSUME NEW g \in Hashes, NEW h \in Hashes, NEW j \in Names, NEW k \in Names,
         NEW i \in Nat, NEW n \in Nat, Append(g, <<j, i>>) = Append(h, <<k, n>>)
  PROVE  g = h /\ j = k /\ i = n
<1>1. /\ Front(Append(g, <<j, i>>)) = g /\ Last(Append(g, <<j, i>>))[1] = j
      /\ Last(Append(g, <<j, i>>))[2] = i
  BY ElementIs
<1>2. /\ Front(Append(h, <<k, n>>)) = h /\ Last(Append(h, <<k, n>>))[1] = k
      /\ Last(Append(h, <<k, n>>))[2] = n
  BY ElementIs
<1> QED
  BY <1>1, <1>2
-----------------------------------------------------------------------------
(* What is in a tree that hangs together, and the hash at one of its nodes.*)
LEMMA SoundNode ==
  ASSUME NEW t, NEW m \in Nat, Sound(t, m), NEW p \in DOMAIN t
  PROVE  /\ p \in Hashes /\ p # <<>> /\ NodeFits(t, m, p)
         /\ Front(p) \in Hashes /\ Last(p) \in Steps /\ p = Append(Front(p), Last(p))
         /\ Last(p)[1] \in Names /\ Last(p)[2] \in Nat
         /\ Len(p) \in Nat \ {0} /\ Len(Front(p)) = Len(p) - 1
         /\ t[p].kind \in {"table", "array", "value"} /\ t[p].n \in 0 .. m
<1>1. p \in Hashes /\ p # <<>> /\ NodeFits(t, m, p)
  BY DEF Sound
<1>2. /\ Front(p) \in Hashes /\ Last(p) \in Steps /\ p = Append(Front(p), Last(p))
      /\ Len(Front(p)) = Len(p) - 1
  BY <1>1, FrontAndLast DEF Hashes
<1>3. Last(p)[1] \in Names /\ Last(p)[2] \in Nat
  BY <1>2 DEF Steps
<1>4. Len(p) \in Nat /\ Len(Front(p)) \in Nat
  BY <1>1, <1>2, LenProperties DEF Hashes
<1>5. Len(p) # 0
  BY <1>2, <1>4
<1>6. t[p].kind \in {"table", "array", "value"} /\ t[p].n \in 0 .. m
  BY <1>1 DEF NodeFits
<1> QED
  BY <1>1, <1>2, <1>3, <1>4, <1>5, <1>6

LEMMA WithinIs ==
  ASSUME NEW t, NEW m \in Nat, Sound(t, m), NEW h \in Hashes, NEW k \in Names,
         At(h, k) \in DOMAIN t, t[At(h, k)].kind # "value"
  PROVE  /\ t[At(h, k)] # Array(0)
         /\ Within(t, At(h, k)) \in Hashes /\ IsHash(t, Within(t, At(h, k)))
         /\ \E i \in Nat : /\ Within(t, At(h, k)) = Append(h, <<k, i>>)
                           /\ i = IF t[At(h, k)].kind = "array" THEN t[At(h, k)].n ELSE 0
<1> DEFINE at == At(h, k)
<1>1. /\ at = Append(h, <<k, 0>>) /\ Front(at) = h /\ Last(at) = <<k, 0>>
      /\ Last(at)[1] = k
  BY AtIs
<1>2. /\ NodeFits(t, m, at) /\ t[at].n \in Nat /\ at \in Hashes
      /\ t[at].kind \in {"table", "array"}
  BY SoundNode
<1>3. CASE t[at].kind = "array"
  <2> DEFINE w == Append(h, <<k, t[at].n>>)
  <2>1. Within(t, at) = w
    BY <1>1, <1>3 DEF Within
  <2>2. w \in DOMAIN t /\ t[at].n > 0
    <3>1. t[at].n > 0 /\ \A i \in 1 .. t[at].n : Append(Front(at), <<Last(at)[1], i>>) \in DOMAIN t
      BY <1>2, <1>3 DEF NodeFits
    <3>2. t[at].n \in 1 .. t[at].n
      BY <1>2, <3>1
    <3>3. Append(Front(at), <<Last(at)[1], t[at].n>>) \in DOMAIN t
      BY <3>1, <3>2
    <3>4. Append(Front(at), <<Last(at)[1], t[at].n>>) = w
      BY <1>1
    <3> HIDE DEF w, at
    <3> QED
      BY <3>1, <3>3, <3>4
  <2>3. w \in Hashes /\ Last(w) = <<k, t[at].n>> /\ Last(w)[2] = t[at].n
    <3> DEFINE n == t[at].n
    <3>1. n \in Nat
      BY <1>2
    <3> HIDE DEF n
    <3>2. /\ Append(h, <<k, n>>) \in Hashes /\ Last(Append(h, <<k, n>>)) = <<k, n>>
          /\ Last(Append(h, <<k, n>>))[2] = n
      BY <3>1, ElementIs
    <3> QED
      BY <3>2 DEF n
  <2>4. t[w].kind = "table"
    BY <1>2, <2>2, <2>3, SoundNode DEF NodeFits
  <2>5. t[at] # Array(0)
    BY <2>2 DEF Array, Node
  <2> HIDE DEF w
  <2> QED
    BY <1>2, <1>3, <2>1, <2>2, <2>3, <2>4, <2>5 DEF IsHash, w
<1>4. CASE t[at].kind = "table"
  <2>1. Within(t, at) = at /\ t[at] # Array(0)
    BY <1>4 DEF Within, Array, Node
  <2> QED
    BY <1>1, <1>2, <1>4, <2>1 DEF IsHash
<1> HIDE DEF at
<1> QED
  BY <1>2, <1>3, <1>4 DEF at

(* Nodes are hung up below a table, where there are none: a table, a value *)
(* or a table of values.                                                   *)
IsNew(new, m) ==
  /\ <<>> \in DOMAIN new /\ DOMAIN new \subseteq {<<>>} \cup {At(<<>>, f) : f \in Names}
  /\ \A q \in DOMAIN new :
       /\ new[q] \in [kind : {"table", "value"}, n : 0 .. m]
       /\ new[q].kind = "table" => new[q].n = 0
       /\ q # <<>> => new[q].kind = "value" /\ new[<<>>].kind = "table"

LEMMA HangIs ==
  ASSUME NEW at \in Hashes, NEW new, NEW m \in Nat, IsNew(new, m)
  PROVE  /\ at \in DOMAIN Hang(at, new) /\ Hang(at, new)[at] = new[<<>>]
         /\ \A p \in DOMAIN Hang(at, new) :
              \/ p = at
              \/ \E f \in Names : /\ p = At(at, f) /\ At(<<>>, f) \in DOMAIN new
                                  /\ Hang(at, new)[p] = new[At(<<>>, f)]
         /\ \A f \in Names : At(<<>>, f) \in DOMAIN new => At(at, f) \in DOMAIN Hang(at, new)
<1>1. <<>> \in Hashes /\ Len(<<>>) = 0 /\ Len(at) \in Nat
  BY EmptySeq, LenProperties DEF Hashes
<1>2. at \o <<>> = at
  BY DEF Hashes
<1>3. SubSeq(at, Len(at) + 1, Len(at)) = <<>>
  BY <1>1 DEF Hashes
<1>4. ASSUME NEW f \in Names
      PROVE  /\ at \o At(<<>>, f) = At(at, f)
             /\ SubSeq(At(at, f), Len(at) + 1, Len(At(at, f))) = At(<<>>, f)
  <2> DEFINE x == <<f, 0>>
  <2>1. x \in Steps
    BY DEF Steps
  <2> HIDE DEF x, Steps
  <2>2. Append(<<>>, x) = <<x>>
    BY <2>1
  <2>3. at \o <<x>> = Append(at, x)
    BY <2>1 DEF Hashes
  <2>4. /\ Len(Append(at, x)) = Len(at) + 1 /\ Append(at, x) \in Seq(Steps)
        /\ Append(at, x)[Len(at) + 1] = x
    BY <2>1, AppendedIs DEF Hashes
  <2>5. SubSeq(Append(at, x), Len(at) + 1, Len(at) + 1) = <<x>>
    <3> DEFINE a == Append(at, x)
               n == Len(at) + 1
    <3>1. a \in Seq(Steps) /\ n \in 1 .. Len(a) /\ a[n] = x
      BY <1>1, <2>4
    <3> HIDE DEF a, n
    <3>2. SubSeq(a, n, n) \in Seq(Steps) /\ Len(SubSeq(a, n, n)) = 1 /\ SubSeq(a, n, n)[1] = a[n]
      BY <3>1
    <3>3. <<x>> \in Seq(Steps) /\ Len(<<x>>) = 1 /\ <<x>>[1] = x
      BY <2>1
    <3> HIDE DEF x
    <3> DEFINE b == SubSeq(a, n, n)
               c == <<x>>
    <3>4. b \in Seq(Steps) /\ c \in Seq(Steps) /\ Len(b) = Len(c)
          /\ \A i \in 1 .. Len(b) : b[i] = c[i]
      BY <3>1, <3>2, <3>3
    <3>5. b = c
      <4> HIDE DEF b, c
      <4> QED
        BY <3>4, SeqEqual
    <3> QED
      BY <3>5 DEF a, n
  <2> QED
    BY <2>2, <2>3, <2>4, <2>5 DEF At, x
<1>5. DOMAIN Hang(at, new) = {at \o q : q \in DOMAIN new}
  BY DEF Hang
<1>6. \A p \in DOMAIN Hang(at, new) :
        Hang(at, new)[p] = new[SubSeq(p, Len(at) + 1, Len(p))]
  BY DEF Hang
<1>7. \A q \in DOMAIN new : q = <<>> \/ \E f \in Names : q = At(<<>>, f)
  BY DEF IsNew
<1>8. at \in DOMAIN Hang(at, new) /\ Hang(at, new)[at] = new[<<>>]
  <2>1. <<>> \in DOMAIN new
    BY DEF IsNew
  <2> QED
    BY <1>2, <1>3, <1>5, <1>6, <2>1
<1>9. ASSUME NEW p \in DOMAIN Hang(at, new), p # at
      PROVE  \E f \in Names : /\ p = At(at, f) /\ At(<<>>, f) \in DOMAIN new
                              /\ Hang(at, new)[p] = new[At(<<>>, f)]
  <2>1. PICK q \in DOMAIN new : p = at \o q
    BY <1>5
  <2>2. PICK f \in Names : q = At(<<>>, f)
    BY <1>2, <1>7, <1>9, <2>1
  <2>3. p = At(at, f)
    BY <1>4, <2>1, <2>2
  <2>4. Hang(at, new)[p] = new[At(<<>>, f)]
    BY <1>4, <1>6, <2>3
  <2> QED
    BY <2>1, <2>2, <2>3, <2>4
<1>10. ASSUME NEW f \in Names, At(<<>>, f) \in DOMAIN new
       PROVE  At(at, f) \in DOMAIN Hang(at, new)
  BY <1>4, <1>5, <1>10
<1> QED
  BY <1>8, <1>9, <1>10

LEMMA OverIs ==
  ASSUME NEW f, NEW g
  PROVE  /\ DOMAIN Over(f, g) = DOMAIN f \cup DOMAIN g
         /\ \A p \in DOMAIN f : Over(f, g)[p] = f[p]
         /\ \A p \in DOMAIN g \ DOMAIN f : Over(f, g)[p] = g[p]
BY DEF Over

(* A node of a tree still fits when that has become larger but no array    *)
(* has, and has not the less if the bound of arrays has become larger.     *)
LEMMA StillFits ==
  ASSUME NEW t, NEW m \in Nat, Sound(t, m), NEW u, NEW l \in Nat, m <= l,
         \A p \in DOMAIN t : p \in DOMAIN u /\ u[p] = t[p],
         NEW p \in DOMAIN t
  PROVE  NodeFits(u, l, p)
<1>1. NodeFits(t, m, p) /\ u[p] = t[p] /\ p \in DOMAIN u
  BY SoundNode
<1>2. u[p] \in [kind : {"table", "array", "value"}, n : 0 .. l]
  BY <1>1 DEF NodeFits
<1>3. Len(p) > 1 => Front(p) \in DOMAIN u /\ u[Front(p)].kind = "table"
  BY <1>1 DEF NodeFits
<1>4. Last(p)[2] > 0 =>
        /\ At(Front(p), Last(p)[1]) \in DOMAIN u
        /\ u[At(Front(p), Last(p)[1])].kind = "array"
        /\ Last(p)[2] <= u[At(Front(p), Last(p)[1])].n
  BY <1>1 DEF NodeFits
<1>5. u[p].kind = "array" =>
        /\ u[p].n > 0
        /\ \A i \in 1 .. u[p].n : Append(Front(p), <<Last(p)[1], i>>) \in DOMAIN u
  BY <1>1 DEF NodeFits
<1>6. /\ Last(p)[2] = 0 \/ u[p].kind = "table"
      /\ u[p].kind = "table" => u[p].n = 0
  BY <1>1 DEF NodeFits
<1> QED
  BY <1>2, <1>3, <1>4, <1>5, <1>6 DEF NodeFits

LEMMA HangKeepsSound ==
  ASSUME NEW t, NEW m \in Nat, Sound(t, m), NEW h \in Hashes, IsHash(t, h),
         NEW k \in Names, At(h, k) \notin DOMAIN t,
         NEW l \in Nat, m <= l, NEW new, IsNew(new, l)
  PROVE  LET u == Over(t, Hang(At(h, k), new))
         IN /\ Sound(u, l) /\ Grows(t, u)
            /\ At(h, k) \in DOMAIN u /\ u[At(h, k)] = new[<<>>]
            /\ \A p \in DOMAIN t : p \in DOMAIN u /\ u[p] = t[p]
<1> DEFINE at == At(h, k)
           g == Hang(at, new)
           u == Over(t, g)
<1>1. at \in Hashes \ {<<>>} /\ Front(at) = h /\ Last(at) = <<k, 0>> /\ Len(at) = Len(h) + 1
      /\ Last(at)[2] = 0
  BY AtIs
<1>2. /\ at \in DOMAIN g /\ g[at] = new[<<>>]
      /\ \A p \in DOMAIN g :
           \/ p = at
           \/ \E f \in Names : /\ p = At(at, f) /\ At(<<>>, f) \in DOMAIN new
                               /\ g[p] = new[At(<<>>, f)]
  BY <1>1, HangIs
<1> HIDE DEF at, g
<1>3. /\ DOMAIN u = DOMAIN t \cup DOMAIN g /\ \A p \in DOMAIN t : u[p] = t[p]
      /\ \A p \in DOMAIN g \ DOMAIN t : u[p] = g[p]
  BY OverIs
<1> HIDE DEF u
<1>4. /\ at \in DOMAIN u /\ u[at] = new[<<>>]
      /\ new[<<>>] \in [kind : {"table", "value"}, n : 0 .. l]
      /\ new[<<>>].kind = "table" => new[<<>>].n = 0
  <2>1. at \notin DOMAIN t
    BY DEF at
  <2> QED
    BY <1>2, <1>3, <2>1 DEF IsNew
<1>5. NodeFits(u, l, at)
  <2>1. Len(at) > 1 => Front(at) \in DOMAIN u /\ u[Front(at)].kind = "table"
    <3>1. ASSUME Len(at) > 1
          PROVE  h # <<>>
      <4>1. Len(<<>>) = 0
        BY EmptySeq
      <4> QED
        BY <1>1, <3>1, <4>1
    <3> QED
      BY <1>1, <1>3, <3>1 DEF IsHash
  <2>2. Last(at)[2] = 0
    BY <1>1
  <2> QED
    BY <1>4, <2>1, <2>2 DEF NodeFits
<1>6. ASSUME NEW p \in DOMAIN g \ DOMAIN t, p # at
      PROVE  p \in Hashes \ {<<>>} /\ NodeFits(u, l, p)
  <2>1. PICK f \in Names : p = At(at, f) /\ At(<<>>, f) \in DOMAIN new /\ g[p] = new[At(<<>>, f)]
    BY <1>2, <1>6
  <2>2. p \in Hashes \ {<<>>} /\ Front(p) = at /\ Last(p)[2] = 0
    BY <1>1, <2>1, AtIs
  <2>3. At(<<>>, f) # <<>>
    BY AtIs, EmptySeq DEF Hashes
  <2>4. new[At(<<>>, f)] \in [kind : {"table", "value"}, n : 0 .. l]
        /\ new[At(<<>>, f)].kind = "value" /\ new[<<>>].kind = "table"
    BY <2>1, <2>3 DEF IsNew
  <2>5. u[p] = new[At(<<>>, f)]
    BY <1>3, <1>6, <2>1
  <2> QED
    BY <1>4, <2>2, <2>4, <2>5 DEF NodeFits
<1>7. ASSUME NEW p \in DOMAIN t
      PROVE  p \in Hashes \ {<<>>} /\ NodeFits(u, l, p)
  <2>1. \A q \in DOMAIN t : q \in DOMAIN u /\ u[q] = t[q]
    BY <1>3
  <2>2. NodeFits(u, l, p)
    BY <2>1, StillFits
  <2> QED
    BY <2>2, SoundNode
<1>8. Sound(u, l)
  BY <1>1, <1>3, <1>5, <1>6, <1>7 DEF Sound
<1>9. Grows(t, u)
  BY <1>3 DEF Grows
<1> QED
  BY <1>3, <1>4, <1>8, <1>9 DEF at, g, u

LEMMA OneIs ==
  ASSUME NEW p, NEW node
  PROVE  DOMAIN One(p, node) = {p} /\ One(p, node)[p] = node
BY DEF One

(* One more table for an array, or its first.                              *)
IsNext(t, at, n) ==
  /\ at \in DOMAIN t => t[at].kind = "array" /\ n = t[at].n + 1
  /\ at \notin DOMAIN t => n = 1

WithElement(t, h, k, n) ==
  Over(Over(One(At(h, k), Array(n)), One(Append(h, <<k, n>>), Table)), t)

HasElement(t, u, at, e, n) ==
  /\ DOMAIN u = DOMAIN t \cup {at, e} /\ e \notin DOMAIN t
  /\ u[at] = Array(n) /\ u[e] = Table
  /\ \A p \in DOMAIN t : p # at => u[p] = t[p]

LEMMA ElementKeepsSound ==
  ASSUME NEW t, NEW m \in Nat, Sound(t, m), NEW h \in Hashes, IsHash(t, h),
         NEW k \in Names, NEW n \in Nat, IsNext(t, At(h, k), n)
  PROVE  LET u == WithElement(t, h, k, n)
         IN /\ Sound(u, m + 1) /\ Grows(t, u)
            /\ HasElement(t, u, At(h, k), Append(h, <<k, n>>), n)
<1> DEFINE at == At(h, k)
           e == Append(h, <<k, n>>)
           g == Over(One(at, Array(n)), One(e, Table))
           u == Over(g, t)
<1>1. /\ at \in Hashes \ {<<>>} /\ Front(at) = h /\ Last(at) = <<k, 0>> /\ Len(at) = Len(h) + 1
      /\ Last(at)[1] = k /\ Last(at)[2] = 0 /\ at = Append(h, <<k, 0>>)
  BY AtIs
<1>2. /\ e \in Hashes \ {<<>>} /\ Front(e) = h /\ Last(e) = <<k, n>> /\ Len(e) = Len(h) + 1
      /\ Last(e)[1] = k /\ Last(e)[2] = n
  BY ElementIs
<1>3. at = At(h, k) /\ e = Append(h, <<k, n>>)
  OBVIOUS
<1> HIDE DEF at, e
<1>4. /\ at \in DOMAIN t => t[at].kind = "array" /\ n = t[at].n + 1 /\ t[at].n \in 0 .. m
      /\ at \notin DOMAIN t => n = 1
  BY <1>3, SoundNode DEF IsNext
<1>5. n > 0 /\ n \in 1 .. m + 1 /\ e # at
  <2>1. at \in DOMAIN t => n = t[at].n + 1 /\ t[at].n \in 0 .. m
    BY <1>4
  <2>2. at \notin DOMAIN t => n = 1
    BY <1>4
  <2>3. n > 0 /\ n \in 1 .. m + 1
    BY <2>1, <2>2
  <2>4. ASSUME e = at PROVE FALSE
    <3>1. Append(h, <<k, n>>) = Append(h, <<k, 0>>)
      BY <1>1, <1>3, <2>4
    <3>2. n = 0
      BY <3>1, ElementsDiffer
    <3> QED
      BY <2>3, <3>2
  <2> QED
    BY <2>3, <2>4
<1>6. e \notin DOMAIN t
  <2> SUFFICES ASSUME e \in DOMAIN t PROVE FALSE
    OBVIOUS
  <2>1. NodeFits(t, m, e)
    BY SoundNode
  <2>2. at \in DOMAIN t /\ n <= t[at].n
    BY <1>2, <1>3, <1>5, <2>1 DEF NodeFits
  <2> QED
    BY <1>4, <2>2
<1>7. DOMAIN g = {at, e} /\ g[at] = Array(n) /\ g[e] = Table
  <2> DEFINE f1 == One(at, Array(n))
             f2 == One(e, Table)
  <2>1. DOMAIN f1 = {at} /\ f1[at] = Array(n)
    BY OneIs
  <2>2. DOMAIN f2 = {e} /\ f2[e] = Table
    BY OneIs
  <2> HIDE DEF f1, f2
  <2>3. /\ DOMAIN Over(f1, f2) = DOMAIN f1 \cup DOMAIN f2
        /\ \A p \in DOMAIN f1 : Over(f1, f2)[p] = f1[p]
        /\ \A p \in DOMAIN f2 \ DOMAIN f1 : Over(f1, f2)[p] = f2[p]
    BY OverIs
  <2>4. g = Over(f1, f2)
    BY DEF f1, f2
  <2> HIDE DEF g
  <2>5. DOMAIN g = {at, e}
    BY <2>1, <2>2, <2>3, <2>4
  <2>6. g[at] = Array(n)
    BY <2>1, <2>3, <2>4
  <2>7. g[e] = Table
    <3>1. e \in DOMAIN f2 \ DOMAIN f1
      BY <1>5, <2>1, <2>2
    <3> QED
      BY <2>2, <2>3, <2>4, <3>1
  <2> QED
    BY <2>5, <2>6, <2>7
<1> HIDE DEF g
<1>8. /\ DOMAIN u = DOMAIN t \cup {at, e} /\ u[at] = Array(n) /\ u[e] = Table
      /\ \A p \in DOMAIN t : p # at => u[p] = t[p]
  <2>1. /\ DOMAIN u = DOMAIN g \cup DOMAIN t /\ \A p \in DOMAIN g : u[p] = g[p]
        /\ \A p \in DOMAIN t \ DOMAIN g : u[p] = t[p]
    BY OverIs
  <2> HIDE DEF u
  <2>2. at \in DOMAIN g /\ e \in DOMAIN g
    BY <1>7
  <2>3. DOMAIN u = DOMAIN t \cup {at, e} /\ u[at] = Array(n) /\ u[e] = Table
    BY <1>7, <2>1, <2>2
  <2>4. ASSUME NEW p \in DOMAIN t, p # at PROVE u[p] = t[p]
    <3>1. p \notin DOMAIN g
      BY <1>6, <1>7, <2>4
    <3> QED
      BY <2>1, <3>1
  <2> QED
    BY <2>3, <2>4
<1> HIDE DEF u
<1>9. /\ Array(n).kind = "array" /\ Array(n).n = n /\ Array(n) \in [kind : {"array"}, n : {n}]
      /\ Table.kind = "table" /\ Table.n = 0 /\ Table \in [kind : {"table"}, n : {0}]
  BY DEF Array, Table, Node
<1>10. Len(at) > 1 => h \in DOMAIN u /\ u[h].kind = "table"
  <2>1. ASSUME Len(at) > 1
        PROVE  h # <<>>
    <3>1. Len(<<>>) = 0
      BY EmptySeq
    <3> QED
      BY <1>1, <2>1, <3>1
  <2>2. ASSUME h # <<>>
        PROVE  h \in DOMAIN t /\ t[h].kind = "table"
    BY <2>2 DEF IsHash
  <2> QED
    BY <1>4, <1>8, <2>1, <2>2
<1>11. NodeFits(u, m + 1, at)
  <2>1. \A i \in 1 .. n : Append(h, <<k, i>>) \in DOMAIN u
    <3> SUFFICES ASSUME NEW i \in 1 .. n PROVE Append(h, <<k, i>>) \in DOMAIN u
      OBVIOUS
    <3>1. CASE i = n
      BY <1>3, <1>8, <3>1
    <3>2. CASE i # n
      <4>1. at \in DOMAIN t /\ i \in 1 .. t[at].n
        BY <1>4, <3>2
      <4>2. NodeFits(t, m, at)
        BY <4>1, SoundNode
      <4>3. Append(Front(at), <<Last(at)[1], i>>) \in DOMAIN t
        BY <1>4, <4>1, <4>2 DEF NodeFits
      <4> QED
        BY <1>1, <1>8, <4>3
    <3> QED
      BY <3>1, <3>2
  <2>2. u[at] \in [kind : {"table", "array", "value"}, n : 0 .. m + 1]
    BY <1>5, <1>8, <1>9
  <2>3. u[at].kind = "array" /\ u[at].n = n
    BY <1>8, <1>9
  <2> QED
    BY <1>1, <1>5, <1>10, <2>1, <2>2, <2>3 DEF NodeFits
<1>12. NodeFits(u, m + 1, e)
  <2>1. /\ u[e] \in [kind : {"table", "array", "value"}, n : 0 .. m + 1]
        /\ u[e].kind = "table" /\ u[e].n = 0
    BY <1>8, <1>9
  <2>2. At(Front(e), Last(e)[1]) = at /\ at \in DOMAIN u
        /\ u[at].kind = "array" /\ u[at].n = n
    BY <1>2, <1>3, <1>8, <1>9
  <2>3. Len(e) > 1 => Front(e) \in DOMAIN u /\ u[Front(e)].kind = "table"
    BY <1>1, <1>2, <1>10
  <2>4. Last(e)[2] > 0 =>
          /\ At(Front(e), Last(e)[1]) \in DOMAIN u
          /\ u[At(Front(e), Last(e)[1])].kind = "array"
          /\ Last(e)[2] <= u[At(Front(e), Last(e)[1])].n
    BY <1>2, <2>2
  <2>5. u[e].kind # "array"
    BY <2>1
  <2> QED
    BY <2>1, <2>3, <2>4, <2>5 DEF NodeFits
<1>13. ASSUME NEW p \in DOMAIN t, p # at
       PROVE  NodeFits(u, m + 1, p)
  <2>1. NodeFits(t, m, p) /\ u[p] = t[p] /\ p \in DOMAIN u /\ Last(p)[2] \in Nat
    BY <1>8, <1>13, SoundNode
  <2>2. u[p] \in [kind : {"table", "array", "value"}, n : 0 .. m + 1]
    BY <2>1 DEF NodeFits
  <2>3. Len(p) > 1 => Front(p) \in DOMAIN u /\ u[Front(p)].kind = "table"
    <3>1. Len(p) > 1 => Front(p) \in DOMAIN t /\ t[Front(p)].kind = "table"
      BY <2>1 DEF NodeFits
    <3> QED
      BY <1>4, <1>8, <3>1
  <2>4. Last(p)[2] > 0 =>
          /\ At(Front(p), Last(p)[1]) \in DOMAIN u
          /\ u[At(Front(p), Last(p)[1])].kind = "array"
          /\ Last(p)[2] <= u[At(Front(p), Last(p)[1])].n
    <3> DEFINE a == At(Front(p), Last(p)[1])
    <3>1. Last(p)[2] > 0 => a \in DOMAIN t /\ t[a].kind = "array" /\ Last(p)[2] <= t[a].n
      BY <2>1 DEF NodeFits
    <3> HIDE DEF a
    <3>2. CASE a = at
      BY <1>4, <1>8, <1>9, <2>1, <3>1, <3>2 DEF a
    <3>3. CASE a # at
      BY <1>8, <3>1, <3>3 DEF a
    <3> QED
      BY <3>2, <3>3
  <2>5. u[p].kind = "array" =>
          /\ u[p].n > 0
          /\ \A i \in 1 .. u[p].n : Append(Front(p), <<Last(p)[1], i>>) \in DOMAIN u
    BY <1>8, <2>1 DEF NodeFits
  <2>6. /\ Last(p)[2] = 0 \/ u[p].kind = "table"
        /\ u[p].kind = "table" => u[p].n = 0
    BY <2>1 DEF NodeFits
  <2> QED
    BY <2>2, <2>3, <2>4, <2>5, <2>6 DEF NodeFits
<1>14. Sound(u, m + 1)
  <2>1. DOMAIN t \subseteq Hashes \ {<<>>}
    BY DEF Sound
  <2> QED
    BY <1>1, <1>2, <1>8, <1>11, <1>12, <1>13, <2>1 DEF Sound
<1>15. Grows(t, u)
  <2>1. at \in DOMAIN t => t[at].kind = "array" /\ u[at].kind = "array" /\ t[at].n < u[at].n
    BY <1>4, <1>8, <1>9
  <2> QED
    BY <1>8, <2>1 DEF Grows
<1>16. HasElement(t, u, at, e, n)
  BY <1>6, <1>8 DEF HasElement
<1> QED
  BY <1>14, <1>15, <1>16 DEF at, e, g, u, WithElement

-----------------------------------------------------------------------------
(* A tree of one node, hung up.                                            *)
LEMMA OneHung ==
  ASSUME NEW at \in Hashes, NEW node
  PROVE  Hang(at, One(<<>>, node)) = One(at, node)
<1> DEFINE o == One(<<>>, node)
<1>1. DOMAIN o = {<<>>} /\ o[<<>>] = node
  BY OneIs
<1> HIDE DEF o
<1>2. at \o <<>> = at /\ SubSeq(at, Len(at) + 1, Len(at)) = <<>>
  <2>1. Len(at) \in Nat
    BY LenProperties DEF Hashes
  <2> QED
    BY <2>1 DEF Hashes
<1>3. {at \o q : q \in DOMAIN o} = {at}
  BY <1>1, <1>2
<1>4. Hang(at, o) = [p \in {at} |-> o[SubSeq(p, Len(at) + 1, Len(p))]]
  BY <1>3 DEF Hang
<1>5. [p \in {at} |-> o[SubSeq(p, Len(at) + 1, Len(p))]] = [p \in {at} |-> node]
  BY <1>1, <1>2
<1> QED
  BY <1>4, <1>5 DEF o, One

LEMMA OneIsNew ==
  ASSUME NEW node, NEW m \in Nat, node \in [kind : {"table", "value"}, n : 0 .. m],
         node.kind = "table" => node.n = 0
  PROVE  IsNew(One(<<>>, node), m)
<1> DEFINE o == One(<<>>, node)
<1>1. DOMAIN o = {<<>>} /\ o[<<>>] = node
  BY OneIs
<1> HIDE DEF o
<1>2. IsNew(o, m)
  BY <1>1, Zenon DEF IsNew
<1> QED
  BY <1>2 DEF o

LEMMA GrowsOn ==
  ASSUME NEW t, NEW m \in Nat, NEW u, NEW l \in Nat, NEW v, NEW j \in Nat,
         Sound(t, m), Sound(u, l), Sound(v, j), Grows(t, u), Grows(u, v)
  PROVE  Grows(t, v)
<1> SUFFICES ASSUME NEW p \in DOMAIN t
             PROVE  /\ p \in DOMAIN v /\ v[p].kind = t[p].kind
                    /\ v[p] = t[p] \/ (t[p].kind = "array" /\ t[p].n < v[p].n)
  BY DEF Grows
<1>1. p \in DOMAIN u /\ p \in DOMAIN v /\ u[p].kind = t[p].kind /\ v[p].kind = u[p].kind
  BY DEF Grows
<1>2. t[p].n \in Nat /\ u[p].n \in Nat /\ v[p].n \in Nat
  BY <1>1, SoundNode
<1>3. /\ u[p] = t[p] \/ (t[p].kind = "array" /\ t[p].n < u[p].n)
      /\ v[p] = u[p] \/ (u[p].kind = "array" /\ u[p].n < v[p].n)
  BY <1>1 DEF Grows
<1> QED
  BY <1>1, <1>2, <1>3

(* What EnterOrCreate is given and leaves: the hash is one of the tree, of *)
(* which nothing has been lost.                                            *)
Entered(s, t, m) ==
  /\ s = [hash |-> s.hash, key |-> s.key, tree |-> s.tree,
          implicits |-> s.implicits, outcome |-> s.outcome]
  /\ s.outcome \in {"reading", "refused"}
  /\ s.hash \in Hashes /\ IsHash(s.tree, s.hash)
  /\ Sound(s.tree, m) /\ Grows(t, s.tree)

LEMMA EnterOrCreateEnters ==
  ASSUME NEW t, NEW m \in Nat, Sound(t, m), NEW s, Entered(s, t, m), NEW k \in Names
  PROVE  Entered(EnterOrCreate(s, k), t, m)
<1> DEFINE at == At(s.hash, k)
           key == Append(s.key, k)
           new == at \notin DOMAIN s.tree
           u == IF new THEN Over(s.tree, One(at, Table)) ELSE s.tree
           marks == IF new THEN AddImplicit(s.implicits, key) ELSE s.implicits
           e == EnterOrCreate(s, k)
<1> SUFFICES Entered(e, t, m)
  OBVIOUS
<1>1. CASE s.outcome # "reading"
  <2>1. e = s
    BY <1>1 DEF EnterOrCreate
  <2> HIDE DEF e
  <2> QED
    BY <2>1
<1>2. CASE s.outcome = "reading"
  <2>1. /\ s.hash \in Hashes /\ IsHash(s.tree, s.hash)
        /\ Sound(s.tree, m) /\ Grows(t, s.tree)
    BY DEF Entered
  <2>2. at \in Hashes
    BY <2>1, AtIs
  <2>3. /\ Sound(u, m) /\ Grows(s.tree, u) /\ at \in DOMAIN u
        /\ new => u[at] = Table
    <3>1. CASE new
      <4> DEFINE one == One(<<>>, Table)
      <4>1. IsNew(one, m) /\ one[<<>>] = Table
        <5>1. Table \in [kind : {"table", "value"}, n : 0 .. m] /\ Table.n = 0
          BY DEF Table, Node
        <5> QED
          BY <5>1, OneIsNew, OneIs
      <4>2. Hang(at, one) = One(at, Table)
        BY <2>2, OneHung
      <4>3. u = Over(s.tree, Hang(at, one))
        BY <3>1, <4>2
      <4>4. LET v == Over(s.tree, Hang(At(s.hash, k), one))
            IN  /\ Sound(v, m) /\ Grows(s.tree, v)
                /\ At(s.hash, k) \in DOMAIN v /\ v[At(s.hash, k)] = one[<<>>]
        <5> HIDE DEF one
        <5>1. At(s.hash, k) \notin DOMAIN s.tree /\ m <= m
          BY <3>1
        <5> QED
          BY <2>1, <4>1, <5>1, HangKeepsSound
      <4> HIDE DEF one, u
      <4> QED
        BY <4>1, <4>3, <4>4
    <3>2. CASE ~new
      <4>1. u = s.tree /\ at \in DOMAIN s.tree
        BY <3>2
      <4>2. Grows(s.tree, s.tree)
        BY DEF Grows
      <4> HIDE DEF u, at
      <4> QED
        BY <2>1, <3>2, <4>1, <4>2
    <3> HIDE DEF u, new
    <3> QED
      BY <3>1, <3>2
  <2>4. e = CASE u[at].kind = "value" -> [s EXCEPT !.outcome = "refused"]
              [] u[at] = Array(0)     -> [s EXCEPT !.outcome = "panic"]
              [] OTHER -> [hash |-> Within(u, at), key |-> key, tree |-> u,
                           implicits |-> marks, outcome |-> "reading"]
    BY <1>2 DEF EnterOrCreate
  <2>5. CASE u[at].kind = "value"
    <3>1. e = [s EXCEPT !.outcome = "refused"]
      <4>1. u[at] # Array(0)
        BY <2>5 DEF Array, Node
      <4> HIDE DEF u, at, marks, key, e
      <4> QED
        BY <2>4, <2>5, <4>1
    <3> HIDE DEF u, at, marks, key, e
    <3>2. s = [hash |-> s.hash, key |-> s.key, tree |-> s.tree,
               implicits |-> s.implicits, outcome |-> s.outcome]
      BY DEF Entered
    <3>3. /\ e.outcome = "refused" /\ e.hash = s.hash /\ e.tree = s.tree
          /\ e = [hash |-> e.hash, key |-> e.key, tree |-> e.tree,
                  implicits |-> e.implicits, outcome |-> e.outcome]
      BY <3>1, <3>2
    <3> QED
      BY <2>1, <3>3 DEF Entered
  <2>6. CASE u[at].kind # "value"
    <3>1. /\ u[at] # Array(0) /\ Within(u, at) \in Hashes
          /\ IsHash(u, Within(u, at))
      <4> HIDE DEF u
      <4> QED
        BY <2>1, <2>3, <2>6, WithinIs
    <3>2. Grows(t, u)
      <4> HIDE DEF u
      <4> QED
        BY <2>1, <2>3, GrowsOn
    <3> HIDE DEF u, at, marks, key, e
    <3>3. e = [hash |-> Within(u, at), key |-> key, tree |-> u,
               implicits |-> marks, outcome |-> "reading"]
      BY <2>4, <2>6, <3>1
    <3>4. /\ e.outcome = "reading" /\ e.hash = Within(u, at) /\ e.tree = u
          /\ e = [hash |-> e.hash, key |-> e.key, tree |-> e.tree,
                  implicits |-> e.implicits, outcome |-> e.outcome]
      BY <3>3
    <3> QED
      BY <2>3, <3>1, <3>2, <3>4 DEF Entered
  <2> QED
    BY <2>5, <2>6
<1> QED
  BY <1>1, <1>2 DEF Entered

(* The rounds of establishContext's loop, and the steps of setValue's walk. *)
LEMMA EstablishingIs ==
  ASSUME NEW key, Len(key) \in Nat \ {0}
  PROVE  LET s == Establishing(key)
         IN /\ s[0] = [hash |-> <<>>, key |-> <<>>, tree |-> tree,
                        implicits |-> implicits, outcome |-> "reading"]
            /\ \A i \in 1 .. Len(key) - 1 : s[i] = EnterOrCreate(s[i - 1], key[i])
<1> DEFINE N == Len(key) - 1
           Start0 == [hash |-> <<>>, key |-> <<>>, tree |-> tree,
                        implicits |-> implicits, outcome |-> "reading"]
           Go(s, i) == EnterOrCreate(s, key[i])
           Are(g, n) == g = [i \in 0 .. n |-> IF i = 0 THEN Start0 ELSE Go(g[i - 1], i)]
           Some == {n \in Nat : \E g : Are(g, n)}
<1>0. N \in Nat
  OBVIOUS
<1> HIDE DEF Start0, Go, N
<1>1. 0 \in Some
  <2>1. Are([i \in 0 .. 0 |-> Start0], 0)
    OBVIOUS
  <2> QED
    BY <2>1
<1>2. ASSUME NEW n \in Nat, n \in Some
      PROVE  n + 1 \in Some
  <2>1. PICK g : Are(g, n)
    BY <1>2
  <2> DEFINE h == [i \in 0 .. n + 1 |-> IF i \in 0 .. n THEN g[i] ELSE Go(g[n], i)]
  <2>2. ASSUME NEW i \in 0 .. n + 1
        PROVE  h[i] = IF i = 0 THEN Start0 ELSE Go(h[i - 1], i)
    <3>1. CASE i = 0
      BY <2>1, <3>1
    <3>2. CASE i \in 1 .. n
      <4>1. h[i] = g[i] /\ h[i - 1] = g[i - 1]
        BY <3>2
      <4>2. g[i] = Go(g[i - 1], i)
        BY <2>1, <3>2
      <4> QED
        BY <3>2, <4>1, <4>2
    <3>3. CASE i = n + 1
      <4>1. h[i] = Go(g[n], i) /\ h[i - 1] = g[n]
        BY <3>3
      <4> QED
        BY <3>3, <4>1
    <3> QED
      BY <3>1, <3>2, <3>3
  <2>3. Are(h, n + 1)
    BY <2>2
  <2> HIDE DEF h, Are
  <2> QED
    BY <2>3
<1>3. N \in Some
  <2>1. Nat \subseteq Some
    <3> HIDE DEF Some
    <3> QED
      BY <1>1, <1>2, Induction
  <2> QED
    BY <1>0, <2>1
<1>4. PICK g : Are(g, N)
  BY <1>3
<1> DEFINE s == CHOOSE f : Are(f, N)
<1>5. Are(s, N)
  BY <1>3, <1>4
<1>6. Establishing(key) = s
  BY DEF Establishing, N, Start0, Go
<1> HIDE DEF s
<1>7. s[0] = Start0 /\ \A i \in 1 .. N : s[i] = Go(s[i - 1], i)
  BY <1>0, <1>5
<1> QED
  BY <1>6, <1>7 DEF N, Start0, Go

LEMMA WalkIs ==
  ASSUME NEW t, NEW ctx, Len(ctx) \in Nat
  PROVE  LET s == Walk(t, ctx)
         IN /\ s[0] = {<<>>}
            /\ \A i \in 1 .. Len(ctx) : s[i] = Enter(t, s[i - 1], ctx[i])
<1> DEFINE N == Len(ctx)
           Start0 == {<<>>}
           Go(s, i) == Enter(t, s, ctx[i])
           Are(g, n) == g = [i \in 0 .. n |-> IF i = 0 THEN Start0 ELSE Go(g[i - 1], i)]
           Some == {n \in Nat : \E g : Are(g, n)}
<1>0. N \in Nat
  OBVIOUS
<1> HIDE DEF Start0, Go, N
<1>1. 0 \in Some
  <2>1. Are([i \in 0 .. 0 |-> Start0], 0)
    OBVIOUS
  <2> QED
    BY <2>1
<1>2. ASSUME NEW n \in Nat, n \in Some
      PROVE  n + 1 \in Some
  <2>1. PICK g : Are(g, n)
    BY <1>2
  <2> DEFINE h == [i \in 0 .. n + 1 |-> IF i \in 0 .. n THEN g[i] ELSE Go(g[n], i)]
  <2>2. ASSUME NEW i \in 0 .. n + 1
        PROVE  h[i] = IF i = 0 THEN Start0 ELSE Go(h[i - 1], i)
    <3>1. CASE i = 0
      BY <2>1, <3>1
    <3>2. CASE i \in 1 .. n
      <4>1. h[i] = g[i] /\ h[i - 1] = g[i - 1]
        BY <3>2
      <4>2. g[i] = Go(g[i - 1], i)
        BY <2>1, <3>2
      <4> QED
        BY <3>2, <4>1, <4>2
    <3>3. CASE i = n + 1
      <4>1. h[i] = Go(g[n], i) /\ h[i - 1] = g[n]
        BY <3>3
      <4> QED
        BY <3>3, <4>1
    <3> QED
      BY <3>1, <3>2, <3>3
  <2>3. Are(h, n + 1)
    BY <2>2
  <2> HIDE DEF h, Are
  <2> QED
    BY <2>3
<1>3. N \in Some
  <2>1. Nat \subseteq Some
    <3> HIDE DEF Some
    <3> QED
      BY <1>1, <1>2, Induction
  <2> QED
    BY <1>0, <2>1
<1>4. PICK g : Are(g, N)
  BY <1>3
<1> DEFINE s == CHOOSE f : Are(f, N)
<1>5. Are(s, N)
  BY <1>3, <1>4
<1>6. Walk(t, ctx) = s
  BY DEF Walk, N, Start0, Go
<1> HIDE DEF s
<1>7. s[0] = Start0 /\ \A i \in 1 .. N : s[i] = Go(s[i - 1], i)
  BY <1>0, <1>5
<1> QED
  BY <1>6, <1>7 DEF N, Start0, Go

LEMMA EstablishEnters ==
  ASSUME NEW m \in Nat, Sound(tree, m), NEW key \in Seq(Names) \ {<<>>}
  PROVE  Entered(Establish(key), tree, m)
<1> DEFINE N == Len(key) - 1
           s == Establishing(key)
           Good == {i \in Nat : i <= N => Entered(s[i], tree, m)}
<1>1. Len(key) \in Nat \ {0} /\ N \in Nat /\ \A i \in 1 .. Len(key) : key[i] \in Names
  BY LenProperties, EmptySeq, ElementOfSeq
<1>2. /\ s[0] = [hash |-> <<>>, key |-> <<>>, tree |-> tree,
                 implicits |-> implicits, outcome |-> "reading"]
      /\ \A i \in 1 .. N : s[i] = EnterOrCreate(s[i - 1], key[i])
  BY <1>1, EstablishingIs
<1> HIDE DEF s
<1>3. 0 \in Good
  <2>1. <<>> \in Hashes /\ IsHash(tree, <<>>) /\ Grows(tree, tree)
    BY DEF Hashes, IsHash, Grows
  <2>2. /\ s[0].hash = <<>> /\ s[0].tree = tree /\ s[0].outcome = "reading"
        /\ s[0] = [hash |-> s[0].hash, key |-> s[0].key, tree |-> s[0].tree,
                   implicits |-> s[0].implicits, outcome |-> s[0].outcome]
    BY <1>2
  <2>3. Entered(s[0], tree, m)
    BY <2>1, <2>2 DEF Entered
  <2> QED
    BY <2>3
<1>4. ASSUME NEW i \in Nat, i \in Good
      PROVE  i + 1 \in Good
  <2> SUFFICES ASSUME i + 1 <= N
               PROVE  Entered(s[i + 1], tree, m)
    OBVIOUS
  <2>1. Entered(s[i], tree, m)
    BY <1>1, <1>4
  <2>2. i + 1 \in 1 .. N /\ (i + 1) - 1 = i /\ key[i + 1] \in Names
    BY <1>1
  <2>3. s[i + 1] = EnterOrCreate(s[i], key[i + 1])
    BY <1>2, <2>2
  <2> QED
    BY <2>1, <2>2, <2>3, EnterOrCreateEnters
<1>5. N \in Good
  <2>1. Nat \subseteq Good
    <3> HIDE DEF Good
    <3> QED
      BY <1>3, <1>4, Induction
  <2> QED
    BY <1>1, <2>1
<1> QED
  BY <1>1, <1>5 DEF Establish, s

(* Where setValue's walk comes to, values may be put.                      *)
LEMMA HashesAreHashes ==
  ASSUME NEW t, NEW m \in Nat, Sound(t, m), NEW ctx \in Seq(Names), NEW h \in Hash(t, ctx)
  PROVE  h \in Hashes /\ IsHash(t, h)
<1> DEFINE N == Len(ctx)
           s == Walk(t, ctx)
           All == {g \in Hashes : IsHash(t, g)}
           Good == {i \in Nat : i <= N => s[i] \subseteq All}
<1>1. N \in Nat /\ \A i \in 1 .. N : ctx[i] \in Names
  BY LenProperties, ElementOfSeq
<1>2. s[0] = {<<>>} /\ \A i \in 1 .. N : s[i] = Enter(t, s[i - 1], ctx[i])
  BY <1>1, WalkIs
<1> HIDE DEF s
<1>3. 0 \in Good
  <2>1. <<>> \in Hashes /\ IsHash(t, <<>>)
    BY DEF Hashes, IsHash
  <2> QED
    BY <1>2, <2>1
<1>4. ASSUME NEW i \in Nat, i \in Good
      PROVE  i + 1 \in Good
  <2> SUFFICES ASSUME i + 1 <= N, NEW g \in s[i + 1]
               PROVE  g \in All
    OBVIOUS
  <2>1. s[i] \subseteq All
    BY <1>1, <1>4
  <2>2. i + 1 \in 1 .. N /\ (i + 1) - 1 = i /\ ctx[i + 1] \in Names
    BY <1>1
  <2>3. g \in Enter(t, s[i], ctx[i + 1])
    BY <1>2, <2>2
  <2>4. PICK f \in s[i] : /\ At(f, ctx[i + 1]) \in DOMAIN t
                          /\ t[At(f, ctx[i + 1])].kind # "value"
                          /\ g = Within(t, At(f, ctx[i + 1]))
    BY <2>3 DEF Enter
  <2>5. f \in Hashes
    BY <2>1, <2>4
  <2> QED
    BY <2>2, <2>4, <2>5, WithinIs
<1>5. N \in Good
  <2>1. Nat \subseteq Good
    <3> HIDE DEF Good
    <3> QED
      BY <1>3, <1>4, Induction
  <2> QED
    BY <1>1, <2>1
<1> QED
  BY <1>1, <1>5 DEF Hash, s

-----------------------------------------------------------------------------
(* What a line's work leaves.                                              *)
Kept(s, t, m) ==
  /\ s.outcome \in {"reading", "refused", "panic"}
  /\ Sound(s.tree, m) /\ Grows(t, s.tree)

LEMMA SetValueKeeps ==
  ASSUME NEW t, NEW m \in Nat, Sound(t, m), NEW s, {"tree", "implicits", "outcome"} \subseteq DOMAIN s,
         s.outcome \in {"reading", "refused", "panic"},
         Sound(s.tree, m), Grows(t, s.tree),
         NEW ctx \in Seq(Names), NEW k \in Names, NEW new, IsNew(new, m + 1)
  PROVE  Kept(SetValue(s, ctx, k, new), t, m + 1)
<1> DEFINE hs == Hash(s.tree, ctx)
           h == CHOOSE g \in hs : TRUE
           at == At(h, k)
           key == Append(ctx, k)
           u == Over(s.tree, Hang(at, new))
           v == SetValue(s, ctx, k, new)
<1>1. v = IF hs = {} THEN [s EXCEPT !.outcome = "panic"]
          ELSE IF at \notin DOMAIN s.tree THEN [s EXCEPT !.tree = u]
          ELSE IF String(key) \in s.implicits
               THEN [s EXCEPT !.implicits = RemoveImplicit(s.implicits, key)]
               ELSE [s EXCEPT !.outcome = "refused"]
  BY DEF SetValue
<1>2. Sound(s.tree, m + 1)
  <2>1. m + 1 \in Nat /\ m <= m + 1
    OBVIOUS
  <2>2. \A p \in DOMAIN s.tree : NodeFits(s.tree, m + 1, p)
    BY <2>1, StillFits
  <2> QED
    BY <2>2 DEF Sound
<1>3. hs # {} => h \in hs
  OBVIOUS
<1>4. hs # {} => h \in Hashes /\ IsHash(s.tree, h)
  <2> HIDE DEF h
  <2> QED
    BY <1>3, HashesAreHashes
<1>5. ASSUME hs # {}, at \notin DOMAIN s.tree
      PROVE  Sound(u, m + 1) /\ Grows(s.tree, u)
  <2>1. m + 1 \in Nat /\ m <= m + 1
    OBVIOUS
  <2> HIDE DEF h, hs
  <2>2. h \in Hashes /\ IsHash(s.tree, h)
    BY <1>4, <1>5
  <2> QED
    BY <1>5, <2>1, <2>2, HangKeepsSound
<1> HIDE DEF hs, at, key, u
<1>6. ASSUME hs # {}, at \notin DOMAIN s.tree
      PROVE  v.tree = u /\ v.outcome = s.outcome
  <2>1. v = [s EXCEPT !.tree = u]
    BY <1>1, <1>6
  <2> HIDE DEF v
  <2> QED
    BY <2>1
<1>7. ASSUME hs = {} \/ at \in DOMAIN s.tree
      PROVE  v.tree = s.tree /\ v.outcome \in {s.outcome, "refused", "panic"}
  <2> DEFINE i == RemoveImplicit(s.implicits, key)
  <2>1. \/ v = [s EXCEPT !.outcome = "panic"]
        \/ v = [s EXCEPT !.outcome = "refused"]
        \/ v = [s EXCEPT !.implicits = i]
    BY <1>1, <1>7
  <2> HIDE DEF v, i
  <2> QED
    BY <2>1
<1> HIDE DEF v
<1>8. CASE hs # {} /\ at \notin DOMAIN s.tree
  <2>1. Grows(t, u)
    <3>1. m + 1 \in Nat
      OBVIOUS
    <3> QED
      BY <1>5, <1>8, <3>1, GrowsOn
  <2> QED
    BY <1>5, <1>6, <1>8, <2>1 DEF Kept, v
<1>9. CASE hs = {} \/ at \in DOMAIN s.tree
  BY <1>2, <1>7, <1>9 DEF Kept, v
<1> QED
  BY <1>8, <1>9

LEMMA AddElementKeeps ==
  ASSUME NEW t, NEW m \in Nat, Sound(t, m), NEW s, Entered(s, t, m), NEW k \in Names
  PROVE  Kept(AddElement(s, k), t, m + 1)
<1> DEFINE at == At(s.hash, k)
           n == IF at \in DOMAIN s.tree THEN s.tree[at].n + 1 ELSE 1
           u == Over(Element(s, k, n), s.tree)
           refused == at \in DOMAIN s.tree /\ s.tree[at].kind # "array"
           v == AddElement(s, k)
<1>1. v = IF refused THEN [s EXCEPT !.outcome = "refused"] ELSE [s EXCEPT !.tree = u]
  BY DEF AddElement
<1>2. /\ s = [hash |-> s.hash, key |-> s.key, tree |-> s.tree,
              implicits |-> s.implicits, outcome |-> s.outcome]
      /\ s.outcome \in {"reading", "refused"}
      /\ s.hash \in Hashes /\ IsHash(s.tree, s.hash)
      /\ Sound(s.tree, m) /\ Grows(t, s.tree)
  BY DEF Entered
<1>3. {"tree", "outcome"} \subseteq DOMAIN s
  BY <1>2
<1>4. Sound(s.tree, m + 1)
  <2>1. m + 1 \in Nat /\ m <= m + 1
    OBVIOUS
  <2>2. \A p \in DOMAIN s.tree : NodeFits(s.tree, m + 1, p)
    BY <1>2, <2>1, StillFits
  <2> QED
    BY <1>2, <2>2 DEF Sound
<1>5. ASSUME ~refused
      PROVE  Sound(u, m + 1) /\ Grows(s.tree, u)
  <2>1. n \in Nat
    BY <1>2, SoundNode
  <2>2. IsNext(s.tree, at, n)
    BY <1>5 DEF IsNext
  <2>3. u = WithElement(s.tree, s.hash, k, n)
    BY DEF Element, WithElement
  <2> HIDE DEF n, u
  <2> QED
    BY <1>2, <2>1, <2>2, <2>3, ElementKeepsSound
<1> HIDE DEF at, n, u, refused
<1>6. CASE refused
  <2>1. v = [s EXCEPT !.outcome = "refused"]
    BY <1>1, <1>6
  <2> HIDE DEF v
  <2>2. v.tree = s.tree /\ v.outcome = "refused"
    BY <1>3, <2>1
  <2> QED
    BY <1>2, <1>4, <2>2 DEF Kept, v
<1>7. CASE ~refused
  <2>1. v = [s EXCEPT !.tree = u]
    BY <1>1, <1>7
  <2> HIDE DEF v
  <2>2. v.tree = u /\ v.outcome = s.outcome
    BY <1>3, <2>1
  <2>3. Grows(t, u)
    <3>1. m + 1 \in Nat
      OBVIOUS
    <3> QED
      BY <1>2, <1>5, <1>7, <3>1, GrowsOn
  <2> QED
    BY <1>2, <1>5, <1>7, <2>2, <2>3 DEF Kept, v
<1> QED
  BY <1>6, <1>7

(* The new nodes of a key's line: a value, or a table with a value for     *)
(* each name of the inline table.                                          *)
InlineNode(fields, n) ==
  Over(One(<<>>, Table), [p \in {At(<<>>, f) : f \in ToSet(fields)} |-> Value(n)])

LEMMA ValueIs ==
  ASSUME NEW n \in Nat
  PROVE  /\ IsNew(One(<<>>, Value(n)), n) /\ One(<<>>, Value(n))[<<>>] = Value(n)
         /\ Value(n).kind = "value"
         /\ \A f \in Names : At(<<>>, f) \notin DOMAIN One(<<>>, Value(n))
<1> DEFINE v == Value(n)
           one == One(<<>>, v)
<1>1. v \in [kind : {"table", "value"}, n : 0 .. n] /\ v.kind = "value"
  BY DEF Value, Node
<1> HIDE DEF v
<1>2. IsNew(one, n) /\ DOMAIN one = {<<>>} /\ one[<<>>] = v
  BY <1>1, OneIsNew, OneIs
<1>3. \A f \in Names : At(<<>>, f) # <<>>
  BY AtIs, EmptySeq DEF Hashes
<1> HIDE DEF one
<1> QED
  BY <1>1, <1>2, <1>3 DEF one, v

LEMMA InlineIs ==
  ASSUME NEW fields \in Seq(Names), NEW n \in Nat
  PROVE  LET new == InlineNode(fields, n)
         IN /\ ToSet(fields) \subseteq Names
            /\ IsNew(new, n) /\ new[<<>>] = Table
            /\ \A f \in Names : At(<<>>, f) \in DOMAIN new <=> f \in ToSet(fields)
<1> DEFINE one == One(<<>>, Table)
           inner == [p \in {At(<<>>, f) : f \in ToSet(fields)} |-> Value(n)]
           new == InlineNode(fields, n)
<1>1. ToSet(fields) \subseteq Names
  BY ElementOfSeq, LenProperties DEF ToSet
<1>2. DOMAIN one = {<<>>} /\ one[<<>>] = Table
  BY OneIs
<1>3. /\ DOMAIN inner = {At(<<>>, f) : f \in ToSet(fields)}
      /\ \A p \in DOMAIN inner : inner[p] = Value(n)
  OBVIOUS
<1>4. new = Over(one, inner)
  BY DEF InlineNode
<1> HIDE DEF one, inner, new
<1>5. /\ DOMAIN new = DOMAIN one \cup DOMAIN inner
      /\ \A p \in DOMAIN one : new[p] = one[p]
      /\ \A p \in DOMAIN inner \ DOMAIN one : new[p] = inner[p]
  <2>1. /\ DOMAIN Over(one, inner) = DOMAIN one \cup DOMAIN inner
        /\ \A p \in DOMAIN one : Over(one, inner)[p] = one[p]
        /\ \A p \in DOMAIN inner \ DOMAIN one : Over(one, inner)[p] = inner[p]
    BY OverIs
  <2> QED
    BY <1>4, <2>1, Zenon
<1>6. new[<<>>] = Table /\ <<>> \in DOMAIN new
  BY <1>2, <1>5
<1>7. \A q \in DOMAIN new : q # <<>> => new[q] = Value(n)
  BY <1>2, <1>3, <1>5
<1>8. DOMAIN new \subseteq {<<>>} \cup {At(<<>>, f) : f \in Names}
  BY <1>1, <1>2, <1>3, <1>5
<1>9. /\ Value(n).kind = "value" /\ Table.kind = "table" /\ Table.n = 0
      /\ Value(n) \in [kind : {"table", "value"}, n : 0 .. n]
      /\ Table \in [kind : {"table", "value"}, n : 0 .. n]
  BY DEF Value, Table, Node
<1>10. IsNew(new, n)
  BY <1>6, <1>7, <1>8, <1>9 DEF IsNew
<1>11. ASSUME NEW f \in Names
       PROVE  At(<<>>, f) \in DOMAIN new <=> f \in ToSet(fields)
  <2>1. <<>> \in Hashes
    BY EmptySeq DEF Hashes
  <2>2. At(<<>>, f) # <<>>
    BY <2>1, AtIs
  <2>3. \A g \in Names : At(<<>>, g) = At(<<>>, f) => g = f
    BY <2>1, ElementsDiffer DEF At
  <2> QED
    BY <1>1, <1>2, <1>3, <1>5, <2>2, <2>3
<1> QED
  BY <1>1, <1>6, <1>10, <1>11 DEF new

-----------------------------------------------------------------------------
(* The inductive invariant: the mapping hangs together, with arrays of no  *)
(* more elements than lines have been read.                                *)
TreeInv ==
  /\ lines \in 0 .. MaxLines
  /\ Sound(tree, lines)
  /\ context \in Headers \cup {<<>>}
  /\ outcome \in {"reading", "refused", "panic"}
  /\ written \in Nat /\ legal \in BOOLEAN
  /\ odd \subseteq {"dotted", "reopened", "shadowed", "repeated"}

LEMMA TreeInvInit == Init => TreeInv
<1> SUFFICES ASSUME Init PROVE TreeInv
  OBVIOUS
<1>1. Sound(tree, 0)
  <2>1. DOMAIN tree = {}
    BY EmptySeq DEF Init
  <2> QED
    BY <2>1 DEF Sound
<1>2. 0 \in 0 .. MaxLines
  BY TablesAssumption
<1> QED
  BY <1>1, <1>2 DEF Init, TreeInv

(* A line keeps the invariant and loses nothing if its work does.          *)
LEMMA LineKeeps ==
  ASSUME TreeInv, NEW s, Kept(s, tree, lines + 1), NEW allowed \in BOOLEAN,
         NEW oddities \in SUBSET {"dotted", "reopened", "shadowed", "repeated"},
         Line(s, allowed, oddities),
         context' \in Headers \cup {<<>>}, written' \in Nat
  PROVE  TreeInv' /\ Grows(tree, tree')
<1>1. lines \in 0 .. MaxLines /\ lines < MaxLines /\ lines' = lines + 1
  BY DEF Line, TreeInv
<1>2. lines' \in 0 .. MaxLines
  BY <1>1, TablesAssumption
<1>3. /\ s.outcome \in {"reading", "refused", "panic"}
      /\ Sound(s.tree, lines + 1) /\ Grows(tree, s.tree)
  BY DEF Kept
<1>4. /\ tree' = s.tree /\ outcome' = s.outcome
      /\ legal' = (legal /\ allowed) /\ odd' = odd \cup oddities
  BY DEF Line
<1>5. Sound(tree', lines') /\ Grows(tree, tree')
  BY <1>1, <1>3, <1>4
<1>6. /\ legal' \in BOOLEAN
      /\ odd' \subseteq {"dotted", "reopened", "shadowed", "repeated"}
  BY <1>4 DEF TreeInv
<1> QED
  BY <1>2, <1>3, <1>4, <1>5, <1>6 DEF TreeInv

LEMMA OdditiesAre ==
  ASSUME NEW key, NEW k
  PROVE  Dotted(key) \subseteq {"dotted"} /\ Reopened(key) \subseteq {"reopened"}
         /\ Shadowed(k) \subseteq {"shadowed"}
BY DEF Dotted, Reopened, Shadowed, If

LEMMA TreeInvNext ==
  ASSUME TreeInv, Next
  PROVE  TreeInv' /\ Grows(tree, tree')
<1> DEFINE All == {"dotted", "reopened", "shadowed", "repeated"}
<1>1. /\ lines \in Nat /\ Sound(tree, lines) /\ context \in Headers \cup {<<>>}
      /\ outcome \in {"reading", "refused", "panic"} /\ written \in Nat
  BY TablesAssumption DEF TreeInv
<1>2. \A key \in Headers : /\ key \in Seq(Names) \ {<<>>}
                           /\ Front(key) \in Seq(Names) /\ Last(key) \in Names
  <2> SUFFICES ASSUME NEW key \in Headers
               PROVE  /\ key \in Seq(Names) \ {<<>>}
                      /\ Front(key) \in Seq(Names) /\ Last(key) \in Names
    OBVIOUS
  <2>1. key \in Seq(Names) /\ key # <<>>
    BY TablesAssumption
  <2> QED
    BY <2>1, FrontAndLast
<1>3. context \in Seq(Names)
  <2>1. <<>> \in Seq(Names)
    BY EmptySeq
  <2> QED
    BY <1>1, <1>2, <2>1
<1>4. ASSUME NEW key \in Headers
      PROVE  /\ Entered(Establish(key), tree, lines)
             /\ {"tree", "implicits", "outcome"} \subseteq DOMAIN Establish(key)
  <2> DEFINE s == Establish(key)
  <2>1. Entered(s, tree, lines)
    BY <1>1, <1>2, EstablishEnters
  <2> HIDE DEF s
  <2>2. s = [hash |-> s.hash, key |-> s.key, tree |-> s.tree,
             implicits |-> s.implicits, outcome |-> s.outcome]
    BY <2>1 DEF Entered
  <2>3. {"tree", "implicits", "outcome"} \subseteq DOMAIN s
    BY <2>2
  <2> QED
    BY <2>1, <2>3 DEF s
<1>5. ASSUME NEW key \in Headers, Establish(key).outcome # "reading"
      PROVE  Kept(Establish(key), tree, lines + 1)
  <2> DEFINE s == Establish(key)
  <2> HIDE DEF s
  <2>1. /\ s.outcome \in {"reading", "refused"} /\ Sound(s.tree, lines)
        /\ Grows(tree, s.tree)
    BY <1>4 DEF Entered, s
  <2>2. lines + 1 \in Nat /\ lines <= lines + 1
    BY <1>1
  <2>3. \A p \in DOMAIN s.tree : NodeFits(s.tree, lines + 1, p)
    BY <1>1, <2>1, <2>2, StillFits
  <2>4. Sound(s.tree, lines + 1)
    BY <2>1, <2>3 DEF Sound
  <2> QED
    BY <2>1, <2>4 DEF Kept, s
<1>6. ASSUME NEW key \in Headers, TableHeader(key)
      PROVE  TreeInv' /\ Grows(tree, tree')
  <2> DEFINE s == Establish(key)
             new == One(<<>>, Table)
             v == IF s.outcome # "reading" THEN s ELSE SetValue(s, Outer(key), Last(key), new)
  <2>1. Line(v, LegalTable(key), Dotted(key)) /\ context' = key /\ written' = written
    BY <1>6 DEF TableHeader
  <2>2. IsNew(new, lines + 1)
    <3>1. /\ Table \in [kind : {"table", "value"}, n : 0 .. lines + 1] /\ Table.n = 0
          /\ lines + 1 \in Nat
      BY <1>1 DEF Table, Node
    <3> QED
      BY <3>1, OneIsNew
  <2> HIDE DEF new
  <2>3. Kept(v, tree, lines + 1)
    <3>1. CASE s.outcome # "reading"
      BY <1>5, <3>1
    <3>2. CASE s.outcome = "reading"
      <4>1. v = SetValue(s, Front(key), Last(key), new)
        BY <3>2 DEF Outer
      <4> HIDE DEF s, v
      <4>2. /\ {"tree", "implicits", "outcome"} \subseteq DOMAIN s
            /\ s.outcome \in {"reading", "refused", "panic"}
            /\ Sound(s.tree, lines) /\ Grows(tree, s.tree)
        BY <1>4, <3>2 DEF Entered, s
      <4> QED
        BY <1>1, <1>2, <2>2, <4>1, <4>2, SetValueKeeps
    <3> HIDE DEF v
    <3> QED
      BY <3>1, <3>2
  <2>4. Dotted(key) \in SUBSET All /\ LegalTable(key) \in BOOLEAN
    BY OdditiesAre DEF LegalTable
  <2> HIDE DEF v
  <2> QED
    BY <1>1, <2>1, <2>3, <2>4, LineKeeps
<1>7. ASSUME NEW key \in Headers, ArrayHeader(key)
      PROVE  TreeInv' /\ Grows(tree, tree')
  <2> DEFINE s == Establish(key)
             v == IF s.outcome # "reading" THEN s ELSE AddElement(s, Last(key))
  <2>1. /\ Line(v, LegalArray(key), Dotted(key) \cup Reopened(key))
        /\ context' = key /\ written' = written
    BY <1>7 DEF ArrayHeader
  <2>2. Kept(v, tree, lines + 1)
    <3>1. CASE s.outcome # "reading"
      BY <1>5, <3>1
    <3>2. CASE s.outcome = "reading"
      <4>1. v = AddElement(s, Last(key))
        BY <3>2
      <4> HIDE DEF v
      <4> QED
        BY <1>1, <1>2, <1>4, <4>1, AddElementKeeps
    <3> HIDE DEF v
    <3> QED
      BY <3>1, <3>2
  <2>3. Dotted(key) \cup Reopened(key) \in SUBSET All /\ LegalArray(key) \in BOOLEAN
    BY OdditiesAre DEF LegalArray
  <2> HIDE DEF v
  <2> QED
    BY <1>1, <2>1, <2>2, <2>3, LineKeeps
<1>8. ASSUME NEW k \in Names, NEW new, IsNew(new, lines + 1)
      PROVE  Kept(SetValue(Now, context, k, new), tree, lines + 1)
  <2> DEFINE s == Now
  <2>1. /\ {"tree", "implicits", "outcome"} \subseteq DOMAIN s
        /\ s.outcome = outcome /\ s.tree = tree
    BY DEF Now
  <2> HIDE DEF s
  <2>2. Grows(tree, s.tree)
    BY <2>1 DEF Grows
  <2>3. Kept(SetValue(s, context, k, new), tree, lines + 1)
    BY <1>1, <1>3, <1>8, <2>1, <2>2, SetValueKeeps
  <2> QED
    BY <2>3 DEF s
<1>9. ASSUME NEW k \in Names, KeyValue(k)
      PROVE  TreeInv' /\ Grows(tree, tree')
  <2> DEFINE new == One(<<>>, Value(lines + 1))
             v == SetValue(Now, context, k, new)
  <2>1. /\ Line(v, LegalValue(k), Dotted(<<k>>) \cup Shadowed(k))
        /\ written' = written + 1 /\ context' = context
    BY <1>9 DEF KeyValue
  <2>2. IsNew(new, lines + 1)
    BY <1>1, ValueIs
  <2> HIDE DEF new
  <2>3. Kept(v, tree, lines + 1)
    BY <1>8, <2>2
  <2>4. Dotted(<<k>>) \cup Shadowed(k) \in SUBSET All /\ LegalValue(k) \in BOOLEAN
    BY OdditiesAre DEF LegalValue
  <2>5. written' \in Nat /\ context' \in Headers \cup {<<>>}
    BY <1>1, <2>1
  <2> HIDE DEF v
  <2> QED
    BY <2>1, <2>3, <2>4, <2>5, LineKeeps
<1>10. ASSUME NEW k \in Names, NEW fields \in Inlines, InlineTable(k, fields)
       PROVE  TreeInv' /\ Grows(tree, tree')
  <2> DEFINE new == InlineNode(fields, lines + 1)
             v == SetValue(Now, context, k, new)
             distinct == Cardinality(ToSet(fields)) = Len(fields)
             oddities == Dotted(<<k>> \o fields) \cup Shadowed(k)
                           \cup If(~distinct, "repeated")
  <2>1. /\ Line(v, LegalValue(k) /\ distinct, oddities)
        /\ written' = written + Len(fields) /\ context' = context
    BY <1>10 DEF InlineTable, InlineNode
  <2>2. fields \in Seq(Names) /\ Len(fields) \in Nat
    BY TablesAssumption, LenProperties
  <2>4. IsNew(new, lines + 1)
    BY <1>1, <2>2, InlineIs
  <2> HIDE DEF new
  <2>5. Kept(v, tree, lines + 1)
    BY <1>8, <2>4
  <2>6. oddities \in SUBSET All /\ (LegalValue(k) /\ distinct) \in BOOLEAN
    <3>1. If(~distinct, "repeated") \subseteq {"repeated"}
      BY DEF If
    <3> HIDE DEF distinct
    <3> QED
      BY <3>1, OdditiesAre DEF LegalValue
  <2>7. written' \in Nat /\ context' \in Headers \cup {<<>>}
    BY <1>1, <2>1, <2>2
  <2> HIDE DEF v, oddities, distinct
  <2> QED
    BY <2>1, <2>5, <2>6, <2>7, LineKeeps
<1> QED
  BY <1>6, <1>7, <1>9, <1>10 DEF Next
-----------------------------------------------------------------------------
LEMMA TreeInvTypeOK == TreeInv => TypeOK
<1> SUFFICES ASSUME TreeInv PROVE TypeOK
  OBVIOUS
<1>1. lines \in Nat /\ lines <= MaxLines /\ MaxLines \in Nat /\ Sound(tree, lines)
  BY TablesAssumption DEF TreeInv
<1>2. ASSUME NEW p \in DOMAIN tree
      PROVE  /\ tree[p].kind \in {"table", "array", "value"}
             /\ tree[p].n \in 0 .. MaxLines
             /\ Last(p)[2] = 0 \/ tree[p].kind = "table"
             /\ Len(p) > 1 => Front(p) \in DOMAIN tree /\ tree[Front(p)].kind = "table"
             /\ Last(p)[2] > 0 =>
                  tree[At(Front(p), Last(p)[1])].n \in Last(p)[2] .. MaxLines
             /\ tree[p].kind = "array" =>
                  /\ tree[p].n > 0
                  /\ \A i \in 1 .. tree[p].n :
                       Append(Front(p), <<Last(p)[1], i>>) \in DOMAIN tree
  <2>1. NodeFits(tree, lines, p) /\ Last(p)[2] \in Nat
    BY <1>1, SoundNode
  <2>2. tree[p].kind \in {"table", "array", "value"} /\ tree[p].n \in 0 .. MaxLines
    BY <1>1, SoundNode
  <2> DEFINE a == At(Front(p), Last(p)[1])
  <2>3. Last(p)[2] > 0 => a \in DOMAIN tree /\ Last(p)[2] <= tree[a].n
    BY <2>1 DEF NodeFits
  <2>4. a \in DOMAIN tree => tree[a].n \in 0 .. lines
    BY <1>1, SoundNode
  <2> HIDE DEF a
  <2>5. Last(p)[2] > 0 => tree[a].n \in Last(p)[2] .. MaxLines
    BY <1>1, <2>1, <2>3, <2>4
  <2> QED
    BY <2>1, <2>2, <2>5 DEF NodeFits, a
<1> QED
  BY <1>2 DEF TypeOK, TreeInv

(* Every variable keeps its kind, and the mapping hangs together: above    *)
(* each node there is a table, an array has all its elements, and neither  *)
(* establishContext's walk nor setValue's can come to an array that has    *)
(* none (parse.go:368, "len(t)-1").                                        *)
THEOREM TypeCorrect == Spec => []TypeOK
<1>1. TreeInv /\ [Next]_vars => TreeInv'
  <2>1. CASE Next
    BY <2>1, TreeInvNext
  <2>2. CASE UNCHANGED vars
    BY <2>2 DEF vars, TreeInv
  <2> QED
    BY <2>1, <2>2
<1> QED
  BY <1>1, TreeInvInit, TreeInvTypeOK, PTL DEF Spec

(* No line takes away or replaces what an earlier one has given (setValue  *)
(* and establishContext, parse.go:347 and 406).                            *)
THEOREM LinesOnlyAdd == Spec => NothingLost
<1> DEFINE A == \A p \in DOMAIN tree :
                  /\ p \in DOMAIN tree'
                  /\ tree'[p].kind = tree[p].kind
                  /\ tree'[p] = tree[p] \/ tree[p].kind = "array"
<1>1. TreeInv /\ [Next]_vars => TreeInv'
  <2>1. CASE Next
    BY <2>1, TreeInvNext
  <2>2. CASE UNCHANGED vars
    BY <2>2 DEF vars, TreeInv
  <2> QED
    BY <2>1, <2>2
<1>2. TreeInv /\ [Next]_vars => [A]_vars
  BY TreeInvNext DEF Grows
<1> QED
  BY <1>1, <1>2, TreeInvInit, PTL DEF Spec, NothingLost

-----------------------------------------------------------------------------
(* What holds of the empty key and, if of a key, of each that has one name *)
(* more holds of all keys.                                                 *)
Keys == Seq(Names)

LEMMA KeyInduction ==
  ASSUME NEW S, <<>> \in S, \A c \in Keys, k \in Names : c \in S => Append(c, k) \in S
  PROVE  Keys \subseteq S
<1> DEFINE T == {n \in Nat : \A c \in Keys : Len(c) = n => c \in S}
<1>1. 0 \in T
  <2>1. \A c \in Keys : Len(c) = 0 => c = <<>>
    BY EmptySeq DEF Keys
  <2> QED
    BY <2>1
<1>2. ASSUME NEW n \in Nat, n \in T
      PROVE  n + 1 \in T
  <2> SUFFICES ASSUME NEW c \in Keys, Len(c) = n + 1
               PROVE  c \in S
    OBVIOUS
  <2>1. c # <<>>
    BY EmptySeq
  <2>2. /\ Front(c) \in Keys /\ Last(c) \in Names /\ c = Append(Front(c), Last(c))
        /\ Len(Front(c)) = Len(c) - 1
    BY <2>1, FrontAndLast DEF Keys
  <2>3. Len(Front(c)) = n
    BY <2>2
  <2>4. Front(c) \in S
    BY <1>2, <2>2, <2>3
  <2> HIDE DEF Keys
  <2> QED
    BY <2>2, <2>4
<1>3. Nat \subseteq T
  <2> HIDE DEF T
  <2> QED
    BY <1>1, <1>2, Induction
<1>4. \A c \in Keys : Len(c) \in Nat
  BY LenProperties DEF Keys
<1> QED
  BY <1>3, <1>4

LEMMA KeysAre ==
  /\ <<>> \in Keys
  /\ \A c \in Keys, k \in Names :
       /\ Append(c, k) \in Keys /\ Append(c, k) # <<>> /\ Len(Append(c, k)) = Len(c) + 1
       /\ Front(Append(c, k)) = c /\ Last(Append(c, k)) = k
       /\ Append(c, k)[Len(c) + 1] = k /\ \A i \in 1 .. Len(c) : Append(c, k)[i] = c[i]
  /\ \A c \in Keys : Len(c) \in Nat /\ \A i \in 1 .. Len(c) : c[i] \in Names
BY EmptySeq, AppendedIs, LenProperties, ElementOfSeq DEF Keys

(* setValue's walk along no context, and along one that has one name more. *)
LEMMA HashOfRoot ==
  ASSUME NEW t
  PROVE  Hash(t, <<>>) = {<<>>}
<1>1. Len(<<>>) = 0
  BY EmptySeq
<1>2. Walk(t, <<>>)[0] = {<<>>}
  BY <1>1, WalkIs
<1> QED
  BY <1>1, <1>2 DEF Hash

LEMMA HashIs ==
  ASSUME NEW t, NEW ctx \in Keys, NEW k \in Names
  PROVE  Hash(t, Append(ctx, k)) = Enter(t, Hash(t, ctx), k)
<1> DEFINE c == Append(ctx, k)
           N == Len(ctx)
           s == Walk(t, ctx)
           w == Walk(t, c)
           Same == {i \in Nat : i <= N => w[i] = s[i]}
<1>2. N \in Nat /\ Len(c) = N + 1 /\ c[N + 1] = k /\ \A i \in 1 .. N : c[i] = ctx[i]
  BY KeysAre
<1> HIDE DEF c
<1>3. s[0] = {<<>>} /\ \A i \in 1 .. N : s[i] = Enter(t, s[i - 1], ctx[i])
  BY <1>2, WalkIs
<1>4. w[0] = {<<>>} /\ \A i \in 1 .. N + 1 : w[i] = Enter(t, w[i - 1], c[i])
  BY <1>2, WalkIs
<1> HIDE DEF s, w
<1>5. 0 \in Same
  BY <1>3, <1>4
<1>6. ASSUME NEW i \in Nat, i \in Same
      PROVE  i + 1 \in Same
  <2> SUFFICES ASSUME i + 1 <= N
               PROVE  w[i + 1] = s[i + 1]
    OBVIOUS
  <2>1. i + 1 \in 1 .. N /\ i + 1 \in 1 .. N + 1 /\ (i + 1) - 1 = i /\ w[i] = s[i]
    BY <1>2, <1>6
  <2> QED
    BY <1>2, <1>3, <1>4, <2>1
<1>7. w[N] = s[N]
  <2>1. Nat \subseteq Same
    <3> HIDE DEF Same
    <3> QED
      BY <1>5, <1>6, Induction
  <2> QED
    BY <1>2, <2>1
<1>8. w[N + 1] = Enter(t, s[N], k)
  <2>1. N + 1 \in 1 .. N + 1 /\ (N + 1) - 1 = N
    BY <1>2
  <2> QED
    BY <1>2, <1>4, <1>7, <2>1
<1> QED
  BY <1>2, <1>8 DEF Hash, s, w, c

(* It comes to one hash at most.                                           *)
LEMMA HashIsOne ==
  ASSUME NEW t, NEW ctx \in Keys, NEW g \in Hash(t, ctx), NEW h \in Hash(t, ctx)
  PROVE  g = h
<1> DEFINE S == {c \in Keys : \A a \in Hash(t, c), b \in Hash(t, c) : a = b}
<1>1. <<>> \in S
  BY KeysAre, HashOfRoot
<1>2. ASSUME NEW c \in Keys, NEW k \in Names, c \in S
      PROVE  Append(c, k) \in S
  <2>1. Append(c, k) \in Keys /\ Hash(t, Append(c, k)) = Enter(t, Hash(t, c), k)
    BY KeysAre, HashIs
  <2>2. \A a \in Enter(t, Hash(t, c), k), b \in Enter(t, Hash(t, c), k) : a = b
    BY <1>2 DEF Enter
  <2> QED
    BY <2>1, <2>2
<1> HIDE DEF S
<1>3. Keys \subseteq S
  BY <1>1, <1>2, KeyInduction
<1> QED
  BY <1>3 DEF S

(* A tree that has all nodes of another leads where that does.             *)
Extends(t, u) == \A p \in DOMAIN t : p \in DOMAIN u /\ u[p] = t[p]

LEMMA HashStays ==
  ASSUME NEW t, NEW u, Extends(t, u), NEW ctx \in Keys
  PROVE  Hash(t, ctx) \subseteq Hash(u, ctx)
<1> DEFINE S == {c \in Keys : Hash(t, c) \subseteq Hash(u, c)}
<1>1. <<>> \in S
  BY KeysAre, HashOfRoot
<1>2. ASSUME NEW c \in Keys, NEW k \in Names, c \in S
      PROVE  Append(c, k) \in S
  <2>1. /\ Append(c, k) \in Keys
        /\ Hash(t, Append(c, k)) = Enter(t, Hash(t, c), k)
        /\ Hash(u, Append(c, k)) = Enter(u, Hash(u, c), k)
    BY KeysAre, HashIs
  <2>2. ASSUME NEW h \in Hash(t, c), At(h, k) \in DOMAIN t
        PROVE  /\ h \in Hash(u, c) /\ At(h, k) \in DOMAIN u
               /\ u[At(h, k)] = t[At(h, k)] /\ Within(u, At(h, k)) = Within(t, At(h, k))
    BY <1>2, <2>2 DEF Extends, Within
  <2>3. Enter(t, Hash(t, c), k) \subseteq Enter(u, Hash(u, c), k)
    BY <2>2 DEF Enter
  <2> QED
    BY <2>1, <2>3
<1> HIDE DEF S
<1>3. Keys \subseteq S
  BY <1>1, <1>2, KeyInduction
<1> QED
  BY <1>3 DEF S

(* A hash of the larger tree that the smaller has is where that leads.     *)
LEMMA HashWas ==
  ASSUME NEW t, NEW m \in Nat, Sound(t, m), NEW u, NEW l \in Nat, Sound(u, l),
         Grows(t, u), NEW ctx \in Keys, NEW h \in Hash(u, ctx), IsHash(t, h)
  PROVE  h \in Hash(t, ctx)
<1> DEFINE S == {c \in Keys : \A g \in Hash(u, c) : IsHash(t, g) => g \in Hash(t, c)}
<1>1. <<>> \in S
  BY KeysAre, HashOfRoot
<1>2. ASSUME NEW c \in Keys, NEW k \in Names, c \in S
      PROVE  Append(c, k) \in S
  <2>1. /\ Append(c, k) \in Keys
        /\ Hash(t, Append(c, k)) = Enter(t, Hash(t, c), k)
        /\ Hash(u, Append(c, k)) = Enter(u, Hash(u, c), k)
    BY KeysAre, HashIs
  <2>2. ASSUME NEW g \in Enter(u, Hash(u, c), k), IsHash(t, g)
        PROVE  g \in Enter(t, Hash(t, c), k)
    <3>1. PICK f \in Hash(u, c) : /\ At(f, k) \in DOMAIN u /\ u[At(f, k)].kind # "value"
                                  /\ g = Within(u, At(f, k))
      BY <2>2 DEF Enter
    <3>2. f \in Hashes
      BY HashesAreHashes DEF Keys
    <3> DEFINE at == At(f, k)
    <3>3. PICK i \in Nat : /\ g = Append(f, <<k, i>>)
                           /\ i = IF u[at].kind = "array" THEN u[at].n ELSE 0
      BY <3>1, <3>2, WithinIs
    <3>4. g # <<>> /\ Front(g) = f /\ Last(g)[1] = k /\ Last(g)[2] = i
      BY <3>2, <3>3, ElementIs
    <3>5. g \in DOMAIN t /\ t[g].kind = "table" /\ NodeFits(t, m, g)
      BY <2>2, <3>4, SoundNode DEF IsHash
    <3>6. IsHash(t, f)
      <4>1. ASSUME f # <<>>
            PROVE  Len(g) > 1
        <5>1. Len(f) \in Nat /\ Len(f) # 0 /\ Len(g) = Len(f) + 1
          <6>1. Len(f) \in Nat /\ Len(f) # 0
            BY <3>2, <4>1, EmptySeq, LenProperties DEF Hashes
          <6> QED
            BY <3>2, <3>3, <6>1, ElementIs
        <5> QED
          BY <5>1
      <4> QED
        BY <3>4, <3>5, <4>1 DEF NodeFits, IsHash
    <3>7. f \in Hash(t, c)
      BY <1>2, <3>6
    <3>8. at = Append(f, <<k, 0>>)
      BY <3>2, AtIs
    <3>9. at \in DOMAIN t /\ t[at].kind # "value" /\ Within(t, at) = g
      <4>1. CASE i = 0
        <5>1. at = g
          BY <3>3, <3>8, <4>1
        <5> HIDE DEF at
        <5> QED
          BY <3>5, <5>1 DEF Within
      <4>2. CASE i > 0
        <5>1. at \in DOMAIN t /\ t[at].kind = "array" /\ i <= t[at].n
          BY <3>4, <3>5, <4>2 DEF NodeFits
        <5>2. u[at].kind = "array" /\ (u[at] = t[at] \/ t[at].n < u[at].n)
          BY <5>1 DEF Grows
        <5>3. u[at].n = i /\ t[at].n \in Nat
          BY <3>3, <5>1, <5>2, SoundNode
        <5>4. t[at].n = i
          BY <5>1, <5>2, <5>3
        <5>5. Front(at) = f /\ Last(at)[1] = k
          BY <3>2, AtIs
        <5> HIDE DEF at
        <5> QED
          BY <3>3, <5>1, <5>4, <5>5 DEF Within
      <4> QED
        BY <3>3, <4>1, <4>2
    <3>10. t[at] # Array(0)
      BY <3>2, <3>9, WithinIs
    <3> HIDE DEF at
    <3>11. g \in {Within(t, At(b, k)) : b \in {a \in Hash(t, c) : /\ At(a, k) \in DOMAIN t
                                              /\ t[At(a, k)].kind # "value"
                                              /\ t[At(a, k)] # Array(0)}}
      BY <3>7, <3>9, <3>10, Zenon DEF at
    <3> QED
      BY <3>11, Zenon DEF Enter
  <2> QED
    BY <2>1, <2>2
<1> HIDE DEF S
<1>3. Keys \subseteq S
  BY <1>1, <1>2, KeyInduction
<1> QED
  BY <1>3 DEF S

-----------------------------------------------------------------------------
(* The nodes a key names, in any tree, and the place of a hash told by its *)
(* steps: each is to the last element if it is to an array of tables.      *)
NamedIn(t, key) ==
  {p \in DOMAIN t :
     /\ Len(p) = Len(key) /\ \A i \in 1 .. Len(key) : p[i][1] = key[i]
     /\ Last(p)[2] = 0
     /\ \A i \in 1 .. Len(key) - 1 :
          p[i][2] = t[Append(SubSeq(p, 1, i - 1), <<key[i], 0>>)].n}

Current(t, h, c) ==
  /\ Len(h) = Len(c)
  /\ \A i \in 1 .. Len(c) : /\ h[i][1] = c[i]
                            /\ h[i][2] = t[Append(SubSeq(h, 1, i - 1), <<c[i], 0>>)].n

LEMMA SubSeqOfAppended ==
  ASSUME NEW S, NEW s \in Seq(S), NEW x \in S
  PROVE  /\ SubSeq(Append(s, x), 1, Len(s)) = s
         /\ \A i \in 1 .. Len(s) : SubSeq(Append(s, x), 1, i - 1) = SubSeq(s, 1, i - 1)
<1> DEFINE a == Append(s, x)
<1>1. /\ a \in Seq(S) /\ Len(a) = Len(s) + 1 /\ Len(s) \in Nat
      /\ \A i \in 1 .. Len(s) : a[i] = s[i]
  BY AppendedIs, LenProperties
<1> HIDE DEF a
<1>2. ASSUME NEW r \in Seq(S), NEW n \in 0 .. Len(r)
      PROVE  /\ SubSeq(r, 1, n) \in Seq(S) /\ Len(SubSeq(r, 1, n)) = n
             /\ \A i \in 1 .. n : SubSeq(r, 1, n)[i] = r[i]
  <2>1. Len(r) \in Nat
    BY LenProperties
  <2> QED
    BY <2>1
<1>3. ASSUME NEW n \in 0 .. Len(s)
      PROVE  SubSeq(a, 1, n) = SubSeq(s, 1, n)
  <2>1. n \in 0 .. Len(a)
    BY <1>1
  <2>2. /\ SubSeq(a, 1, n) \in Seq(S) /\ Len(SubSeq(a, 1, n)) = n
        /\ \A i \in 1 .. n : SubSeq(a, 1, n)[i] = a[i]
    BY <1>1, <1>2, <2>1
  <2>3. /\ SubSeq(s, 1, n) \in Seq(S) /\ Len(SubSeq(s, 1, n)) = n
        /\ \A i \in 1 .. n : SubSeq(s, 1, n)[i] = s[i]
    BY <1>2
  <2>4. \A i \in 1 .. n : i \in 1 .. Len(s)
    BY <1>1
  <2> DEFINE b == SubSeq(a, 1, n)
             c == SubSeq(s, 1, n)
  <2>5. b \in Seq(S) /\ c \in Seq(S) /\ Len(b) = Len(c) /\ \A i \in 1 .. Len(b) : b[i] = c[i]
    BY <1>1, <2>2, <2>3, <2>4
  <2> HIDE DEF b, c
  <2>6. b = c
    BY <2>5, SeqEqual
  <2> QED
    BY <2>6 DEF b, c
<1>4. SubSeq(s, 1, Len(s)) = s
  <2> DEFINE b == SubSeq(s, 1, Len(s))
  <2>1. Len(s) \in 0 .. Len(s)
    BY <1>1
  <2>2. b \in Seq(S) /\ Len(b) = Len(s) /\ \A i \in 1 .. Len(s) : b[i] = s[i]
    BY <1>2, <2>1
  <2> HIDE DEF b
  <2>3. b = s
    BY <2>2, SeqEqual
  <2> QED
    BY <2>3 DEF b
<1>5. Len(s) \in 0 .. Len(s) /\ \A i \in 1 .. Len(s) : i - 1 \in 0 .. Len(s)
  BY <1>1
<1> QED
  BY <1>3, <1>4, <1>5 DEF a

(* A place with one step more, seen along a key with one name more.        *)
LEMMA CurrentStep ==
  ASSUME NEW t, NEW g \in Hashes, NEW j \in Names, NEW n \in Nat,
         NEW c \in Keys, NEW k \in Names
  PROVE  LET h == Append(g, <<j, n>>)
             d == Append(c, k)
         IN /\ Current(t, h, d) <=> /\ Current(t, g, c) /\ j = k
                                    /\ n = t[At(g, k)].n
            /\ h \in NamedIn(t, d) <=> /\ h \in DOMAIN t /\ Current(t, g, c)
                                       /\ j = k /\ n = 0
<1> DEFINE x == <<j, n>>
           h == Append(g, x)
           d == Append(c, k)
           Steady(f, b, i) == /\ f[i][1] = b[i]
                              /\ f[i][2] = t[Append(SubSeq(f, 1, i - 1), <<b[i], 0>>)].n
<1>1. x \in Steps /\ x[1] = j /\ x[2] = n
  BY DEF Steps
<1>2. /\ Len(g) \in Nat /\ Len(h) = Len(g) + 1 /\ h[Len(g) + 1] = x /\ Last(h) = x
      /\ \A i \in 1 .. Len(g) : h[i] = g[i]
      /\ SubSeq(h, 1, Len(g)) = g
      /\ \A i \in 1 .. Len(g) : SubSeq(h, 1, i - 1) = SubSeq(g, 1, i - 1)
  <2> HIDE DEF x
  <2> QED
    BY <1>1, AppendedIs, SubSeqOfAppended, LenProperties DEF Hashes
<1>3. /\ Len(c) \in Nat /\ Len(d) = Len(c) + 1 /\ d[Len(c) + 1] = k
      /\ \A i \in 1 .. Len(c) : d[i] = c[i]
  BY KeysAre
<1>4. At(g, k) = Append(g, <<k, 0>>)
  BY AtIs
<1> HIDE DEF x, h, d
<1>5. ASSUME Len(g) = Len(c), NEW i \in 1 .. Len(c)
      PROVE  Steady(h, d, i) <=> Steady(g, c, i)
  <2>1. i \in 1 .. Len(g)
    BY <1>5
  <2>2. h[i] = g[i] /\ d[i] = c[i] /\ SubSeq(h, 1, i - 1) = SubSeq(g, 1, i - 1)
    BY <1>2, <1>3, <1>5, <2>1
  <2> QED
    BY <2>2
<1>6. ASSUME Len(g) = Len(c)
      PROVE  Steady(h, d, Len(c) + 1) <=> j = k /\ n = t[At(g, k)].n
  <2>1. (Len(c) + 1) - 1 = Len(g)
    BY <1>3, <1>6
  <2>2. h[Len(c) + 1] = x /\ SubSeq(h, 1, (Len(c) + 1) - 1) = g
    BY <1>2, <1>6, <2>1
  <2> QED
    BY <1>1, <1>3, <1>4, <2>2
<1>7. ASSUME Len(g) = Len(c)
      PROVE  h[Len(c) + 1][1] = d[Len(c) + 1] <=> j = k
  BY <1>1, <1>2, <1>3, <1>7
<1>8. Len(h) = Len(d) <=> Len(g) = Len(c)
  BY <1>2, <1>3
<1>9. \A i \in 1 .. Len(d) : i \in 1 .. Len(c) \/ i = Len(c) + 1
  BY <1>3
<1>10. Len(d) - 1 = Len(c) /\ Len(c) + 1 \in 1 .. Len(d) /\ \A i \in 1 .. Len(c) : i \in 1 .. Len(d)
  BY <1>3
<1> HIDE DEF Steady
<1>11. Current(t, h, d) <=> Len(h) = Len(d) /\ \A i \in 1 .. Len(d) : Steady(h, d, i)
  BY DEF Current, Steady
<1>12. Current(t, g, c) <=> Len(g) = Len(c) /\ \A i \in 1 .. Len(c) : Steady(g, c, i)
  BY DEF Current, Steady
<1>13. Current(t, h, d) <=> Current(t, g, c) /\ j = k /\ n = t[At(g, k)].n
  BY <1>5, <1>6, <1>8, <1>9, <1>10, <1>11, <1>12
<1>14. h \in NamedIn(t, d) <=>
         /\ h \in DOMAIN t /\ Len(h) = Len(d) /\ \A i \in 1 .. Len(d) : h[i][1] = d[i]
         /\ n = 0
         /\ \A i \in 1 .. Len(c) : h[i][2] = t[Append(SubSeq(h, 1, i - 1), <<d[i], 0>>)].n
  BY <1>1, <1>2, <1>10 DEF NamedIn
<1>15. h \in NamedIn(t, d) <=>
         /\ h \in DOMAIN t /\ Len(h) = Len(d) /\ h[Len(c) + 1][1] = d[Len(c) + 1]
         /\ n = 0 /\ \A i \in 1 .. Len(c) : Steady(h, d, i)
  BY <1>9, <1>10, <1>14 DEF Steady
<1>16. h \in NamedIn(t, d) <=> h \in DOMAIN t /\ Current(t, g, c) /\ j = k /\ n = 0
  BY <1>5, <1>7, <1>8, <1>12, <1>15
<1> QED
  BY <1>13, <1>16 DEF h, d, x

LEMMA HashIsCurrent ==
  ASSUME NEW t, NEW m \in Nat, Sound(t, m), NEW ctx \in Keys, NEW h \in Hashes
  PROVE  h \in Hash(t, ctx) <=> IsHash(t, h) /\ Current(t, h, ctx)
<1> DEFINE S == {c \in Keys : \A g \in Hashes : g \in Hash(t, c) <=> IsHash(t, g) /\ Current(t, g, c)}
<1>1. <<>> \in S
  <2>1. ASSUME NEW g \in Hashes, Current(t, g, <<>>)
        PROVE  g = <<>>
    BY <2>1, EmptySeq DEF Current, Hashes
  <2>2. Current(t, <<>>, <<>>) /\ IsHash(t, <<>>)
    BY EmptySeq DEF Current, IsHash
  <2>3. \A g \in Hashes : g \in Hash(t, <<>>) <=> IsHash(t, g) /\ Current(t, g, <<>>)
    BY <2>1, <2>2, HashOfRoot
  <2> QED
    BY <2>3, KeysAre
<1>2. ASSUME NEW c \in Keys, NEW k \in Names, c \in S
      PROVE  Append(c, k) \in S
  <2>1. Append(c, k) \in Keys /\ Hash(t, Append(c, k)) = Enter(t, Hash(t, c), k)
    BY KeysAre, HashIs
  <2>2. ASSUME NEW g \in Enter(t, Hash(t, c), k)
        PROVE  IsHash(t, g) /\ Current(t, g, Append(c, k))
    <3>1. PICK f \in Hash(t, c) : /\ At(f, k) \in DOMAIN t /\ t[At(f, k)].kind # "value"
                                  /\ g = Within(t, At(f, k))
      BY DEF Enter
    <3>2. f \in Hashes /\ Current(t, f, c)
      BY <1>2, HashesAreHashes DEF Keys
    <3> DEFINE at == At(f, k)
    <3>3. PICK i \in Nat : /\ g = Append(f, <<k, i>>)
                           /\ i = IF t[at].kind = "array" THEN t[at].n ELSE 0
      BY <3>1, <3>2, WithinIs
    <3>4. IsHash(t, g)
      BY <3>1, <3>2, WithinIs
    <3>5. i = t[at].n
      <4>1. NodeFits(t, m, at) /\ t[at].kind \in {"table", "array", "value"}
        BY <3>1, SoundNode
      <4> HIDE DEF at
      <4>2. t[at].kind = "table" => t[at].n = 0
        BY <4>1 DEF NodeFits
      <4>3. t[at].kind # "value"
        BY <3>1 DEF at
      <4> QED
        BY <3>3, <4>1, <4>2, <4>3
    <3> HIDE DEF at
    <3>6. Current(t, Append(f, <<k, i>>), Append(c, k))
      BY <3>2, <3>5, CurrentStep DEF at
    <3> QED
      BY <3>3, <3>4, <3>6
  <2>3. ASSUME NEW g \in Hashes, IsHash(t, g), Current(t, g, Append(c, k))
        PROVE  g \in Enter(t, Hash(t, c), k)
    <3>1. g # <<>>
      <4>1. Len(g) = Len(c) + 1 /\ Len(c) \in Nat
        BY <2>3, KeysAre DEF Current
      <4> QED
        BY <4>1, EmptySeq
    <3>2. g \in DOMAIN t /\ t[g].kind = "table"
      BY <2>3, <3>1 DEF IsHash
    <3> DEFINE f == Front(g)
               j == Last(g)[1]
               n == Last(g)[2]
    <3>3. /\ f \in Hashes /\ j \in Names /\ n \in Nat /\ NodeFits(t, m, g)
          /\ Len(g) \in Nat \ {0} /\ Len(f) = Len(g) - 1
          /\ g = Append(f, Last(g)) /\ Last(g) \in Steps
      BY <3>2, SoundNode
    <3>4. g = Append(f, <<j, n>>)
      <4>1. Last(g) = <<Last(g)[1], Last(g)[2]>>
        BY <3>3 DEF Steps
      <4> QED
        BY <3>3, <4>1
    <3>5. IsHash(t, f)
      <4>1. ASSUME f # <<>>
            PROVE  Len(g) > 1
        <5>1. Len(f) # 0 /\ Len(f) \in Nat
          BY <3>3, <4>1, EmptySeq, LenProperties DEF Hashes
        <5> QED
          BY <3>3, <5>1
      <4> QED
        BY <3>3, <4>1 DEF NodeFits, IsHash
    <3>6. /\ n > 0 => /\ At(f, j) \in DOMAIN t /\ t[At(f, j)].kind = "array"
      BY <3>3 DEF NodeFits
    <3> HIDE DEF f, j, n
    <3>7. Current(t, f, c) /\ j = k /\ n = t[At(f, k)].n
      BY <2>3, <3>3, <3>4, CurrentStep
    <3>8. f \in Hash(t, c)
      BY <1>2, <3>3, <3>5, <3>7
    <3> DEFINE at == At(f, k)
    <3>9. at = Append(f, <<k, 0>>) /\ Front(at) = f /\ Last(at)[1] = k
      BY <3>3, <3>7, AtIs
    <3>10. at \in DOMAIN t /\ t[at].kind # "value" /\ Within(t, at) = g
      <4>1. CASE n = 0
        <5>1. at = g
          BY <3>4, <3>7, <3>9, <4>1
        <5> HIDE DEF at
        <5> QED
          BY <3>2, <5>1 DEF Within
      <4>2. CASE n > 0
        <5>1. at \in DOMAIN t /\ t[at].kind = "array" /\ n = t[at].n
          BY <3>6, <3>7, <4>2
        <5> HIDE DEF at
        <5> QED
          BY <3>4, <3>7, <3>9, <5>1 DEF Within
      <4> QED
        BY <3>3, <4>1, <4>2
    <3>11. t[at] # Array(0)
      BY <3>3, <3>7, <3>10, WithinIs
    <3> HIDE DEF at
    <3>12. g \in {Within(t, At(b, k)) : b \in {a \in Hash(t, c) : /\ At(a, k) \in DOMAIN t
                                              /\ t[At(a, k)].kind # "value"
                                              /\ t[At(a, k)] # Array(0)}}
      BY <3>8, <3>10, <3>11, Zenon DEF at
    <3> QED
      BY <3>12, Zenon DEF Enter
  <2> QED
    BY <2>1, <2>2, <2>3
<1> HIDE DEF S
<1>3. Keys \subseteq S
  BY <1>1, <1>2, KeyInduction
<1> QED
  BY <1>3 DEF S

(* A key names the node of its last name in the hash that setValue's walk  *)
(* comes to for the others.                                                *)
LEMMA NamedIs ==
  ASSUME NEW t, NEW m \in Nat, Sound(t, m), NEW c \in Keys, NEW k \in Names
  PROVE  NamedIn(t, Append(c, k)) = {At(h, k) : h \in Hash(t, c)} \cap DOMAIN t
<1>1. ASSUME NEW h \in Hash(t, c), At(h, k) \in DOMAIN t
      PROVE  At(h, k) \in NamedIn(t, Append(c, k))
  <2>1. h \in Hashes /\ Current(t, h, c)
    BY HashesAreHashes, HashIsCurrent DEF Keys
  <2>2. Append(h, <<k, 0>>) \in NamedIn(t, Append(c, k)) <=> Append(h, <<k, 0>>) \in DOMAIN t
    BY <2>1, CurrentStep
  <2> QED
    BY <1>1, <2>1, <2>2, AtIs
<1>2. ASSUME NEW p \in NamedIn(t, Append(c, k))
      PROVE  p \in DOMAIN t /\ \E h \in Hash(t, c) : p = At(h, k)
  <2>1. p \in DOMAIN t
    BY DEF NamedIn
  <2> DEFINE f == Front(p)
             j == Last(p)[1]
             n == Last(p)[2]
  <2>2. /\ f \in Hashes /\ j \in Names /\ n \in Nat /\ NodeFits(t, m, p)
        /\ Len(p) \in Nat \ {0} /\ Len(f) = Len(p) - 1
        /\ p = Append(f, Last(p)) /\ Last(p) \in Steps
    BY <2>1, SoundNode
  <2>3. p = Append(f, <<j, n>>)
    <3>1. Last(p) = <<Last(p)[1], Last(p)[2]>>
      BY <2>2 DEF Steps
    <3> QED
      BY <2>2, <3>1
  <2>4. IsHash(t, f)
    <3>1. ASSUME f # <<>>
          PROVE  Len(p) > 1
      <4>1. Len(f) # 0 /\ Len(f) \in Nat
        BY <2>2, <3>1, EmptySeq, LenProperties DEF Hashes
      <4> QED
        BY <2>2, <4>1
    <3> QED
      BY <2>2, <3>1 DEF NodeFits, IsHash
  <2> HIDE DEF f, j, n
  <2>5. Current(t, f, c) /\ j = k /\ n = 0
    <3>1. Append(f, <<j, n>>) \in NamedIn(t, Append(c, k))
      BY <1>2, <2>3
    <3>2. Append(f, <<j, n>>) \in NamedIn(t, Append(c, k)) <=>
            /\ Append(f, <<j, n>>) \in DOMAIN t /\ Current(t, f, c)
            /\ j = k /\ n = 0
      BY <2>2, CurrentStep
    <3> QED
      BY <3>1, <3>2
  <2>6. f \in Hash(t, c)
    BY <2>2, <2>4, <2>5, HashIsCurrent
  <2>7. p = At(f, k)
    BY <2>2, <2>3, <2>5, AtIs
  <2> QED
    BY <2>1, <2>6, <2>7
<1> QED
  BY <1>1, <1>2

LEMMA NamedIsOne ==
  ASSUME NEW t, NEW m \in Nat, Sound(t, m), NEW key \in Keys \ {<<>>},
         NEW p \in NamedIn(t, key), NEW q \in NamedIn(t, key)
  PROVE  p = q
<1> DEFINE c == Front(key)
           k == Last(key)
<1>1. c \in Keys /\ k \in Names /\ key = Append(c, k)
  BY FrontAndLast DEF Keys
<1> HIDE DEF c, k
<1> QED
  BY <1>1, NamedIs, HashIsOne

LEMMA NamedStays ==
  ASSUME NEW t, NEW m \in Nat, Sound(t, m), NEW u, NEW l \in Nat, Sound(u, l),
         Extends(t, u), NEW key \in Keys \ {<<>>}
  PROVE  NamedIn(t, key) \subseteq NamedIn(u, key)
<1> DEFINE c == Front(key)
           k == Last(key)
<1>1. c \in Keys /\ k \in Names /\ key = Append(c, k)
  BY FrontAndLast DEF Keys
<1> HIDE DEF c, k
<1>2. DOMAIN t \subseteq DOMAIN u
  BY DEF Extends
<1> QED
  BY <1>1, <1>2, NamedIs, HashStays

LEMMA NamedWas ==
  ASSUME NEW t, NEW m \in Nat, Sound(t, m), NEW u, NEW l \in Nat, Sound(u, l),
         Grows(t, u), NEW key \in Keys \ {<<>>}
  PROVE  NamedIn(u, key) \cap DOMAIN t \subseteq NamedIn(t, key)
<1> DEFINE c == Front(key)
           k == Last(key)
<1>1. c \in Keys /\ k \in Names /\ key = Append(c, k)
  BY FrontAndLast DEF Keys
<1> HIDE DEF c, k
<1> SUFFICES ASSUME NEW p \in NamedIn(u, key), p \in DOMAIN t
             PROVE  p \in NamedIn(t, key)
  OBVIOUS
<1>2. PICK h \in Hash(u, c) : p = At(h, k)
  BY <1>1, NamedIs
<1>3. h \in Hashes /\ Front(p) = h
  <2>1. h \in Hashes
    BY <1>1, HashesAreHashes DEF Keys
  <2> QED
    BY <1>1, <1>2, <2>1, AtIs
<1>4. IsHash(t, h)
  <2>1. NodeFits(t, m, p) /\ Len(p) \in Nat \ {0} /\ Len(Front(p)) = Len(p) - 1
    BY SoundNode
  <2>2. ASSUME h # <<>>
        PROVE  Len(p) > 1
    <3>1. Len(h) # 0 /\ Len(h) \in Nat
      BY <1>3, <2>2, EmptySeq, LenProperties DEF Hashes
    <3> QED
      BY <1>3, <2>1, <3>1
  <2> QED
    BY <1>3, <2>1, <2>2 DEF NodeFits, IsHash
<1>5. h \in Hash(t, c)
  BY <1>1, <1>4, HashWas
<1> QED
  BY <1>1, <1>2, <1>5, NamedIs

-----------------------------------------------------------------------------
(* establishContext's loop for a header that has one name more.            *)
LEMMA EstablishIs ==
  ASSUME NEW c \in Keys, NEW j \in Names, NEW k \in Names
  PROVE  /\ Establish(Append(<<>>, k)) =
              [hash |-> <<>>, key |-> <<>>, tree |-> tree,
               implicits |-> implicits, outcome |-> "reading"]
         /\ Establish(Append(Append(c, j), k)) = EnterOrCreate(Establish(Append(c, j)), j)
<1> DEFINE Start0 == [hash |-> <<>>, key |-> <<>>, tree |-> tree,
                      implicits |-> implicits, outcome |-> "reading"]
<1>1. Establish(Append(<<>>, k)) = Start0
  <2> DEFINE d == Append(<<>>, k)
  <2>1. Len(d) = 1
    BY KeysAre, EmptySeq
  <2> HIDE DEF d
  <2>2. Establishing(d)[0] = Start0
    BY <2>1, EstablishingIs
  <2>3. Establish(d) = Establishing(d)[Len(d) - 1] /\ Len(d) - 1 = 0
    BY <2>1 DEF Establish
  <2> QED
    BY <2>2, <2>3 DEF d
<1> DEFINE b == Append(c, j)
           d == Append(b, k)
           N == Len(c)
           s == Establishing(b)
           w == Establishing(d)
           Same == {i \in Nat : i <= N => w[i] = s[i]}
<1>2. /\ N \in Nat /\ Len(b) = N + 1 /\ Len(d) = N + 2 /\ b[N + 1] = j /\ d[N + 1] = j
      /\ \A i \in 1 .. N : b[i] = c[i] /\ d[i] = b[i]
  <2>1. b \in Keys /\ N \in Nat /\ Len(b) = N + 1 /\ b[N + 1] = j /\ \A i \in 1 .. N : b[i] = c[i]
    BY KeysAre
  <2> HIDE DEF b
  <2>2. Len(d) = (N + 1) + 1 /\ \A i \in 1 .. N + 1 : d[i] = b[i]
    BY <2>1, KeysAre
  <2>3. N + 1 \in 1 .. N + 1 /\ \A i \in 1 .. N : i \in 1 .. N + 1
    BY <2>1
  <2> QED
    BY <2>1, <2>2, <2>3
<1> HIDE DEF b, d
<1>3. s[0] = Start0 /\ \A i \in 1 .. N : s[i] = EnterOrCreate(s[i - 1], b[i])
  <2>1. Len(b) \in Nat \ {0} /\ Len(b) - 1 = N
    BY <1>2
  <2> QED
    BY <2>1, EstablishingIs
<1>4. w[0] = Start0 /\ \A i \in 1 .. N + 1 : w[i] = EnterOrCreate(w[i - 1], d[i])
  <2>1. Len(d) \in Nat \ {0} /\ Len(d) - 1 = N + 1
    BY <1>2
  <2> QED
    BY <2>1, EstablishingIs
<1> HIDE DEF s, w
<1>5. 0 \in Same
  BY <1>3, <1>4
<1>6. ASSUME NEW i \in Nat, i \in Same
      PROVE  i + 1 \in Same
  <2> SUFFICES ASSUME i + 1 <= N
               PROVE  w[i + 1] = s[i + 1]
    OBVIOUS
  <2>1. i + 1 \in 1 .. N /\ i + 1 \in 1 .. N + 1 /\ (i + 1) - 1 = i /\ w[i] = s[i]
    BY <1>2, <1>6
  <2> QED
    BY <1>2, <1>3, <1>4, <2>1
<1>7. w[N] = s[N]
  <2>1. Nat \subseteq Same
    <3> HIDE DEF Same
    <3> QED
      BY <1>5, <1>6, Induction
  <2> QED
    BY <1>2, <2>1
<1>8. w[N + 1] = EnterOrCreate(s[N], j)
  <2>1. N + 1 \in 1 .. N + 1 /\ (N + 1) - 1 = N
    BY <1>2
  <2> QED
    BY <1>2, <1>4, <1>7, <2>1
<1>9. Establish(b) = s[N] /\ Establish(d) = w[N + 1]
  <2>1. Len(b) - 1 = N /\ Len(d) - 1 = N + 1
    BY <1>2
  <2> QED
    BY <2>1 DEF Establish, s, w
<1> QED
  BY <1>1, <1>8, <1>9 DEF b, d

(* A key crosses a value if one of its parts, all of it included, names    *)
(* one.                                                                    *)
CrossesIn(t, c) ==
  \E i \in 1 .. Len(c) : \E p \in NamedIn(t, SubSeq(c, 1, i)) : t[p].kind = "value"

LEMMA CrossesStep ==
  ASSUME NEW t, NEW c \in Keys, NEW k \in Names
  PROVE  /\ ~CrossesIn(t, <<>>)
         /\ CrossesIn(t, Append(c, k)) <=>
              \/ CrossesIn(t, c)
              \/ \E p \in NamedIn(t, Append(c, k)) : t[p].kind = "value"
         /\ Crosses(Append(c, k)) <=> CrossesIn(tree, c)
<1> DEFINE d == Append(c, k)
           N == Len(c)
           Value0(b) == \E p \in NamedIn(t, b) : t[p].kind = "value"
<1>1. ~CrossesIn(t, <<>>)
  BY EmptySeq DEF CrossesIn
<1>2. N \in Nat /\ Len(d) = N + 1 /\ d \in Keys
  BY KeysAre
<1>3. SubSeq(d, 1, N) = c /\ \A i \in 1 .. N : SubSeq(d, 1, i - 1) = SubSeq(c, 1, i - 1)
  BY SubSeqOfAppended DEF Keys
<1>4. SubSeq(d, 1, N + 1) = d /\ SubSeq(c, 1, N) = c
  <2>1. ASSUME NEW b \in Keys
        PROVE  SubSeq(b, 1, Len(b)) = b
    <3> DEFINE a == SubSeq(b, 1, Len(b))
    <3>1. Len(b) \in Nat
      BY KeysAre
    <3>2. a \in Keys /\ Len(a) = Len(b) /\ \A i \in 1 .. Len(b) : a[i] = b[i]
      BY <3>1 DEF Keys
    <3> HIDE DEF a
    <3>3. a = b
      BY <3>2, SeqEqual DEF Keys
    <3> QED
      BY <3>3 DEF a
  <2> HIDE DEF d
  <2> QED
    BY <1>2, <2>1
<1> HIDE DEF d, Value0
<1>5. ASSUME NEW i \in 1 .. N
      PROVE  SubSeq(d, 1, i) = SubSeq(c, 1, i)
  <2>1. CASE i = N
    BY <1>3, <1>4, <2>1
  <2>2. CASE i # N
    <3>1. i + 1 \in 1 .. N /\ (i + 1) - 1 = i
      BY <1>2, <2>2
    <3> QED
      BY <1>3, <3>1
  <2> QED
    BY <2>1, <2>2
<1>6. CrossesIn(t, d) <=> \E i \in 1 .. N + 1 : Value0(SubSeq(d, 1, i))
  BY <1>2 DEF CrossesIn, Value0
<1>7. CrossesIn(t, c) <=> \E i \in 1 .. N : Value0(SubSeq(c, 1, i))
  BY DEF CrossesIn, Value0
<1>8. CrossesIn(t, d) <=> CrossesIn(t, c) \/ Value0(d)
  <2>1. \A i \in 1 .. N + 1 : i \in 1 .. N \/ i = N + 1
    BY <1>2
  <2>2. N + 1 \in 1 .. N + 1 /\ \A i \in 1 .. N : i \in 1 .. N + 1
    BY <1>2
  <2> QED
    BY <1>4, <1>5, <1>6, <1>7, <2>1, <2>2
<1>9. Crosses(d) <=> CrossesIn(tree, c)
  <2>1. Crosses(d) <=> \E i \in 1 .. Len(d) - 1 : \E p \in NamedIn(tree, SubSeq(d, 1, i)) :
                         tree[p].kind = "value"
    BY DEF Crosses, Named, NamedIn
  <2>2. Len(d) - 1 = N
    BY <1>2
  <2> QED
    BY <1>5, <2>1, <2>2 DEF CrossesIn
<1> QED
  BY <1>1, <1>8, <1>9 DEF d, Value0

LEMMA TableKeepsSound ==
  ASSUME NEW t, NEW m \in Nat, Sound(t, m), NEW h \in Hashes, IsHash(t, h),
         NEW k \in Names, At(h, k) \notin DOMAIN t
  PROVE  LET u == Over(t, One(At(h, k), Table))
         IN /\ Sound(u, m) /\ Extends(t, u) /\ Grows(t, u)
            /\ DOMAIN u = DOMAIN t \cup {At(h, k)} /\ u[At(h, k)] = Table
<1> DEFINE at == At(h, k)
           one == One(<<>>, Table)
           f == One(at, Table)
           u == Over(t, f)
<1>1. IsNew(one, m) /\ one[<<>>] = Table
  <2>1. Table \in [kind : {"table", "value"}, n : 0 .. m] /\ Table.n = 0
    BY DEF Table, Node
  <2> QED
    BY <2>1, OneIsNew, OneIs
<1>2. u = Over(t, Hang(at, one))
  <2>1. Hang(at, one) = f
    BY AtIs, OneHung
  <2> QED
    BY <2>1
<1>3. DOMAIN f = {at}
  BY OneIs
<1> HIDE DEF one, f
<1>4. /\ DOMAIN u = DOMAIN t \cup DOMAIN f /\ \A p \in DOMAIN t : u[p] = t[p]
  BY OverIs
<1> HIDE DEF u
<1>5. Sound(u, m) /\ Grows(t, u) /\ u[at] = Table
  <2>1. m <= m
    OBVIOUS
  <2> QED
    BY <1>1, <1>2, <2>1, HangKeepsSound
<1>6. Extends(t, u)
  BY <1>4 DEF Extends
<1> QED
  BY <1>3, <1>4, <1>5, <1>6 DEF u, f

LEMMA ExtendsGrows ==
  ASSUME NEW t, NEW u, Extends(t, u)
  PROVE  Grows(t, u)
BY DEF Extends, Grows

(* What establishContext has done when it has passed the names c of a      *)
(* header: all nodes are there and those it made are marked tables, or it  *)
(* has met a value.                                                        *)
NamesOf(c) == {c[i] : i \in 1 .. Len(c)}
Part(d, c) == Len(d) <= Len(c) /\ NamesOf(d) \subseteq NamesOf(c)

Made(s, p, c) ==
  /\ s.tree[p] = Table
  /\ \E d \in Keys \ {<<>>} : /\ Part(d, c)
                              /\ p \in NamedIn(s.tree, d) /\ String(d) \in s.implicits

Fresh(s, x, c) ==
  \E d \in Keys \ {<<>>} : /\ Part(d, c) /\ x = String(d)
                           /\ \E p \in NamedIn(s.tree, d) : p \notin DOMAIN tree

Prepared(s, c, m) ==
  /\ Sound(s.tree, m) /\ Extends(tree, s.tree)
  /\ s.outcome \in {"reading", "refused"}
  /\ s.outcome = "reading" => s.key = c /\ s.hash \in Hash(s.tree, c)
  /\ s.outcome = "refused" <=> CrossesIn(tree, c)
  /\ \A p \in DOMAIN s.tree \ DOMAIN tree : Made(s, p, c)
  /\ implicits \subseteq s.implicits
  /\ \A x \in s.implicits \ implicits : Fresh(s, x, c)

LEMMA RoundPrepares ==
  ASSUME NEW m \in Nat, Sound(tree, m), NEW c \in Keys, NEW k \in Names,
         NEW s, Prepared(s, c, m),
         s = [hash |-> s.hash, key |-> s.key, tree |-> s.tree,
              implicits |-> s.implicits, outcome |-> s.outcome]
  PROVE  Prepared(EnterOrCreate(s, k), Append(c, k), m)
<1> DEFINE d == Append(c, k)
           h == s.hash
           at == At(h, k)
           new == at \notin DOMAIN s.tree
           u == IF new THEN Over(s.tree, One(at, Table)) ELSE s.tree
           marks == IF new THEN AddImplicit(s.implicits, Append(s.key, k)) ELSE s.implicits
           e == EnterOrCreate(s, k)
<1>1. /\ d \in Keys \ {<<>>} /\ Part(d, d)
      /\ \A b \in Keys : Part(b, c) => Part(b, d)
  <2>1. /\ d \in Keys /\ d # <<>> /\ Len(d) = Len(c) + 1 /\ Len(c) \in Nat
        /\ \A i \in 1 .. Len(c) : d[i] = c[i]
    BY KeysAre
  <2> HIDE DEF d
  <2>2. \A i \in 1 .. Len(c) : i \in 1 .. Len(d)
    BY <2>1
  <2>3. \A b \in Keys : Len(b) \in Nat
    BY KeysAre
  <2>4. NamesOf(c) \subseteq NamesOf(d)
    BY <2>1, <2>2 DEF NamesOf
  <2> QED
    BY <2>1, <2>3, <2>4 DEF Part
<1>2. /\ Sound(s.tree, m) /\ Extends(tree, s.tree)
      /\ s.outcome \in {"reading", "refused"}
      /\ s.outcome = "reading" => s.key = c /\ s.hash \in Hash(s.tree, c)
      /\ s.outcome = "refused" <=> CrossesIn(tree, c)
      /\ \A p \in DOMAIN s.tree \ DOMAIN tree : Made(s, p, c)
      /\ implicits \subseteq s.implicits
      /\ \A x \in s.implicits \ implicits : Fresh(s, x, c)
  BY DEF Prepared
<1>3. CrossesIn(tree, d) <=> \/ CrossesIn(tree, c)
                             \/ \E p \in NamedIn(tree, d) : tree[p].kind = "value"
  BY CrossesStep
<1> SUFFICES Prepared(e, d, m)
  OBVIOUS
<1> HIDE DEF d
<1>4. CASE s.outcome = "refused"
  <2>1. e = s
    BY <1>4 DEF EnterOrCreate
  <2> HIDE DEF e
  <2>2. \A p \in DOMAIN s.tree \ DOMAIN tree : Made(s, p, d)
    BY <1>1, <1>2 DEF Made
  <2>3. \A x \in s.implicits \ implicits : Fresh(s, x, d)
    BY <1>1, <1>2 DEF Fresh
  <2> QED
    BY <1>2, <1>3, <1>4, <2>1, <2>2, <2>3 DEF Prepared
<1>5. CASE s.outcome = "reading"
  <2>1. /\ s.key = c /\ h \in Hash(s.tree, c) /\ ~CrossesIn(tree, c)
        /\ h \in Hashes /\ IsHash(s.tree, h)
    <3>1. s.key = c /\ h \in Hash(s.tree, c) /\ ~CrossesIn(tree, c)
      BY <1>2, <1>5
    <3> QED
      BY <1>2, <3>1, HashesAreHashes DEF Keys
  <2>2. Append(s.key, k) = d
    BY <2>1 DEF d
  <2>3. Hash(u, d) = Enter(u, Hash(u, c), k)
    BY HashIs DEF d
  <2>4. NamedIn(s.tree, d) = {At(g, k) : g \in Hash(s.tree, c)} \cap DOMAIN s.tree
    BY <1>2, NamedIs DEF d
  <2>5. e = CASE u[at].kind = "value" -> [s EXCEPT !.outcome = "refused"]
              [] u[at] = Array(0)     -> [s EXCEPT !.outcome = "panic"]
              [] OTHER -> [hash |-> Within(u, at), key |-> d, tree |-> u,
                           implicits |-> marks, outcome |-> "reading"]
    BY <1>5, <2>2 DEF EnterOrCreate
  <2>6. ASSUME NEW p \in NamedIn(tree, d)
        PROVE  p = at /\ at \in DOMAIN tree /\ s.tree[at] = tree[at] /\ ~new
    <3>1. p \in NamedIn(s.tree, d)
      BY <1>1, <1>2, NamedStays
    <3>2. p = at
      BY <2>1, <2>4, <3>1, HashIsOne
    <3>3. p \in DOMAIN tree
      BY DEF NamedIn
    <3> HIDE DEF at
    <3> QED
      BY <1>2, <3>2, <3>3 DEF Extends
  <2>7. CASE new
    <3>1. /\ u = Over(s.tree, One(at, Table))
          /\ marks = s.implicits \cup {String(d)}
      BY <2>2, <2>7 DEF AddImplicit
    <3>2. /\ Sound(u, m) /\ Extends(s.tree, u)
          /\ DOMAIN u = DOMAIN s.tree \cup {at} /\ u[at] = Table
      <4> HIDE DEF u
      <4> QED
        BY <1>2, <2>1, <2>7, <3>1, TableKeepsSound
    <3> HIDE DEF u, marks, at
    <3>3. h \in Hash(u, c)
      BY <2>1, <3>2, HashStays
    <3>4. /\ at \in DOMAIN u /\ u[at].kind = "table" /\ u[at] # Array(0)
          /\ Within(u, at) = at
      BY <3>2 DEF Table, Array, Node, Within
    <3>5. at \in Hash(u, d)
      <4>1. at \in {Within(u, At(b, k)) : b \in {a \in Hash(u, c) : /\ At(a, k) \in DOMAIN u
                                              /\ u[At(a, k)].kind # "value"
                                              /\ u[At(a, k)] # Array(0)}}
        BY <3>3, <3>4 DEF at
      <4> QED
        BY <2>3, <4>1, Zenon DEF Enter
    <3>6. at \in NamedIn(u, d)
      BY <3>2, <3>3, <3>4, NamedIs DEF at, d
    <3>7. ~CrossesIn(tree, d)
      BY <1>3, <2>1, <2>6, <2>7
    <3> HIDE DEF e
    <3>8. e = [hash |-> at, key |-> d, tree |-> u, implicits |-> marks, outcome |-> "reading"]
      BY <2>5, <3>4
    <3>9. /\ e.hash = at /\ e.key = d /\ e.tree = u /\ e.implicits = marks
          /\ e.outcome = "reading"
      BY <3>8
    <3>10. Extends(tree, u)
      BY <1>2, <3>2 DEF Extends
    <3>11. ASSUME NEW b \in Keys \ {<<>>}
           PROVE  NamedIn(s.tree, b) \subseteq NamedIn(u, b)
      BY <1>2, <3>2, NamedStays
    <3>12. ASSUME NEW p \in DOMAIN u \ DOMAIN tree
           PROVE  Made(e, p, d)
      <4>1. CASE p = at
        BY <1>1, <3>1, <3>2, <3>6, <3>9, <4>1 DEF Made
      <4>2. CASE p # at
        <5>1. p \in DOMAIN s.tree \ DOMAIN tree
          BY <3>2, <4>2
        <5>2. Made(s, p, c)
          BY <1>2, <5>1
        <5>3. u[p] = Table
          BY <3>2, <5>1, <5>2 DEF Extends, Made
        <5> QED
          BY <1>1, <3>1, <3>9, <3>11, <5>2, <5>3 DEF Made
      <4> QED
        BY <4>1, <4>2
    <3>13. ASSUME NEW x \in marks \ implicits
           PROVE  Fresh(e, x, d)
      <4>1. CASE x = String(d)
        <5>1. at \notin DOMAIN tree
          BY <1>2, <2>7 DEF Extends, at
        <5> QED
          BY <1>1, <3>6, <3>9, <4>1, <5>1 DEF Fresh
      <4>2. CASE x # String(d)
        <5>1. Fresh(s, x, c)
          BY <1>2, <3>1, <4>2
        <5> QED
          BY <1>1, <3>9, <3>11, <5>1 DEF Fresh
      <4> QED
        BY <4>1, <4>2
    <3> QED
      BY <1>2, <3>1, <3>2, <3>5, <3>7, <3>9, <3>10, <3>12, <3>13 DEF Prepared
  <2>8. CASE ~new
    <3>1. u = s.tree /\ marks = s.implicits /\ at \in DOMAIN s.tree
      BY <2>8
    <3> HIDE DEF u, marks, at
    <3>2. at \in NamedIn(s.tree, d)
      BY <2>1, <2>4, <3>1 DEF at
    <3>3. \A p \in DOMAIN s.tree \ DOMAIN tree : s.tree[p] = Table
      BY <1>2 DEF Made
    <3>4. CrossesIn(tree, d) <=> u[at].kind = "value"
      <4>1. ASSUME u[at].kind = "value"
            PROVE  CrossesIn(tree, d)
        <5>1. at \in DOMAIN tree
          BY <3>1, <3>3, <4>1 DEF Table, Node
        <5>2. Grows(tree, s.tree)
          BY <1>2, ExtendsGrows
        <5>3. at \in NamedIn(tree, d)
          BY <1>1, <1>2, <3>2, <5>1, <5>2, NamedWas
        <5>4. tree[at].kind = "value"
          BY <1>2, <3>1, <4>1, <5>1 DEF Extends
        <5> QED
          BY <1>3, <5>3, <5>4
      <4>2. ASSUME CrossesIn(tree, d)
            PROVE  u[at].kind = "value"
        <5>1. PICK p \in NamedIn(tree, d) : tree[p].kind = "value"
          BY <1>3, <2>1, <4>2
        <5> QED
          BY <2>6, <3>1, <5>1 DEF at
      <4> QED
        BY <4>1, <4>2
    <3>5. CASE u[at].kind = "value"
      <4>1. u[at] # Array(0)
        BY <3>5 DEF Array, Node
      <4> HIDE DEF e
      <4>2. e = [s EXCEPT !.outcome = "refused"]
        BY <2>5, <3>5, <4>1
      <4>3. e.outcome = "refused" /\ e.tree = s.tree /\ e.implicits = s.implicits
        BY <4>2
      <4>4. \A p \in DOMAIN s.tree \ DOMAIN tree : Made(e, p, d)
        BY <1>1, <1>2, <4>3 DEF Made
      <4>5. \A x \in s.implicits \ implicits : Fresh(e, x, d)
        BY <1>1, <1>2, <4>3 DEF Fresh
      <4> QED
        BY <1>2, <3>4, <3>5, <4>3, <4>4, <4>5 DEF Prepared
    <3>6. CASE u[at].kind # "value"
      <4>1. u[at] # Array(0)
        BY <1>2, <2>1, <3>1, <3>6, WithinIs DEF at
      <4> HIDE DEF e
      <4>2. e = [hash |-> Within(u, at), key |-> d, tree |-> u,
                 implicits |-> marks, outcome |-> "reading"]
        BY <2>5, <3>6, <4>1
      <4>3. /\ e.hash = Within(u, at) /\ e.key = d /\ e.tree = s.tree
            /\ e.implicits = s.implicits /\ e.outcome = "reading"
        BY <3>1, <4>2
      <4>4. Within(u, at) \in Hash(s.tree, d)
        <5>1. Within(u, at) \in {Within(u, At(b, k)) : b \in {a \in Hash(u, c) : /\ At(a, k) \in DOMAIN u
                                              /\ u[At(a, k)].kind # "value"
                                              /\ u[At(a, k)] # Array(0)}}
          BY <2>1, <3>1, <3>6, <4>1 DEF at
        <5> QED
          BY <2>3, <3>1, <5>1, Zenon DEF Enter
      <4>5. \A p \in DOMAIN s.tree \ DOMAIN tree : Made(e, p, d)
        BY <1>1, <1>2, <4>3 DEF Made
      <4>6. \A x \in s.implicits \ implicits : Fresh(e, x, d)
        BY <1>1, <1>2, <4>3 DEF Fresh
      <4> QED
        BY <1>2, <3>4, <3>6, <4>3, <4>4, <4>5, <4>6 DEF Prepared
    <3> QED
      BY <3>5, <3>6
  <2> QED
    BY <2>7, <2>8
<1> QED
  BY <1>2, <1>4, <1>5

LEMMA EstablishPrepares ==
  ASSUME NEW m \in Nat, Sound(tree, m), NEW key \in Keys \ {<<>>}
  PROVE  Prepared(Establish(key), Front(key), m)
<1> DEFINE S == {c \in Keys : \A k \in Names : Prepared(Establish(Append(c, k)), c, m)}
<1>1. <<>> \in S
  <2> SUFFICES ASSUME NEW k \in Names
               PROVE  Prepared(Establish(Append(<<>>, k)), <<>>, m)
    BY KeysAre
  <2> DEFINE s == Establish(Append(<<>>, k))
  <2>1. s = [hash |-> <<>>, key |-> <<>>, tree |-> tree,
             implicits |-> implicits, outcome |-> "reading"]
    BY KeysAre, EstablishIs
  <2> HIDE DEF s
  <2>2. /\ s.hash = <<>> /\ s.key = <<>> /\ s.tree = tree
        /\ s.implicits = implicits /\ s.outcome = "reading"
    BY <2>1
  <2>3. s.hash \in Hash(s.tree, <<>>)
    BY <2>2, HashOfRoot
  <2>4. ~CrossesIn(tree, <<>>) /\ Extends(tree, tree)
    BY KeysAre, CrossesStep DEF Extends
  <2>5. Prepared(s, <<>>, m)
    BY <2>2, <2>3, <2>4 DEF Prepared
  <2> QED
    BY <2>5 DEF s
<1>2. ASSUME NEW c \in Keys, NEW j \in Names, c \in S
      PROVE  Append(c, j) \in S
  <2>1. Append(c, j) \in Keys \ {<<>>}
    BY KeysAre
  <2> SUFFICES ASSUME NEW k \in Names
               PROVE  Prepared(Establish(Append(Append(c, j), k)), Append(c, j), m)
    BY <2>1
  <2> DEFINE s == Establish(Append(c, j))
  <2>2. Establish(Append(Append(c, j), k)) = EnterOrCreate(s, j)
    BY EstablishIs
  <2>3. Prepared(s, c, m)
    BY <1>2
  <2>4. Entered(s, tree, m)
    BY <2>1, EstablishEnters DEF Keys
  <2> HIDE DEF s
  <2>5. s = [hash |-> s.hash, key |-> s.key, tree |-> s.tree,
             implicits |-> s.implicits, outcome |-> s.outcome]
    BY <2>4 DEF Entered
  <2> QED
    BY <2>2, <2>3, <2>5, RoundPrepares
<1> HIDE DEF S
<1>3. Keys \subseteq S
  BY <1>1, <1>2, KeyInduction
<1>4. Front(key) \in Keys /\ Last(key) \in Names /\ key = Append(Front(key), Last(key))
  BY FrontAndLast DEF Keys
<1> QED
  BY <1>3, <1>4 DEF S

-----------------------------------------------------------------------------
(* A node has one key at most, and it is as long as its place.             *)
LEMMA KeyIsOne ==
  ASSUME NEW t, NEW u, NEW c \in Keys, NEW d \in Keys,
         NEW p \in NamedIn(t, c), p \in NamedIn(u, d)
  PROVE  c = d
<1>1. /\ Len(p) = Len(c) /\ \A i \in 1 .. Len(c) : p[i][1] = c[i]
      /\ Len(p) = Len(d) /\ \A i \in 1 .. Len(d) : p[i][1] = d[i]
  BY DEF NamedIn
<1>2. Len(c) = Len(d) /\ \A i \in 1 .. Len(c) : c[i] = d[i]
  BY <1>1
<1> QED
  BY <1>2, SeqEqual DEF Keys

(* Where the walk comes to depends on no node further down.                *)
LEMMA HashStaysBelow ==
  ASSUME NEW t, NEW m \in Nat, Sound(t, m), NEW u, NEW ctx \in Keys,
         \A p \in DOMAIN t : Len(p) <= Len(ctx) => p \in DOMAIN u /\ u[p] = t[p]
  PROVE  Hash(t, ctx) \subseteq Hash(u, ctx)
<1> DEFINE Same(c) == \A p \in DOMAIN t : Len(p) <= Len(c) => p \in DOMAIN u /\ u[p] = t[p]
           S == {c \in Keys : Same(c) => Hash(t, c) \subseteq Hash(u, c)}
<1>1. <<>> \in S
  BY KeysAre, HashOfRoot
<1>2. ASSUME NEW c \in Keys, NEW k \in Names, c \in S
      PROVE  Append(c, k) \in S
  <2>1. /\ Append(c, k) \in Keys /\ Len(Append(c, k)) = Len(c) + 1 /\ Len(c) \in Nat
        /\ Hash(t, Append(c, k)) = Enter(t, Hash(t, c), k)
        /\ Hash(u, Append(c, k)) = Enter(u, Hash(u, c), k)
    BY KeysAre, HashIs
  <2> SUFFICES ASSUME Same(Append(c, k))
               PROVE  Enter(t, Hash(t, c), k) \subseteq Enter(u, Hash(u, c), k)
    BY <2>1
  <2>2. Same(c)
    <3> SUFFICES ASSUME NEW p \in DOMAIN t, Len(p) <= Len(c)
                 PROVE  p \in DOMAIN u /\ u[p] = t[p]
      OBVIOUS
    <3>1. Len(p) \in Nat
      BY SoundNode
    <3>2. Len(p) <= Len(Append(c, k))
      BY <2>1, <3>1
    <3> QED
      BY <3>2
  <2>3. Hash(t, c) \subseteq Hash(u, c)
    BY <1>2, <2>2
  <2>4. ASSUME NEW h \in Hash(t, c), At(h, k) \in DOMAIN t
        PROVE  /\ h \in Hash(u, c) /\ At(h, k) \in DOMAIN u
               /\ u[At(h, k)] = t[At(h, k)] /\ Within(u, At(h, k)) = Within(t, At(h, k))
    <3>1. h \in Hashes /\ Len(h) = Len(c)
      <4>1. h \in Hashes
        BY HashesAreHashes DEF Keys
      <4> QED
        BY <4>1, HashIsCurrent DEF Current
    <3>2. Len(At(h, k)) = Len(c) + 1
      BY <3>1, AtIs
    <3>3. Len(At(h, k)) <= Len(Append(c, k))
      BY <2>1, <3>2
    <3>4. At(h, k) \in DOMAIN u /\ u[At(h, k)] = t[At(h, k)]
      BY <2>4, <3>3
    <3> QED
      BY <2>3, <3>4 DEF Within
  <2> QED
    BY <2>4 DEF Enter
<1> HIDE DEF S
<1>3. Keys \subseteq S
  BY <1>1, <1>2, KeyInduction
<1> QED
  BY <1>3 DEF S

(* What setValue and the end of establishContext for an array do.          *)
LEMMA SetValueDoes ==
  ASSUME NEW s, {"tree", "implicits", "outcome"} \subseteq DOMAIN s,
         NEW c, NEW k, NEW new
  PROVE  LET v == SetValue(s, c, k, new)
             mark == String(Append(c, k))
         IN \/ /\ Hash(s.tree, c) = {}
               /\ v.outcome = "panic" /\ v.tree = s.tree
            \/ \E h \in Hash(s.tree, c) :
                 \/ /\ At(h, k) \notin DOMAIN s.tree
                    /\ v.tree = Over(s.tree, Hang(At(h, k), new))
                    /\ v.implicits = s.implicits /\ v.outcome = s.outcome
                 \/ /\ At(h, k) \in DOMAIN s.tree /\ mark \in s.implicits
                    /\ v.tree = s.tree /\ v.implicits = s.implicits \ {mark}
                    /\ v.outcome = s.outcome
                 \/ /\ At(h, k) \in DOMAIN s.tree /\ mark \notin s.implicits
                    /\ v.tree = s.tree /\ v.outcome = "refused"
<1> DEFINE hs == Hash(s.tree, c)
           h == CHOOSE g \in hs : TRUE
           at == At(h, k)
           mark == String(Append(c, k))
           u == Over(s.tree, Hang(at, new))
           left == s.implicits \ {mark}
           v == SetValue(s, c, k, new)
<1>1. v = IF hs = {} THEN [s EXCEPT !.outcome = "panic"]
          ELSE IF at \notin DOMAIN s.tree THEN [s EXCEPT !.tree = u]
          ELSE IF mark \in s.implicits THEN [s EXCEPT !.implicits = left]
          ELSE [s EXCEPT !.outcome = "refused"]
  BY DEF SetValue, RemoveImplicit
<1>2. hs # {} => h \in hs
  OBVIOUS
<1>3. at = At(h, k)
  OBVIOUS
<1> HIDE DEF at, u, left, h, mark, hs
<1>4. CASE hs = {}
  <2>1. v = [s EXCEPT !.outcome = "panic"]
    BY <1>1, <1>4
  <2> HIDE DEF v
  <2>2. v.outcome = "panic" /\ v.tree = s.tree
    BY <2>1
  <2> QED
    BY <1>4, <2>2 DEF hs, v
<1>5. CASE hs # {} /\ at \notin DOMAIN s.tree
  <2>1. v = [s EXCEPT !.tree = u]
    BY <1>1, <1>5
  <2> HIDE DEF v
  <2>2. v.tree = u /\ v.implicits = s.implicits /\ v.outcome = s.outcome
    BY <2>1
  <2>3. h \in hs
    BY <1>2, <1>5
  <2> QED
    BY <1>3, <1>5, <2>2, <2>3 DEF hs, v, u
<1>6. CASE hs # {} /\ at \in DOMAIN s.tree /\ mark \in s.implicits
  <2>1. v = [s EXCEPT !.implicits = left]
    BY <1>1, <1>6
  <2> HIDE DEF v
  <2>2. v.tree = s.tree /\ v.implicits = left /\ v.outcome = s.outcome
    BY <2>1
  <2>3. h \in hs
    BY <1>2, <1>6
  <2> QED
    BY <1>3, <1>6, <2>2, <2>3 DEF hs, v, left, mark
<1>7. CASE hs # {} /\ at \in DOMAIN s.tree /\ mark \notin s.implicits
  <2>1. v = [s EXCEPT !.outcome = "refused"]
    BY <1>1, <1>7
  <2> HIDE DEF v
  <2>2. v.tree = s.tree /\ v.outcome = "refused"
    BY <2>1
  <2>3. h \in hs
    BY <1>2, <1>7
  <2> QED
    BY <1>3, <1>7, <2>2, <2>3 DEF hs, v, mark
<1> QED
  BY <1>4, <1>5, <1>6, <1>7

LEMMA AddElementDoes ==
  ASSUME NEW s, {"tree", "implicits", "outcome"} \subseteq DOMAIN s, NEW k
  PROVE  LET v == AddElement(s, k)
             at == At(s.hash, k)
         IN \/ /\ at \in DOMAIN s.tree /\ s.tree[at].kind # "array"
               /\ v.outcome = "refused" /\ v.tree = s.tree
            \/ /\ at \notin DOMAIN s.tree \/ s.tree[at].kind = "array"
               /\ v.tree = Over(Element(s, k, IF at \in DOMAIN s.tree
                                              THEN s.tree[at].n + 1 ELSE 1), s.tree)
               /\ v.implicits = s.implicits /\ v.outcome = s.outcome
<1> DEFINE at == At(s.hash, k)
           u == Over(Element(s, k, IF at \in DOMAIN s.tree
                                   THEN s.tree[at].n + 1 ELSE 1), s.tree)
           refused == at \in DOMAIN s.tree /\ s.tree[at].kind # "array"
           v == AddElement(s, k)
<1>1. v = IF refused THEN [s EXCEPT !.outcome = "refused"] ELSE [s EXCEPT !.tree = u]
  BY DEF AddElement
<1>2. refused <=> at \in DOMAIN s.tree /\ s.tree[at].kind # "array"
  OBVIOUS
<1> HIDE DEF u, refused
<1>3. CASE refused
  <2>1. v = [s EXCEPT !.outcome = "refused"]
    BY <1>1, <1>3
  <2> HIDE DEF v
  <2>2. v.outcome = "refused" /\ v.tree = s.tree
    BY <2>1
  <2> QED
    BY <1>2, <1>3, <2>2 DEF v
<1>4. CASE ~refused
  <2>1. v = [s EXCEPT !.tree = u]
    BY <1>1, <1>4
  <2> HIDE DEF v
  <2>2. v.tree = u /\ v.implicits = s.implicits /\ v.outcome = s.outcome
    BY <2>1
  <2> QED
    BY <1>2, <1>4, <2>2 DEF v, u
<1> QED
  BY <1>3, <1>4

(* What a new value, or a new table, adds to the nodes and to their keys.  *)
LEMMA HangNames ==
  ASSUME NEW t, NEW m \in Nat, Sound(t, m), NEW c \in Keys, NEW k \in Names,
         NEW h \in Hash(t, c), At(h, k) \notin DOMAIN t,
         NEW l \in Nat, m <= l, NEW new, IsNew(new, l)
  PROVE  LET at == At(h, k)
             u == Over(t, Hang(at, new))
             d == Append(c, k)
         IN /\ Sound(u, l) /\ Extends(t, u)
            /\ at \in NamedIn(u, d) /\ u[at] = new[<<>>] /\ at \in Hashes
            /\ \A p \in DOMAIN u \ DOMAIN t :
                 p = at \/ \E f \in Names : /\ p = At(at, f) /\ At(<<>>, f) \in DOMAIN new
                                            /\ p \in NamedIn(u, Append(d, f))
                                            /\ u[p].kind = "value"
            /\ \A f \in Names : At(<<>>, f) \in DOMAIN new =>
                 At(at, f) \in DOMAIN u \ DOMAIN t /\ u[At(at, f)].kind = "value"
<1> DEFINE at == At(h, k)
           g == Hang(at, new)
           u == Over(t, g)
           d == Append(c, k)
<1>1. h \in Hashes /\ IsHash(t, h) /\ d \in Keys
  BY HashesAreHashes, KeysAre DEF Keys
<1>2. /\ at \in Hashes /\ at # <<>> /\ Len(at) \in Nat \ {0}
  <2>1. at \in Hashes /\ at # <<>>
    BY <1>1, AtIs
  <2> QED
    BY <2>1, EmptySeq, LenProperties DEF Hashes
<1>3. /\ Sound(u, l) /\ at \in DOMAIN u /\ u[at] = new[<<>>]
      /\ \A p \in DOMAIN t : p \in DOMAIN u /\ u[p] = t[p]
  BY <1>1, HangKeepsSound
<1>4. /\ at \in DOMAIN g
      /\ \A p \in DOMAIN g :
           \/ p = at
           \/ \E f \in Names : /\ p = At(at, f) /\ At(<<>>, f) \in DOMAIN new
                               /\ g[p] = new[At(<<>>, f)]
      /\ \A f \in Names : At(<<>>, f) \in DOMAIN new => At(at, f) \in DOMAIN g
  BY <1>2, HangIs
<1> HIDE DEF at, g
<1>5. /\ DOMAIN u = DOMAIN t \cup DOMAIN g
      /\ \A p \in DOMAIN g \ DOMAIN t : u[p] = g[p]
  BY OverIs
<1> HIDE DEF u, d
<1>6. Extends(t, u)
  BY <1>3 DEF Extends
<1>7. h \in Hash(u, c)
  BY <1>6, HashStays
<1>8. at \in NamedIn(u, d)
  BY <1>3, <1>7, NamedIs DEF at, d
<1>9. ASSUME NEW f \in Names, At(<<>>, f) \in DOMAIN new
      PROVE  /\ At(at, f) \in DOMAIN u \ DOMAIN t /\ u[At(at, f)].kind = "value"
             /\ At(at, f) \in NamedIn(u, Append(d, f)) /\ At(at, f) # at
  <2> DEFINE p == At(at, f)
  <2>1. /\ p \in Hashes /\ Len(p) = Len(at) + 1 /\ Front(p) = at
        /\ Last(p)[2] = 0
    BY <1>2, AtIs
  <2>2. p \in DOMAIN g /\ At(<<>>, f) # <<>>
    <3>1. <<>> \in Hashes
      BY EmptySeq DEF Hashes
    <3> QED
      BY <1>4, <1>9, <3>1, AtIs
  <2> HIDE DEF p
  <2>3. p # at
    BY <1>2, <2>1
  <2>4. new[At(<<>>, f)].kind = "value" /\ new[<<>>].kind = "table" /\ new[<<>>].n = 0
    BY <1>9, <2>2 DEF IsNew
  <2>5. p \notin DOMAIN t
    <3>1. ASSUME p \in DOMAIN t
          PROVE  at \in DOMAIN t
      <4>1. NodeFits(t, m, p)
        BY <3>1, SoundNode
      <4>2. Len(p) > 1
        BY <1>2, <2>1
      <4> QED
        BY <2>1, <4>1, <4>2 DEF NodeFits
    <3> QED
      BY <3>1 DEF at
  <2>6. PICK b \in Names : p = At(at, b) /\ At(<<>>, b) \in DOMAIN new /\ g[p] = new[At(<<>>, b)]
    BY <1>4, <2>2, <2>3
  <2>7. b = f
    <3>1. Append(at, <<b, 0>>) = Append(at, <<f, 0>>)
      BY <1>2, <2>6, AtIs DEF p
    <3> QED
      BY <1>2, <3>1, ElementsDiffer
  <2>8. u[p] = new[At(<<>>, f)] /\ p \in DOMAIN u
    BY <1>5, <2>2, <2>5, <2>6, <2>7
  <2>9. at \in Hash(u, d)
    <3>1. /\ at \in DOMAIN u /\ u[at].kind = "table" /\ Within(u, at) = at
          /\ u[at] # Array(0)
      BY <1>3, <2>4 DEF Within, Array, Node
    <3>2. Hash(u, d) = Enter(u, Hash(u, c), k)
      BY HashIs DEF d
    <3>3. at \in {Within(u, At(b0, k)) : b0 \in {a \in Hash(u, c) : /\ At(a, k) \in DOMAIN u
                                              /\ u[At(a, k)].kind # "value"
                                              /\ u[At(a, k)] # Array(0)}}
      BY <1>7, <3>1 DEF at
    <3> QED
      BY <3>2, <3>3, Zenon DEF Enter
  <2>10. p \in NamedIn(u, Append(d, f))
    BY <1>1, <1>3, <2>8, <2>9, NamedIs DEF p, d
  <2> QED
    BY <2>3, <2>4, <2>5, <2>8, <2>10 DEF p
<1>10. ASSUME NEW p \in DOMAIN u \ DOMAIN t, p # at
       PROVE  \E f \in Names : /\ p = At(at, f) /\ At(<<>>, f) \in DOMAIN new
                               /\ p \in NamedIn(u, Append(d, f)) /\ u[p].kind = "value"
  <2>1. p \in DOMAIN g
    BY <1>5
  <2>2. PICK f \in Names : p = At(at, f) /\ At(<<>>, f) \in DOMAIN new
    BY <1>4, <1>10, <2>1
  <2> QED
    BY <1>9, <2>2
<1> QED
  BY <1>2, <1>3, <1>6, <1>8, <1>9, <1>10 DEF at, g, u, d

(* And what one more table of an array adds: none that a key names.        *)
LEMMA ElementNames ==
  ASSUME NEW t, NEW m \in Nat, Sound(t, m), NEW c \in Keys, NEW k \in Names,
         NEW h \in Hash(t, c), NEW n \in Nat,
         IsNext(t, At(h, k), n)
  PROVE  LET at == At(h, k)
             u == WithElement(t, h, k, n)
             d == Append(c, k)
         IN /\ Sound(u, m + 1) /\ Grows(t, u) /\ (at \notin DOMAIN t => Extends(t, u))
            /\ at \in NamedIn(u, d) /\ u[at].kind = "array" /\ Hash(u, d) # {}
            /\ \A p \in DOMAIN u \ DOMAIN t :
                 p = at \/ (u[p] = Table /\ \A b : p \notin NamedIn(u, b))
<1> DEFINE at == At(h, k)
           e == Append(h, <<k, n>>)
           u == Over(Over(One(at, Array(n)), One(e, Table)), t)
           d == Append(c, k)
<1>1. h \in Hashes /\ IsHash(t, h) /\ d \in Keys /\ Len(h) = Len(c)
  <2>1. h \in Hashes /\ IsHash(t, h) /\ d \in Keys
    BY HashesAreHashes, KeysAre DEF Keys
  <2> QED
    BY <2>1, HashIsCurrent DEF Current
<1>2. /\ Sound(u, m + 1) /\ Grows(t, u)
      /\ at \in DOMAIN u /\ u[at] = Array(n)
      /\ e \notin DOMAIN t
      /\ DOMAIN u = DOMAIN t \cup {at, e}
      /\ \A p \in DOMAIN t : p # at => u[p] = t[p]
      /\ u[e] = Table
  <2>1. u = WithElement(t, h, k, n)
    BY DEF WithElement
  <2> HIDE DEF u, at, e
  <2>2. Sound(u, m + 1) /\ Grows(t, u) /\ HasElement(t, u, At(h, k), Append(h, <<k, n>>), n)
    BY <1>1, <2>1, ElementKeepsSound
  <2>3. HasElement(t, u, at, e, n)
    BY <2>2 DEF at, e
  <2> QED
    BY <2>2, <2>3 DEF HasElement
<1>3. Last(e)[2] = n /\ Len(at) = Len(h) + 1
  BY <1>1, ElementIs, AtIs
<1> HIDE DEF u
<1>4. n > 0
  <2>1. at \in DOMAIN t => t[at].n \in Nat
    BY SoundNode
  <2> QED
    BY <2>1 DEF IsNext
<1>5. ASSUME at \notin DOMAIN t
      PROVE  Extends(t, u)
  <2> HIDE DEF at, e
  <2> QED
    BY <1>2, <1>5 DEF Extends
<1>6. h \in Hash(u, c)
  <2>1. ASSUME NEW p \in DOMAIN t, Len(p) <= Len(c)
        PROVE  p \in DOMAIN u /\ u[p] = t[p]
    <3>1. p # at
      <4>1. Len(c) \in Nat
        BY KeysAre
      <4> QED
        BY <1>1, <1>3, <2>1, <4>1
    <3> HIDE DEF at, e
    <3> QED
      BY <1>2, <3>1
  <2> QED
    BY <2>1, HashStaysBelow
<1>7. m + 1 \in Nat
  OBVIOUS
<1>8. at \in NamedIn(u, d)
  BY <1>2, <1>6, <1>7, NamedIs
<1>9. u[at].kind = "array"
  <2> HIDE DEF at
  <2> QED
    BY <1>2 DEF Array, Node
<1>10. Hash(u, d) # {}
  <2>1. u[at] # Array(0)
    <3> HIDE DEF at
    <3> QED
      BY <1>2, <1>4 DEF Array, Node
  <2>2. Hash(u, d) = Enter(u, Hash(u, c), k)
    BY HashIs
  <2>3. Within(u, at) \in {Within(u, At(b, k)) : b \in {a \in Hash(u, c) : /\ At(a, k) \in DOMAIN u
                                              /\ u[At(a, k)].kind # "value"
                                              /\ u[At(a, k)] # Array(0)}}
    <3>1. u[at].kind # "value" /\ at \in DOMAIN u
      BY <1>2, <1>9
    <3> QED
      BY <1>6, <2>1, <3>1
  <2>4. Within(u, at) \in Enter(u, Hash(u, c), k)
    BY <2>3, Zenon DEF Enter
  <2> HIDE DEF at, d
  <2> QED
    BY <2>2, <2>4
<1>11. \A b : e \notin NamedIn(u, b)
  <2> HIDE DEF e
  <2> QED
    BY <1>3, <1>4 DEF NamedIn
<1> HIDE DEF at, e, d
<1>12. \A p \in DOMAIN u \ DOMAIN t : p = at \/ (u[p] = Table /\ \A b : p \notin NamedIn(u, b))
  BY <1>2, <1>11
<1> QED
  BY <1>2, <1>5, <1>8, <1>9, <1>10, <1>12 DEF at, e, u, d, WithElement

-----------------------------------------------------------------------------
(* Strings of keys tell these apart if no name has a dot.                  *)
Undotted(c) == \A i \in 1 .. Len(c) : Len(Words[c[i]]) = 1

AllWords == UNION {ToSet(Words[k]) : k \in Names}

(* What FlattenSeq does, one sequence after the other.                     *)
LEMMA FlattenIs ==
  ASSUME NEW seqs, Len(seqs) \in Nat \ {0}
  PROVE  \E f : /\ FlattenSeq(seqs) = f[Len(seqs)] /\ f[1] = seqs[1]
                /\ \A i \in 2 .. Len(seqs) : f[i] = f[i - 1] \o seqs[i]
<1> DEFINE N == Len(seqs)
           Go(f, i) == f \o seqs[i]
           Are(g, n) == g = [i \in 1 .. n |-> IF i = 1 THEN seqs[i] ELSE Go(g[i - 1], i)]
           Some == {n \in Nat : \E g : Are(g, n)}
<1>0. N \in Nat /\ N # 0
  OBVIOUS
<1> HIDE DEF Go, N
<1>1. 0 \in Some
  <2>1. Are([i \in 1 .. 0 |-> seqs[i]], 0)
    OBVIOUS
  <2> QED
    BY <2>1
<1>2. ASSUME NEW n \in Nat, n \in Some
      PROVE  n + 1 \in Some
  <2>1. PICK g : Are(g, n)
    BY <1>2
  <2> DEFINE h == [i \in 1 .. n + 1 |-> IF i \in 1 .. n THEN g[i]
                                        ELSE IF i = 1 THEN seqs[i] ELSE Go(g[n], i)]
  <2>2. ASSUME NEW i \in 1 .. n + 1
        PROVE  h[i] = IF i = 1 THEN seqs[i] ELSE Go(h[i - 1], i)
    <3>1. CASE i = 1
      <4>1. h[1] = seqs[1]
        BY <2>1
      <4> QED
        BY <3>1, <4>1
    <3>2. CASE i \in 2 .. n
      <4>1. h[i] = g[i] /\ h[i - 1] = g[i - 1]
        BY <3>2
      <4>2. g[i] = Go(g[i - 1], i)
        BY <2>1, <3>2
      <4> QED
        BY <3>2, <4>1, <4>2
    <3>3. CASE i = n + 1 /\ i # 1
      <4>1. h[i] = Go(g[n], i) /\ h[i - 1] = g[n]
        BY <3>3
      <4> QED
        BY <3>3, <4>1
    <3> QED
      BY <3>1, <3>2, <3>3
  <2>3. Are(h, n + 1)
    BY <2>2
  <2> HIDE DEF h, Are
  <2> QED
    BY <2>3
<1>3. N \in Some
  <2>1. Nat \subseteq Some
    <3> HIDE DEF Some
    <3> QED
      BY <1>1, <1>2, Induction
  <2> QED
    BY <1>0, <2>1
<1>4. PICK g : Are(g, N)
  BY <1>3
<1> DEFINE s == CHOOSE f : Are(f, N)
<1>5. Are(s, N)
  BY <1>3, <1>4
<1>6. FlattenSeq(seqs) = s[N]
  BY <1>0 DEF FlattenSeq, N, Go
<1> HIDE DEF s
<1>7. s[1] = seqs[1] /\ \A i \in 2 .. N : s[i] = Go(s[i - 1], i)
  BY <1>0, <1>5
<1> QED
  BY <1>6, <1>7 DEF N, Go

LEMMA StringIs ==
  ASSUME NEW d \in Keys \ {<<>>}, Undotted(d)
  PROVE  /\ String(d) \in Seq(AllWords) /\ Len(String(d)) = Len(d)
         /\ \A i \in 1 .. Len(d) : String(d)[i] = Words[d[i]][1]
<1> DEFINE N == Len(d)
           seqs == [i \in DOMAIN d |-> Words[d[i]]]
<1>1. N \in Nat /\ N # 0 /\ DOMAIN d = 1 .. N /\ \A i \in 1 .. N : d[i] \in Names
  BY LenProperties, EmptySeq, ElementOfSeq DEF Keys
<1>2. \A i \in 1 .. N : Words[d[i]] \in Seq(AllWords) /\ Len(Words[d[i]]) = 1
  BY <1>1, TablesAssumption DEF Undotted, AllWords
<1>3. seqs \in [1 .. N -> Seq(AllWords)]
  BY <1>1, <1>2
<1>4. seqs \in Seq(Seq(AllWords)) /\ Len(seqs) = N /\ \A i \in 1 .. N : seqs[i] = Words[d[i]]
  <2>1. seqs \in Seq(Seq(AllWords))
    BY <1>1, <1>3
  <2>2. DOMAIN seqs = 1 .. N
    BY <1>3
  <2> HIDE DEF seqs
  <2>3. Len(seqs) = N
    BY <1>1, <2>1, <2>2, LenProperties
  <2> QED
    BY <1>1, <2>1, <2>3 DEF seqs
<1> HIDE DEF seqs, N
<1>5. PICK f : /\ FlattenSeq(seqs) = f[N] /\ f[1] = seqs[1]
               /\ \A i \in 2 .. N : f[i] = f[i - 1] \o seqs[i]
  <2>1. Len(seqs) \in Nat \ {0}
    BY <1>1, <1>4
  <2>2. \E f : /\ FlattenSeq(seqs) = f[Len(seqs)] /\ f[1] = seqs[1]
                /\ \A i \in 2 .. Len(seqs) : f[i] = f[i - 1] \o seqs[i]
    BY <2>1, FlattenIs, Zenon
  <2>3. Len(seqs) = N
    BY <1>4
  <2> QED
    BY <2>2, <2>3, Zenon
<1> DEFINE Right(j) == /\ f[j] \in Seq(AllWords) /\ Len(f[j]) = j
                       /\ \A i \in 1 .. j : f[j][i] = Words[d[i]][1]
           Good == {j \in Nat : j + 1 <= N => Right(j + 1)}
<1>6. 0 \in Good
  <2>1. Right(1)
    BY <1>1, <1>2, <1>4, <1>5
  <2> QED
    BY <2>1
<1>7. ASSUME NEW j \in Nat, j \in Good
      PROVE  j + 1 \in Good
  <2> SUFFICES ASSUME (j + 1) + 1 <= N
               PROVE  Right((j + 1) + 1)
    OBVIOUS
  <2> DEFINE n == j + 1
  <2>1. n \in Nat /\ Right(n) /\ n + 1 \in 2 .. N /\ n + 1 \in 1 .. N /\ (n + 1) - 1 = n
    BY <1>1, <1>7
  <2> HIDE DEF n
  <2> DEFINE a == f[n]
             b == seqs[n + 1]
  <2>2. a \in Seq(AllWords) /\ Len(a) = n /\ b \in Seq(AllWords) /\ Len(b) = 1
        /\ b[1] = Words[d[n + 1]][1]
    BY <1>2, <1>4, <2>1
  <2>3. f[n + 1] = a \o b
    BY <1>5, <2>1
  <2>4. \A i \in 1 .. n : a[i] = Words[d[i]][1]
    BY <2>1
  <2> HIDE DEF a, b
  <2>5. /\ a \o b \in Seq(AllWords) /\ Len(a \o b) = n + 1
        /\ \A i \in 1 .. n : (a \o b)[i] = a[i]
        /\ (a \o b)[n + 1] = b[1]
    <3>1. /\ a \o b \in Seq(AllWords) /\ Len(a \o b) = Len(a) + Len(b)
          /\ \A i \in 1 .. Len(a) + Len(b) :
               (a \o b)[i] = IF i <= Len(a) THEN a[i] ELSE b[i - Len(a)]
      BY <2>2, ConcatProperties, Zenon
    <3> DEFINE c == a \o b
    <3> HIDE DEF c
    <3>2. /\ c \in Seq(AllWords) /\ Len(c) = n + 1
          /\ \A i \in 1 .. n + 1 : c[i] = IF i <= n THEN a[i] ELSE b[i - n]
      BY <2>2, <3>1 DEF c
    <3>3. \A i \in 1 .. n : c[i] = a[i]
      BY <2>1, <3>2
    <3>4. c[n + 1] = b[1]
      <4>1. c[n + 1] = b[(n + 1) - n] /\ (n + 1) - n = 1
        BY <2>1, <3>2
      <4> QED
        BY <4>1
    <3> QED
      BY <3>2, <3>3, <3>4 DEF c
  <2>6. \A i \in 1 .. n + 1 : i \in 1 .. n \/ i = n + 1
    BY <2>1
  <2>7. Right(n + 1)
    BY <2>2, <2>3, <2>4, <2>5, <2>6
  <2> QED
    BY <2>7 DEF n
<1>8. Right(N)
  <2>1. Nat \subseteq Good
    <3> HIDE DEF Good
    <3> QED
      BY <1>6, <1>7, Induction
  <2>2. N - 1 \in Nat /\ (N - 1) + 1 = N
    BY <1>1
  <2>3. N - 1 \in Good
    BY <2>1, <2>2
  <2> HIDE DEF Right
  <2> QED
    BY <1>1, <2>2, <2>3
<1> QED
  BY <1>5, <1>8 DEF String, seqs, N

LEMMA StringTells ==
  ASSUME NEW d \in Keys \ {<<>>}, NEW e \in Keys \ {<<>>}, Undotted(d), Undotted(e),
         String(d) = String(e)
  PROVE  d = e
<1>1. /\ Len(d) = Len(e)
      /\ \A i \in 1 .. Len(d) : Words[d[i]][1] = Words[e[i]][1]
  BY StringIs
<1>2. ASSUME NEW i \in 1 .. Len(d)
      PROVE  d[i] = e[i]
  <2>1. d[i] \in Names /\ e[i] \in Names
    BY <1>1, KeysAre
  <2> DEFINE a == Words[d[i]]
             b == Words[e[i]]
  <2>2. /\ a \in Seq(AllWords) /\ Len(a) = 1 /\ b \in Seq(AllWords) /\ Len(b) = 1
        /\ a[1] = b[1]
    BY <1>1, <2>1, TablesAssumption DEF Undotted, AllWords
  <2> HIDE DEF a, b
  <2>3. a = b
    BY <2>2, SeqEqual
  <2> QED
    BY <2>1, <2>3, TablesAssumption DEF a, b
<1> QED
  BY <1>1, <1>2, SeqEqual DEF Keys
-----------------------------------------------------------------------------
(* A name that is used has no dot if the text has used none that has; a    *)
(* table that the text has not defined is marked if the text is legal; and *)
(* unless the text does unusual things, a mark is that of a table, of one  *)
(* that the text has not defined.                                          *)
UndottedKeys(t) == \A d \in Keys \ {<<>>} : NamedIn(t, d) # {} => Undotted(d)
ImplicitsMarked(t, marks, defined) ==
  \A d \in Keys \ {<<>>} : \A p \in NamedIn(t, d) :
    t[p].kind = "table" /\ p \notin defined => String(d) \in marks
MarksMeanTables(t, marks) ==
  \A x \in marks : \E d \in Keys \ {<<>>} :
    x = String(d) /\ \E p \in NamedIn(t, d) : t[p].kind = "table"
MarksMeanImplicits(t, marks, defined) ==
  \A d \in Keys \ {<<>>} : \A p \in NamedIn(t, d) :
    String(d) \in marks => p \notin defined

KeysInv(t, marks, defined, l, o) ==
  /\ defined \subseteq DOMAIN t
  /\ "dotted" \notin o => UndottedKeys(t)
  /\ l /\ "dotted" \notin o => ImplicitsMarked(t, marks, defined)
  /\ o \cap {"dotted", "reopened"} = {} => MarksMeanTables(t, marks)
  /\ o = {} => MarksMeanImplicits(t, marks, defined)

LEMMA KeysInvLess ==
  ASSUME NEW t, NEW marks, NEW defined, NEW l \in BOOLEAN, NEW o,
         KeysInv(t, marks, defined, l, o),
         NEW l2 \in BOOLEAN, l2 => l, NEW o2, o \subseteq o2
  PROVE  KeysInv(t, marks, defined, l2, o2)
BY DEF KeysInv

(* A tree and marks that establishContext has prepared for the context c,  *)
(* or that are there already.                                              *)
Ready(s, c, m) ==
  /\ Sound(s.tree, m) /\ Extends(tree, s.tree)
  /\ \A p \in DOMAIN s.tree \ DOMAIN tree : Made(s, p, c)
  /\ implicits \subseteq s.implicits
  /\ \A x \in s.implicits \ implicits : Fresh(s, x, c)

LEMMA PreparedReady ==
  ASSUME NEW s, NEW c, NEW m, Prepared(s, c, m)
  PROVE  Ready(s, c, m)
BY DEF Prepared, Ready

LEMMA NowReady ==
  ASSUME NEW m, Sound(tree, m), NEW c
  PROVE  Ready(Now, c, m)
BY DEF Ready, Now, Extends

LEMMA AppendedKey ==
  ASSUME NEW c \in Keys, NEW k \in Names
  PROVE  Append(c, k) \in Keys \ {<<>>}
BY KeysAre

(* The node of a name in a hash, if there is one, is the one that the key  *)
(* names.                                                                  *)
LEMMA NodeIsNamed ==
  ASSUME NEW t, NEW m \in Nat, Sound(t, m), NEW c \in Keys, NEW k \in Names,
         NEW h \in Hash(t, c)
  PROVE  NamedIn(t, Append(c, k)) = {At(h, k)} \cap DOMAIN t
<1>1. NamedIn(t, Append(c, k)) = {At(g, k) : g \in Hash(t, c)} \cap DOMAIN t
  BY NamedIs
<1>2. \A g \in Hash(t, c) : g = h
  BY HashIsOne
<1>3. {At(g, k) : g \in Hash(t, c)} = {At(h, k)}
  BY <1>2
<1> QED
  BY <1>1, <1>3

IsNamed(t, d, p) == NamedIn(t, d) = {p}

(* What establishContext prepares for the last name of a key is above it:  *)
(* the key names a node if it has done before.                             *)
LEMMA ReadyNames ==
  ASSUME NEW m \in Nat, Sound(tree, m), NEW s, NEW c \in Keys, Ready(s, c, m),
         NEW k \in Names, NEW h \in Hash(s.tree, c)
  PROVE  LET at == At(h, k)
             d == Append(c, k)
         IN /\ at \in DOMAIN s.tree =>
                 /\ at \in DOMAIN tree /\ s.tree[at] = tree[at]
                 /\ IsNamed(tree, d, at) /\ IsNamed(s.tree, d, at)
            /\ at \notin DOMAIN s.tree => NamedIn(tree, d) = {}
<1> DEFINE at == At(h, k)
           d == Append(c, k)
           t == s.tree
<1>1. /\ Sound(t, m) /\ Extends(tree, t) /\ Grows(tree, t) /\ d \in Keys \ {<<>>}
      /\ Len(d) = Len(c) + 1 /\ Len(c) \in Nat
  BY ExtendsGrows, AppendedKey, KeysAre DEF Ready
<1>2. NamedIn(t, d) = {at} \cap DOMAIN t
  BY <1>1, NodeIsNamed
<1> HIDE DEF d
<1>3. NamedIn(tree, d) \subseteq NamedIn(t, d) /\ NamedIn(t, d) \cap DOMAIN tree \subseteq NamedIn(tree, d)
  BY <1>1, NamedStays, NamedWas
<1>4. ASSUME at \in DOMAIN t
      PROVE  at \in DOMAIN tree
  <2> SUFFICES ASSUME at \notin DOMAIN tree
               PROVE  FALSE
    OBVIOUS
  <2>1. Made(s, at, c)
    BY <1>4 DEF Ready
  <2>2. PICK b \in Keys \ {<<>>} : Part(b, c) /\ at \in NamedIn(t, b)
    BY <2>1 DEF Made
  <2>3. at \in NamedIn(t, d)
    BY <1>2, <1>4
  <2>4. b = d
    BY <1>1, <2>2, <2>3, KeyIsOne
  <2> QED
    BY <1>1, <2>2, <2>4 DEF Part
<1>5. \A p \in DOMAIN tree : t[p] = tree[p]
  BY <1>1 DEF Extends
<1> QED
  BY <1>2, <1>3, <1>4, <1>5 DEF d, IsNamed

LEMMA PartUndotted ==
  ASSUME NEW c \in Keys, Undotted(c), NEW d \in Keys, Part(d, c)
  PROVE  Undotted(d)
BY DEF Undotted, Part, NamesOf

LEMMA WholeUndotted ==
  ASSUME NEW c \in Keys, NEW k \in Names
  PROVE  Undotted(Append(c, k)) <=> Undotted(c) /\ Len(Words[k]) = 1
<1> DEFINE d == Append(c, k)
<1>1. /\ Len(d) = Len(c) + 1 /\ Len(c) \in Nat /\ d[Len(c) + 1] = k
      /\ \A i \in 1 .. Len(c) : d[i] = c[i]
  BY KeysAre
<1> HIDE DEF d
<1>2. \A i \in 1 .. Len(d) : i \in 1 .. Len(c) \/ i = Len(c) + 1
  BY <1>1
<1>3. \A i \in 1 .. Len(c) : i \in 1 .. Len(d)
  BY <1>1
<1>4. Len(c) + 1 \in 1 .. Len(d)
  BY <1>1
<1>5. Undotted(d) <=> Undotted(c) /\ Len(Words[k]) = 1
  BY <1>1, <1>2, <1>3, <1>4 DEF Undotted
<1> QED
  BY <1>5 DEF d

(* What establishContext prepares keeps the names and the marks.           *)
LEMMA ReadyKeeps ==
  ASSUME NEW m \in Nat, Sound(tree, m), NEW s, NEW c \in Keys, Ready(s, c, m),
         NEW defined, NEW l \in BOOLEAN, NEW o,
         KeysInv(tree, implicits, defined, l, o), "dotted" \notin o => Undotted(c)
  PROVE  KeysInv(s.tree, s.implicits, defined, l, o)
<1> DEFINE t == s.tree
           marks == s.implicits
<1>1. /\ Sound(t, m) /\ Extends(tree, t) /\ Grows(tree, t) /\ implicits \subseteq marks
      /\ \A p \in DOMAIN t \ DOMAIN tree : Made(s, p, c)
      /\ \A x \in marks \ implicits : Fresh(s, x, c)
  BY ExtendsGrows DEF Ready
<1>2. \A p \in DOMAIN tree : p \in DOMAIN t /\ t[p] = tree[p]
  BY <1>1 DEF Extends
<1>3. ASSUME NEW d \in Keys \ {<<>>}
      PROVE  /\ NamedIn(tree, d) \subseteq NamedIn(t, d)
             /\ NamedIn(t, d) \cap DOMAIN tree \subseteq NamedIn(tree, d)
             /\ NamedIn(t, d) \subseteq DOMAIN t /\ NamedIn(tree, d) \subseteq DOMAIN tree
  <2>1. NamedIn(tree, d) \subseteq NamedIn(t, d)
    BY <1>1, NamedStays
  <2>2. NamedIn(t, d) \cap DOMAIN tree \subseteq NamedIn(tree, d)
    BY <1>1, NamedWas
  <2>3. NamedIn(t, d) \subseteq DOMAIN t /\ NamedIn(tree, d) \subseteq DOMAIN tree
    BY DEF NamedIn
  <2> QED
    BY <2>1, <2>2, <2>3
<1>4. ASSUME NEW p \in DOMAIN t \ DOMAIN tree
      PROVE  \E d \in Keys \ {<<>>} :
               /\ Part(d, c) /\ p \in NamedIn(t, d) /\ String(d) \in marks
               /\ t[p].kind = "table"
  BY <1>1, <1>4 DEF Made, Table, Node
<1>5. ASSUME NEW d \in Keys \ {<<>>}, NEW p \in NamedIn(t, d), p \notin DOMAIN tree
      PROVE  Part(d, c) /\ String(d) \in marks /\ t[p].kind = "table"
  <2>1. p \in DOMAIN t \ DOMAIN tree
    BY <1>3, <1>5
  <2>2. PICK b \in Keys \ {<<>>} :
          /\ Part(b, c) /\ p \in NamedIn(t, b) /\ String(b) \in marks
          /\ t[p].kind = "table"
    BY <1>4, <2>1
  <2>3. b = d
    BY <2>2, KeyIsOne
  <2> QED
    BY <2>2, <2>3
<1>6. ASSUME NEW x \in marks \ implicits
      PROVE  \E d \in Keys \ {<<>>} :
               /\ Part(d, c) /\ x = String(d)
               /\ \E p \in NamedIn(t, d) : p \notin DOMAIN tree /\ t[p].kind = "table"
  <2>1. PICK d \in Keys \ {<<>>} :
          /\ Part(d, c) /\ x = String(d) /\ \E p \in NamedIn(t, d) : p \notin DOMAIN tree
    BY <1>1 DEF Fresh
  <2> QED
    BY <1>5, <2>1
<1> HIDE DEF t, marks
<1>7. defined \subseteq DOMAIN t
  BY <1>2 DEF KeysInv
<1>8. ASSUME "dotted" \notin o
      PROVE  UndottedKeys(t)
  <2> SUFFICES ASSUME NEW d \in Keys \ {<<>>}, NEW p \in NamedIn(t, d)
               PROVE  Undotted(d)
    BY DEF UndottedKeys
  <2>1. UndottedKeys(tree) /\ Undotted(c)
    BY <1>8 DEF KeysInv
  <2>2. CASE p \in DOMAIN tree
    BY <1>3, <2>1, <2>2 DEF UndottedKeys
  <2>3. CASE p \notin DOMAIN tree
    BY <1>5, <2>1, <2>3, PartUndotted
  <2> QED
    BY <2>2, <2>3
<1>9. ASSUME l, "dotted" \notin o
      PROVE  ImplicitsMarked(t, marks, defined)
  <2> SUFFICES ASSUME NEW d \in Keys \ {<<>>}, NEW p \in NamedIn(t, d),
                      t[p].kind = "table", p \notin defined
               PROVE  String(d) \in marks
    BY DEF ImplicitsMarked
  <2>1. ImplicitsMarked(tree, implicits, defined)
    BY <1>9 DEF KeysInv
  <2>2. CASE p \in DOMAIN tree
    BY <1>1, <1>2, <1>3, <2>1, <2>2 DEF ImplicitsMarked, marks
  <2>3. CASE p \notin DOMAIN tree
    BY <1>5, <2>3
  <2> QED
    BY <2>2, <2>3
<1>10. ASSUME o \cap {"dotted", "reopened"} = {}
       PROVE  MarksMeanTables(t, marks)
  <2> SUFFICES ASSUME NEW x \in marks
               PROVE  \E d \in Keys \ {<<>>} :
                        x = String(d) /\ \E p \in NamedIn(t, d) : t[p].kind = "table"
    BY DEF MarksMeanTables
  <2>1. CASE x \in implicits
    <3>1. MarksMeanTables(tree, implicits)
      BY <1>10 DEF KeysInv
    <3>2. PICK d \in Keys \ {<<>>} :
            x = String(d) /\ \E p \in NamedIn(tree, d) : tree[p].kind = "table"
      BY <2>1, <3>1 DEF MarksMeanTables
    <3> QED
      BY <1>2, <1>3, <3>2
  <2>2. CASE x \notin implicits
    BY <1>6, <2>2
  <2> QED
    BY <2>1, <2>2
<1>11. ASSUME o = {}
       PROVE  MarksMeanImplicits(t, marks, defined)
  <2> SUFFICES ASSUME NEW d \in Keys \ {<<>>}, NEW p \in NamedIn(t, d),
                      String(d) \in marks, p \in defined
               PROVE  FALSE
    BY DEF MarksMeanImplicits
  <2>1. MarksMeanImplicits(tree, implicits, defined) /\ defined \subseteq DOMAIN tree
    BY <1>11 DEF KeysInv
  <2>2. UndottedKeys(t)
    BY <1>8, <1>11
  <2>3. p \in NamedIn(tree, d)
    BY <1>3, <2>1
  <2>4. String(d) \notin implicits
    BY <2>1, <2>3 DEF MarksMeanImplicits
  <2>5. PICK b \in Keys \ {<<>>} :
          String(d) = String(b) /\ \E q \in NamedIn(t, b) : q \notin DOMAIN tree
    BY <1>6, <2>4
  <2>6. PICK q \in NamedIn(t, b) : q \notin DOMAIN tree
    BY <2>5
  <2>7. Undotted(b) /\ Undotted(d)
    BY <2>2, <2>6 DEF UndottedKeys
  <2>8. b = d
    BY <2>5, <2>7, StringTells
  <2>9. p = q
    BY <1>1, <2>6, <2>8, NamedIsOne DEF t
  <2> QED
    BY <2>1, <2>6, <2>9
<1> QED
  BY <1>7, <1>8, <1>9, <1>10, <1>11 DEF KeysInv, t, marks

(* A mark of a key that names a node is that of a table, of one that the   *)
(* text has not defined.                                                   *)
LEMMA MarkMeans ==
  ASSUME NEW t, NEW m \in Nat, Sound(t, m), NEW marks,
         UndottedKeys(t), MarksMeanTables(t, marks),
         NEW d \in Keys \ {<<>>}, Undotted(d), String(d) \in marks
  PROVE  \E p \in NamedIn(t, d) : t[p].kind = "table"
<1>1. PICK b \in Keys \ {<<>>} :
        String(d) = String(b) /\ \E p \in NamedIn(t, b) : t[p].kind = "table"
  BY DEF MarksMeanTables
<1>2. Undotted(b)
  BY <1>1 DEF UndottedKeys
<1>3. b = d
  BY <1>1, <1>2, StringTells
<1> QED
  BY <1>1, <1>3

LEMMA HashOfNamed ==
  ASSUME NEW t, NEW m \in Nat, Sound(t, m), NEW c \in Keys, NEW k \in Names,
         NEW p \in NamedIn(t, Append(c, k)), t[p].kind # "value"
  PROVE  Hash(t, Append(c, k)) # {}
<1>1. PICK h \in Hash(t, c) : p = At(h, k) /\ p \in DOMAIN t
  BY NamedIs
<1>2. h \in Hashes
  BY HashesAreHashes DEF Keys
<1>3. t[At(h, k)] # Array(0)
  BY <1>1, <1>2, WithinIs
<1>4. Within(t, At(h, k)) \in Enter(t, Hash(t, c), k)
  BY <1>1, <1>3, Zenon DEF Enter
<1> QED
  BY <1>4, HashIs

(* So does a new value, or a new table that the text defines;              *)
Defines(u, d, new) == IF new[<<>>].kind = "table" THEN NamedIn(u, d) ELSE {}

LEMMA HungKeeps ==
  ASSUME NEW t, NEW m \in Nat, Sound(t, m), NEW c \in Keys, NEW k \in Names,
         NEW h \in Hash(t, c), At(h, k) \notin DOMAIN t,
         NEW l \in Nat, m <= l, NEW new, IsNew(new, l),
         NEW marks, NEW defined, NEW lawful \in BOOLEAN, NEW o,
         KeysInv(t, marks, defined, lawful, o),
         "dotted" \notin o =>
           /\ Undotted(Append(c, k))
           /\ \A f \in Names : At(<<>>, f) \in DOMAIN new => Len(Words[f]) = 1
  PROVE  LET u == Over(t, Hang(At(h, k), new))
         IN KeysInv(u, marks, defined \cup Defines(u, Append(c, k), new), lawful, o)
<1> DEFINE at == At(h, k)
           d == Append(c, k)
           u == Over(t, Hang(at, new))
           added == Defines(u, d, new)
<1> SUFFICES KeysInv(u, marks, defined \cup added, lawful, o)
  OBVIOUS
<1>1. d \in Keys \ {<<>>}
  BY AppendedKey
<1>2. /\ Sound(u, l) /\ Extends(t, u)
      /\ at \in NamedIn(u, d) /\ u[at] = new[<<>>]
      /\ \A p \in DOMAIN u \ DOMAIN t :
           p = at \/ \E f \in Names : /\ p = At(at, f) /\ At(<<>>, f) \in DOMAIN new
                                      /\ p \in NamedIn(u, Append(d, f))
                                      /\ u[p].kind = "value"
  BY HangNames
<1>3. NamedIn(t, d) = {}
  BY NodeIsNamed
<1> HIDE DEF at, u, added
<1>4. \A f \in Names : Append(d, f) \in Keys \ {<<>>}
  BY <1>1, AppendedKey
<1>5. "dotted" \notin o => \A f \in Names : At(<<>>, f) \in DOMAIN new => Undotted(Append(d, f))
  BY <1>1, WholeUndotted
<1>6. "dotted" \notin o => Undotted(d)
  OBVIOUS
<1> HIDE DEF d
<1>7. \A p \in DOMAIN t : p \in DOMAIN u /\ u[p] = t[p]
  BY <1>2 DEF Extends
<1>8. ASSUME NEW b \in Keys \ {<<>>}
      PROVE  /\ NamedIn(t, b) \subseteq NamedIn(u, b)
             /\ NamedIn(u, b) \cap DOMAIN t \subseteq NamedIn(t, b)
             /\ NamedIn(u, b) \subseteq DOMAIN u /\ NamedIn(t, b) \subseteq DOMAIN t
  <2>1. NamedIn(t, b) \subseteq NamedIn(u, b)
    BY <1>2, NamedStays
  <2>2. Grows(t, u)
    BY <1>2, ExtendsGrows
  <2>3. NamedIn(u, b) \cap DOMAIN t \subseteq NamedIn(t, b)
    BY <1>2, <2>2, NamedWas
  <2>4. NamedIn(u, b) \subseteq DOMAIN u /\ NamedIn(t, b) \subseteq DOMAIN t
    BY DEF NamedIn
  <2> QED
    BY <2>1, <2>3, <2>4
<1>9. ASSUME NEW b \in Keys \ {<<>>}, NEW p \in NamedIn(u, b), p \notin DOMAIN t
      PROVE  \/ b = d /\ p = at
             \/ u[p].kind = "value" /\ ("dotted" \notin o => Undotted(b))
  <2>1. p \in DOMAIN u \ DOMAIN t
    BY <1>8, <1>9
  <2>2. CASE p = at
    <3>1. b = d
      BY <1>1, <1>2, <2>2, KeyIsOne
    <3> QED
      BY <2>2, <3>1
  <2>3. CASE p # at
    <3>1. PICK f \in Names : /\ p = At(at, f) /\ At(<<>>, f) \in DOMAIN new
                             /\ p \in NamedIn(u, Append(d, f))
                             /\ u[p].kind = "value"
      BY <1>2, <2>1, <2>3
    <3>2. b = Append(d, f)
      BY <1>4, <3>1, KeyIsOne
    <3> QED
      BY <1>5, <3>1, <3>2
  <2> QED
    BY <2>2, <2>3
<1>10. added \subseteq NamedIn(u, d) /\ (new[<<>>].kind = "table" => at \in added)
  BY <1>2 DEF added, Defines
<1>11. defined \cup added \subseteq DOMAIN u
  BY <1>1, <1>7, <1>8, <1>10 DEF KeysInv
<1>12. ASSUME "dotted" \notin o
       PROVE  UndottedKeys(u)
  <2> SUFFICES ASSUME NEW b \in Keys \ {<<>>}, NEW p \in NamedIn(u, b)
               PROVE  Undotted(b)
    BY DEF UndottedKeys
  <2>1. UndottedKeys(t)
    BY <1>12 DEF KeysInv
  <2>2. CASE p \in DOMAIN t
    BY <1>8, <2>1, <2>2 DEF UndottedKeys
  <2>3. CASE p \notin DOMAIN t
    BY <1>6, <1>9, <1>12, <2>3
  <2> QED
    BY <2>2, <2>3
<1>13. ASSUME lawful, "dotted" \notin o
       PROVE  ImplicitsMarked(u, marks, defined \cup added)
  <2> SUFFICES ASSUME NEW b \in Keys \ {<<>>}, NEW p \in NamedIn(u, b),
                      u[p].kind = "table", p \notin defined, p \notin added
               PROVE  String(b) \in marks
    BY DEF ImplicitsMarked
  <2>1. ImplicitsMarked(t, marks, defined)
    BY <1>13 DEF KeysInv
  <2>2. CASE p \in DOMAIN t
    BY <1>7, <1>8, <2>1, <2>2 DEF ImplicitsMarked
  <2>3. CASE p \notin DOMAIN t
    BY <1>2, <1>9, <1>10, <2>3
  <2> QED
    BY <2>2, <2>3
<1>14. ASSUME o \cap {"dotted", "reopened"} = {}
       PROVE  MarksMeanTables(u, marks)
  <2>1. MarksMeanTables(t, marks)
    BY <1>14 DEF KeysInv
  <2> SUFFICES ASSUME NEW x \in marks
               PROVE  \E b \in Keys \ {<<>>} :
                        x = String(b) /\ \E p \in NamedIn(u, b) : u[p].kind = "table"
    BY DEF MarksMeanTables
  <2>2. PICK b \in Keys \ {<<>>} :
          x = String(b) /\ \E p \in NamedIn(t, b) : t[p].kind = "table"
    BY <2>1 DEF MarksMeanTables
  <2> QED
    BY <1>7, <1>8, <2>2
<1>15. ASSUME o = {}
       PROVE  MarksMeanImplicits(u, marks, defined \cup added)
  <2> SUFFICES ASSUME NEW b \in Keys \ {<<>>}, NEW p \in NamedIn(u, b),
                      String(b) \in marks, p \in defined \cup added
               PROVE  FALSE
    BY DEF MarksMeanImplicits
  <2>1. /\ MarksMeanImplicits(t, marks, defined) /\ defined \subseteq DOMAIN t
        /\ UndottedKeys(t) /\ MarksMeanTables(t, marks)
    BY <1>15 DEF KeysInv
  <2>2. CASE p \in DOMAIN t
    <3>1. p \in NamedIn(t, b)
      BY <1>8, <2>2
    <3>2. p \in added
      BY <2>1, <3>1 DEF MarksMeanImplicits
    <3>3. b = d
      BY <1>1, <1>10, <3>2, KeyIsOne
    <3> QED
      BY <1>3, <3>1, <3>3 DEF d
  <2>3. CASE p \notin DOMAIN t
    <3>1. p \in NamedIn(u, d)
      BY <1>10, <2>1, <2>3
    <3>2. b = d
      BY <1>1, <3>1, KeyIsOne
    <3>3. \E q \in NamedIn(t, d) : t[q].kind = "table"
      <4>1. Undotted(d) /\ String(d) \in marks
        BY <1>6, <1>15, <3>2
      <4> QED
        BY <1>1, <2>1, <4>1, MarkMeans
    <3> QED
      BY <1>3, <3>3 DEF d
  <2> QED
    BY <2>2, <2>3
<1> QED
  BY <1>11, <1>12, <1>13, <1>14, <1>15 DEF KeysInv

(* a table that is now defined loses its mark; a value takes away a mark   *)
(* where none may be;                                                      *)
LEMMA MarkKeeps ==
  ASSUME NEW t, NEW m \in Nat, Sound(t, m), NEW d \in Keys \ {<<>>},
         NEW marks, NEW defined, NEW lawful \in BOOLEAN, NEW o,
         KeysInv(t, marks, defined, lawful, o),
         "dotted" \notin o => Undotted(d), NamedIn(t, d) # {}
  PROVE  /\ KeysInv(t, marks \ {String(d)}, defined \cup NamedIn(t, d), lawful, o)
         /\ KeysInv(t, marks \ {String(d)}, defined, FALSE, o)
<1> DEFINE rest == marks \ {String(d)}
           added == NamedIn(t, d)
<1>1. defined \cup added \subseteq DOMAIN t
  BY DEF KeysInv, NamedIn
<1>2. "dotted" \notin o => UndottedKeys(t)
  BY DEF KeysInv
<1>3. ASSUME lawful, "dotted" \notin o
      PROVE  ImplicitsMarked(t, rest, defined \cup added)
  <2> SUFFICES ASSUME NEW b \in Keys \ {<<>>}, NEW p \in NamedIn(t, b),
                      t[p].kind = "table", p \notin defined, p \notin added
               PROVE  String(b) \in rest
    BY DEF ImplicitsMarked
  <2>1. ImplicitsMarked(t, marks, defined) /\ UndottedKeys(t)
    BY <1>3 DEF KeysInv
  <2>2. String(b) \in marks
    BY <2>1 DEF ImplicitsMarked
  <2>3. ASSUME String(b) = String(d)
        PROVE  FALSE
    <3>1. Undotted(b) /\ Undotted(d)
      BY <1>3, <2>1 DEF UndottedKeys
    <3>2. b = d
      BY <2>3, <3>1, StringTells
    <3> QED
      BY <1>3, <3>2
  <2> QED
    BY <2>2, <2>3
<1>4. ASSUME o \cap {"dotted", "reopened"} = {}
      PROVE  MarksMeanTables(t, rest)
  BY <1>4 DEF KeysInv, MarksMeanTables
<1>5. ASSUME o = {}
      PROVE  MarksMeanImplicits(t, rest, defined \cup added)
  <2> SUFFICES ASSUME NEW b \in Keys \ {<<>>}, NEW p \in NamedIn(t, b),
                      String(b) \in rest, p \in defined \cup added
               PROVE  FALSE
    BY DEF MarksMeanImplicits
  <2>1. MarksMeanImplicits(t, marks, defined)
    BY <1>5 DEF KeysInv
  <2>2. p \in NamedIn(t, d)
    BY <2>1 DEF MarksMeanImplicits
  <2>3. b = d
    BY <2>2, KeyIsOne
  <2> QED
    BY <2>3
<1>6. o = {} => MarksMeanImplicits(t, rest, defined)
  BY DEF KeysInv, MarksMeanImplicits
<1> QED
  BY <1>1, <1>2, <1>3, <1>4, <1>5, <1>6 DEF KeysInv

(* and so does one more table of an array.                                 *)
LEMMA ElementKeeps ==
  ASSUME NEW t, NEW m \in Nat, Sound(t, m), NEW c \in Keys, NEW k \in Names,
         NEW h \in Hash(t, c), NEW n \in Nat, IsNext(t, At(h, k), n),
         NEW marks, NEW defined, NEW lawful \in BOOLEAN, NEW o,
         KeysInv(t, marks, defined, lawful, o),
         "dotted" \notin o => Undotted(Append(c, k)),
         At(h, k) \in DOMAIN t => "reopened" \in o
  PROVE  KeysInv(WithElement(t, h, k, n), marks, defined, lawful, o)
<1> DEFINE at == At(h, k)
           d == Append(c, k)
           u == WithElement(t, h, k, n)
<1>1. d \in Keys \ {<<>>}
  BY AppendedKey
<1>2. /\ Sound(u, m + 1) /\ Grows(t, u) /\ (at \notin DOMAIN t => Extends(t, u))
      /\ at \in NamedIn(u, d) /\ u[at].kind = "array"
      /\ \A p \in DOMAIN u \ DOMAIN t :
           p = at \/ (u[p] = Table /\ \A b : p \notin NamedIn(u, b))
  BY ElementNames
<1> HIDE DEF at, d, u
<1>3. \A p \in DOMAIN t : p \in DOMAIN u /\ u[p].kind = t[p].kind
  BY <1>2 DEF Grows
<1>4. ASSUME NEW b \in Keys \ {<<>>}
      PROVE  /\ at \notin DOMAIN t => NamedIn(t, b) \subseteq NamedIn(u, b)
             /\ NamedIn(u, b) \cap DOMAIN t \subseteq NamedIn(t, b)
             /\ NamedIn(u, b) \subseteq DOMAIN u /\ NamedIn(t, b) \subseteq DOMAIN t
  <2>1. m + 1 \in Nat
    OBVIOUS
  <2>2. at \notin DOMAIN t => NamedIn(t, b) \subseteq NamedIn(u, b)
    BY <1>2, <2>1, NamedStays
  <2>3. NamedIn(u, b) \cap DOMAIN t \subseteq NamedIn(t, b)
    BY <1>2, <2>1, NamedWas
  <2>4. NamedIn(u, b) \subseteq DOMAIN u /\ NamedIn(t, b) \subseteq DOMAIN t
    BY DEF NamedIn
  <2> QED
    BY <2>2, <2>3, <2>4
<1>5. ASSUME NEW b \in Keys \ {<<>>}, NEW p \in NamedIn(u, b), p \notin DOMAIN t
      PROVE  b = d /\ p = at
  <2>1. p = at
    BY <1>2, <1>4, <1>5
  <2>2. b = d
    BY <1>1, <1>2, <2>1, KeyIsOne
  <2> QED
    BY <2>1, <2>2
<1>6. defined \subseteq DOMAIN u
  BY <1>3 DEF KeysInv
<1>7. ASSUME "dotted" \notin o
      PROVE  UndottedKeys(u)
  <2> SUFFICES ASSUME NEW b \in Keys \ {<<>>}, NEW p \in NamedIn(u, b)
               PROVE  Undotted(b)
    BY DEF UndottedKeys
  <2>1. UndottedKeys(t)
    BY <1>7 DEF KeysInv
  <2>2. CASE p \in DOMAIN t
    BY <1>4, <2>1, <2>2 DEF UndottedKeys
  <2>3. CASE p \notin DOMAIN t
    BY <1>5, <1>7, <2>3 DEF d
  <2> QED
    BY <2>2, <2>3
<1>8. ASSUME lawful, "dotted" \notin o
      PROVE  ImplicitsMarked(u, marks, defined)
  <2> SUFFICES ASSUME NEW b \in Keys \ {<<>>}, NEW p \in NamedIn(u, b),
                      u[p].kind = "table", p \notin defined
               PROVE  String(b) \in marks
    BY DEF ImplicitsMarked
  <2>1. ImplicitsMarked(t, marks, defined)
    BY <1>8 DEF KeysInv
  <2>2. p \in DOMAIN t
    BY <1>2, <1>5
  <2> QED
    BY <1>3, <1>4, <2>1, <2>2 DEF ImplicitsMarked
<1>9. ASSUME o \cap {"dotted", "reopened"} = {}
      PROVE  MarksMeanTables(u, marks)
  <2>1. MarksMeanTables(t, marks) /\ at \notin DOMAIN t
    BY <1>9 DEF KeysInv, at
  <2> SUFFICES ASSUME NEW x \in marks
               PROVE  \E b \in Keys \ {<<>>} :
                        x = String(b) /\ \E p \in NamedIn(u, b) : u[p].kind = "table"
    BY DEF MarksMeanTables
  <2>2. PICK b \in Keys \ {<<>>} :
          x = String(b) /\ \E p \in NamedIn(t, b) : t[p].kind = "table"
    BY <2>1 DEF MarksMeanTables
  <2> QED
    BY <1>3, <1>4, <2>1, <2>2
<1>10. ASSUME o = {}
       PROVE  MarksMeanImplicits(u, marks, defined)
  <2> SUFFICES ASSUME NEW b \in Keys \ {<<>>}, NEW p \in NamedIn(u, b),
                      String(b) \in marks, p \in defined
               PROVE  FALSE
    BY DEF MarksMeanImplicits
  <2>1. MarksMeanImplicits(t, marks, defined) /\ defined \subseteq DOMAIN t
    BY <1>10 DEF KeysInv
  <2>2. p \in NamedIn(t, b)
    BY <1>4, <2>1
  <2> QED
    BY <2>1, <2>2 DEF MarksMeanImplicits
<1> QED
  BY <1>6, <1>7, <1>8, <1>9, <1>10 DEF KeysInv, u
-----------------------------------------------------------------------------
(* What setValue makes of a name for which all is prepared: it adds what   *)
(* the name has not, takes away its mark, or refuses it.                   *)
IsAdded(v, d, new, o) ==
  /\ NamedIn(tree, d) = {} /\ v.outcome = "reading"
  /\ \E p \in NamedIn(v.tree, d) : v.tree[p] = new[<<>>]
  /\ KeysInv(v.tree, v.implicits,
             explicit \cup Defines(v.tree, d, new), legal, o)
LosesMark(v, d, o) ==
  /\ NamedIn(tree, d) # {} /\ v.outcome = "reading"
  /\ NamedIn(v.tree, d) = NamedIn(tree, d)
  /\ \A p \in NamedIn(tree, d) : v.tree[p] = tree[p]
  /\ o \cap {"dotted", "reopened"} = {} =>
       \A p \in NamedIn(tree, d) : tree[p].kind = "table"
  /\ o = {} => \A p \in NamedIn(tree, d) : p \notin explicit
  /\ KeysInv(v.tree, v.implicits, explicit \cup NamedIn(v.tree, d), legal, o)
  /\ KeysInv(v.tree, v.implicits, explicit, FALSE, o)
IsRefused(v, d, o) ==
  /\ NamedIn(tree, d) # {} /\ v.outcome = "refused"
  /\ legal /\ "dotted" \notin o => ~\A p \in NamedIn(tree, d) : Implicit(p)

LEMMA SetKeeps ==
  ASSUME NEW m \in Nat, Sound(tree, m), legal \in BOOLEAN,
         NEW s, {"tree", "implicits", "outcome"} \subseteq DOMAIN s,
         NEW c \in Keys, Ready(s, c, m), s.outcome = "reading",
         NEW k \in Names, NEW new, IsNew(new, m + 1),
         NEW o, KeysInv(tree, implicits, explicit, legal, o),
         "dotted" \notin o =>
           /\ Undotted(Append(c, k))
           /\ \A f \in Names : At(<<>>, f) \in DOMAIN new => Len(Words[f]) = 1
  PROVE  LET v == SetValue(s, c, k, new)
             d == Append(c, k)
         IN /\ Extends(s.tree, v.tree)
            /\ \/ Hash(s.tree, c) = {} /\ v.outcome = "panic"
               \/ IsAdded(v, d, new, o)
               \/ LosesMark(v, d, o)
               \/ IsRefused(v, d, o)
<1> DEFINE v == SetValue(s, c, k, new)
           d == Append(c, k)
           t == s.tree
<1>1. d \in Keys \ {<<>>}
  BY AppendedKey
<1>2. "dotted" \notin o => Undotted(c) /\ Undotted(d)
  BY WholeUndotted
<1>3. Sound(t, m) /\ KeysInv(t, s.implicits, explicit, legal, o)
  <2>1. Sound(t, m)
    BY DEF Ready
  <2> QED
    BY <1>2, <2>1, ReadyKeeps
<1>4. \/ /\ Hash(t, c) = {}
         /\ v.outcome = "panic" /\ v.tree = t
      \/ \E h \in Hash(t, c) :
           \/ /\ At(h, k) \notin DOMAIN t
              /\ v.tree = Over(t, Hang(At(h, k), new))
              /\ v.implicits = s.implicits /\ v.outcome = s.outcome
           \/ /\ At(h, k) \in DOMAIN t /\ String(d) \in s.implicits
              /\ v.tree = t /\ v.implicits = s.implicits \ {String(d)}
              /\ v.outcome = s.outcome
           \/ /\ At(h, k) \in DOMAIN t /\ String(d) \notin s.implicits
              /\ v.tree = t /\ v.outcome = "refused"
  BY SetValueDoes
<1> HIDE DEF v
<1>5. ASSUME NEW h \in Hash(t, c), At(h, k) \notin DOMAIN t,
             v.tree = Over(t, Hang(At(h, k), new)),
             v.implicits = s.implicits, v.outcome = s.outcome
      PROVE  IsAdded(v, d, new, o)
  <2> DEFINE u == Over(t, Hang(At(h, k), new))
             added == Defines(u, d, new)
  <2>1. m + 1 \in Nat /\ m <= m + 1
    OBVIOUS
  <2>2. NamedIn(tree, d) = {}
    BY <1>5, ReadyNames
  <2>3. At(h, k) \in NamedIn(u, d) /\ u[At(h, k)] = new[<<>>]
    BY <1>3, <1>5, <2>1, HangNames
  <2>4. KeysInv(u, s.implicits, explicit \cup added, legal, o)
    BY <1>3, <1>5, <2>1, HungKeeps
  <2> QED
    BY <1>5, <2>2, <2>3, <2>4 DEF IsAdded
<1>6. ASSUME NEW h \in Hash(t, c), At(h, k) \in DOMAIN t
      PROVE  /\ At(h, k) \in DOMAIN tree /\ t[At(h, k)] = tree[At(h, k)]
             /\ NamedIn(tree, d) = {At(h, k)} /\ NamedIn(t, d) = {At(h, k)}
  <2> DEFINE at == At(h, k)
  <2>1. at \in DOMAIN s.tree =>
          /\ at \in DOMAIN tree /\ s.tree[at] = tree[at]
          /\ IsNamed(tree, d, at) /\ IsNamed(s.tree, d, at)
    BY ReadyNames
  <2> QED
    BY <1>6, <2>1 DEF IsNamed
<1>7. ASSUME NEW h \in Hash(t, c), At(h, k) \in DOMAIN t, String(d) \in s.implicits,
             v.tree = t, v.implicits = s.implicits \ {String(d)}, v.outcome = s.outcome
      PROVE  LosesMark(v, d, o)
  <2> DEFINE at == At(h, k)
  <2>1. t[at] = tree[at] /\ NamedIn(tree, d) = {at} /\ NamedIn(t, d) = {at}
    BY <1>6, <1>7
  <2> HIDE DEF at, d
  <2>2. ASSUME o \cap {"dotted", "reopened"} = {}
        PROVE  tree[at].kind = "table"
    <3>1. UndottedKeys(t) /\ MarksMeanTables(t, s.implicits) /\ Undotted(d)
      BY <1>2, <1>3, <2>2 DEF KeysInv
    <3>2. \E p \in NamedIn(t, d) : t[p].kind = "table"
      BY <1>1, <1>3, <1>7, <3>1, MarkMeans
    <3> QED
      BY <2>1, <3>2
  <2>3. ASSUME o = {}
        PROVE  at \notin explicit
    <3>1. MarksMeanImplicits(t, s.implicits, explicit)
      BY <1>3, <2>3 DEF KeysInv
    <3> QED
      BY <1>1, <1>7, <2>1, <3>1 DEF MarksMeanImplicits
  <2>4. /\ KeysInv(t, s.implicits \ {String(d)}, explicit \cup NamedIn(t, d), legal, o)
        /\ KeysInv(t, s.implicits \ {String(d)}, explicit, FALSE, o)
    <3>1. NamedIn(t, d) # {}
      BY <2>1
    <3> HIDE DEF t
    <3> QED
      BY <1>1, <1>2, <1>3, <3>1, MarkKeeps
  <2> QED
    BY <1>7, <2>1, <2>2, <2>3, <2>4 DEF LosesMark
<1>8. ASSUME NEW h \in Hash(t, c), At(h, k) \in DOMAIN t, String(d) \notin s.implicits,
             v.tree = t, v.outcome = "refused"
      PROVE  IsRefused(v, d, o)
  <2> DEFINE at == At(h, k)
  <2>1. t[at] = tree[at] /\ NamedIn(tree, d) = {at} /\ NamedIn(t, d) = {at}
    BY <1>6, <1>8
  <2> HIDE DEF at, d
  <2>2. ASSUME legal, "dotted" \notin o, Implicit(at)
        PROVE  FALSE
    <3>1. ImplicitsMarked(t, s.implicits, explicit)
      BY <1>3, <2>2 DEF KeysInv
    <3>2. t[at].kind = "table" /\ at \notin explicit
      BY <2>1, <2>2 DEF Implicit
    <3> QED
      BY <1>1, <1>8, <2>1, <3>1, <3>2 DEF ImplicitsMarked
  <2> QED
    BY <1>8, <2>1, <2>2 DEF IsRefused
<1>9. Extends(t, v.tree)
  <2>1. ASSUME NEW h \in Hash(t, c), At(h, k) \notin DOMAIN t
        PROVE  Extends(t, Over(t, Hang(At(h, k), new)))
    <3>1. m + 1 \in Nat /\ m <= m + 1
      OBVIOUS
    <3> HIDE DEF t
    <3> QED
      BY <1>3, <2>1, <3>1, HangNames
  <2>2. Extends(t, t)
    BY DEF Extends
  <2> QED
    BY <1>4, <2>1, <2>2
<1> QED
  BY <1>4, <1>5, <1>7, <1>8, <1>9 DEF v

LEMMA DottedIs ==
  ASSUME NEW key \in Keys, "dotted" \notin Dotted(key)
  PROVE  Undotted(key)
<1> SUFFICES ASSUME NEW i \in 1 .. Len(key)
             PROVE  Len(Words[key[i]]) = 1
  BY DEF Undotted
<1>1. key[i] \in Names /\ DOMAIN key = 1 .. Len(key)
  BY KeysAre, LenProperties DEF Keys
<1>2. Words[key[i]] \in Seq(AllWords) \ {<<>>}
  BY <1>1, TablesAssumption DEF AllWords
<1>3. Len(Words[key[i]]) \in Nat \ {0}
  BY <1>2, EmptySeq, LenProperties
<1>4. ~(Len(Words[key[i]]) > 1)
  BY <1>1 DEF Dotted, If
<1> DEFINE n == Len(Words[key[i]])
<1>5. n \in Nat \ {0} /\ ~(n > 1)
  BY <1>3, <1>4
<1> HIDE DEF n
<1>6. n = 1
  BY <1>5
<1> QED
  BY <1>6 DEF n

(* What the end of establishContext makes of an array's name.              *)
HasOneMore(v, d, o) ==
  /\ v.outcome = "reading" /\ Hash(v.tree, d) # {}
  /\ \A p \in NamedIn(tree, d) : tree[p].kind = "array"
  /\ KeysInv(v.tree, v.implicits, explicit, legal, o)
IsNoArray(v, d) ==
  v.outcome = "refused" /\ ~\A p \in NamedIn(tree, d) : tree[p].kind = "array"

LEMMA AddKeeps ==
  ASSUME NEW m \in Nat, Sound(tree, m), legal \in BOOLEAN,
         NEW s, {"tree", "implicits", "outcome"} \subseteq DOMAIN s,
         NEW c \in Keys, Ready(s, c, m), s.outcome = "reading", s.hash \in Hash(s.tree, c),
         NEW k \in Names, NEW o, KeysInv(tree, implicits, explicit, legal, o),
         "dotted" \notin o => Undotted(Append(c, k)),
         (\E p \in NamedIn(tree, Append(c, k)) : tree[p].kind = "array") => "reopened" \in o
  PROVE  LET v == AddElement(s, k)
             d == Append(c, k)
         IN HasOneMore(v, d, o) \/ IsNoArray(v, d)
<1> DEFINE v == AddElement(s, k)
           d == Append(c, k)
           t == s.tree
           h == s.hash
           at == At(h, k)
           n == IF at \in DOMAIN t THEN t[at].n + 1 ELSE 1
<1>1. "dotted" \notin o => Undotted(c)
  BY WholeUndotted
<1>2. Sound(t, m) /\ KeysInv(t, s.implicits, explicit, legal, o)
  <2>1. Sound(t, m)
    BY DEF Ready
  <2> QED
    BY <1>1, <2>1, ReadyKeeps
<1>3. /\ at \in DOMAIN t =>
           /\ at \in DOMAIN tree /\ t[at] = tree[at]
           /\ IsNamed(tree, d, at) /\ IsNamed(t, d, at)
      /\ at \notin DOMAIN t => NamedIn(tree, d) = {}
  BY ReadyNames
<1>4. \/ /\ at \in DOMAIN t /\ t[at].kind # "array"
         /\ v.outcome = "refused" /\ v.tree = t
      \/ /\ at \notin DOMAIN t \/ t[at].kind = "array"
         /\ v.tree = Over(Element(s, k, n), t)
         /\ v.implicits = s.implicits /\ v.outcome = s.outcome
  <2>1. \/ /\ At(s.hash, k) \in DOMAIN s.tree /\ s.tree[At(s.hash, k)].kind # "array"
           /\ v.outcome = "refused" /\ v.tree = s.tree
        \/ /\ At(s.hash, k) \notin DOMAIN s.tree \/ s.tree[At(s.hash, k)].kind = "array"
           /\ v.tree = Over(Element(s, k, IF At(s.hash, k) \in DOMAIN s.tree
                                          THEN s.tree[At(s.hash, k)].n + 1 ELSE 1), s.tree)
           /\ v.implicits = s.implicits /\ v.outcome = s.outcome
    BY AddElementDoes, Zenon
  <2>2. n = IF At(s.hash, k) \in DOMAIN s.tree THEN s.tree[At(s.hash, k)].n + 1 ELSE 1
    OBVIOUS
  <2> HIDE DEF v, n
  <2> QED
    BY <2>1, <2>2
<1> HIDE DEF v
<1>5. CASE at \in DOMAIN t /\ t[at].kind # "array" /\ v.outcome = "refused"
  <2>1. IsNoArray(v, d)
    BY <1>3, <1>5 DEF IsNamed, IsNoArray
  <2> QED
    BY <2>1 DEF v
<1>6. CASE /\ at \notin DOMAIN t \/ t[at].kind = "array"
           /\ v.tree = Over(Element(s, k, n), t)
           /\ v.implicits = s.implicits /\ v.outcome = s.outcome
  <2>1. v.tree = WithElement(t, h, k, n)
    BY <1>6 DEF Element, WithElement
  <2>2. n \in Nat /\ IsNext(t, at, n)
    <3>1. at \in DOMAIN t => t[at].n \in Nat
      BY <1>2, SoundNode
    <3> QED
      BY <1>6, <3>1 DEF IsNext
  <2>3. at \in DOMAIN t => "reopened" \in o
    BY <1>3, <1>6 DEF IsNamed
  <2>4. \A p \in NamedIn(tree, d) : tree[p].kind = "array"
    BY <1>3, <1>6 DEF IsNamed
  <2> HIDE DEF n, t, h
  <2>5. Hash(v.tree, d) # {}
    BY <1>2, <2>1, <2>2, ElementNames DEF t, h
  <2>6. KeysInv(v.tree, s.implicits, explicit, legal, o)
    <3>1. KeysInv(WithElement(t, h, k, n), s.implicits, explicit, legal, o)
      <4> USE DEF h
      <4> HIDE DEF at
      <4>1. IsNext(t, At(h, k), n) /\ (At(h, k) \in DOMAIN t => "reopened" \in o)
        BY <2>2, <2>3 DEF at
      <4>2. h \in Hash(t, c)
        BY DEF t
      <4> HIDE DEF h
      <4> QED
        BY <1>2, <2>2, <4>1, <4>2, ElementKeeps
    <3> QED
      BY <2>1, <3>1, Zenon
  <2>7. HasOneMore(v, d, o)
    BY <1>6, <2>4, <2>5, <2>6 DEF HasOneMore
  <2> QED
    BY <2>7 DEF v
<1> QED
  BY <1>4, <1>5, <1>6 DEF v
-----------------------------------------------------------------------------
(* The inductive invariant of what is refused: while the text is read, the *)
(* names and the marks are as above, and setValue's walk along the context *)
(* leads somewhere if the text is legal or does nothing unusual.           *)
Agreed(o) == o \cap {"dotted", "reopened"} = {}
Lawful(l, o) == l /\ "dotted" \notin o

ReadingInv ==
  /\ KeysInv(tree, implicits, explicit, legal, odd)
  /\ "dotted" \notin odd => Undotted(context)
  /\ Lawful(legal, odd) \/ Agreed(odd) => Hash(tree, context) # {}
  /\ odd = {} => legal
MarksInv ==
  /\ outcome = "reading" => ReadingInv
  /\ outcome = "panic" => ~Agreed(odd)
  /\ Lawful(legal, odd) => outcome = "reading"

LEMMA MarksInvInit == Init => MarksInv
<1> SUFFICES ASSUME Init
             PROVE  MarksInv
  OBVIOUS
<1>1. /\ tree = <<>> /\ implicits = {} /\ context = <<>> /\ outcome = "reading"
      /\ explicit = {} /\ legal = TRUE /\ odd = {}
  BY DEF Init
<1>2. DOMAIN tree = {}
  BY <1>1
<1>3. \A d : NamedIn(tree, d) = {}
  BY <1>2 DEF NamedIn
<1>4. KeysInv(tree, implicits, explicit, legal, odd)
  BY <1>1, <1>3 DEF KeysInv, UndottedKeys, ImplicitsMarked, MarksMeanTables, MarksMeanImplicits
<1>5. Undotted(context)
  BY <1>1, EmptySeq DEF Undotted
<1>6. Hash(tree, context) # {}
  BY <1>1, HashOfRoot
<1> QED
  BY <1>1, <1>4, <1>5, <1>6 DEF MarksInv, ReadingInv

(* What is known of a header's key, and of the tree it works on.           *)
LEMMA HeaderIs ==
  ASSUME TreeInv, NEW key \in Headers
  PROVE  /\ key \in Keys \ {<<>>}
         /\ Front(key) \in Keys /\ Last(key) \in Names /\ key = Append(Front(key), Last(key))
         /\ lines \in Nat /\ Sound(tree, lines)
         /\ Prepared(Establish(key), Front(key), lines)
         /\ {"tree", "implicits", "outcome"} \subseteq DOMAIN Establish(key)
<1>1. key \in Keys \ {<<>>} /\ MaxLines \in Nat
  BY TablesAssumption DEF Keys
<1>2. lines \in Nat /\ Sound(tree, lines)
  BY <1>1 DEF TreeInv
<1>3. Front(key) \in Keys /\ Last(key) \in Names /\ key = Append(Front(key), Last(key))
  BY <1>1, FrontAndLast DEF Keys
<1>4. Prepared(Establish(key), Front(key), lines)
  BY <1>1, <1>2, EstablishPrepares
<1>5. Entered(Establish(key), tree, lines)
  BY <1>1, <1>2, EstablishEnters DEF Keys
<1> DEFINE s == Establish(key)
<1>6. s = [hash |-> s.hash, key |-> s.key, tree |-> s.tree,
           implicits |-> s.implicits, outcome |-> s.outcome]
  BY <1>5 DEF Entered
<1> HIDE DEF s
<1>7. {"tree", "implicits", "outcome"} \subseteq DOMAIN s
  BY <1>6
<1> QED
  BY <1>1, <1>2, <1>3, <1>4, <1>7 DEF s

LEMMA MarksInvTableHeader ==
  ASSUME TreeInv, MarksInv, TreeInv', NEW key \in Headers, TableHeader(key)
  PROVE  MarksInv'
<1> DEFINE c == Front(key)
           k == Last(key)
           s == Establish(key)
           new == One(<<>>, Table)
           v == IF s.outcome # "reading" THEN s ELSE SetValue(s, c, k, new)
           o == odd \cup Dotted(key)
<1>1. /\ key \in Keys \ {<<>>} /\ c \in Keys /\ k \in Names /\ key = Append(c, k)
      /\ lines \in Nat /\ Sound(tree, lines) /\ Prepared(s, c, lines)
      /\ {"tree", "implicits", "outcome"} \subseteq DOMAIN s
  BY HeaderIs
<1>2. /\ outcome = "reading" /\ tree' = v.tree /\ implicits' = v.implicits
      /\ outcome' = v.outcome /\ legal' = (legal /\ LegalTable(key)) /\ odd' = o
      /\ context' = key
  BY DEF TableHeader, Line, Outer
<1>3. explicit' = explicit \cup NamedIn(tree', key)
  BY DEF TableHeader, Named, NamedIn
<1>4. /\ s.outcome \in {"reading", "refused"} /\ Ready(s, c, lines)
      /\ s.outcome = "reading" => s.hash \in Hash(s.tree, c)
      /\ s.outcome = "refused" <=> Crosses(key)
  <2>1. Crosses(key) <=> CrossesIn(tree, c)
    BY <1>1, CrossesStep
  <2> QED
    BY <1>1, <2>1, PreparedReady DEF Prepared
<1>5. legal \in BOOLEAN /\ ReadingInv /\ Sound(tree', lines') /\ lines' \in Nat
  BY <1>2, TablesAssumption DEF MarksInv, TreeInv
<1>6. "dotted" \notin o => Undotted(key)
  BY <1>1, DottedIs
<1>7. KeysInv(tree, implicits, explicit, legal, o)
  <2>1. KeysInv(tree, implicits, explicit, legal, odd) /\ odd \subseteq o
    BY <1>5 DEF ReadingInv
  <2> HIDE DEF o
  <2> QED
    BY <1>5, <2>1, KeysInvLess
<1>8. IsNew(new, lines + 1) /\ new[<<>>] = Table /\ Table.kind = "table"
      /\ \A f \in Names : At(<<>>, f) \notin DOMAIN new
  <2>1. lines + 1 \in Nat /\ Table \in [kind : {"table", "value"}, n : 0 .. lines + 1]
        /\ Table.n = 0 /\ Table.kind = "table"
    BY <1>1 DEF Table, Node
  <2>2. \A f \in Names : At(<<>>, f) # <<>>
    BY AtIs, EmptySeq DEF Hashes
  <2>3. IsNew(new, lines + 1)
    BY <2>1, OneIsNew
  <2>4. DOMAIN new = {<<>>} /\ new[<<>>] = Table
    BY OneIs
  <2> HIDE DEF new
  <2> QED
    BY <2>1, <2>2, <2>3, <2>4
<1>9. LegalTable(key) <=> ~Crosses(key) /\ \A p \in NamedIn(tree, key) : Implicit(p)
  BY DEF LegalTable, Named, NamedIn
<1> HIDE DEF s, c, k, new, o
<1>10. CASE s.outcome = "refused"
  BY <1>2, <1>4, <1>9, <1>10 DEF MarksInv, Lawful
<1>11. CASE s.outcome = "reading"
  <2>1. v = SetValue(s, c, k, new)
    BY <1>11
  <2> HIDE DEF v
  <2>2. \/ Hash(s.tree, c) = {} /\ v.outcome = "panic"
        \/ IsAdded(v, key, new, o) \/ LosesMark(v, key, o) \/ IsRefused(v, key, o)
    BY <1>1, <1>4, <1>5, <1>6, <1>7, <1>8, <1>11, <2>1, SetKeeps
  <2>3. CASE IsAdded(v, key, new, o)
    <3>1. /\ NamedIn(tree, key) = {} /\ v.outcome = "reading"
          /\ \E p \in NamedIn(v.tree, key) : v.tree[p] = Table
          /\ KeysInv(v.tree, v.implicits, explicit \cup NamedIn(v.tree, key), legal, o)
      BY <1>8, <2>3 DEF IsAdded, Defines
    <3>2. legal' = legal
      BY <1>2, <1>4, <1>5, <1>9, <1>11, <3>1
    <3>3. Hash(tree', context') # {}
      BY <1>1, <1>2, <1>5, <1>8, <3>1, HashOfNamed
    <3>4. KeysInv(tree', implicits', explicit', legal', odd')
      BY <1>2, <1>3, <3>1, <3>2
    <3>5. odd' = {} => legal'
      BY <1>2, <1>5, <3>2 DEF ReadingInv, o
    <3>6. ReadingInv'
      BY <1>2, <1>6, <3>3, <3>4, <3>5 DEF ReadingInv
    <3> QED
      BY <1>2, <3>1, <3>6 DEF MarksInv
  <2>4. CASE LosesMark(v, key, o)
    <3>1. /\ NamedIn(tree, key) # {} /\ v.outcome = "reading"
          /\ NamedIn(v.tree, key) = NamedIn(tree, key)
          /\ \A p \in NamedIn(tree, key) : v.tree[p] = tree[p]
          /\ Agreed(o) => \A p \in NamedIn(tree, key) : tree[p].kind = "table"
          /\ o = {} => \A p \in NamedIn(tree, key) : p \notin explicit
          /\ KeysInv(v.tree, v.implicits, explicit \cup NamedIn(v.tree, key), legal, o)
      BY <2>4 DEF LosesMark, Agreed
    <3>2. KeysInv(tree', implicits', explicit', legal', odd')
      <4>1. legal' => legal
        BY <1>2
      <4>2. KeysInv(tree', implicits', explicit', legal, odd')
        BY <1>2, <1>3, <3>1
      <4> QED
        BY <1>5, <4>1, <4>2 DEF KeysInv
    <3>3. odd' = {} => legal'
      <4> SUFFICES ASSUME odd' = {}
                   PROVE  legal'
        OBVIOUS
      <4>1. legal /\ Agreed(o)
        BY <1>2, <1>5 DEF ReadingInv, o, Agreed
      <4>2. \A p \in NamedIn(tree, key) : Implicit(p)
        BY <1>2, <3>1, <4>1 DEF Implicit
      <4> QED
        BY <1>2, <1>4, <1>9, <1>11, <4>1, <4>2
    <3>4. ASSUME Lawful(legal', odd') \/ Agreed(odd')
          PROVE  Hash(tree', context') # {}
      <4>1. \A p \in NamedIn(tree, key) : tree[p].kind = "table"
        BY <1>2, <1>9, <3>1, <3>4 DEF Lawful, Implicit
      <4>2. PICK p \in NamedIn(tree', key) : tree'[p].kind # "value"
        BY <1>2, <3>1, <4>1
      <4> QED
        BY <1>1, <1>2, <1>5, <4>2, HashOfNamed
    <3>5. ReadingInv'
      BY <1>2, <1>6, <3>2, <3>3, <3>4 DEF ReadingInv
    <3> QED
      BY <1>2, <3>1, <3>5 DEF MarksInv
  <2>5. CASE IsRefused(v, key, o)
    <3>1. v.outcome = "refused" /\ ~Lawful(legal', odd')
      BY <1>2, <1>9, <2>5 DEF IsRefused, Lawful
    <3> QED
      BY <1>2, <3>1 DEF MarksInv
  <2> QED
    BY <1>4, <1>11, <2>2, <2>3, <2>4, <2>5
<1> QED
  BY <1>4, <1>10, <1>11

LEMMA MarksInvArrayHeader ==
  ASSUME TreeInv, MarksInv, TreeInv', NEW key \in Headers, ArrayHeader(key)
  PROVE  MarksInv'
<1> DEFINE c == Front(key)
           k == Last(key)
           s == Establish(key)
           v == IF s.outcome # "reading" THEN s ELSE AddElement(s, k)
           o == odd \cup (Dotted(key) \cup Reopened(key))
<1>1. /\ key \in Keys \ {<<>>} /\ c \in Keys /\ k \in Names /\ key = Append(c, k)
      /\ lines \in Nat /\ Sound(tree, lines) /\ Prepared(s, c, lines)
      /\ {"tree", "implicits", "outcome"} \subseteq DOMAIN s
  BY HeaderIs
<1>2. /\ outcome = "reading" /\ tree' = v.tree /\ implicits' = v.implicits
      /\ outcome' = v.outcome /\ legal' = (legal /\ LegalArray(key)) /\ odd' = o
      /\ context' = key /\ explicit' = explicit
  BY DEF ArrayHeader, Line
<1>3. /\ s.outcome \in {"reading", "refused"} /\ Ready(s, c, lines)
      /\ s.outcome = "reading" => s.hash \in Hash(s.tree, c)
      /\ s.outcome = "refused" <=> Crosses(key)
  <2>1. Crosses(key) <=> CrossesIn(tree, c)
    BY <1>1, CrossesStep
  <2> QED
    BY <1>1, <2>1, PreparedReady DEF Prepared
<1>4. legal \in BOOLEAN /\ ReadingInv
  BY <1>2 DEF MarksInv, TreeInv
<1>5. "dotted" \notin o => Undotted(key)
  BY <1>1, DottedIs
<1>6. KeysInv(tree, implicits, explicit, legal, o)
  <2>1. KeysInv(tree, implicits, explicit, legal, odd) /\ odd \subseteq o
    BY <1>4 DEF ReadingInv
  <2> HIDE DEF o
  <2> QED
    BY <1>4, <2>1, KeysInvLess
<1>7. (\E p \in NamedIn(tree, key) : tree[p].kind = "array") => "reopened" \in o
  BY DEF Reopened, If, Named, NamedIn
<1>8. LegalArray(key) <=> ~Crosses(key) /\ \A p \in NamedIn(tree, key) : tree[p].kind = "array"
  BY DEF LegalArray, Named, NamedIn
<1> HIDE DEF s, c, k, o
<1>9. CASE s.outcome = "refused"
  BY <1>2, <1>3, <1>8, <1>9 DEF MarksInv, Lawful
<1>10. CASE s.outcome = "reading"
  <2>1. v = AddElement(s, k)
    BY <1>10
  <2> HIDE DEF v
  <2>2. HasOneMore(v, key, o) \/ IsNoArray(v, key)
    BY <1>1, <1>3, <1>4, <1>5, <1>6, <1>7, <1>10, <2>1, AddKeeps
  <2>3. CASE HasOneMore(v, key, o)
    <3>1. /\ v.outcome = "reading" /\ Hash(v.tree, key) # {}
          /\ \A p \in NamedIn(tree, key) : tree[p].kind = "array"
          /\ KeysInv(v.tree, v.implicits, explicit, legal, o)
      BY <2>3 DEF HasOneMore
    <3>2. legal' = legal
      BY <1>2, <1>3, <1>4, <1>8, <1>10, <3>1
    <3>3. KeysInv(tree', implicits', explicit', legal', odd')
      BY <1>2, <3>1, <3>2
    <3>4. odd' = {} => legal'
      BY <1>2, <1>4, <3>2 DEF ReadingInv, o
    <3>5. ReadingInv'
      BY <1>2, <1>5, <3>1, <3>3, <3>4 DEF ReadingInv
    <3> QED
      BY <1>2, <3>1, <3>5 DEF MarksInv
  <2>4. CASE IsNoArray(v, key)
    <3>1. v.outcome = "refused" /\ ~legal'
      BY <1>2, <1>8, <2>4 DEF IsNoArray
    <3> QED
      BY <1>2, <3>1 DEF MarksInv, Lawful
  <2> QED
    BY <2>2, <2>3, <2>4
<1> QED
  BY <1>3, <1>9, <1>10

(* A key with a value, or with an inline table, and what is known of them. *)
LEMMA NowIs ==
  ASSUME TreeInv, MarksInv, outcome = "reading"
  PROVE  /\ context \in Keys /\ lines \in Nat /\ lines + 1 \in Nat /\ Sound(tree, lines)
         /\ legal \in BOOLEAN /\ ReadingInv
         /\ {"tree", "implicits", "outcome"} \subseteq DOMAIN Now
         /\ Now.tree = tree /\ Now.implicits = implicits /\ Now.outcome = "reading"
         /\ Ready(Now, context, lines)
<1>1. context \in Keys
  BY TablesAssumption, EmptySeq DEF TreeInv, Keys
<1>2. lines \in Nat /\ lines + 1 \in Nat /\ Sound(tree, lines)
  BY TablesAssumption DEF TreeInv
<1>3. legal \in BOOLEAN /\ ReadingInv
  BY DEF TreeInv, MarksInv
<1>4. /\ {"tree", "implicits", "outcome"} \subseteq DOMAIN Now
      /\ Now.tree = tree /\ Now.implicits = implicits /\ Now.outcome = "reading"
  BY DEF Now
<1>5. Ready(Now, context, lines)
  BY <1>2, NowReady
<1> QED
  BY <1>1, <1>2, <1>3, <1>4, <1>5

LEMMA NameWithoutDot ==
  ASSUME NEW k \in Names, NEW fields \in Keys,
         "dotted" \notin Dotted(<<k>> \o fields)
  PROVE  Len(Words[k]) = 1 /\ \A f \in ToSet(fields) : Len(Words[f]) = 1
<1> DEFINE a == <<k>>
           key == a \o fields
<1>1. a \in Keys /\ Len(a) = 1 /\ a[1] = k /\ Len(fields) \in Nat
  BY LenProperties DEF Keys
<1>2. /\ key \in Keys /\ Len(key) = Len(a) + Len(fields)
      /\ \A i \in 1 .. Len(a) + Len(fields) :
           key[i] = IF i <= Len(a) THEN a[i] ELSE fields[i - Len(a)]
  <2> HIDE DEF a
  <2> QED
    BY <1>1, ConcatProperties, Zenon DEF Keys
<1>3. Undotted(key)
  BY <1>2, DottedIs
<1> HIDE DEF a, key
<1>4. /\ Len(key) = 1 + Len(fields)
      /\ \A i \in 1 .. 1 + Len(fields) : key[i] = IF i <= 1 THEN a[i] ELSE fields[i - 1]
  BY <1>1, <1>2
<1>5. key[1] = k
  BY <1>1, <1>4
<1>6. Len(Words[k]) = 1
  BY <1>1, <1>3, <1>4, <1>5 DEF Undotted
<1>7. ASSUME NEW f \in ToSet(fields)
      PROVE  Len(Words[f]) = 1
  <2>1. PICK i \in DOMAIN fields : f = fields[i]
    BY DEF ToSet
  <2>2. i \in 1 .. Len(fields)
    BY LenProperties DEF Keys
  <2>3. i + 1 \in 1 .. Len(key) /\ key[i + 1] = fields[(i + 1) - 1] /\ (i + 1) - 1 = i
    BY <1>1, <1>4, <2>2
  <2> QED
    BY <1>3, <2>1, <2>3 DEF Undotted
<1> QED
  BY <1>6, <1>7

(* A key's line: what is there is a new node or a table of new nodes, and  *)
(* if it is a table the text has defined it.                               *)
LEMMA MarksInvKey ==
  ASSUME TreeInv, MarksInv, TreeInv', NEW k \in Names, NEW new, IsNew(new, lines + 1),
         NEW allowed \in BOOLEAN, NEW oddities,
         Line(SetValue(Now, context, k, new), LegalValue(k) /\ allowed, oddities),
         context' = context,
         explicit' = explicit \cup Defines(tree', Append(context, k), new),
         Shadowed(k) \subseteq oddities, oddities = {} => allowed,
         "dotted" \notin oddities =>
           /\ Len(Words[k]) = 1
           /\ \A f \in Names : At(<<>>, f) \in DOMAIN new => Len(Words[f]) = 1
  PROVE  MarksInv'
<1> DEFINE d == Append(context, k)
           v == SetValue(Now, context, k, new)
           o == odd \cup oddities
<1>1. /\ outcome = "reading" /\ tree' = v.tree /\ implicits' = v.implicits
      /\ outcome' = v.outcome /\ legal' = (legal /\ LegalValue(k) /\ allowed) /\ odd' = o
  BY DEF Line
<1>2. /\ context \in Keys /\ lines \in Nat /\ lines + 1 \in Nat /\ Sound(tree, lines)
      /\ legal \in BOOLEAN /\ ReadingInv
      /\ {"tree", "implicits", "outcome"} \subseteq DOMAIN Now
      /\ Now.tree = tree /\ Now.implicits = implicits /\ Now.outcome = "reading"
      /\ Ready(Now, context, lines)
  BY <1>1, NowIs
<1>3. d \in Keys \ {<<>>}
  BY <1>2, AppendedKey
<1>4. Sound(tree', lines') /\ lines' \in Nat
  BY TablesAssumption DEF TreeInv
<1>5. LegalValue(k) <=> NamedIn(tree, d) = {}
  BY DEF LegalValue, Named, NamedIn
<1>6. "dotted" \notin o => Undotted(context) /\ Undotted(d)
  BY <1>2, WholeUndotted DEF ReadingInv
<1>7. KeysInv(tree, implicits, explicit, legal, o)
  <2>1. KeysInv(tree, implicits, explicit, legal, odd) /\ odd \subseteq o
    BY <1>2 DEF ReadingInv
  <2> HIDE DEF o
  <2> QED
    BY <1>2, <2>1, KeysInvLess
<1>8. Lawful(legal, o) \/ Agreed(o) => Hash(tree, context) # {}
  BY <1>2 DEF ReadingInv, Lawful, Agreed
<1>9. /\ Extends(tree, tree')
      /\ \/ Hash(tree, context) = {} /\ v.outcome = "panic"
         \/ IsAdded(v, d, new, o) \/ LosesMark(v, d, o) \/ IsRefused(v, d, o)
  <2>1. "dotted" \notin o =>
          /\ Undotted(Append(context, k))
          /\ \A f \in Names : At(<<>>, f) \in DOMAIN new => Len(Words[f]) = 1
    BY <1>6
  <2> HIDE DEF v, o
  <2>2. /\ Extends(Now.tree, v.tree)
        /\ \/ Hash(Now.tree, context) = {} /\ v.outcome = "panic"
           \/ IsAdded(v, d, new, o) \/ LosesMark(v, d, o) \/ IsRefused(v, d, o)
    BY <1>2, <1>7, <2>1, SetKeeps DEF v
  <2> QED
    BY <1>1, <1>2, <2>2
<1>10. Shadowed(k) = If(\E p \in NamedIn(tree, d) : Implicit(p), "shadowed")
  BY DEF Shadowed, Named, NamedIn
<1>11. ASSUME KeysInv(tree', implicits', explicit', legal', odd'),
              v.outcome = "reading", odd' = {} => legal'
       PROVE  MarksInv'
  <2>1. Hash(tree, context) \subseteq Hash(tree', context)
    BY <1>2, <1>9, HashStays
  <2>2. Lawful(legal', odd') \/ Agreed(odd') => Hash(tree', context') # {}
    BY <1>1, <1>8, <2>1 DEF Lawful
  <2> HIDE DEF o
  <2>3. ReadingInv'
    BY <1>1, <1>6, <1>11, <2>2 DEF ReadingInv
  <2> QED
    BY <1>1, <1>11, <2>3 DEF MarksInv
<1> HIDE DEF v, o
<1>13. CASE Hash(tree, context) = {} /\ v.outcome = "panic"
  <2>1. ~Agreed(odd') /\ ~Lawful(legal', odd')
    BY <1>1, <1>8, <1>13 DEF Lawful
  <2> QED
    BY <1>1, <1>13, <2>1 DEF MarksInv
<1>14. CASE IsRefused(v, d, o)
  <2>1. v.outcome = "refused" /\ ~legal'
    BY <1>1, <1>5, <1>14 DEF IsRefused
  <2> QED
    BY <1>1, <2>1 DEF MarksInv, Lawful
<1>15. CASE IsAdded(v, d, new, o)
  <2>1. /\ NamedIn(tree, d) = {} /\ v.outcome = "reading"
        /\ KeysInv(v.tree, v.implicits, explicit \cup Defines(v.tree, d, new), legal, o)
    BY <1>15 DEF IsAdded
  <2>2. LegalValue(k)
    BY <1>5, <2>1
  <2>3. odd' = {} => legal'
    BY <1>1, <1>2, <2>2 DEF ReadingInv, o
  <2>4. KeysInv(tree', implicits', explicit', legal, odd')
    BY <1>1, <2>1
  <2>5. KeysInv(tree', implicits', explicit', legal', odd')
    BY <1>1, <2>4 DEF KeysInv
  <2> QED
    BY <1>11, <2>1, <2>3, <2>5
<1>16. CASE LosesMark(v, d, o)
  <2>1. /\ NamedIn(tree, d) # {} /\ v.outcome = "reading"
        /\ Agreed(o) => \A p \in NamedIn(tree, d) : tree[p].kind = "table"
        /\ o = {} => \A p \in NamedIn(tree, d) : p \notin explicit
        /\ KeysInv(v.tree, v.implicits, explicit \cup NamedIn(v.tree, d), legal, o)
        /\ KeysInv(v.tree, v.implicits, explicit, FALSE, o)
    BY <1>16 DEF LosesMark, Agreed
  <2>2. ~legal'
    BY <1>1, <1>5, <2>1
  <2>3. o # {}
    <3> SUFFICES ASSUME o = {}
                 PROVE  FALSE
      OBVIOUS
    <3>1. \A p \in NamedIn(tree, d) : Implicit(p)
      BY <2>1 DEF Implicit, Agreed
    <3>2. "shadowed" \in oddities
      BY <1>10, <2>1, <3>1 DEF If
    <3> QED
      BY <3>2 DEF o
  <2>4. KeysInv(tree', implicits', explicit', legal', odd')
    <3>1. CASE new[<<>>].kind = "table"
      <4>1. explicit' = explicit \cup NamedIn(v.tree, d)
        BY <1>1, <3>1 DEF Defines
      <4> QED
        BY <1>1, <2>1, <2>2, <4>1 DEF KeysInv
    <3>2. CASE new[<<>>].kind # "table"
      <4>1. explicit' = explicit
        BY <1>1, <3>2 DEF Defines
      <4> QED
        BY <1>1, <2>1, <2>2, <4>1 DEF KeysInv
    <3> QED
      BY <3>1, <3>2
  <2> QED
    BY <1>1, <1>11, <2>1, <2>3, <2>4
<1> QED
  BY <1>9, <1>13, <1>14, <1>15, <1>16
-----------------------------------------------------------------------------
(* The values of a tree, and those that a name's node brings.              *)
ValuesOf(t) == {p \in DOMAIN t : t[p].kind = "value"}
NewValues(at, new) ==
  {At(at, f) : f \in {g \in Names : At(<<>>, g) \in DOMAIN new}}
    \cup {p \in {at} : new[<<>>].kind = "value"}

LEMMA ReadyValues ==
  ASSUME NEW s, NEW c, NEW m, Ready(s, c, m)
  PROVE  ValuesOf(s.tree) = Values
<1>1. /\ \A p \in DOMAIN tree : p \in DOMAIN s.tree /\ s.tree[p] = tree[p]
      /\ \A p \in DOMAIN s.tree \ DOMAIN tree : s.tree[p].kind # "value"
  BY DEF Ready, Extends, Made, Table, Node
<1> QED
  BY <1>1 DEF ValuesOf, Values

LEMMA SetCounts ==
  ASSUME NEW m \in Nat, Sound(tree, m),
         NEW s, {"tree", "implicits", "outcome"} \subseteq DOMAIN s, s.outcome = "reading",
         NEW c \in Keys, Ready(s, c, m), NEW k \in Names, NEW new, IsNew(new, m + 1)
  PROVE  LET v == SetValue(s, c, k, new)
         IN \/ /\ ValuesOf(v.tree) = Values
               /\ v.outcome = "reading" => NamedIn(tree, Append(c, k)) # {}
            \/ \E at \in Hashes :
                 /\ ValuesOf(v.tree) = Values \cup NewValues(at, new)
                 /\ Values \cap NewValues(at, new) = {}
<1> DEFINE v == SetValue(s, c, k, new)
           d == Append(c, k)
           t == s.tree
<1>1. ValuesOf(t) = Values /\ Sound(t, m)
  BY ReadyValues DEF Ready
<1>2. \/ /\ Hash(t, c) = {}
         /\ v.outcome = "panic" /\ v.tree = t
      \/ \E h \in Hash(t, c) :
           \/ /\ At(h, k) \notin DOMAIN t
              /\ v.tree = Over(t, Hang(At(h, k), new))
              /\ v.implicits = s.implicits /\ v.outcome = s.outcome
           \/ /\ At(h, k) \in DOMAIN t /\ String(d) \in s.implicits
              /\ v.tree = t /\ v.implicits = s.implicits \ {String(d)}
              /\ v.outcome = s.outcome
           \/ /\ At(h, k) \in DOMAIN t /\ String(d) \notin s.implicits
              /\ v.tree = t /\ v.outcome = "refused"
  BY SetValueDoes
<1> HIDE DEF v
<1> DEFINE Kept1 == /\ ValuesOf(v.tree) = Values
                    /\ v.outcome = "reading" => NamedIn(tree, d) # {}
           Added == \E at \in Hashes :
                      /\ ValuesOf(v.tree) = Values \cup NewValues(at, new)
                      /\ Values \cap NewValues(at, new) = {}
<1>3. ASSUME v.tree = t, v.outcome # "reading"
      PROVE  Kept1
  BY <1>1, <1>3
<1>4. ASSUME NEW h \in Hash(t, c), At(h, k) \in DOMAIN t, v.tree = t
      PROVE  Kept1
  <2>1. At(h, k) \in DOMAIN s.tree => IsNamed(tree, d, At(h, k))
    BY ReadyNames
  <2>2. NamedIn(tree, d) # {}
    BY <1>4, <2>1 DEF IsNamed
  <2> QED
    BY <1>1, <1>4, <2>2
<1>5. ASSUME NEW h \in Hash(t, c), At(h, k) \notin DOMAIN t,
             v.tree = Over(t, Hang(At(h, k), new))
      PROVE  Added
  <2> DEFINE at == At(h, k)
             u == Over(t, Hang(at, new))
  <2>1. m + 1 \in Nat /\ m <= m + 1
    OBVIOUS
  <2>2. /\ Extends(t, u) /\ at \in NamedIn(u, d) /\ u[at] = new[<<>>] /\ at \in Hashes
        /\ \A p \in DOMAIN u \ DOMAIN t :
             p = at \/ \E f \in Names : /\ p = At(at, f) /\ At(<<>>, f) \in DOMAIN new
                                        /\ p \in NamedIn(u, Append(d, f))
                                        /\ u[p].kind = "value"
        /\ \A f \in Names : At(<<>>, f) \in DOMAIN new =>
             At(at, f) \in DOMAIN u \ DOMAIN t /\ u[At(at, f)].kind = "value"
    <3> HIDE DEF t
    <3> QED
      BY <1>1, <1>5, <2>1, HangNames
  <2>3. at \in DOMAIN u /\ at \notin DOMAIN t
    BY <1>5, <2>2 DEF NamedIn
  <2> HIDE DEF u, at, t
  <2>4. \A p \in DOMAIN t : p \in DOMAIN u /\ u[p] = t[p]
    BY <2>2 DEF Extends
  <2>5. \A p \in NewValues(at, new) :
          p \in DOMAIN u \ DOMAIN t /\ u[p].kind = "value"
    BY <2>2, <2>3 DEF NewValues
  <2>6. ASSUME NEW p \in DOMAIN u \ DOMAIN t, u[p].kind = "value"
        PROVE  p \in NewValues(at, new)
    BY <2>2, <2>6 DEF NewValues
  <2>7. ValuesOf(u) = ValuesOf(t) \cup NewValues(at, new)
    BY <2>4, <2>5, <2>6 DEF ValuesOf
  <2>8. ValuesOf(t) \cap NewValues(at, new) = {}
    BY <2>5 DEF ValuesOf
  <2>9. v.tree = u
    BY <1>5 DEF u, at
  <2> QED
    BY <1>1, <2>2, <2>7, <2>8, <2>9
<1>6. Kept1 \/ Added
  <2> HIDE DEF Kept1, Added
  <2> QED
    BY <1>2, <1>3, <1>4, <1>5
<1> QED
  BY <1>6 DEF v

LEMMA AddCounts ==
  ASSUME NEW m \in Nat, Sound(tree, m),
         NEW s, {"tree", "implicits", "outcome"} \subseteq DOMAIN s,
         NEW c \in Keys, Ready(s, c, m), s.hash \in Hash(s.tree, c), NEW k \in Names
  PROVE  ValuesOf(AddElement(s, k).tree) = Values
<1> DEFINE v == AddElement(s, k)
           t == s.tree
           h == s.hash
           at == At(h, k)
           n == IF at \in DOMAIN t THEN t[at].n + 1 ELSE 1
<1>1. ValuesOf(t) = Values /\ Sound(t, m)
  BY ReadyValues DEF Ready
<1>2. \/ v.tree = t
      \/ /\ at \notin DOMAIN t \/ t[at].kind = "array"
         /\ v.tree = Over(Element(s, k, n), t)
  <2>1. \/ /\ At(s.hash, k) \in DOMAIN s.tree /\ s.tree[At(s.hash, k)].kind # "array"
           /\ v.outcome = "refused" /\ v.tree = s.tree
        \/ /\ At(s.hash, k) \notin DOMAIN s.tree \/ s.tree[At(s.hash, k)].kind = "array"
           /\ v.tree = Over(Element(s, k, IF At(s.hash, k) \in DOMAIN s.tree
                                          THEN s.tree[At(s.hash, k)].n + 1 ELSE 1), s.tree)
           /\ v.implicits = s.implicits /\ v.outcome = s.outcome
    BY AddElementDoes, Zenon
  <2>2. n = IF At(s.hash, k) \in DOMAIN s.tree THEN s.tree[At(s.hash, k)].n + 1 ELSE 1
    OBVIOUS
  <2> HIDE DEF v, n
  <2> QED
    BY <2>1, <2>2
<1> HIDE DEF v
<1>3. CASE /\ at \notin DOMAIN t \/ t[at].kind = "array"
           /\ v.tree = Over(Element(s, k, n), t)
  <2>1. v.tree = WithElement(t, h, k, n)
    BY <1>3 DEF Element, WithElement
  <2>2. n \in Nat /\ IsNext(t, at, n)
    <3>1. at \in DOMAIN t => t[at].n \in Nat
      BY <1>1, SoundNode
    <3> QED
      BY <1>3, <3>1 DEF IsNext
  <2> DEFINE u == WithElement(t, h, k, n)
  <2> HIDE DEF n, t, h
  <2>3. /\ Grows(t, u) /\ u[at].kind = "array"
        /\ \A p \in DOMAIN u \ DOMAIN t :
             p = at \/ (u[p] = Table /\ \A b : p \notin NamedIn(u, b))
    BY <1>1, <2>2, ElementNames DEF t, h
  <2> HIDE DEF u, at
  <2>4. \A p \in DOMAIN u \ DOMAIN t : u[p].kind # "value"
    BY <2>3 DEF Table, Node
  <2>5. ValuesOf(u) = ValuesOf(t)
    BY <2>3, <2>4 DEF ValuesOf, Grows
  <2>6. ValuesOf(v.tree) = Values
    BY <1>1, <2>1, <2>5 DEF u
  <2> QED
    BY <2>6 DEF v
<1> QED
  BY <1>1, <1>2, <1>3 DEF v

(* A text that is read and legal has as many values in the mapping as it   *)
(* has given.                                                              *)
ValuesInv ==
  outcome = "reading" =>
    IsFiniteSet(Values) /\ (legal => Cardinality(Values) = written)

LEMMA HeaderCounts ==
  ASSUME TreeInv, ValuesInv, NEW key \in Headers, TableHeader(key) \/ ArrayHeader(key)
  PROVE  ValuesInv'
<1> DEFINE c == Front(key)
           k == Last(key)
           s == Establish(key)
           new == One(<<>>, Table)
           SetIt == IF s.outcome # "reading" THEN s ELSE SetValue(s, c, k, new)
           AddIt == IF s.outcome # "reading" THEN s ELSE AddElement(s, k)
<1>1. /\ c \in Keys /\ k \in Names /\ lines \in Nat /\ Sound(tree, lines)
      /\ Prepared(s, c, lines) /\ {"tree", "implicits", "outcome"} \subseteq DOMAIN s
  BY HeaderIs
<1>2. /\ outcome = "reading" /\ (tree' = SetIt.tree \/ tree' = AddIt.tree)
      /\ legal' => legal /\ written' = written
  BY DEF TableHeader, ArrayHeader, Line, Outer
<1>3. /\ Ready(s, c, lines) /\ s.outcome \in {"reading", "refused"}
      /\ s.outcome = "reading" => s.hash \in Hash(s.tree, c)
  BY <1>1, PreparedReady DEF Prepared
<1>4. IsNew(new, lines + 1) /\ \A at : NewValues(at, new) = {}
  <2>1. lines + 1 \in Nat /\ Table \in [kind : {"table", "value"}, n : 0 .. lines + 1]
        /\ Table.n = 0 /\ Table.kind = "table"
    BY <1>1 DEF Table, Node
  <2>2. \A f \in Names : At(<<>>, f) # <<>>
    BY AtIs, EmptySeq DEF Hashes
  <2>3. IsNew(new, lines + 1)
    BY <2>1, OneIsNew
  <2>4. DOMAIN new = {<<>>} /\ new[<<>>] = Table
    BY OneIs
  <2> HIDE DEF new
  <2>5. \A at : NewValues(at, new) = {}
    BY <2>1, <2>2, <2>4 DEF NewValues
  <2> QED
    BY <2>3, <2>5
<1> HIDE DEF s, c, k, new
<1>5. ValuesOf(s.tree) = Values
  BY <1>3, ReadyValues
<1>6. ValuesOf(SetIt.tree) = Values
  <2>1. CASE s.outcome = "reading"
    <3>1. ValuesOf(SetValue(s, c, k, new).tree) = Values
      BY <1>1, <1>3, <1>4, <2>1, SetCounts
    <3> QED
      BY <2>1, <3>1
  <2> QED
    BY <1>3, <1>5, <2>1
<1>7. ValuesOf(AddIt.tree) = Values
  <2>1. CASE s.outcome = "reading"
    <3>1. ValuesOf(AddElement(s, k).tree) = Values
      BY <1>1, <1>3, <2>1, AddCounts
    <3> QED
      BY <2>1, <3>1
  <2> QED
    BY <1>3, <1>5, <2>1
<1> HIDE DEF SetIt, AddIt
<1>8. Values' = Values
  BY <1>2, <1>6, <1>7 DEF Values, ValuesOf
<1> QED
  BY <1>2, <1>8 DEF ValuesInv

(* A key's line brings as many values as it gives if that is legal.        *)
LEMMA KeyCounts ==
  ASSUME TreeInv, MarksInv, ValuesInv, NEW k \in Names, NEW new, IsNew(new, lines + 1),
         NEW allowed \in BOOLEAN, NEW oddities, NEW n \in Nat,
         Line(SetValue(Now, context, k, new), LegalValue(k) /\ allowed, oddities),
         written' = written + n,
         \A at \in Hashes : /\ IsFiniteSet(NewValues(at, new))
                            /\ allowed => Cardinality(NewValues(at, new)) = n
  PROVE  ValuesInv'
<1> DEFINE v == SetValue(Now, context, k, new)
           d == Append(context, k)
<1>1. /\ outcome = "reading" /\ tree' = v.tree /\ outcome' = v.outcome
      /\ legal' = (legal /\ LegalValue(k) /\ allowed)
  BY DEF Line
<1>2. /\ context \in Keys /\ lines \in Nat /\ Sound(tree, lines)
      /\ {"tree", "implicits", "outcome"} \subseteq DOMAIN Now
      /\ Now.outcome = "reading" /\ Ready(Now, context, lines)
  BY <1>1, NowIs
<1>3. LegalValue(k) <=> NamedIn(tree, d) = {}
  BY DEF LegalValue, Named, NamedIn
<1>4. IsFiniteSet(Values) /\ (legal => Cardinality(Values) = written)
  BY <1>1 DEF ValuesInv
<1>5. Values' = ValuesOf(tree')
  BY DEF Values, ValuesOf
<1>6. \/ /\ ValuesOf(v.tree) = Values
         /\ v.outcome = "reading" => NamedIn(tree, d) # {}
      \/ \E at \in Hashes :
           /\ ValuesOf(v.tree) = Values \cup NewValues(at, new)
           /\ Values \cap NewValues(at, new) = {}
  BY <1>2, SetCounts
<1> HIDE DEF v, d
<1>7. CASE /\ ValuesOf(v.tree) = Values
           /\ v.outcome = "reading" => NamedIn(tree, d) # {}
  BY <1>1, <1>3, <1>4, <1>5, <1>7 DEF ValuesInv
<1>8. ASSUME NEW at \in Hashes,
             ValuesOf(v.tree) = Values \cup NewValues(at, new),
             Values \cap NewValues(at, new) = {}
      PROVE  ValuesInv'
  <2> DEFINE N == NewValues(at, new)
  <2>1. IsFiniteSet(N) /\ (allowed => Cardinality(N) = n) /\ Values \cap N = {}
    BY <1>8
  <2>2. Values' = Values \cup N
    BY <1>1, <1>5, <1>8
  <2> HIDE DEF N
  <2>3. /\ IsFiniteSet(Values \cup N)
        /\ Cardinality(Values \cup N)
             = Cardinality(Values) + Cardinality(N) - Cardinality(Values \cap N)
    BY <1>4, <2>1, FS_Union
  <2>4. Cardinality(Values \cap N) = 0
    BY <2>1, FS_EmptySet
  <2>5. legal /\ allowed => Cardinality(Values \cup N) = written + n
    <3>1. Cardinality(Values) \in Nat /\ Cardinality(N) \in Nat
      BY <1>4, <2>1, FS_CardinalityType
    <3> QED
      BY <1>4, <2>1, <2>3, <2>4, <3>1
  <2> QED
    BY <1>1, <2>2, <2>3, <2>5 DEF ValuesInv
<1> QED
  BY <1>6, <1>7, <1>8

(* The values that a line brings, counted.                                 *)
LEMMA OneCounts ==
  ASSUME NEW n \in Nat, NEW at
  PROVE  LET N == NewValues(at, One(<<>>, Value(n)))
         IN IsFiniteSet(N) /\ Cardinality(N) = 1
<1> DEFINE N == NewValues(at, One(<<>>, Value(n)))
<1>1. N = {} \cup {at}
  BY ValueIs DEF NewValues
<1>2. IsFiniteSet({}) /\ Cardinality({}) = 0
  BY FS_EmptySet
<1>3. IsFiniteSet({} \cup {at}) /\ Cardinality({} \cup {at}) = 0 + 1
  BY <1>2, FS_AddElement
<1> HIDE DEF N
<1>4. IsFiniteSet(N) /\ Cardinality(N) = 1
  BY <1>1, <1>3
<1> QED
  BY <1>4 DEF N

LEMMA InlineCounts ==
  ASSUME NEW fields \in Keys, NEW n \in Nat, NEW at \in Hashes
  PROVE  LET N == NewValues(at, InlineNode(fields, n))
         IN /\ IsFiniteSet(N)
            /\ Cardinality(ToSet(fields)) = Len(fields) => Cardinality(N) = Len(fields)
<1> DEFINE F == ToSet(fields)
           new == InlineNode(fields, n)
           N == NewValues(at, new)
           T == {At(at, f) : f \in F}
           g == [f \in F |-> At(at, f)]
           e == [i \in 1 .. Len(fields) |-> fields[i]]
<1>1. /\ F \subseteq Names /\ new[<<>>] = Table
      /\ \A f \in Names : At(<<>>, f) \in DOMAIN new <=> f \in F
  BY InlineIs DEF Keys
<1>2. Len(fields) \in Nat /\ DOMAIN fields = 1 .. Len(fields)
  BY LenProperties DEF Keys
<1>3. IsFiniteSet(F)
  <2>1. e \in Surjection(1 .. Len(fields), F)
    BY <1>2 DEF Surjection, ToSet
  <2>2. IsFiniteSet(1 .. Len(fields))
    BY <1>2, FS_Interval
  <2> QED
    BY <2>1, <2>2, FS_Surjection
<1> HIDE DEF F, new
<1>4. N = T
  <2>1. {f \in Names : At(<<>>, f) \in DOMAIN new} = F
    BY <1>1
  <2>2. Table.kind # "value"
    BY DEF Table, Node
  <2> QED
    BY <1>1, <2>1, <2>2 DEF NewValues
<1>5. g \in Bijection(F, T)
  <2>1. \A f, j \in F : At(at, f) = At(at, j) => f = j
    BY <1>1, ElementsDiffer DEF At
  <2>2. g \in Surjection(F, T)
    <3>1. /\ DOMAIN g = F /\ \A f \in F : g[f] = At(at, f) /\ g[f] \in T
          /\ \A p \in T : \E f \in F : p = At(at, f)
      OBVIOUS
    <3>2. g \in [F -> T]
      BY <3>1
    <3>3. \A p \in T : \E f \in F : g[f] = p
      BY <3>1, Zenon
    <3> HIDE DEF g, T
    <3> QED
      BY <3>2, <3>3, Zenon DEF Surjection
  <2>3. g \in Injection(F, T)
    <3>1. g \in [F -> T] /\ \A f, j \in DOMAIN g : g[f] = g[j] => f = j
      BY <2>1
    <3> HIDE DEF g, T
    <3> QED
      BY <3>1, Zenon DEF Injection, IsInjective
  <2> QED
    BY <2>2, <2>3 DEF Bijection
<1>6. IsFiniteSet(T) /\ Cardinality(T) = Cardinality(F)
  <2>1. ExistsBijection(F, T)
    BY <1>5 DEF ExistsBijection
  <2> HIDE DEF T
  <2> QED
    BY <1>3, <2>1, FS_Bijection
<1> HIDE DEF N, T
<1>7. IsFiniteSet(N) /\ (Cardinality(F) = Len(fields) => Cardinality(N) = Len(fields))
  BY <1>4, <1>6
<1> QED
  BY <1>7 DEF N, F, new
-----------------------------------------------------------------------------
ParserInv == TreeInv /\ MarksInv /\ ValuesInv

LEMMA ParserInvInit == Init => ParserInv
<1> SUFFICES ASSUME Init
             PROVE  ValuesInv
  BY TreeInvInit, MarksInvInit DEF ParserInv
<1>1. Values = {} /\ written = 0
  BY DEF Init, Values
<1> QED
  BY <1>1, FS_EmptySet DEF ValuesInv

LEMMA ParserInvNext ==
  ASSUME ParserInv, Next
  PROVE  ParserInv'
<1>1. TreeInv /\ MarksInv /\ ValuesInv /\ TreeInv'
  BY TreeInvNext DEF ParserInv
<1>2. ASSUME NEW key \in Headers, TableHeader(key)
      PROVE  MarksInv' /\ ValuesInv'
  BY <1>1, <1>2, MarksInvTableHeader, HeaderCounts
<1>3. ASSUME NEW key \in Headers, ArrayHeader(key)
      PROVE  MarksInv' /\ ValuesInv'
  BY <1>1, <1>3, MarksInvArrayHeader, HeaderCounts
<1>4. lines \in Nat /\ lines + 1 \in Nat
  BY <1>1, TablesAssumption DEF TreeInv
<1>5. ASSUME NEW k \in Names, KeyValue(k)
      PROVE  MarksInv' /\ ValuesInv'
  <2> DEFINE new == One(<<>>, Value(lines + 1))
             oddities == Dotted(<<k>>) \cup Shadowed(k)
  <2>1. /\ Line(SetValue(Now, context, k, new), LegalValue(k), oddities)
        /\ written' = written + 1 /\ context' = context /\ explicit' = explicit
    BY <1>5 DEF KeyValue
  <2>2. /\ IsNew(new, lines + 1) /\ new[<<>>] = Value(lines + 1)
        /\ Value(lines + 1).kind = "value"
        /\ \A f \in Names : At(<<>>, f) \notin DOMAIN new
    BY <1>4, ValueIs
  <2>3. "dotted" \notin oddities => Len(Words[k]) = 1
    <3>1. <<k>> \in Keys /\ Len(<<k>>) = 1 /\ <<k>>[1] = k
      BY DEF Keys
    <3>2. "dotted" \notin oddities => Undotted(<<k>>)
      BY <3>1, DottedIs
    <3> QED
      BY <3>1, <3>2 DEF Undotted
  <2>4. Line(SetValue(Now, context, k, new), LegalValue(k) /\ TRUE, oddities)
    BY <2>1 DEF Line
  <2>5. explicit' = explicit \cup Defines(tree', Append(context, k), new)
    BY <2>1, <2>2 DEF Defines
  <2>6. \A at \in Hashes : /\ IsFiniteSet(NewValues(at, new))
                           /\ TRUE => Cardinality(NewValues(at, new)) = 1
    BY <1>4, OneCounts
  <2>7. Shadowed(k) \subseteq oddities
    OBVIOUS
  <2> HIDE DEF new, oddities
  <2>8. MarksInv'
    BY <1>1, <2>1, <2>2, <2>3, <2>4, <2>5, <2>7, MarksInvKey
  <2>9. ValuesInv'
    BY <1>1, <2>1, <2>2, <2>4, <2>6, KeyCounts
  <2> QED
    BY <2>8, <2>9
<1>6. ASSUME NEW k \in Names, NEW fields \in Inlines, InlineTable(k, fields)
      PROVE  MarksInv' /\ ValuesInv'
  <2> DEFINE new == InlineNode(fields, lines + 1)
             distinct == Cardinality(ToSet(fields)) = Len(fields)
             oddities == Dotted(<<k>> \o fields) \cup Shadowed(k)
                           \cup If(~distinct, "repeated")
  <2>1. /\ Line(SetValue(Now, context, k, new), LegalValue(k) /\ distinct, oddities)
        /\ written' = written + Len(fields) /\ context' = context
    BY <1>6 DEF InlineTable, InlineNode
  <2>2. explicit' = explicit \cup NamedIn(tree', Append(context, k))
    BY <2>1, <1>6 DEF InlineTable, Named, NamedIn
  <2>3. fields \in Keys /\ Len(fields) \in Nat
    BY TablesAssumption, LenProperties DEF Keys
  <2>4. /\ IsNew(new, lines + 1) /\ new[<<>>] = Table /\ ToSet(fields) \subseteq Names
        /\ \A f \in Names : At(<<>>, f) \in DOMAIN new <=> f \in ToSet(fields)
    BY <1>4, <2>3, InlineIs DEF Keys
  <2>5. "dotted" \notin oddities =>
          /\ Len(Words[k]) = 1
          /\ \A f \in Names : At(<<>>, f) \in DOMAIN new => Len(Words[f]) = 1
    BY <2>3, <2>4, NameWithoutDot
  <2>6. explicit' = explicit \cup Defines(tree', Append(context, k), new)
    BY <2>2, <2>4 DEF Defines, Table, Node
  <2>7. /\ Shadowed(k) \subseteq oddities /\ distinct \in BOOLEAN
        /\ oddities = {} => distinct
    BY DEF If
  <2>8. \A at \in Hashes : /\ IsFiniteSet(NewValues(at, new))
                           /\ distinct => Cardinality(NewValues(at, new)) = Len(fields)
    BY <1>4, <2>3, InlineCounts
  <2> HIDE DEF new, oddities, distinct
  <2>9. MarksInv'
    BY <1>1, <2>1, <2>4, <2>5, <2>6, <2>7, MarksInvKey
  <2>10. ValuesInv'
    BY <1>1, <2>1, <2>3, <2>4, <2>7, <2>8, KeyCounts
  <2> QED
    BY <2>9, <2>10
<1> QED
  BY <1>1, <1>2, <1>3, <1>5, <1>6 DEF Next, ParserInv

LEMMA ParserInvAlways == Spec => []ParserInv
<1>1. ParserInv /\ [Next]_vars => ParserInv'
  <2>1. CASE Next
    BY <2>1, ParserInvNext
  <2>2. CASE UNCHANGED vars
    <3>1. Values' = Values /\ Hash(tree, context)' = Hash(tree, context)
      BY <2>2 DEF vars, Values, Hash, Walk
    <3>2. KeysInv(tree, implicits, explicit, legal, odd)' = KeysInv(tree, implicits, explicit, legal, odd)
      BY <2>2 DEF vars
    <3> QED
      BY <2>2, <3>1, <3>2 DEF vars, ParserInv, TreeInv, MarksInv, ValuesInv, ReadingInv
  <2> QED
    BY <2>1, <2>2
<1> QED
  BY <1>1, ParserInvInit, PTL DEF Spec

(* setValue's walk along the context comes to a table unless a mark is     *)
(* taken for another's (parse.go:411): it panics only in a text that has   *)
(* quoted names with dots or adds to an array of tables.                   *)
THEOREM ContextIsEstablished == Spec => []ContextEstablishedIfMarksAgree
<1>1. ParserInv => ContextEstablishedIfMarksAgree
  BY DEF ParserInv, MarksInv, Agreed, ContextEstablishedIfMarksAgree
<1> QED
  BY <1>1, ParserInvAlways, PTL

(* A legal text without dots in names is read to its end, and one that is  *)
(* not legal and does nothing unusual is refused (parse.go:430, 434).      *)
THEOREM RefusalsRight == Spec => []RefusesRedefinitions
<1>1. ParserInv => RefusesRedefinitions
  BY DEF ParserInv, MarksInv, ReadingInv, Lawful, RefusesRedefinitions
<1> QED
  BY <1>1, ParserInvAlways, PTL

(* A legal text that is read leaves each of its values in the mapping      *)
(* (parse.go:404).                                                         *)
THEOREM ValuesStay == Spec => []LegalValuesKept
<1>1. ParserInv => LegalValuesKept
  BY DEF ParserInv, ValuesInv, LegalValuesKept
<1> QED
  BY <1>1, ParserInvAlways, PTL
=============================================================================
