-------------------------- MODULE TemplateDataProofs --------------------------
(***************************************************************************)
(* What a template reads, for every prefix, all keys, paths and patterns   *)
(* and an int of any width: seq's loop, whose variable wraps; the keys of  *)
(* the store; what ls and lsdir list; and the order of all lists.          *)
(*                                                                         *)
(* What the functions of the path package compute, and sorting, are folds  *)
(* over sequences.  An induction is over a set of sequences: it holds the  *)
(* empty one and with each sequence those with one member more, and so all *)
(* of them (SeqInduction).                                                 *)
(***************************************************************************)
EXTENDS TemplateData, NaturalsInduction, WellFoundedInduction, SequenceTheorems,
        FiniteSetTheorems, TLAPS

-----------------------------------------------------------------------------
(* seq                                                                     *)

(* The numbers from the first on. *)
Numbers(first, n) == [j \in 1 .. n |-> first + j - 1]

(* seq's loop: its variable is an int, and as long as the last number is   *)
(* not the greatest it has not wrapped and counts what has been given.     *)
Rounds(first, last, list) ==
  /\ first \in Least .. Greatest /\ last \in Least .. Greatest
  /\ i \in Least .. Greatest
  /\ last < Greatest =>
       /\ Len(list) \in Nat /\ list = Numbers(first, Len(list))
       /\ i = first + Len(list)
       /\ Len(list) > 0 => i <= last + 1

SeqInv ==
  /\ answer.call = "seq" => Rounds(answer.arg[1], answer.arg[2], answer.list)
  /\ SeqIsRange

(* The bounds of an int, and the memory. *)
LEMMA Width ==
  /\ Least \in Int /\ Greatest \in Int /\ Least < Greatest
  /\ Memory \in Nat
BY DataAssumption

(* One more number. *)
LEMMA OneMore ==
  ASSUME NEW first \in Int, NEW n \in Nat
  PROVE  /\ Append(Numbers(first, n), first + n) = Numbers(first, n + 1)
         /\ Len(Numbers(first, n)) = n
<1>1. Numbers(first, n) \in Seq(Int) /\ Len(Numbers(first, n)) = n
  BY DEF Numbers
<1>2. first + n \in Int
  OBVIOUS
<1>3. /\ Append(Numbers(first, n), first + n) \in Seq(Int)
      /\ Len(Append(Numbers(first, n), first + n)) = n + 1
  BY <1>1, <1>2
<1>4. \A j \in 1 .. n + 1 :
        Append(Numbers(first, n), first + n)[j] = Numbers(first, n + 1)[j]
  <2> SUFFICES ASSUME NEW j \in 1 .. n + 1
               PROVE  Append(Numbers(first, n), first + n)[j]
                        = Numbers(first, n + 1)[j]
    OBVIOUS
  <2>1. Numbers(first, n + 1)[j] = first + j - 1
    BY DEF Numbers
  <2>2. CASE j \in 1 .. n
    <3>1. Append(Numbers(first, n), first + n)[j] = Numbers(first, n)[j]
      BY <1>1, <1>2, <2>2
    <3>2. Numbers(first, n)[j] = first + j - 1
      BY <2>2 DEF Numbers
    <3> QED BY <2>1, <3>1, <3>2
  <2>3. CASE j = n + 1
    <3>1. Append(Numbers(first, n), first + n)[j] = first + n
      BY <1>1, <1>2, <2>3
    <3>2. first + j - 1 = first + n
      BY <2>3
    <3> QED BY <2>1, <3>1, <3>2
  <2>4. j \in 1 .. n \/ j = n + 1
    OBVIOUS
  <2> QED BY <2>2, <2>3, <2>4
<1>5. Numbers(first, n + 1) \in Seq(Int) /\ Len(Numbers(first, n + 1)) = n + 1
  BY DEF Numbers
<1>6. Append(Numbers(first, n), first + n) = Numbers(first, n + 1)
  BY <1>3, <1>4, <1>5
<1> QED
  BY <1>1, <1>6

(* A round of the loop that has room for one more number. *)
LEMMA RoundKeeps ==
  ASSUME SeqInv, NextNumber, Len(answer.list) # Memory
  PROVE  SeqInv'
<1> DEFINE first == answer.arg[1]
           last == answer.arg[2]
           n == Len(answer.list)
<1>1. /\ answer.call = "seq" /\ i <= last /\ at = "render"
      /\ answer' = [call |-> "seq", arg |-> answer.arg,
                    list |-> Append(answer.list, i)]
      /\ i' = Wrapped(i) /\ at' = "render"
  BY DEF NextNumber, SeqGoes, Give
<1>2. Rounds(first, last, answer.list)
  BY <1>1 DEF SeqInv
<1>3. i' \in Least .. Greatest
  BY <1>1, <1>2, Width DEF Rounds, Wrapped
<1>4. ASSUME last < Greatest
      PROVE  /\ Len(Append(answer.list, i)) = n + 1
             /\ Append(answer.list, i) = Numbers(first, n + 1)
             /\ i' = first + (n + 1) /\ i' <= last + 1 /\ n \in Nat
  <2>1. /\ n \in Nat /\ answer.list = Numbers(first, n) /\ i = first + n
        /\ first \in Int /\ last \in Int
    BY <1>2, <1>4, Width DEF Rounds
  <2>2. i' = i + 1
    BY <1>1, <1>2, <1>4, Width DEF Wrapped, Rounds
  <2>3. Append(answer.list, i) = Numbers(first, n + 1)
    <3> HIDE DEF first, n
    <3> QED BY <2>1, OneMore
  <2>4. Len(Numbers(first, n + 1)) = n + 1
    <3> HIDE DEF first, n
    <3>1. n + 1 \in Nat BY <2>1
    <3> QED BY <2>1, <3>1, OneMore
  <2>5. i' = first + (n + 1) /\ i' <= last + 1
    <3> HIDE DEF first, last, n
    <3> QED BY <1>1, <2>1, <2>2
  <2> QED BY <2>1, <2>3, <2>4, <2>5
<1>6. /\ answer'.arg = answer.arg /\ answer'.list = Append(answer.list, i)
      /\ answer'.call = "seq"
  BY <1>1
<1>7. Rounds(answer.arg[1], answer.arg[2], answer.list)'
  <2>1. first \in Least .. Greatest /\ last \in Least .. Greatest
    BY <1>2 DEF Rounds
  <2>2. last < Greatest =>
          /\ Len(answer'.list) \in Nat
          /\ answer'.list = Numbers(first, Len(answer'.list))
          /\ i' = first + Len(answer'.list)
          /\ i' <= last + 1
    BY <1>4, <1>6
  <2> QED BY <1>3, <1>6, <2>1, <2>2 DEF Rounds
<1> QED
  BY <1>1, <1>6, <1>7 DEF SeqInv, SeqIsRange

(* Every step keeps the invariant. *)
LEMMA SeqStep == SeqInv /\ [Next]_vars => SeqInv'
<1> SUFFICES ASSUME SeqInv, [Next]_vars PROVE SeqInv'
  OBVIOUS
<1>1. CASE GetValues \/ Set \/ Stored
  <2>1. UNCHANGED <<answer, i>> /\ at' # "dead"
    BY <1>1 DEF GetValues, Set, Stored
  <2> QED BY <2>1 DEF SeqInv, Rounds, SeqIsRange
<1>2. ASSUME NEW call \in {"gets", "getvs", "ls", "lsdir", "reverse"},
             NEW arg, NEW list, Give(call, arg, list)
      PROVE  SeqInv'
  <2>1. answer'.call = call /\ at' = "render"
    BY <1>2 DEF Give
  <2> QED BY <2>1 DEF SeqInv, SeqIsRange
<1>3. ASSUME \/ \E p \in Patterns : Gets(p) \/ GetVs(p)
             \/ \E p \in Paths : Ls(p) \/ LsDir(p)
             \/ TurnRound
      PROVE  SeqInv'
  BY <1>2, <1>3 DEF Gets, GetVs, Ls, LsDir, TurnRound
<1>4. ASSUME NEW first \in Least .. Greatest, NEW last \in Least .. Greatest,
             CallSeq(first, last)
      PROVE  SeqInv'
  <2>1. /\ answer'.call = "seq" /\ answer'.arg[1] = first
        /\ answer'.arg[2] = last /\ answer'.list = <<>> /\ i' = first
        /\ at' = "render"
    BY <1>4 DEF CallSeq, Give
  <2>2. <<>> = Numbers(first, 0)
    BY DEF Numbers
  <2>3. Rounds(answer.arg[1], answer.arg[2], answer.list)'
    <3>1. Len(<<>>) = 0 /\ first = first + 0
      BY Width
    <3> QED BY <2>1, <2>2, <3>1 DEF Rounds
  <2> QED BY <2>1, <2>3 DEF SeqInv, SeqIsRange
<1>5. CASE NextNumber
  <2>1. CASE Len(answer.list) # Memory
    BY <1>5, <2>1, RoundKeeps
  <2>2. CASE Len(answer.list) = Memory
    <3>1. /\ answer.call = "seq" /\ i <= answer.arg[2]
          /\ UNCHANGED <<answer, i>>
      BY <1>5, <2>2 DEF NextNumber, SeqGoes
    <3>2. Rounds(answer.arg[1], answer.arg[2], answer.list)
      BY <3>1 DEF SeqInv
    <3>3. answer.arg[2] = Greatest \/ answer.arg[2] - answer.arg[1] >= Memory
      <4>1. /\ answer.arg[1] \in Int /\ answer.arg[2] \in Int
            /\ answer.arg[2] <= Greatest /\ i \in Int
        BY <3>2, Width DEF Rounds
      <4>2. CASE answer.arg[2] < Greatest
        <5>1. i = answer.arg[1] + Memory
          BY <2>2, <3>2, <4>2 DEF Rounds
        <5> QED BY <3>1, <4>1, <5>1, Width
      <4> QED BY <4>1, <4>2, Width
    <3> QED BY <3>1, <3>2, <3>3 DEF SeqInv, SeqIsRange, Rounds
  <2> QED BY <2>1, <2>2
<1>6. CASE EndOfSeq
  <2> DEFINE first == answer.arg[1]
             last == answer.arg[2]
             n == Len(answer.list)
  <2>1. /\ answer.call = "seq" /\ ~(i <= last) /\ at' = "render"
        /\ answer' = [call |-> "numbers", arg |-> answer.arg,
                      list |-> answer.list]
    BY <1>6 DEF EndOfSeq, SeqGoes, Give
  <2>2. Rounds(first, last, answer.list)
    BY <2>1 DEF SeqInv
  <2>3. last < Greatest
    BY <2>1, <2>2, Width DEF Rounds
  <2>4. answer.list = Numbers(first, n) /\ n \in Nat
    BY <2>2, <2>3 DEF Rounds
  <2>5. n = IF last < first THEN 0 ELSE last - first + 1
    <3>1. /\ first \in Int /\ last \in Int /\ i = first + n
          /\ n > 0 => i <= last + 1
      BY <2>2, <2>3, Width DEF Rounds
    <3> HIDE DEF first, last, n
    <3> QED BY <2>1, <2>4, <3>1
  <2>6. answer'.list = Numbers(first, IF last < first THEN 0
                                                      ELSE last - first + 1)
    BY <2>1, <2>4, <2>5
  <2>7. answer'.call = "numbers" /\ answer'.arg = answer.arg
    BY <2>1
  <2> QED BY <2>1, <2>6, <2>7 DEF SeqInv, SeqIsRange, Numbers
<1>7. CASE UNCHANGED vars
  BY <1>7 DEF vars, SeqInv, Rounds, SeqIsRange
<1> QED
  BY <1>1, <1>3, <1>4, <1>5, <1>6, <1>7 DEF Next, Render

(* seq gives the numbers from the first to the last, whatever the width of *)
(* an int; it runs out of memory only if they do not fit, or where the     *)
(* last is the greatest int (template_funcs.go:70).                        *)
THEOREM SeqGivesTheRange == Spec => []SeqIsRange
<1>1. Init => SeqInv
  BY DEF Init, NoAnswer, SeqInv, SeqIsRange
<1>2. SeqInv => SeqIsRange
  BY DEF SeqInv
<1> QED
  BY <1>1, <1>2, SeqStep, PTL DEF Spec

-----------------------------------------------------------------------------
(* Induction, and steps that are folded over sequences.                    *)

(* A set of naturals that is not empty has a least member.                 *)
LEMMA Lowest ==
  ASSUME NEW T \in SUBSET Nat, T # {}
  PROVE  \E n \in T : \A m \in T : n <= m
<1> DEFINE R == {ss \in Nat \X Nat : ss[1] < ss[2]}
<1>1. OpToRel(<, Nat) = R
  BY DEF OpToRel
<1>2. IsWellFoundedOn(R, Nat)
  BY <1>1, NatLessThanWellFounded
<1>3. PICK n \in T : \A m \in T : <<m, n>> \notin R
  <2> HIDE DEF R
  <2> QED
    BY <1>2, WFMin
<1>4. ASSUME NEW m \in T
      PROVE  n <= m
  <2>1. m \in Nat /\ n \in Nat
    BY <1>3
  <2>2. ~(m < n)
    <3>1. <<m, n>> \in Nat \X Nat /\ <<m, n>> \notin R
      BY <1>3, <2>1
    <3> QED
      BY <3>1
  <2> QED
    BY <2>1, <2>2
<1> HIDE DEF R
<1> QED
  BY <1>3, <1>4

(* Induction over the naturals, for a set of them.                         *)
LEMMA Induction ==
  ASSUME NEW S, 0 \in S, \A n \in Nat : n \in S => n + 1 \in S
  PROVE  Nat \subseteq S
<1>1. SUFFICES ASSUME Nat \ S # {} PROVE FALSE
  OBVIOUS
<1>2. PICK n \in Nat \ S : \A m \in Nat \ S : n <= m
  BY <1>1, Lowest
<1>3. n # 0 /\ n - 1 \in Nat /\ n - 1 \in S
  BY <1>2
<1> QED
  BY <1>2, <1>3

(* What holds of the empty sequence and, if of a sequence, of it with one  *)
(* element more holds of all sequences.                                    *)
LEMMA AppendIs ==
  ASSUME NEW D, NEW s \in Seq(D), NEW c \in D
  PROVE  /\ Append(s, c) \in Seq(D) /\ Len(Append(s, c)) = Len(s) + 1
         /\ \A h \in 1 .. Len(s) : Append(s, c)[h] = s[h]
         /\ Append(s, c)[Len(s) + 1] = c
         /\ Append(s, c) # <<>>
         /\ DOMAIN Append(s, c) = 1 .. Len(s) + 1
OBVIOUS

(* A sequence that is not empty has a last member, and one before it.      *)
LEMMA IsAppended ==
  ASSUME NEW D, NEW s \in Seq(D), s # <<>>
  PROVE  \E t \in Seq(D), c \in D : s = Append(t, c) /\ Len(s) = Len(t) + 1
<1> DEFINE n == Len(s) - 1
           t == SubSeq(s, 1, n)
           c == s[n + 1]
<1>1. n \in Nat /\ Len(s) = n + 1 /\ c \in D
  BY EmptySeq, LenProperties, ElementOfSeq
<1>2. t \in Seq(D) /\ Len(t) = n /\ \A h \in 1 .. n : t[h] = s[h]
  BY <1>1, SubSeqProperties
<1> HIDE DEF n, t, c
<1>3. /\ Append(t, c) \in Seq(D) /\ Len(Append(t, c)) = n + 1
      /\ \A h \in 1 .. n : Append(t, c)[h] = t[h]
      /\ Append(t, c)[n + 1] = c
  BY <1>1, <1>2, AppendIs
<1>4. \A h \in 1 .. Len(s) : Append(t, c)[h] = s[h]
  BY <1>1, <1>2, <1>3 DEF c
<1>5. Append(t, c) = s
  BY <1>1, <1>3, <1>4, SeqEqual
<1> QED
  BY <1>1, <1>2, <1>5

(* Induction over sequences, for a set of them: what holds of the empty    *)
(* sequence and of one with one more member holds of all.                  *)
LEMMA SeqInduction ==
  ASSUME NEW D, NEW T, <<>> \in T,
         \A s \in Seq(D) : \A c \in D : s \in T => Append(s, c) \in T
  PROVE  Seq(D) \subseteq T
<1> DEFINE Good == {n \in Nat : \A s \in Seq(D) : Len(s) = n => s \in T}
<1>1. 0 \in Good
  BY EmptySeq
<1>2. ASSUME NEW n \in Nat, n \in Good
      PROVE  n + 1 \in Good
  <2> SUFFICES ASSUME NEW s \in Seq(D), Len(s) = n + 1
               PROVE  s \in T
    OBVIOUS
  <2>1. PICK t \in Seq(D), c \in D : s = Append(t, c) /\ Len(s) = Len(t) + 1
    BY IsAppended, EmptySeq
  <2>2. Len(t) = n
    BY <2>1, LenProperties
  <2> QED
    BY <1>2, <2>1, <2>2
<1>3. Nat \subseteq Good
  <2> HIDE DEF Good
  <2> QED
    BY <1>1, <1>2, Induction
<1> QED
  BY <1>3, LenProperties

(* A fold over a sequence, element by element.                             *)
Follows(step, base, s, f) ==
  /\ DOMAIN f = 0 .. Len(s) /\ f[0] = base
  /\ \A n \in 1 .. Len(s) : <<f[n - 1], s[n]>> \in DOMAIN step => f[n] = step[<<f[n - 1], s[n]>>]

IsFold(F, S, D, base, step) ==
  /\ F \in [Seq(D) -> S]
  /\ F[<<>>] = base
  /\ \A s \in Seq(D), c \in D : F[Append(s, c)] = step[<<F[s], c>>]
  /\ \A s \in Seq(D) : /\ \E f \in [0 .. Len(s) -> S] : Follows(step, base, s, f)
                       /\ \A f : Follows(step, base, s, f) => f[Len(s)] = F[s]

(* A step applied to the members of a sequence, one after another, gives   *)
(* one result for each sequence.                                           *)
LEMMA FoldIs ==
  ASSUME NEW S, NEW D, NEW base \in S, NEW step \in [S \X D -> S]
  PROVE  \E F : IsFold(F, S, D, base, step)
<1> DEFINE Fol(s, f) == f \in [0 .. Len(s) -> S] /\ Follows(step, base, s, f)
           Some == {s \in Seq(D) : \E f : Fol(s, f)}
<1>1. <<>> \in Some
  <2>1. Fol(<<>>, [n \in 0 .. 0 |-> base])
    BY DEF Follows
  <2> QED BY <2>1
<1>2. ASSUME NEW s \in Seq(D), NEW c \in D, s \in Some
      PROVE  Append(s, c) \in Some
  <2>1. PICK f : Fol(s, f)
    BY <1>2
  <2> DEFINE N == Len(s)
             t == Append(s, c)
             g == [n \in 0 .. N + 1 |-> IF n \in 0 .. N THEN f[n] ELSE step[<<f[N], c>>]]
  <2>2. N \in Nat /\ t \in Seq(D) /\ Len(t) = N + 1 /\ t[N + 1] = c
        /\ \A h \in 1 .. N : t[h] = s[h] /\ s[h] \in D
    BY AppendIs, LenProperties, ElementOfSeq
  <2> HIDE DEF t, N
  <2>3. f \in [0 .. N -> S] /\ f[0] = base
        /\ \A n \in 1 .. N : <<f[n - 1], s[n]>> \in DOMAIN step => f[n] = step[<<f[n - 1], s[n]>>]
    BY <2>1 DEF Follows, N
  <2>4. g \in [0 .. N + 1 -> S]
    BY <2>2, <2>3
  <2>5. DOMAIN g = 0 .. Len(t) /\ g[0] = base
    BY <2>2, <2>3
  <2>6. ASSUME NEW n \in 1 .. N + 1, <<g[n - 1], t[n]>> \in DOMAIN step
        PROVE  g[n] = step[<<g[n - 1], t[n]>>]
    <3>1. CASE n \in 1 .. N
      <4>1. g[n] = f[n] /\ g[n - 1] = f[n - 1] /\ t[n] = s[n]
        BY <2>2, <3>1
      <4> QED BY <2>3, <2>6, <3>1, <4>1
    <3>2. CASE n = N + 1
      <4>1. n - 1 = N /\ g[n - 1] = f[N] /\ g[n] = step[<<f[N], c>>] /\ t[n] = c
        BY <2>2, <3>2
      <4> QED BY <4>1
    <3> QED BY <2>2, <3>1, <3>2
  <2>7. Fol(t, g)
    <3> HIDE DEF g
    <3> QED BY <2>2, <2>4, <2>5, <2>6 DEF Follows
  <2> HIDE DEF Fol
  <2> QED BY <2>2, <2>7 DEF t
<1>3. Seq(D) \subseteq Some
  <2> HIDE DEF Some
  <2> QED BY <1>1, <1>2, SeqInduction
<1>4. ASSUME NEW s \in Seq(D), NEW f, NEW g, Fol(s, f), Follows(step, base, s, g)
      PROVE  \A n \in 0 .. Len(s) : f[n] = g[n]
  <2> DEFINE Same == {n \in Nat : n <= Len(s) => f[n] = g[n]}
  <2>0. Len(s) \in Nat /\ \A h \in 1 .. Len(s) : s[h] \in D
    BY LenProperties, ElementOfSeq
  <2>1. 0 \in Same
    BY <1>4 DEF Follows
  <2>2. ASSUME NEW n \in Nat, n \in Same
        PROVE  n + 1 \in Same
    <3> SUFFICES ASSUME n + 1 <= Len(s) PROVE f[n + 1] = g[n + 1]
      OBVIOUS
    <3> DEFINE m == n + 1
    <3>1. m \in 1 .. Len(s) /\ m - 1 = n /\ n \in 0 .. Len(s)
      BY <2>0
    <3> HIDE DEF m
    <3>2. f[n] = g[n] /\ f[n] \in S /\ s[m] \in D
      BY <1>4, <2>0, <2>2, <3>1
    <3>3. f[m] = step[<<f[n], s[m]>>] /\ g[m] = step[<<g[n], s[m]>>]
      BY <1>4, <3>1, <3>2 DEF Follows
    <3> QED BY <3>2, <3>3 DEF m
  <2>3. Nat \subseteq Same
    <3> HIDE DEF Same
    <3> QED BY <2>1, <2>2, Induction
  <2> QED BY <2>0, <2>3
<1> DEFINE F == [s \in Seq(D) |-> (CHOOSE f : Fol(s, f))[Len(s)]]
<1>5. ASSUME NEW s \in Seq(D)
      PROVE  \E f : Fol(s, f) /\ F[s] = f[Len(s)]
  <2>1. \E f : Fol(s, f)
    BY <1>3
  <2> HIDE DEF Fol
  <2> DEFINE f == CHOOSE f : Fol(s, f)
  <2>2. Fol(s, f)
    BY <2>1
  <2>3. F[s] = f[Len(s)]
    OBVIOUS
  <2> QED BY <2>2, <2>3
<1> HIDE DEF F
<1>6. F \in [Seq(D) -> S]
  <2>1. F = [s \in Seq(D) |-> F[s]]
    BY DEF F
  <2>2. \A s \in Seq(D) : F[s] \in S
    BY <1>5, LenProperties
  <2> QED BY <2>1, <2>2
<1>7. ASSUME NEW s \in Seq(D), NEW g, Follows(step, base, s, g)
      PROVE  g[Len(s)] = F[s]
  <2>1. PICK f : Fol(s, f) /\ F[s] = f[Len(s)]
    BY <1>5
  <2>2. Len(s) \in 0 .. Len(s)
    BY LenProperties
  <2> QED BY <1>4, <1>7, <2>1, <2>2
<1>8. F[<<>>] = base
  <2>1. <<>> \in Seq(D) /\ Len(<<>>) = 0
    BY EmptySeq
  <2>2. PICK f : Fol(<<>>, f) /\ F[<<>>] = f[Len(<<>>)]
    BY <1>5, <2>1
  <2> QED BY <2>1, <2>2 DEF Follows
<1>9. ASSUME NEW s \in Seq(D), NEW c \in D
      PROVE  F[Append(s, c)] = step[<<F[s], c>>]
  <2> DEFINE t == Append(s, c)
             N == Len(s)
  <2>1. N \in Nat /\ t \in Seq(D) /\ Len(t) = N + 1 /\ t[N + 1] = c
        /\ \A h \in 1 .. N : t[h] = s[h]
    BY AppendIs, LenProperties
  <2>2. PICK g : Fol(t, g) /\ F[t] = g[Len(t)]
    BY <1>5, <2>1
  <2> HIDE DEF t
  <2> DEFINE f == [n \in 0 .. N |-> g[n]]
  <2>3. g \in [0 .. N + 1 -> S] /\ g[0] = base
        /\ \A n \in 1 .. N + 1 : <<g[n - 1], t[n]>> \in DOMAIN step => g[n] = step[<<g[n - 1], t[n]>>]
    BY <2>1, <2>2 DEF Follows
  <2>4. Follows(step, base, s, f)
    <3>1. \A n \in 0 .. N : f[n] = g[n]
      OBVIOUS
    <3>2. DOMAIN f = 0 .. N
      OBVIOUS
    <3> HIDE DEF f
    <3>3. ASSUME NEW n \in 1 .. N, <<f[n - 1], s[n]>> \in DOMAIN step
          PROVE  f[n] = step[<<f[n - 1], s[n]>>]
      <4>1. n - 1 \in 0 .. N /\ n \in 0 .. N /\ n \in 1 .. N + 1
        BY <2>1
      <4> QED BY <2>1, <2>3, <3>1, <3>3, <4>1
    <3> QED BY <2>1, <2>3, <3>1, <3>2, <3>3 DEF Follows
  <2>5. F[s] = g[N]
    <3>1. f[N] = g[N]
      BY <2>1
    <3> HIDE DEF f
    <3> QED BY <1>7, <2>4, <3>1
  <2>6. g[N] \in S /\ (N + 1) - 1 = N /\ N + 1 \in 1 .. N + 1
    BY <2>1, <2>3
  <2>7. <<g[N], c>> \in DOMAIN step
    BY <2>6
  <2>8. g[N + 1] = step[<<g[N], c>>]
    BY <2>1, <2>3, <2>6, <2>7
  <2> QED BY <2>1, <2>2, <2>5, <2>8 DEF t
<1>10. ASSUME NEW s \in Seq(D)
       PROVE  \E f \in [0 .. Len(s) -> S] : Follows(step, base, s, f)
  BY <1>5
<1> HIDE DEF Fol
<1> QED BY <1>6, <1>7, <1>8, <1>9, <1>10 DEF IsFold

-----------------------------------------------------------------------------
(* The recursive functions of the model as folds.                          *)

Chars == DOMAIN Rank
Text == Seq(Chars)
Letters == Chars \ {"/"}
Part == Seq(Letters)
Parts == Seq(Part) \ {<<>>}

(* One character more, and the parts stay parts: none holds a slash.       *)
LEMMA WithCharacterIs ==
  ASSUME NEW x \in Parts, NEW c \in Chars
  PROVE  WithCharacter(x, c) \in Parts
<1>1. Len(x) \in Nat \ {0} /\ x \in Seq(Part) /\ x # <<>> /\ DOMAIN x = 1 .. Len(x)
  BY EmptySeq, LenProperties DEF Parts
<1>2. CASE c = "/"
  <2>1. <<>> \in Part
    BY DEF Part
  <2> QED BY <1>1, <1>2, <2>1, AppendIs DEF WithCharacter, Parts
<1>3. CASE c # "/"
  <2> DEFINE m == Len(x)
  <2>1. c \in Letters /\ x[m] \in Part
    BY <1>1, <1>3, ElementOfSeq DEF Letters
  <2>2. Append(x[m], c) \in Part
    BY <2>1, AppendIs DEF Part
  <2>3. WithCharacter(x, c) = [x EXCEPT ![m] = Append(x[m], c)]
    BY <1>3 DEF WithCharacter
  <2>4. /\ [x EXCEPT ![m] = Append(x[m], c)] \in Seq(Part)
        /\ [x EXCEPT ![m] = Append(x[m], c)] # <<>>
    BY <1>1, <2>2, ExceptSeq
  <2> QED BY <2>3, <2>4 DEF Parts
<1> QED BY <1>2, <1>3

(* strings.Split is such a fold over the characters of a text.             *)
LEMMA SplitFolds ==
         \E F \in [Seq(Chars) -> Parts] :
           /\ F[<<>>] = <<<<>>>>
           /\ \A s \in Seq(Chars), c \in Chars : F[Append(s, c)] = WithCharacter(F[s], c)
           /\ \A s \in Seq(Chars) : F[s] = Split(s)
<1> DEFINE S == Parts
           D == Chars
           base == <<<<>>>>
           Go(x, c) == WithCharacter(x, c)
           step == [xc \in S \X D |-> Go(xc[1], xc[2])]
<1>1. base \in S
  BY DEF Parts, Part
<1>2. ASSUME NEW x \in S, NEW c \in D
      PROVE  Go(x, c) \in S
  BY <1>2, WithCharacterIs
<1> HIDE DEF S, D, base, Go
<1>3. step \in [S \X D -> S]
  BY <1>2
<1>4. \A x \in S, c \in D : step[<<x, c>>] = Go(x, c)
  OBVIOUS
<1>5. DOMAIN step = S \X D
  OBVIOUS
<1> HIDE DEF step
<1>6. PICK F : IsFold(F, S, D, base, step)
  BY <1>1, <1>3, FoldIs
<1>7. ASSUME NEW s \in Seq(D), NEW c \in D
      PROVE  F[Append(s, c)] = Go(F[s], c)
  BY <1>4, <1>6 DEF IsFold
<1>8. ASSUME NEW s \in Seq(D)
      PROVE  F[s] = Split(s)
  <2> DEFINE Is(f) == f = [n \in 0 .. Len(s) |-> IF n = 0 THEN base ELSE Go(f[n - 1], s[n])]
             g == CHOOSE f : Is(f)
  <2>0. Len(s) \in Nat /\ \A h \in 1 .. Len(s) : s[h] \in D
    BY LenProperties, ElementOfSeq
  <2>1. PICK f \in [0 .. Len(s) -> S] : Follows(step, base, s, f)
    BY <1>6 DEF IsFold
  <2>2. \A n \in 0 .. Len(s) : f[n] = IF n = 0 THEN base ELSE Go(f[n - 1], s[n])
    <3>1. f[0] = base
      BY <2>1 DEF Follows
    <3>2. ASSUME NEW n \in 1 .. Len(s)
          PROVE  f[n] = Go(f[n - 1], s[n])
      <4>1. f[n - 1] \in S /\ s[n] \in D
        BY <2>0, <2>1
      <4>2. <<f[n - 1], s[n]>> \in DOMAIN step
        BY <1>5, <4>1
      <4> QED BY <1>4, <2>1, <4>1, <4>2 DEF Follows
    <3> QED BY <2>0, <3>1, <3>2
  <2>3. Is(f)
    BY <2>1, <2>2
  <2>4. Is(g)
    BY <2>3
  <2>5. Follows(step, base, s, g)
    <3> HIDE DEF g
    <3>1. DOMAIN g = 0 .. Len(s) /\ g[0] = base
      BY <2>0, <2>4
    <3>2. ASSUME NEW n \in 1 .. Len(s), <<g[n - 1], s[n]>> \in DOMAIN step
          PROVE  g[n] = step[<<g[n - 1], s[n]>>]
      <4>1. g[n] = Go(g[n - 1], s[n])
        BY <2>0, <2>4
      <4>2. g[n - 1] \in S /\ s[n] \in D
        BY <1>5, <3>2
      <4> QED BY <1>4, <4>1, <4>2
    <3> QED BY <3>1, <3>2 DEF Follows
  <2>6. g[Len(s)] = Split(s)
    BY DEF Split, base, Go
  <2> HIDE DEF g
  <2> QED BY <1>6, <2>5, <2>6 DEF IsFold
<1> QED BY <1>6, <1>7, <1>8 DEF IsFold, S, D, base, Go

(* One part more, and what is joined stays a text.                         *)
LEMMA WithPartIs ==
  ASSUME NEW by \in Text, NEW x \in Text, NEW p \in Text
  PROVE  WithPart(x, by, p) \in Text
BY ConcatProperties DEF WithPart, Text

(* strings.Join is a fold over the parts.                                  *)
LEMMA JoinedFolds ==
  ASSUME NEW by \in Text
  PROVE  \E F \in [Seq(Text) -> Text] :
           /\ F[<<>>] = <<>>
           /\ \A s \in Seq(Text), c \in Text : F[Append(s, c)] = WithPart(F[s], by, c)
           /\ \A s \in Seq(Text) : F[s] = Joined(s, by)
<1> DEFINE S == Text
           D == Text
           base == <<>>
           Go(x, c) == WithPart(x, by, c)
           step == [xc \in S \X D |-> Go(xc[1], xc[2])]
<1>1. base \in S
  BY DEF Text
<1>2. ASSUME NEW x \in S, NEW c \in D
      PROVE  Go(x, c) \in S
  BY <1>2, WithPartIs
<1> HIDE DEF S, D, base, Go
<1>3. step \in [S \X D -> S]
  BY <1>2
<1>4. \A x \in S, c \in D : step[<<x, c>>] = Go(x, c)
  OBVIOUS
<1>5. DOMAIN step = S \X D
  OBVIOUS
<1> HIDE DEF step
<1>6. PICK F : IsFold(F, S, D, base, step)
  BY <1>1, <1>3, FoldIs
<1>7. ASSUME NEW s \in Seq(D), NEW c \in D
      PROVE  F[Append(s, c)] = Go(F[s], c)
  BY <1>4, <1>6 DEF IsFold
<1>8. ASSUME NEW s \in Seq(D)
      PROVE  F[s] = Joined(s, by)
  <2> DEFINE Is(f) == f = [n \in 0 .. Len(s) |-> IF n = 0 THEN base ELSE Go(f[n - 1], s[n])]
             g == CHOOSE f : Is(f)
  <2>0. Len(s) \in Nat /\ \A h \in 1 .. Len(s) : s[h] \in D
    BY LenProperties, ElementOfSeq
  <2>1. PICK f \in [0 .. Len(s) -> S] : Follows(step, base, s, f)
    BY <1>6 DEF IsFold
  <2>2. \A n \in 0 .. Len(s) : f[n] = IF n = 0 THEN base ELSE Go(f[n - 1], s[n])
    <3>1. f[0] = base
      BY <2>1 DEF Follows
    <3>2. ASSUME NEW n \in 1 .. Len(s)
          PROVE  f[n] = Go(f[n - 1], s[n])
      <4>1. f[n - 1] \in S /\ s[n] \in D
        BY <2>0, <2>1
      <4>2. <<f[n - 1], s[n]>> \in DOMAIN step
        BY <1>5, <4>1
      <4> QED BY <1>4, <2>1, <4>1, <4>2 DEF Follows
    <3> QED BY <2>0, <3>1, <3>2
  <2>3. Is(f)
    BY <2>1, <2>2
  <2>4. Is(g)
    BY <2>3
  <2>5. Follows(step, base, s, g)
    <3> HIDE DEF g
    <3>1. DOMAIN g = 0 .. Len(s) /\ g[0] = base
      BY <2>0, <2>4
    <3>2. ASSUME NEW n \in 1 .. Len(s), <<g[n - 1], s[n]>> \in DOMAIN step
          PROVE  g[n] = step[<<g[n - 1], s[n]>>]
      <4>1. g[n] = Go(g[n - 1], s[n])
        BY <2>0, <2>4
      <4>2. g[n - 1] \in S /\ s[n] \in D
        BY <1>5, <3>2
      <4> QED BY <1>4, <4>1, <4>2
    <3> QED BY <3>1, <3>2 DEF Follows
  <2>6. g[Len(s)] = Joined(s, by)
    BY DEF Joined, base, Go
  <2> HIDE DEF g
  <2> QED BY <1>6, <2>5, <2>6 DEF IsFold
<1> QED BY <1>6, <1>7, <1>8 DEF IsFold, S, D, base, Go

Name == Part \ NoName

(* One part more, and what path.Clean has kept stays a list of names.      *)
LEMMA WithNameIs ==
  ASSUME NEW rooted \in BOOLEAN, NEW x \in Seq(Name), NEW p \in Part
  PROVE  WithName(x, p, rooted) \in Seq(Name)
<1>1. CASE p \in NoName
  BY <1>1 DEF WithName
<1>2. CASE p \notin NoName
  <2>1. p \in Name
    BY <1>2 DEF Name
  <2>2. Append(x, p) \in Seq(Name)
    BY <2>1, AppendIs
  <2>3. x # <<>> => Front(x) \in Seq(Name)
    BY DEF Front
  <2> QED BY <2>2, <2>3 DEF WithName
<1> QED BY <1>1, <1>2

(* path.Clean is a fold over the parts.                                    *)
LEMMA NamesFolds ==
  ASSUME NEW rooted \in BOOLEAN
  PROVE  \E F \in [Seq(Part) -> Seq(Name)] :
           /\ F[<<>>] = <<>>
           /\ \A s \in Seq(Part), c \in Part : F[Append(s, c)] = WithName(F[s], c, rooted)
           /\ \A s \in Seq(Part) : F[s] = Names(s, rooted)
<1> DEFINE S == Seq(Name)
           D == Part
           base == <<>>
           Go(x, c) == WithName(x, c, rooted)
           step == [xc \in S \X D |-> Go(xc[1], xc[2])]
<1>1. base \in S
  OBVIOUS
<1>2. ASSUME NEW x \in S, NEW c \in D
      PROVE  Go(x, c) \in S
  BY <1>2, WithNameIs
<1> HIDE DEF S, D, base, Go
<1>3. step \in [S \X D -> S]
  BY <1>2
<1>4. \A x \in S, c \in D : step[<<x, c>>] = Go(x, c)
  OBVIOUS
<1>5. DOMAIN step = S \X D
  OBVIOUS
<1> HIDE DEF step
<1>6. PICK F : IsFold(F, S, D, base, step)
  BY <1>1, <1>3, FoldIs
<1>7. ASSUME NEW s \in Seq(D), NEW c \in D
      PROVE  F[Append(s, c)] = Go(F[s], c)
  BY <1>4, <1>6 DEF IsFold
<1>8. ASSUME NEW s \in Seq(D)
      PROVE  F[s] = Names(s, rooted)
  <2> DEFINE Is(f) == f = [n \in 0 .. Len(s) |-> IF n = 0 THEN base ELSE Go(f[n - 1], s[n])]
             g == CHOOSE f : Is(f)
  <2>0. Len(s) \in Nat /\ \A h \in 1 .. Len(s) : s[h] \in D
    BY LenProperties, ElementOfSeq
  <2>1. PICK f \in [0 .. Len(s) -> S] : Follows(step, base, s, f)
    BY <1>6 DEF IsFold
  <2>2. \A n \in 0 .. Len(s) : f[n] = IF n = 0 THEN base ELSE Go(f[n - 1], s[n])
    <3>1. f[0] = base
      BY <2>1 DEF Follows
    <3>2. ASSUME NEW n \in 1 .. Len(s)
          PROVE  f[n] = Go(f[n - 1], s[n])
      <4>1. f[n - 1] \in S /\ s[n] \in D
        BY <2>0, <2>1
      <4>2. <<f[n - 1], s[n]>> \in DOMAIN step
        BY <1>5, <4>1
      <4> QED BY <1>4, <2>1, <4>1, <4>2 DEF Follows
    <3> QED BY <2>0, <3>1, <3>2
  <2>3. Is(f)
    BY <2>1, <2>2
  <2>4. Is(g)
    BY <2>3
  <2>5. Follows(step, base, s, g)
    <3> HIDE DEF g
    <3>1. DOMAIN g = 0 .. Len(s) /\ g[0] = base
      BY <2>0, <2>4
    <3>2. ASSUME NEW n \in 1 .. Len(s), <<g[n - 1], s[n]>> \in DOMAIN step
          PROVE  g[n] = step[<<g[n - 1], s[n]>>]
      <4>1. g[n] = Go(g[n - 1], s[n])
        BY <2>0, <2>4
      <4>2. g[n - 1] \in S /\ s[n] \in D
        BY <1>5, <3>2
      <4> QED BY <1>4, <4>1, <4>2
    <3> QED BY <3>1, <3>2 DEF Follows
  <2>6. g[Len(s)] = Names(s, rooted)
    BY DEF Names, base, Go
  <2> HIDE DEF g
  <2> QED BY <1>6, <2>5, <2>6 DEF IsFold
<1> QED BY <1>6, <1>7, <1>8 DEF IsFold, S, D, base, Go

(* The names of a path, of which the empty part and the dot are none, are  *)
(* a fold over the parts.                                                  *)
LEMMA NamesInFolds ==
         \E F \in [Seq(Part) -> Seq(Name)] :
           /\ F[<<>>] = <<>>
           /\ \A s \in Seq(Part), c \in Part : F[Append(s, c)] = IF c \in NoName THEN F[s] ELSE Append(F[s], c)
           /\ \A s \in Seq(Part) : F[s] = NamesIn(s)
<1> DEFINE S == Seq(Name)
           D == Part
           base == <<>>
           Go(x, c) == IF c \in NoName THEN x ELSE Append(x, c)
           step == [xc \in S \X D |-> Go(xc[1], xc[2])]
<1>1. base \in S
  OBVIOUS
<1>2. ASSUME NEW x \in S, NEW c \in D
      PROVE  Go(x, c) \in S
  <2>1. c \notin NoName => c \in Name
    BY DEF Name
  <2> QED BY <1>2, <2>1, AppendIs
<1> HIDE DEF S, D, base, Go
<1>3. step \in [S \X D -> S]
  BY <1>2
<1>4. \A x \in S, c \in D : step[<<x, c>>] = Go(x, c)
  OBVIOUS
<1>5. DOMAIN step = S \X D
  OBVIOUS
<1> HIDE DEF step
<1>6. PICK F : IsFold(F, S, D, base, step)
  BY <1>1, <1>3, FoldIs
<1>7. ASSUME NEW s \in Seq(D), NEW c \in D
      PROVE  F[Append(s, c)] = Go(F[s], c)
  BY <1>4, <1>6 DEF IsFold
<1>8. ASSUME NEW s \in Seq(D)
      PROVE  F[s] = NamesIn(s)
  <2> DEFINE Is(f) == f = [n \in 0 .. Len(s) |-> IF n = 0 THEN base ELSE Go(f[n - 1], s[n])]
             g == CHOOSE f : Is(f)
  <2>0. Len(s) \in Nat /\ \A h \in 1 .. Len(s) : s[h] \in D
    BY LenProperties, ElementOfSeq
  <2>1. PICK f \in [0 .. Len(s) -> S] : Follows(step, base, s, f)
    BY <1>6 DEF IsFold
  <2>2. \A n \in 0 .. Len(s) : f[n] = IF n = 0 THEN base ELSE Go(f[n - 1], s[n])
    <3>1. f[0] = base
      BY <2>1 DEF Follows
    <3>2. ASSUME NEW n \in 1 .. Len(s)
          PROVE  f[n] = Go(f[n - 1], s[n])
      <4>1. f[n - 1] \in S /\ s[n] \in D
        BY <2>0, <2>1
      <4>2. <<f[n - 1], s[n]>> \in DOMAIN step
        BY <1>5, <4>1
      <4> QED BY <1>4, <2>1, <4>1, <4>2 DEF Follows
    <3> QED BY <2>0, <3>1, <3>2
  <2>3. Is(f)
    BY <2>1, <2>2
  <2>4. Is(g)
    BY <2>3
  <2>5. Follows(step, base, s, g)
    <3> HIDE DEF g
    <3>1. DOMAIN g = 0 .. Len(s) /\ g[0] = base
      BY <2>0, <2>4
    <3>2. ASSUME NEW n \in 1 .. Len(s), <<g[n - 1], s[n]>> \in DOMAIN step
          PROVE  g[n] = step[<<g[n - 1], s[n]>>]
      <4>1. g[n] = Go(g[n - 1], s[n])
        BY <2>0, <2>4
      <4>2. g[n - 1] \in S /\ s[n] \in D
        BY <1>5, <3>2
      <4> QED BY <1>4, <4>1, <4>2
    <3> QED BY <3>1, <3>2 DEF Follows
  <2>6. g[Len(s)] = NamesIn(s)
    BY DEF NamesIn, base, Go
  <2> HIDE DEF g
  <2> QED BY <1>6, <2>5, <2>6 DEF IsFold
<1> QED BY <1>6, <1>7, <1>8 DEF IsFold, S, D, base, Go

(* Sorting puts a text before the first that is greater, or at the end.    *)
LEMMA InsertIs ==
  ASSUME NEW x \in Seq(Text), NEW s \in Text
  PROVE  LET n == SelectInSeq(x, LAMBDA t : Less(s, t))
         IN /\ n = 0 => /\ \A h \in 1 .. Len(x) : ~Less(s, x[h])
                        /\ Insert(x, s) = Append(x, s)
            /\ n # 0 => /\ n \in 1 .. Len(x)
                        /\ \A h \in 1 .. n - 1 : ~Less(s, x[h])
                        /\ Less(s, x[n])
                        /\ Insert(x, s) = SubSeq(x, 1, n - 1) \o <<s>> \o SubSeq(x, n, Len(x))
            /\ Insert(x, s) \in Seq(Text)
<1> DEFINE I == {h \in 1 .. Len(x) : Less(s, x[h])}
           n == SelectInSeq(x, LAMBDA t : Less(s, t))
<1>1. n = IF I # {} THEN Min(I) ELSE 0
  BY DEF SelectInSeq
<1>2. I # {} => Min(I) \in I /\ \A h \in I : Min(I) <= h
  <2> SUFFICES ASSUME I # {} PROVE Min(I) \in I /\ \A h \in I : Min(I) <= h
    OBVIOUS
  <2>1. I \in SUBSET Nat
    OBVIOUS
  <2> HIDE DEF I
  <2>2. \E m \in I : \A h \in I : m <= h
    BY <2>1, Lowest
  <2> QED BY <2>2 DEF Min
<1> HIDE DEF n
<1>3. Insert(x, s) = IF n = 0 THEN Append(x, s) ELSE InsertAt(x, n, s)
  BY DEF Insert, n
<1>4. CASE n = 0
  <2>1. I = {}
    BY <1>1, <1>2, <1>4
  <2> QED BY <1>3, <1>4, <2>1, AppendIs DEF n
<1>5. CASE n # 0
  <2>1. n \in 1 .. Len(x) /\ Less(s, x[n]) /\ \A h \in I : n <= h
    BY <1>1, <1>2, <1>5
  <2>2. ASSUME NEW h \in 1 .. n - 1
        PROVE  ~Less(s, x[h])
    <3>1. h \in 1 .. Len(x) /\ ~(n <= h)
      BY <2>1
    <3> QED BY <2>1, <3>1
  <2>3. Insert(x, s) = SubSeq(x, 1, n - 1) \o <<s>> \o SubSeq(x, n, Len(x))
    BY <1>3, <1>5 DEF InsertAt
  <2>4. SubSeq(x, 1, n - 1) \in Seq(Text) /\ SubSeq(x, n, Len(x)) \in Seq(Text)
    BY <2>1
  <2>5. <<s>> \in Seq(Text)
    OBVIOUS
  <2>6. SubSeq(x, 1, n - 1) \o <<s>> \o SubSeq(x, n, Len(x)) \in Seq(Text)
    BY <2>4, <2>5, ConcatProperties
  <2> QED BY <1>5, <2>1, <2>2, <2>3, <2>6 DEF n
<1> QED BY <1>4, <1>5

(* Sorting is a fold over the texts.                                       *)
LEMMA SortedFolds ==
         \E F \in [Seq(Text) -> Seq(Text)] :
           /\ F[<<>>] = <<>>
           /\ \A s \in Seq(Text), c \in Text : F[Append(s, c)] = Insert(F[s], c)
           /\ \A s \in Seq(Text) : F[s] = Sorted(s)
<1> DEFINE S == Seq(Text)
           D == Text
           base == <<>>
           Go(x, c) == Insert(x, c)
           step == [xc \in S \X D |-> Go(xc[1], xc[2])]
<1>1. base \in S
  OBVIOUS
<1>2. ASSUME NEW x \in S, NEW c \in D
      PROVE  Go(x, c) \in S
  BY <1>2, InsertIs
<1> HIDE DEF S, D, base, Go
<1>3. step \in [S \X D -> S]
  BY <1>2
<1>4. \A x \in S, c \in D : step[<<x, c>>] = Go(x, c)
  OBVIOUS
<1>5. DOMAIN step = S \X D
  OBVIOUS
<1> HIDE DEF step
<1>6. PICK F : IsFold(F, S, D, base, step)
  BY <1>1, <1>3, FoldIs
<1>7. ASSUME NEW s \in Seq(D), NEW c \in D
      PROVE  F[Append(s, c)] = Go(F[s], c)
  BY <1>4, <1>6 DEF IsFold
<1>8. ASSUME NEW s \in Seq(D)
      PROVE  F[s] = Sorted(s)
  <2> DEFINE Is(f) == f = [n \in 0 .. Len(s) |-> IF n = 0 THEN base ELSE Go(f[n - 1], s[n])]
             g == CHOOSE f : Is(f)
  <2>0. Len(s) \in Nat /\ \A h \in 1 .. Len(s) : s[h] \in D
    BY LenProperties, ElementOfSeq
  <2>1. PICK f \in [0 .. Len(s) -> S] : Follows(step, base, s, f)
    BY <1>6 DEF IsFold
  <2>2. \A n \in 0 .. Len(s) : f[n] = IF n = 0 THEN base ELSE Go(f[n - 1], s[n])
    <3>1. f[0] = base
      BY <2>1 DEF Follows
    <3>2. ASSUME NEW n \in 1 .. Len(s)
          PROVE  f[n] = Go(f[n - 1], s[n])
      <4>1. f[n - 1] \in S /\ s[n] \in D
        BY <2>0, <2>1
      <4>2. <<f[n - 1], s[n]>> \in DOMAIN step
        BY <1>5, <4>1
      <4> QED BY <1>4, <2>1, <4>1, <4>2 DEF Follows
    <3> QED BY <2>0, <3>1, <3>2
  <2>3. Is(f)
    BY <2>1, <2>2
  <2>4. Is(g)
    BY <2>3
  <2>5. Follows(step, base, s, g)
    <3> HIDE DEF g
    <3>1. DOMAIN g = 0 .. Len(s) /\ g[0] = base
      BY <2>0, <2>4
    <3>2. ASSUME NEW n \in 1 .. Len(s), <<g[n - 1], s[n]>> \in DOMAIN step
          PROVE  g[n] = step[<<g[n - 1], s[n]>>]
      <4>1. g[n] = Go(g[n - 1], s[n])
        BY <2>0, <2>4
      <4>2. g[n - 1] \in S /\ s[n] \in D
        BY <1>5, <3>2
      <4> QED BY <1>4, <4>1, <4>2
    <3> QED BY <3>1, <3>2 DEF Follows
  <2>6. g[Len(s)] = Sorted(s)
    BY DEF Sorted, base, Go
  <2> HIDE DEF g
  <2> QED BY <1>6, <2>5, <2>6 DEF IsFold
<1> QED BY <1>6, <1>7, <1>8 DEF IsFold, S, D, base, Go

-----------------------------------------------------------------------------
(* What they compute, member by member.                                    *)

(* One more member at the end of what is appended.                         *)
LEMMA ConcatAppend ==
  ASSUME NEW D, NEW s \in Seq(D), NEW t \in Seq(D), NEW c \in D
  PROVE  s \o Append(t, c) = Append(s \o t, c)
<1>1. /\ s \o t \in Seq(D) /\ Len(s \o t) = Len(s) + Len(t)
      /\ \A h \in 1 .. Len(s) + Len(t) : (s \o t)[h] = IF h <= Len(s) THEN s[h] ELSE t[h - Len(s)]
  BY ConcatProperties
<1> DEFINE u == s \o t
           v == Append(t, c)
           n == Len(s)
           m == Len(t)
<1>2. n \in Nat /\ m \in Nat
  BY LenProperties
<1>3. /\ v \in Seq(D) /\ Len(v) = m + 1 /\ (\A h \in 1 .. m : v[h] = t[h]) /\ v[m + 1] = c
  BY AppendIs
<1>4. /\ s \o v \in Seq(D) /\ Len(s \o v) = n + (m + 1)
      /\ \A h \in 1 .. n + (m + 1) : (s \o v)[h] = IF h <= n THEN s[h] ELSE v[h - n]
  BY <1>3, ConcatProperties
<1> HIDE DEF u, v
<1>5. /\ Append(u, c) \in Seq(D) /\ Len(Append(u, c)) = n + m + 1
      /\ \A h \in 1 .. n + m : Append(u, c)[h] = u[h]
      /\ Append(u, c)[n + m + 1] = c
  BY <1>1, AppendIs DEF u
<1> DEFINE w == Append(u, c)
           x == s \o v
<1> HIDE DEF w, x, n, m
<1>6. ASSUME NEW h \in 1 .. n + m + 1
      PROVE  w[h] = x[h]
  <2>1. CASE h <= n
    BY <1>1, <1>2, <1>4, <1>5, <2>1 DEF w, x, u, n, m
  <2>2. CASE n < h /\ h <= n + m
    <3>1. x[h] = v[h - n] /\ h - n \in 1 .. m
      BY <1>2, <1>4, <2>2 DEF x
    <3>2. w[h] = u[h] /\ u[h] = t[h - n]
      BY <1>1, <1>2, <1>5, <2>2 DEF w, u, n, m
    <3> QED BY <1>3, <3>1, <3>2
  <2>3. CASE h = n + m + 1
    <3>1. x[h] = v[h - n] /\ h - n = m + 1
      BY <1>2, <1>4, <2>3 DEF x
    <3> QED BY <1>3, <1>5, <2>3, <3>1 DEF w
  <2> QED BY <1>2, <2>1, <2>2, <2>3
<1>7. w = x
  <2>1. w \in Seq(D) /\ Len(w) = n + m + 1
    BY <1>5 DEF w
  <2>2. x \in Seq(D) /\ Len(x) = n + m + 1
    BY <1>2, <1>4 DEF x
  <2> QED BY <1>6, <2>1, <2>2, SeqEqual
<1> QED BY <1>7 DEF w, x, u, v

(* A sequence of one member appended.                                      *)
LEMMA AppendOne ==
  ASSUME NEW D, NEW s \in Seq(D), NEW c \in D
  PROVE  s \o <<c>> = Append(s, c) /\ <<c>> \in Seq(D) /\ Append(<<>>, c) = <<c>>
<1>1. Append(<<>>, c) = <<c>> /\ <<>> \in Seq(D) /\ <<c>> \in Seq(D)
  OBVIOUS
<1>2. s \o Append(<<>>, c) = Append(s \o <<>>, c)
  BY <1>1, ConcatAppend
<1>3. s \o <<>> = s
  BY ConcatEmptySeq
<1>4. s \o <<c>> = Append(s, c)
  BY <1>1, <1>2, <1>3, Zenon
<1> QED BY <1>1, <1>4

(* The slash and the dot are characters; parts are texts.                  *)
LEMMA CharactersAre ==
  /\ "/" \in Chars /\ "." \in Chars
  /\ Letters \subseteq Chars /\ Part \subseteq Text
  /\ Slash \in Text /\ <<>> \in Text /\ <<>> \in Part
<1>1. "/" \in Chars /\ "." \in Chars /\ Letters \subseteq Chars
  BY DataAssumption DEF Chars, Letters
<1>2. Part \subseteq Text
  BY <1>1, SeqMonotonic DEF Part, Text
<1> QED BY <1>1, <1>2 DEF Slash, Text, Part

(* strings.Split, character by character: what it gives is never empty.    *)
LEMMA SplitIs ==
  /\ Split(<<>>) = <<<<>>>>
  /\ \A s \in Text : Split(s) \in Parts
  /\ \A s \in Text, c \in Chars : Split(Append(s, c)) = WithCharacter(Split(s), c)
<1>1. PICK F \in [Seq(Chars) -> Parts] :
           /\ F[<<>>] = <<<<>>>>
           /\ \A s \in Seq(Chars), c \in Chars : F[Append(s, c)] = WithCharacter(F[s], c)
           /\ \A s \in Seq(Chars) : F[s] = Split(s)
  BY SplitFolds
<1>2. <<>> \in Seq(Chars) /\ \A s \in Seq(Chars), c \in Chars : Append(s, c) \in Seq(Chars)
  BY AppendIs
<1> QED BY <1>1, <1>2 DEF Text

(* strings.Join, part by part.                                             *)
LEMMA JoinedIs ==
  ASSUME NEW by \in Text
  PROVE  /\ Joined(<<>>, by) = <<>>
         /\ \A ps \in Seq(Text) : Joined(ps, by) \in Text
         /\ \A ps \in Seq(Text), p \in Text :
              Joined(Append(ps, p), by) = WithPart(Joined(ps, by), by, p)
<1>1. PICK F \in [Seq(Text) -> Text] :
           /\ F[<<>>] = <<>>
           /\ \A s \in Seq(Text), c \in Text : F[Append(s, c)] = WithPart(F[s], by, c)
           /\ \A s \in Seq(Text) : F[s] = Joined(s, by)
  BY JoinedFolds
<1>2. <<>> \in Seq(Text) /\ \A s \in Seq(Text), c \in Text : Append(s, c) \in Seq(Text)
  BY AppendIs
<1> QED BY <1>1, <1>2

(* path.Clean, part by part.                                               *)
LEMMA NamesIs ==
  ASSUME NEW rooted \in BOOLEAN
  PROVE  /\ Names(<<>>, rooted) = <<>>
         /\ \A ps \in Seq(Part) : Names(ps, rooted) \in Seq(Name)
         /\ \A ps \in Seq(Part), p \in Part :
              Names(Append(ps, p), rooted) = WithName(Names(ps, rooted), p, rooted)
<1>1. PICK F \in [Seq(Part) -> Seq(Name)] :
           /\ F[<<>>] = <<>>
           /\ \A s \in Seq(Part), c \in Part : F[Append(s, c)] = WithName(F[s], c, rooted)
           /\ \A s \in Seq(Part) : F[s] = Names(s, rooted)
  BY NamesFolds
<1>2. <<>> \in Seq(Part) /\ \A s \in Seq(Part), c \in Part : Append(s, c) \in Seq(Part)
  BY AppendIs
<1> QED BY <1>1, <1>2

(* The names among the parts, part by part.                                *)
LEMMA NamesInIs ==
  /\ NamesIn(<<>>) = <<>>
  /\ \A ps \in Seq(Part) : NamesIn(ps) \in Seq(Name)
  /\ \A ps \in Seq(Part), p \in Part :
       NamesIn(Append(ps, p)) = IF p \in NoName THEN NamesIn(ps) ELSE Append(NamesIn(ps), p)
<1>1. PICK F \in [Seq(Part) -> Seq(Name)] :
           /\ F[<<>>] = <<>>
           /\ \A s \in Seq(Part), c \in Part :
                F[Append(s, c)] = IF c \in NoName THEN F[s] ELSE Append(F[s], c)
           /\ \A s \in Seq(Part) : F[s] = NamesIn(s)
  BY NamesInFolds
<1>2. <<>> \in Seq(Part) /\ \A s \in Seq(Part), c \in Part : Append(s, c) \in Seq(Part)
  BY AppendIs
<1> QED BY <1>1, <1>2

(* Sorting, text by text.                                                  *)
LEMMA SortedIs ==
  /\ Sorted(<<>>) = <<>>
  /\ \A ps \in Seq(Text) : Sorted(ps) \in Seq(Text)
  /\ \A ps \in Seq(Text), p \in Text : Sorted(Append(ps, p)) = Insert(Sorted(ps), p)
<1>1. PICK F \in [Seq(Text) -> Seq(Text)] :
           /\ F[<<>>] = <<>>
           /\ \A s \in Seq(Text), c \in Text : F[Append(s, c)] = Insert(F[s], c)
           /\ \A s \in Seq(Text) : F[s] = Sorted(s)
  BY SortedFolds
<1>2. <<>> \in Seq(Text) /\ \A s \in Seq(Text), c \in Text : Append(s, c) \in Seq(Text)
  BY AppendIs
<1> QED BY <1>1, <1>2

-----
(* A character goes to the last part and leaves those before it alone.     *)
LEMMA WithCharacterConcat ==
  ASSUME NEW a \in Seq(Part), NEW b \in Parts, NEW c \in Chars
  PROVE  WithCharacter(a \o b, c) = a \o WithCharacter(b, c)
<1>0. b \in Seq(Part) /\ b # <<>> /\ Len(b) \in Nat \ {0} /\ Len(a) \in Nat /\ <<>> \in Part
  BY EmptySeq, LenProperties, CharactersAre DEF Parts
<1>1. CASE c = "/"
  <2>1. a \o Append(b, <<>>) = Append(a \o b, <<>>)
    BY <1>0, ConcatAppend
  <2> QED BY <1>1, <2>1 DEF WithCharacter
<1>2. CASE c # "/"
  <2> DEFINE d == a \o b
             n == Len(a)
             m == Len(b)
             e == Append(b[m], c)
             b1 == [b EXCEPT ![m] = e]
             d1 == [d EXCEPT ![n + m] = e]
  <2>1. /\ d \in Seq(Part) /\ Len(d) = n + m
        /\ \A h \in 1 .. n + m : d[h] = IF h <= n THEN a[h] ELSE b[h - n]
    BY <1>0, ConcatProperties
  <2>2. b[m] \in Part /\ c \in Letters
    BY <1>0, <1>2, ElementOfSeq DEF Letters
  <2>3. e \in Part
    BY <2>2, AppendIs DEF Part
  <2> HIDE DEF d, e
  <2>4. /\ b1 \in Seq(Part) /\ Len(b1) = m
        /\ \A j \in 1 .. m : b1[j] = IF j = m THEN e ELSE b[j]
    BY <1>0, <2>3, ExceptSeq
  <2>5. /\ d1 \in Seq(Part) /\ Len(d1) = n + m
        /\ \A j \in 1 .. n + m : d1[j] = IF j = n + m THEN e ELSE d[j]
    <3>1. n + m \in 1 .. Len(d)
      BY <1>0, <2>1
    <3> QED BY <2>1, <2>3, <3>1, ExceptSeq
  <2> HIDE DEF b1, d1
  <2>6. /\ a \o b1 \in Seq(Part) /\ Len(a \o b1) = n + m
        /\ \A h \in 1 .. n + m : (a \o b1)[h] = IF h <= n THEN a[h] ELSE b1[h - n]
    <3>1. /\ a \o b1 \in Seq(Part) /\ Len(a \o b1) = Len(a) + Len(b1)
          /\ \A h \in 1 .. Len(a) + Len(b1) :
               (a \o b1)[h] = IF h <= Len(a) THEN a[h] ELSE b1[h - Len(a)]
      BY <2>4, ConcatProperties
    <3> QED BY <2>4, <3>1
  <2> DEFINE x == a \o b1
  <2> HIDE DEF x, n, m
  <2>7. ASSUME NEW h \in 1 .. n + m
        PROVE  x[h] = d1[h]
    <3>0. n \in Nat /\ m \in Nat \ {0}
      BY <1>0 DEF n, m
    <3>1. CASE h <= n
      BY <2>1, <2>5, <2>6, <3>0, <3>1 DEF x
    <3>2. CASE h > n
      <4>1. h - n \in 1 .. m /\ (h - n = m <=> h = n + m)
        BY <3>0, <3>2
      <4>2. x[h] = b1[h - n] /\ d[h] = b[h - n]
        BY <2>1, <2>6, <3>0, <3>2 DEF x
      <4>3. b1[h - n] = IF h - n = m THEN e ELSE b[h - n]
        BY <2>4, <4>1
      <4>4. d1[h] = IF h = n + m THEN e ELSE d[h]
        BY <2>5
      <4> QED BY <4>1, <4>2, <4>3, <4>4
    <3> QED BY <3>0, <3>1, <3>2
  <2>8. x = d1
    BY <2>5, <2>6, <2>7, SeqEqual DEF x
  <2>9. WithCharacter(d, c) = d1
    <3>1. d[n + m] = b[m]
      BY <1>0, <2>1 DEF n, m
    <3>2. WithCharacter(d, c) = [d EXCEPT ![n + m] = Append(d[n + m], c)]
      BY <1>2, <2>1 DEF WithCharacter
    <3> QED BY <3>1, <3>2 DEF d1, e
  <2>10. WithCharacter(b, c) = b1
    BY <1>2 DEF WithCharacter, b1, e, m
  <2> QED BY <2>8, <2>9, <2>10 DEF x, d
<1> QED BY <1>1, <1>2

(* A slash between two texts separates their parts.                        *)
LEMMA SplitConcat ==
  ASSUME NEW s \in Text, NEW t \in Text
  PROVE  /\ Split((s \o Slash) \o t) = Split(s) \o Split(t)
         /\ (s \o Slash) \o t \in Text /\ s \o Slash = Append(s, "/")
<1> DEFINE T == {t0 \in Text : Split((s \o Slash) \o t0) = Split(s) \o Split(t0)}
           r == s \o Slash
<1>1. r = Append(s, "/") /\ r \in Text
  BY CharactersAre, AppendOne, AppendIs DEF Slash, Text
<1> HIDE DEF r
<1>2. Split(s) \in Parts /\ Split(s) \in Seq(Part)
  BY SplitIs DEF Parts
<1>3. <<>> \in T
  <2>1. r \o <<>> = r
    BY <1>1, ConcatEmptySeq DEF Text
  <2>2. Split(r) = Append(Split(s), <<>>)
    BY <1>1, SplitIs, CharactersAre DEF WithCharacter
  <2>3. Split(s) \o <<<<>>>> = Append(Split(s), <<>>)
    BY <1>2, AppendOne, CharactersAre
  <2>4. Split(r \o <<>>) = Split(s) \o Split(<<>>)
    BY <2>1, <2>2, <2>3, SplitIs
  <2> QED BY <2>4, CharactersAre DEF r
<1>4. ASSUME NEW u \in Seq(Chars), NEW c \in Chars, u \in T
      PROVE  Append(u, c) \in T
  <2>1. r \o Append(u, c) = Append(r \o u, c)
    BY <1>1, ConcatAppend DEF Text
  <2>2. r \o u \in Text /\ u \in Text /\ Append(u, c) \in Text
    BY <1>1, ConcatProperties, AppendIs DEF Text
  <2>3. Split(r \o u) = Split(s) \o Split(u)
    BY <1>4 DEF r
  <2>4. Split(r \o Append(u, c)) = WithCharacter(Split(s) \o Split(u), c)
    BY <2>1, <2>2, <2>3, SplitIs
  <2>5. Split(u) \in Parts
    BY <2>2, SplitIs
  <2>6. WithCharacter(Split(s) \o Split(u), c) = Split(s) \o WithCharacter(Split(u), c)
    BY <1>2, <2>5, WithCharacterConcat
  <2>7. Split(Append(u, c)) = WithCharacter(Split(u), c)
    BY <2>2, SplitIs
  <2>8. Split(r \o Append(u, c)) = Split(s) \o Split(Append(u, c))
    BY <2>4, <2>6, <2>7
  <2> QED BY <2>2, <2>8 DEF r
<1>5. Text \subseteq T
  <2> HIDE DEF T
  <2>1. <<>> \in T
    BY <1>3
  <2>2. \A u \in Seq(Chars) : \A c \in Chars : u \in T => Append(u, c) \in T
    BY <1>4
  <2> QED BY <2>1, <2>2, SeqInduction DEF Text
<1>6. r \o t \in Text
  BY <1>1, ConcatProperties DEF Text
<1> QED BY <1>1, <1>5, <1>6 DEF r

(* A text without a slash is one part.                                     *)
LEMMA SplitPart ==
  ASSUME NEW p \in Part
  PROVE  Split(p) = <<p>>
<1> DEFINE T == {q \in Part : Split(q) = <<q>>}
<1>1. <<>> \in T
  BY SplitIs, CharactersAre
<1>2. ASSUME NEW q \in Seq(Letters), NEW c \in Letters, q \in T
      PROVE  Append(q, c) \in T
  <2>1. q \in Text /\ c \in Chars /\ c # "/" /\ q \in Part
    BY CharactersAre DEF Part, Letters
  <2>2. Split(Append(q, c)) = WithCharacter(<<q>>, c)
    BY <1>2, <2>1, SplitIs
  <2>3. WithCharacter(<<q>>, c) = <<Append(q, c)>>
    <3>1. WithCharacter(<<q>>, c) = [<<q>> EXCEPT ![Len(<<q>>)] = Append(<<q>>[Len(<<q>>)], c)]
      BY <2>1 DEF WithCharacter
    <3>2. Len(<<q>>) = 1 /\ <<q>>[1] = q
      OBVIOUS
    <3>3. [<<q>> EXCEPT ![1] = Append(q, c)] = <<Append(q, c)>>
      OBVIOUS
    <3> QED BY <3>1, <3>2, <3>3
  <2> QED BY <2>1, <2>2, <2>3, AppendIs DEF Part
<1>3. Part \subseteq T
  <2> HIDE DEF T
  <2> QED BY <1>1, <1>2, SeqInduction DEF Part
<1> QED BY <1>3

-----------------------------------------------------------------------------
(* Parts joined and split, and the names among them.                       *)

Piece == Part \ {<<>>}
Place == Name \ {Up}
Rooted(N) == Slash \o Joined(N, Slash)

(* The kinds of parts: not empty, not a dot, and not two dots.             *)
LEMMA PiecesAre ==
  /\ Piece \subseteq Part /\ Piece \subseteq Text /\ Name \subseteq Piece /\ Place \subseteq Name
  /\ Seq(Piece) \subseteq Seq(Part) /\ Seq(Piece) \subseteq Seq(Text)
  /\ Seq(Name) \subseteq Seq(Piece) /\ Seq(Place) \subseteq Seq(Name)
  /\ Seq(Name) \subseteq Seq(Part) /\ Seq(Name) \subseteq Seq(Text)
<1>1. Piece \subseteq Part /\ Piece \subseteq Text /\ Name \subseteq Piece /\ Place \subseteq Name
      /\ Name \subseteq Part /\ Name \subseteq Text
  BY CharactersAre DEF Piece, Name, Place, NoName
<1>2. \A A, B : A \subseteq B => Seq(A) \subseteq Seq(B)
  BY SeqMonotonic
<1> QED BY <1>1, <1>2

(* strings.Join of parts that are not empty, part by part.                 *)
LEMMA JoinedAppend ==
  ASSUME NEW by \in Text, NEW N \in Seq(Piece), NEW p \in Piece
  PROVE  /\ Joined(<<>>, by) = <<>>
         /\ Joined(N, by) \in Text
         /\ Joined(Append(N, p), by) = WithPart(Joined(N, by), by, p)
BY JoinedIs, PiecesAre

(* What is put together of something is not empty.                         *)
LEMMA LongerIsNotEmpty ==
  ASSUME NEW D, NEW s \in Seq(D), NEW t \in Seq(D), s # <<>> \/ t # <<>>
  PROVE  s \o t # <<>>
BY ConcatEqualIffEmpty

(* Some parts that are not empty, joined, are a text that is not empty.    *)
LEMMA JoinedNotEmpty ==
  ASSUME NEW by \in Text, NEW N \in Seq(Piece), N # <<>>
  PROVE  Joined(N, by) # <<>> /\ Joined(N, by) \in Text
<1>1. PICK M \in Seq(Piece), p \in Piece : N = Append(M, p)
  BY IsAppended
<1>2. Joined(N, by) = WithPart(Joined(M, by), by, p) /\ Joined(M, by) \in Text
  BY <1>1, JoinedAppend
<1>3. p # <<>> /\ p \in Text
  BY PiecesAre DEF Piece
<1>4. (Joined(M, by) \o by) \o p # <<>>
  <2>1. Joined(M, by) \o by \in Text
    BY <1>2, ConcatProperties DEF Text
  <2> QED BY <1>3, <2>1, LongerIsNotEmpty DEF Text
<1>5. Joined(N, by) \in Text
  BY JoinedIs, PiecesAre
<1> QED BY <1>2, <1>3, <1>4, <1>5 DEF WithPart

(* strings.Split undoes strings.Join, for parts that are not empty.        *)
LEMMA SplitJoined ==
  ASSUME NEW N \in Seq(Piece), N # <<>>
  PROVE  Split(Joined(N, Slash)) = N
<1> DEFINE T == {M \in Seq(Piece) : M # <<>> => Split(Joined(M, Slash)) = M}
<1>1. <<>> \in T
  BY EmptySeq
<1>2. ASSUME NEW M \in Seq(Piece), NEW p \in Piece, M \in T
      PROVE  Append(M, p) \in T
  <2> DEFINE J == Joined(M, Slash)
  <2>1. J \in Text /\ Joined(Append(M, p), Slash) = WithPart(J, Slash, p)
    BY JoinedAppend, CharactersAre
  <2>2. p \in Part /\ p \in Text /\ Split(p) = <<p>>
    BY PiecesAre, SplitPart
  <2>3. CASE M = <<>>
    <3>1. J = <<>>
      BY <2>3, JoinedAppend, CharactersAre
    <3>2. Joined(Append(M, p), Slash) = p
      BY <2>1, <3>1 DEF WithPart
    <3>3. Append(M, p) = <<p>> /\ Append(M, p) \in Seq(Piece)
      BY <2>3, AppendIs, AppendOne
    <3> QED BY <2>2, <3>2, <3>3
  <2>4. CASE M # <<>>
    <3>1. J # <<>>
      BY <2>4, JoinedNotEmpty, CharactersAre
    <3>2. Joined(Append(M, p), Slash) = (J \o Slash) \o p
      BY <2>1, <3>1 DEF WithPart
    <3>3. Split(J) = M
      BY <1>2, <2>4
    <3> HIDE DEF J
    <3>4. Split((J \o Slash) \o p) = M \o <<p>>
      BY <2>1, <2>2, <3>3, SplitConcat
    <3>5. M \o <<p>> = Append(M, p) /\ Append(M, p) \in Seq(Piece)
      BY AppendIs, AppendOne
    <3> QED BY <3>2, <3>4, <3>5
  <2> QED BY <2>3, <2>4
<1>3. Seq(Piece) \subseteq T
  <2> HIDE DEF T
  <2> QED BY <1>1, <1>2, SeqInduction
<1> QED BY <1>3

(* One part joined is the part.                                            *)
LEMMA JoinedOne ==
  ASSUME NEW by \in Text, NEW p \in Piece
  PROVE  Joined(<<p>>, by) = p
<1>1. <<>> \in Seq(Piece) /\ Append(<<>>, p) = <<p>>
  BY AppendOne
<1>2. Joined(<<>>, by) = <<>> /\ Joined(Append(<<>>, p), by) = WithPart(Joined(<<>>, by), by, p)
  BY <1>1, JoinedAppend
<1>3. Joined(Append(<<>>, p), by) = p
  BY <1>2 DEF WithPart
<1> QED BY <1>1, <1>3, Zenon

(* Two lists of parts joined are the two texts with the separator between. *)
LEMMA JoinedConcat ==
  ASSUME NEW by \in Text, NEW M \in Seq(Piece), M # <<>>, NEW N \in Seq(Piece), N # <<>>
  PROVE  Joined(M \o N, by) = (Joined(M, by) \o by) \o Joined(N, by)
<1> DEFINE JM == Joined(M, by)
           T == {L \in Seq(Piece) : L # <<>> =>
                   Joined(M \o L, by) = (JM \o by) \o Joined(L, by)}
<1>0. JM \in Text /\ JM # <<>> /\ JM \o by \in Text
  BY JoinedNotEmpty, ConcatProperties DEF Text
<1>1. <<>> \in T
  BY EmptySeq
<1>2. ASSUME NEW L \in Seq(Piece), NEW p \in Piece, L \in T
      PROVE  Append(L, p) \in T
  <2> DEFINE JL == Joined(L, by)
  <2>1. p \in Text /\ Append(L, p) \in Seq(Piece) /\ M \o L \in Seq(Piece)
    BY PiecesAre, AppendIs, ConcatProperties
  <2>2. M \o Append(L, p) = Append(M \o L, p)
    BY ConcatAppend
  <2>3. Joined(M \o Append(L, p), by) = WithPart(Joined(M \o L, by), by, p)
    <3>1. Joined(Append(M \o L, p), by) = WithPart(Joined(M \o L, by), by, p)
      BY <2>1, JoinedAppend
    <3> QED BY <2>2, <3>1, Zenon
  <2>4. Joined(Append(L, p), by) = WithPart(JL, by, p)
    BY JoinedAppend
  <2>5. CASE L = <<>>
    <3>1. M \o L = M
      BY <2>5, ConcatEmptySeq
    <3>2. JL = <<>>
      BY <2>5, JoinedAppend
    <3> QED BY <1>0, <2>1, <2>3, <2>4, <3>1, <3>2 DEF WithPart
  <2>6. CASE L # <<>>
    <3>1. Joined(M \o L, by) = (JM \o by) \o JL
      BY <1>2, <2>6
    <3>2. M \o L # <<>>
      BY LongerIsNotEmpty
    <3>3. Joined(M \o L, by) # <<>> /\ JL # <<>> /\ JL \in Text
      BY <2>1, <2>6, <3>2, JoinedNotEmpty
    <3>4. Joined(M \o Append(L, p), by) = ((((JM \o by) \o JL) \o by) \o p)
      BY <2>3, <3>1, <3>3 DEF WithPart
    <3>5. Joined(Append(L, p), by) = (JL \o by) \o p
      BY <2>4, <3>3 DEF WithPart
    <3> DEFINE R == JM \o by
    <3>6. R \in Text
      BY <1>0
    <3> HIDE DEF R, JL, JM
    <3>7. ((R \o JL) \o by) = R \o (JL \o by) /\ JL \o by \in Text
      <4>1. R \in Seq(Chars) /\ JL \in Seq(Chars) /\ by \in Seq(Chars)
        BY <3>3, <3>6 DEF Text
      <4>2. (R \o JL) \o by = R \o (JL \o by)
        BY SMTT(60), <4>1, ConcatAssociative
      <4>3. JL \o by \in Seq(Chars)
        BY <4>1, ConcatProperties
      <4> QED BY <4>2, <4>3 DEF Text
    <3> DEFINE K == JL \o by
    <3> HIDE DEF K
    <3>8. (R \o K) \o p = R \o (K \o p)
      <4>1. R \in Seq(Chars) /\ K \in Seq(Chars) /\ p \in Seq(Chars)
        BY <2>1, <3>6, <3>7 DEF Text, K
      <4> QED BY SMTT(60), <4>1, ConcatAssociative
    <3>9. Joined(M \o Append(L, p), by) = R \o Joined(Append(L, p), by)
      BY <3>4, <3>5, <3>7, <3>8, Zenon DEF R, K
    <3> QED BY <2>1, <3>9 DEF R, JM
  <2> QED BY <2>5, <2>6
<1>3. Seq(Piece) \subseteq T
  <2> HIDE DEF T
  <2> QED BY <1>1, <1>2, SeqInduction
<1> QED BY <1>3

(* The names of two lists of parts are those of the one and of the other.  *)
LEMMA NamesInConcat ==
  ASSUME NEW a \in Seq(Part), NEW b \in Seq(Part)
  PROVE  NamesIn(a \o b) = NamesIn(a) \o NamesIn(b)
<1> DEFINE T == {c \in Seq(Part) : NamesIn(a \o c) = NamesIn(a) \o NamesIn(c)}
<1>1. <<>> \in T
  <2>1. a \o <<>> = a /\ <<>> \in Seq(Part)
    BY ConcatEmptySeq, EmptySeq
  <2>2. NamesIn(a) \o <<>> = NamesIn(a)
    BY NamesInIs, ConcatEmptySeq
  <2> QED BY <2>1, <2>2, NamesInIs
<1>2. ASSUME NEW c \in Seq(Part), NEW p \in Part, c \in T
      PROVE  Append(c, p) \in T
  <2>1. Append(c, p) \in Seq(Part) /\ a \o c \in Seq(Part) /\ a \o Append(c, p) = Append(a \o c, p)
    BY AppendIs, ConcatProperties, ConcatAppend
  <2>2. NamesIn(a) \in Seq(Name) /\ NamesIn(c) \in Seq(Name)
    BY NamesInIs
  <2>3. CASE p \in NoName
    BY <1>2, <2>1, <2>3, NamesInIs
  <2>4. CASE p \notin NoName
    <3>1. p \in Name
      BY <2>4 DEF Name
    <3>2. NamesIn(a) \o Append(NamesIn(c), p) = Append(NamesIn(a) \o NamesIn(c), p)
      BY <2>2, <3>1, ConcatAppend
    <3>3. NamesIn(Append(a \o c, p)) = Append(NamesIn(a \o c), p)
      BY <2>1, <2>4, NamesInIs
    <3>4. NamesIn(Append(c, p)) = Append(NamesIn(c), p)
      BY <2>4, NamesInIs
    <3> QED BY <1>2, <2>1, <3>2, <3>3, <3>4
  <2> QED BY <2>3, <2>4
<1>3. Seq(Part) \subseteq T
  <2> HIDE DEF T
  <2> QED BY <1>1, <1>2, SeqInduction
<1> QED BY <1>3

(* Names are all names.                                                    *)
LEMMA NamesInNames ==
  ASSUME NEW N \in Seq(Name)
  PROVE  NamesIn(N) = N
<1> DEFINE T == {c \in Seq(Name) : NamesIn(c) = c}
<1>1. <<>> \in T
  BY NamesInIs, EmptySeq
<1>2. ASSUME NEW c \in Seq(Name), NEW p \in Name, c \in T
      PROVE  Append(c, p) \in T
  <2>1. c \in Seq(Part) /\ p \in Part /\ p \notin NoName
    BY PiecesAre DEF Name
  <2> QED BY <1>2, <2>1, NamesInIs, AppendIs
<1>3. Seq(Name) \subseteq T
  <2> HIDE DEF T
  <2> QED BY <1>1, <1>2, SeqInduction
<1> QED BY <1>3

(* The members of a sequence as a set.                                     *)
LEMMA ToSetIs ==
  ASSUME NEW D, NEW s \in Seq(D)
  PROVE  /\ ToSet(s) \subseteq D /\ ToSet(<<>>) = {}
         /\ DOMAIN s = 1 .. Len(s) /\ Len(s) \in Nat
         /\ \A h \in 1 .. Len(s) : s[h] \in ToSet(s)
         /\ \A x \in ToSet(s) : \E h \in 1 .. Len(s) : x = s[h]
<1>1. DOMAIN s = 1 .. Len(s) /\ Len(s) \in Nat /\ \A h \in 1 .. Len(s) : s[h] \in D
  BY LenProperties, ElementOfSeq
<1> QED BY <1>1 DEF ToSet

(* One more member of a sequence.                                          *)
LEMMA ToSetAppend ==
  ASSUME NEW D, NEW s \in Seq(D), NEW c \in D
  PROVE  ToSet(Append(s, c)) = ToSet(s) \cup {c}
<1>0. DOMAIN s = 1 .. Len(s) /\ Len(s) \in Nat /\ \A h \in 1 .. Len(s) : s[h] \in D
  BY LenProperties, ElementOfSeq
<1> DEFINE a == Append(s, c)
           n == Len(s)
<1>1. DOMAIN a = 1 .. n + 1 /\ a[n + 1] = c /\ \A h \in 1 .. n : a[h] = s[h]
  BY AppendIs
<1> HIDE DEF a
<1>2. ASSUME NEW x \in ToSet(a) PROVE x \in ToSet(s) \cup {c}
  <2>1. PICK h \in 1 .. n + 1 : x = a[h]
    BY <1>1 DEF ToSet
  <2>2. CASE h = n + 1
    BY <1>1, <2>1, <2>2
  <2>3. CASE h \in 1 .. n
    BY <1>0, <1>1, <2>1, <2>3 DEF ToSet
  <2> QED BY <1>0, <2>2, <2>3
<1>3. ASSUME NEW x \in ToSet(s) \cup {c} PROVE x \in ToSet(a)
  <2>1. CASE x = c
    <3>1. n + 1 \in DOMAIN a
      BY <1>0, <1>1
    <3> QED BY <1>1, <2>1, <3>1 DEF ToSet
  <2>2. CASE x \in ToSet(s)
    <3>1. PICK h \in 1 .. n : x = s[h]
      BY <1>0, <2>2 DEF ToSet
    <3>2. h \in DOMAIN a /\ a[h] = x
      BY <1>0, <1>1, <3>1
    <3> QED BY <3>2 DEF ToSet
  <2> QED BY <2>1, <2>2
<1> QED BY <1>2, <1>3 DEF a

(* The members of two sequences put together.                              *)
LEMMA ToSetConcat ==
  ASSUME NEW D, NEW s \in Seq(D), NEW t \in Seq(D)
  PROVE  ToSet(s \o t) = ToSet(s) \cup ToSet(t)
<1> DEFINE a == s \o t
           n == Len(s)
           m == Len(t)
<1>1. /\ a \in Seq(D) /\ Len(a) = n + m
      /\ \A h \in 1 .. n + m : a[h] = IF h <= n THEN s[h] ELSE t[h - n]
  BY ConcatProperties
<1>2. DOMAIN a = 1 .. n + m /\ DOMAIN t = 1 .. m /\ m \in Nat /\ n \in Nat /\ DOMAIN s = 1 .. n
  BY <1>1, LenProperties
<1> HIDE DEF a, n, m
<1>3. ASSUME NEW x \in ToSet(a) PROVE x \in ToSet(s) \cup ToSet(t)
  <2>1. PICK h \in 1 .. n + m : x = a[h]
    BY <1>2 DEF ToSet
  <2>2. CASE h <= n
    <3>1. h \in DOMAIN s
      BY <1>2, <2>2
    <3>2. x = s[h]
      BY <1>1, <2>1, <2>2
    <3> QED BY <3>1, <3>2 DEF ToSet
  <2>3. CASE h > n
    <3>1. h - n \in DOMAIN t /\ x = t[h - n]
      BY <1>1, <1>2, <2>1, <2>3
    <3> QED BY <3>1 DEF ToSet
  <2> QED BY <1>2, <2>2, <2>3
<1>4. ASSUME NEW x \in ToSet(s) PROVE x \in ToSet(a)
  <2>1. PICK h \in 1 .. n : x = s[h]
    BY <1>2 DEF ToSet
  <2>2. h \in DOMAIN a /\ a[h] = x
    BY <1>1, <1>2, <2>1
  <2> QED BY <2>2 DEF ToSet
<1>5. ASSUME NEW x \in ToSet(t) PROVE x \in ToSet(a)
  <2>1. PICK h \in 1 .. m : x = t[h]
    BY <1>2 DEF ToSet
  <2>2. n + h \in DOMAIN a /\ n + h \in 1 .. n + m /\ ~(n + h <= n) /\ (n + h) - n = h
    BY <1>2, <2>1
  <2>3. a[n + h] = x
    BY <1>1, <2>1, <2>2
  <2> QED BY <2>2, <2>3 DEF ToSet
<1> QED BY <1>3, <1>4, <1>5 DEF a

(* Where no part goes up, path.Clean keeps the names and nothing else.     *)
LEMMA NamesWithoutUp ==
  ASSUME NEW rooted \in BOOLEAN, NEW ps \in Seq(Part), Up \notin ToSet(ps)
  PROVE  Names(ps, rooted) = NamesIn(ps) /\ NamesIn(ps) \in Seq(Place)
<1> DEFINE T == {c \in Seq(Part) : Up \notin ToSet(c) =>
                   Names(c, rooted) = NamesIn(c) /\ NamesIn(c) \in Seq(Place)}
<1>1. <<>> \in T
  BY NamesInIs, NamesIs, EmptySeq
<1>2. ASSUME NEW c \in Seq(Part), NEW p \in Part, c \in T
      PROVE  Append(c, p) \in T
  <2> SUFFICES ASSUME Up \notin ToSet(Append(c, p))
               PROVE  /\ Names(Append(c, p), rooted) = NamesIn(Append(c, p))
                      /\ NamesIn(Append(c, p)) \in Seq(Place)
    BY AppendIs
  <2>1. Up \notin ToSet(c) /\ p # Up
    <3>1. ToSet(Append(c, p)) = ToSet(c) \cup {p}
      BY ToSetAppend
    <3> QED BY <3>1
  <2>2. Names(c, rooted) = NamesIn(c) /\ NamesIn(c) \in Seq(Place)
    BY <1>2, <2>1
  <2>3. Names(Append(c, p), rooted) = IF p \in NoName THEN NamesIn(c) ELSE Append(NamesIn(c), p)
    BY <2>1, <2>2, NamesIs DEF WithName
  <2>4. p \notin NoName => p \in Place
    BY <2>1 DEF Place, Name
  <2>5. NamesIn(Append(c, p)) = IF p \in NoName THEN NamesIn(c) ELSE Append(NamesIn(c), p)
    BY NamesInIs
  <2>6. p \notin NoName => Append(NamesIn(c), p) \in Seq(Place)
    BY <2>2, <2>4, AppendIs
  <2> QED BY <2>2, <2>3, <2>5, <2>6
<1>3. Seq(Part) \subseteq T
  <2> HIDE DEF T
  <2> QED BY <1>1, <1>2, SeqInduction
<1> QED BY <1>3

(* What path.Clean makes of a path from the root goes up nowhere.          *)
LEMMA NamesRooted ==
  ASSUME NEW ps \in Seq(Part)
  PROVE  Names(ps, TRUE) \in Seq(Place)
<1> DEFINE T == {c \in Seq(Part) : Names(c, TRUE) \in Seq(Place)}
<1>1. <<>> \in T
  BY NamesIs, EmptySeq
<1>2. ASSUME NEW c \in Seq(Part), NEW p \in Part, c \in T
      PROVE  Append(c, p) \in T
  <2> DEFINE N == Names(c, TRUE)
  <2>1. N \in Seq(Place) /\ Append(c, p) \in Seq(Part)
    BY <1>2, AppendIs
  <2>2. Names(Append(c, p), TRUE) = WithName(N, p, TRUE)
    BY NamesIs
  <2> HIDE DEF N
  <2>3. WithName(N, p, TRUE) \in Seq(Place)
    <3>1. CASE p \in NoName
      BY <2>1, <3>1 DEF WithName
    <3>2. CASE p \notin NoName /\ p # Up
      <4>1. p \in Place
        BY <3>2 DEF Place, Name
      <4> QED BY <2>1, <3>2, <4>1, AppendIs DEF WithName
    <3>3. CASE p \notin NoName /\ p = Up
      <4>1. N # <<>> => Front(N) \in Seq(Place)
        BY <2>1 DEF Front
      <4> QED BY <2>1, <3>3, <4>1 DEF WithName
    <3> QED BY <3>1, <3>2, <3>3
  <2> QED BY <2>1, <2>2, <2>3
<1>3. Seq(Part) \subseteq T
  <2> HIDE DEF T
  <2> QED BY <1>1, <1>2, SeqInduction
<1> QED BY <1>3

-----------------------------------------------------------------------------
(* Paths from the root.                                                    *)

(* Rooted: a text that begins with a slash.                                *)
BeginsWithSlash(s) == s # <<>> /\ s[1] = "/"

(* What it is to be a prefix, member by member.                            *)
LEMMA IsPrefixIs ==
  ASSUME NEW D, NEW s \in Seq(D), NEW t \in Seq(D)
  PROVE  IsPrefix(s, t) <=> Len(s) <= Len(t) /\ \A n \in 1 .. Len(s) : s[n] = t[n]
<1>1. Len(s) \in Nat /\ Len(t) \in Nat
  BY LenProperties
<1>2. SubSeq(s, 1, Len(s)) = s
  BY SubSeqFull
<1>3. ASSUME Len(s) <= Len(t)
      PROVE  /\ SubSeq(t, 1, Len(s)) \in Seq(D) /\ Len(SubSeq(t, 1, Len(s))) = Len(s)
             /\ \A n \in 1 .. Len(s) : SubSeq(t, 1, Len(s))[n] = t[n]
  BY <1>1, <1>3
<1> DEFINE u == SubSeq(t, 1, Len(s))
<1> HIDE DEF u
<1>4. ASSUME Len(s) <= Len(t), \A n \in 1 .. Len(s) : s[n] = t[n]
      PROVE  s = u
  <2>1. u \in Seq(D) /\ Len(u) = Len(s) /\ \A n \in 1 .. Len(s) : s[n] = u[n]
    BY <1>3, <1>4 DEF u
  <2> QED BY <2>1, SeqEqual
<1>5. ASSUME Len(s) <= Len(t), s = u
      PROVE  \A n \in 1 .. Len(s) : s[n] = t[n]
  BY <1>3, <1>5 DEF u
<1>6. IsPrefix(s, t) <=> Len(s) <= Len(t) /\ s = u
  BY <1>2 DEF IsPrefix, u
<1> QED BY <1>4, <1>5, <1>6

(* To have the slash as a prefix is to begin with one.                     *)
LEMMA PrefixSlash ==
  ASSUME NEW s \in Text
  PROVE  IsPrefix(Slash, s) <=> BeginsWithSlash(s)
<1>1. Slash \in Text /\ Len(Slash) = 1 /\ Slash[1] = "/"
  BY CharactersAre DEF Slash
<1>2. IsPrefix(Slash, s) <=> 1 <= Len(s) /\ \A n \in 1 .. 1 : Slash[n] = s[n]
  <2>1. Slash \in Seq(Chars) /\ s \in Seq(Chars)
    BY <1>1 DEF Text
  <2>2. IsPrefix(Slash, s) <=> Len(Slash) <= Len(s) /\ \A n \in 1 .. Len(Slash) : Slash[n] = s[n]
    BY <2>1, IsPrefixIs
  <2> QED BY <1>1, <2>2
<1>3. s # <<>> <=> 1 <= Len(s)
  <2>1. s = <<>> => Len(s) = 0
    OBVIOUS
  <2>2. s # <<>> => Len(s) \in Nat \ {0}
    BY EmptySeq DEF Text
  <2> QED BY <2>1, <2>2
<1> QED BY <1>1, <1>2, <1>3 DEF BeginsWithSlash

(* What begins with a slash does so whatever is put after it.              *)
LEMMA ConcatBegins ==
  ASSUME NEW s \in Text, NEW t \in Text, BeginsWithSlash(s)
  PROVE  BeginsWithSlash(s \o t) /\ s \o t \in Text
<1>1. Len(s) \in Nat \ {0} /\ Len(t) \in Nat
  BY EmptySeq, LenProperties DEF BeginsWithSlash, Text
<1>2. /\ s \o t \in Text /\ Len(s \o t) = Len(s) + Len(t)
      /\ \A n \in 1 .. Len(s) + Len(t) : (s \o t)[n] = IF n <= Len(s) THEN s[n] ELSE t[n - Len(s)]
  BY ConcatProperties DEF Text
<1> DEFINE u == s \o t
<1> HIDE DEF u
<1>3. u[1] = s[1] /\ Len(u) # 0 /\ u \in Text
  BY <1>1, <1>2 DEF u
<1> QED BY <1>3, EmptySeq DEF u, BeginsWithSlash

(* A slash before a text, and the empty part that it makes.                *)
LEMMA SlashBegins ==
  ASSUME NEW t \in Text
  PROVE  /\ BeginsWithSlash(Slash) /\ BeginsWithSlash(Slash \o t) /\ Slash \o t \in Text
         /\ Split(Slash \o t) = <<<<>>>> \o Split(t)
<1>1. Slash \in Text /\ BeginsWithSlash(Slash)
  BY CharactersAre DEF Slash, BeginsWithSlash
<1>2. (<<>> \o Slash) = Slash
  BY <1>1, ConcatEmptySeq DEF Text
<1>3. Split((<<>> \o Slash) \o t) = Split(<<>>) \o Split(t)
  BY SplitConcat, CharactersAre
<1> QED BY <1>1, <1>2, <1>3, ConcatBegins, SplitIs

(* The parts of a text are some, and its names are names.                  *)
LEMMA SplitTexts ==
  ASSUME NEW s \in Text
  PROVE  Split(s) \in Seq(Part) /\ Split(s) # <<>> /\ NamesOf(s) \in Seq(Name)
BY SplitIs, NamesInIs DEF Parts, NamesOf

(* The empty part is no name and goes up nowhere.                          *)
LEMMA OneSkipped ==
  /\ <<<<>>>> \in Seq(Part) /\ NamesIn(<<<<>>>>) = <<>> /\ ToSet(<<<<>>>>) = {<<>>}
  /\ Up # <<>>
<1>1. <<>> \in Seq(Part) /\ <<>> \in Part /\ Append(<<>>, <<>>) = <<<<>>>>
  BY CharactersAre, AppendOne
<1>2. <<>> \in NoName
  BY DEF NoName
<1>3. NamesIn(Append(<<>>, <<>>)) = <<>>
  BY <1>1, <1>2, NamesInIs
<1> QED BY <1>1, <1>3 DEF ToSet, Up

(* The names of a text that has a slash between or before two others.      *)
LEMMA NamesConcat ==
  ASSUME NEW s \in Text, NEW t \in Text
  PROVE  /\ NamesOf((s \o Slash) \o t) = NamesOf(s) \o NamesOf(t)
         /\ UpFree((s \o Slash) \o t) <=> UpFree(s) /\ UpFree(t)
         /\ NamesOf(Slash \o t) = NamesOf(t) /\ (UpFree(Slash \o t) <=> UpFree(t))
<1>1. Split((s \o Slash) \o t) = Split(s) \o Split(t) /\ Split(Slash \o t) = <<<<>>>> \o Split(t)
  BY SplitConcat, SlashBegins
<1>2. Split(s) \in Seq(Part) /\ Split(t) \in Seq(Part)
  BY SplitTexts
<1>3. NamesOf((s \o Slash) \o t) = NamesOf(s) \o NamesOf(t)
  BY <1>1, <1>2, NamesInConcat DEF NamesOf
<1>4. ToSet(Split(s) \o Split(t)) = ToSet(Split(s)) \cup ToSet(Split(t))
  BY <1>2, ToSetConcat
<1>5. ToSet(<<<<>>>> \o Split(t)) = {<<>>} \cup ToSet(Split(t))
  <2>1. ToSet(<<<<>>>> \o Split(t)) = ToSet(<<<<>>>>) \cup ToSet(Split(t))
    <3> DEFINE one == <<<<>>>>
    <3>1. one \in Seq(Part)
      BY OneSkipped
    <3> HIDE DEF one
    <3>2. ToSet(one \o Split(t)) = ToSet(one) \cup ToSet(Split(t))
      BY <1>2, <3>1, ToSetConcat
    <3> QED BY <3>2 DEF one
  <2> QED BY <2>1, OneSkipped
<1>6. NamesOf(Slash \o t) = NamesOf(t)
  <2>1. NamesIn(<<<<>>>> \o Split(t)) = <<>> \o NamesIn(Split(t))
    BY <1>2, OneSkipped, NamesInConcat
  <2>2. <<>> \o NamesIn(Split(t)) = NamesIn(Split(t))
    BY <1>2, NamesInIs, ConcatEmptySeq
  <2> QED BY <1>1, <2>1, <2>2 DEF NamesOf
<1> QED BY <1>1, <1>3, <1>4, <1>5, <1>6, OneSkipped DEF UpFree

(* The empty text has no names.                                            *)
LEMMA NamesOfEmpty == NamesOf(<<>>) = <<>> /\ UpFree(<<>>)
BY SplitIs, OneSkipped DEF NamesOf, UpFree

(* path.Clean of a path from the root gives the names in it, behind a      *)
(* slash: all of them, where it goes up nowhere.                           *)
LEMMA CleanIs ==
  ASSUME NEW s \in Text, BeginsWithSlash(s)
  PROVE  /\ Clean(s) = Rooted(Names(Split(s), TRUE)) /\ Names(Split(s), TRUE) \in Seq(Place)
         /\ UpFree(s) => Clean(s) = Rooted(NamesOf(s)) /\ NamesOf(s) \in Seq(Place)
<1>1. Clean(s) = Rooted(Names(Split(s), TRUE))
  <2>1. IsPrefix(Slash, s) = TRUE
    BY PrefixSlash
  <2> QED BY <2>1 DEF Clean, Rooted
<1>2. Split(s) \in Seq(Part)
  BY SplitTexts
<1>3. Names(Split(s), TRUE) \in Seq(Place)
  BY <1>2, NamesRooted
<1>4. UpFree(s) => Names(Split(s), TRUE) = NamesIn(Split(s)) /\ NamesIn(Split(s)) \in Seq(Place)
  <2>1. ASSUME Up \notin ToSet(Split(s))
        PROVE  Names(Split(s), TRUE) = NamesIn(Split(s)) /\ NamesIn(Split(s)) \in Seq(Place)
    BY <1>2, <2>1, NamesWithoutUp
  <2> QED BY <2>1 DEF UpFree
<1> QED BY <1>1, <1>3, <1>4 DEF NamesOf

(* Names joined by slashes are a path with these names.                    *)
LEMMA JoinedPlaces ==
  ASSUME NEW N \in Seq(Place)
  PROVE  /\ Joined(N, Slash) \in Text /\ NamesOf(Joined(N, Slash)) = N
         /\ UpFree(Joined(N, Slash))
         /\ N = <<>> => Joined(N, Slash) = <<>>
         /\ N # <<>> => Joined(N, Slash) # <<>> /\ Split(Joined(N, Slash)) = N
<1>1. N \in Seq(Name) /\ N \in Seq(Piece) /\ N \in Seq(Text) /\ N \in Seq(Part)
  BY PiecesAre
<1>2. Joined(N, Slash) \in Text /\ (N = <<>> => Joined(N, Slash) = <<>>)
  BY <1>1, JoinedIs, CharactersAre
<1>3. CASE N = <<>>
  BY <1>2, <1>3, NamesOfEmpty
<1>4. CASE N # <<>>
  <2>1. Joined(N, Slash) # <<>> /\ Split(Joined(N, Slash)) = N
    BY <1>1, <1>4, JoinedNotEmpty, SplitJoined, CharactersAre
  <2>2. NamesIn(N) = N
    BY <1>1, NamesInNames
  <2>3. Up \notin ToSet(N)
    BY ToSetIs DEF Place
  <2> QED BY <1>2, <1>4, <2>1, <2>2, <2>3 DEF NamesOf, UpFree
<1> QED BY <1>3, <1>4

(* A slash and names joined by slashes are a path that path.Clean leaves   *)
(* alone.                                                                  *)
LEMMA RootedIs ==
  ASSUME NEW N \in Seq(Place)
  PROVE  /\ Rooted(N) \in Text /\ BeginsWithSlash(Rooted(N)) /\ UpFree(Rooted(N))
         /\ NamesOf(Rooted(N)) = N /\ Clean(Rooted(N)) = Rooted(N)
         /\ Split(Rooted(N)) = <<<<>>>> \o (IF N = <<>> THEN <<<<>>>> ELSE N)
         /\ Rooted(N) = Slash \o Joined(NamesOf(Rooted(N)), Slash)
<1>1. Joined(N, Slash) \in Text /\ NamesOf(Joined(N, Slash)) = N /\ UpFree(Joined(N, Slash))
  BY JoinedPlaces
<1>2. Rooted(N) \in Text /\ BeginsWithSlash(Rooted(N)) /\ UpFree(Rooted(N)) /\ NamesOf(Rooted(N)) = N
  BY <1>1, SlashBegins, NamesConcat, CharactersAre DEF Rooted
<1>3. Clean(Rooted(N)) = Rooted(N)
  BY <1>2, CleanIs
<1>4. Split(Rooted(N)) = <<<<>>>> \o (IF N = <<>> THEN <<<<>>>> ELSE N)
  <2>1. Split(Rooted(N)) = <<<<>>>> \o Split(Joined(N, Slash))
    BY <1>1, SlashBegins DEF Rooted
  <2> QED BY <2>1, JoinedPlaces, SplitIs
<1> QED BY <1>2, <1>3, <1>4 DEF Rooted

(* Paths from the root are equal only if their names are.                  *)
LEMMA RootedTells ==
  ASSUME NEW M \in Seq(Place), NEW N \in Seq(Place), Rooted(M) = Rooted(N)
  PROVE  M = N
BY RootedIs

(* A slash after a path changes none of its names.                         *)
LEMMA SlashAfter ==
  ASSUME NEW s \in Text, BeginsWithSlash(s)
  PROVE  /\ s \o Slash \in Text /\ BeginsWithSlash(s \o Slash)
         /\ NamesOf(s \o Slash) = NamesOf(s) /\ (UpFree(s \o Slash) <=> UpFree(s))
<1>1. (s \o Slash) \o <<>> = s \o Slash /\ s \o Slash \in Text /\ BeginsWithSlash(s \o Slash)
  BY ConcatBegins, ConcatEmptySeq, CharactersAre DEF Text
<1>2. NamesOf((s \o Slash) \o <<>>) = NamesOf(s) \o NamesOf(<<>>)
      /\ (UpFree((s \o Slash) \o <<>>) <=> UpFree(s) /\ UpFree(<<>>))
  BY NamesConcat, CharactersAre
<1>3. NamesOf(s) \o <<>> = NamesOf(s)
  BY SplitTexts, ConcatEmptySeq
<1> QED BY <1>1, <1>2, <1>3, NamesOfEmpty

(* path.Join of a text that begins with a slash and of another, neither of *)
(* which goes up.                                                          *)
LEMMA JoinIs ==
  ASSUME NEW s \in Text, BeginsWithSlash(s), NEW t \in Text
  PROVE  /\ \E N \in Seq(Place) : Join(s, t) = Rooted(N)
         /\ UpFree(s) /\ UpFree(t) => /\ Join(s, t) = Rooted(NamesOf(s) \o NamesOf(t))
                                      /\ NamesOf(s) \in Seq(Place) /\ NamesOf(t) \in Seq(Place)
<1> DEFINE u == IF t = <<>> THEN s ELSE (s \o Slash) \o t
<1>1. Join(s, t) = Clean(u)
  <2>1. s # <<>> /\ s \o t # <<>>
    BY ConcatEqualIffEmpty DEF BeginsWithSlash, Text
  <2> QED BY <2>1 DEF Join
<1>2. u \in Text /\ BeginsWithSlash(u)
  BY SlashAfter, ConcatBegins
<1>3. NamesOf(u) = NamesOf(s) \o NamesOf(t) /\ (UpFree(s) /\ UpFree(t) => UpFree(u))
  <2>1. CASE t = <<>>
    <3>1. NamesOf(s) \o <<>> = NamesOf(s)
      BY SplitTexts, ConcatEmptySeq
    <3> QED BY <2>1, <3>1, NamesOfEmpty
  <2>2. CASE t # <<>>
    BY <2>2, NamesConcat
  <2> QED BY <2>1, <2>2
<1> HIDE DEF u
<1>4. \A r \in Text : UpFree(r) => NamesOf(r) \in Seq(Place)
  <2> SUFFICES ASSUME NEW r \in Text, Up \notin ToSet(Split(r)) PROVE NamesIn(Split(r)) \in Seq(Place)
    BY DEF UpFree, NamesOf
  <2>1. Split(r) \in Seq(Part)
    BY SplitTexts
  <2> QED BY <2>1, NamesWithoutUp
<1> QED BY <1>1, <1>2, <1>3, <1>4, CleanIs

-----------------------------------------------------------------------------
(* Prefixes put before keys and taken away.                                *)

(* A prefix taken away.                                                    *)
LEMMA TrimIs ==
  ASSUME NEW s \in Text, NEW p \in Text
  PROVE  /\ TrimPrefix(s, p) \in Text
         /\ \A t \in Text : s = p \o t => TrimPrefix(s, p) = t
         /\ IsPrefix(p, s) => s = p \o TrimPrefix(s, p)
         /\ ~IsPrefix(p, s) => TrimPrefix(s, p) = s
<1> DEFINE r == SubSeq(s, Len(p) + 1, Len(s))
<1>1. Len(s) \in Nat /\ Len(p) \in Nat /\ s \in Seq(Chars) /\ p \in Seq(Chars)
  BY LenProperties DEF Text
<1>2. /\ r \in Seq(Chars) /\ (Len(p) <= Len(s) => Len(r) = Len(s) - Len(p))
      /\ \A n \in 1 .. Len(s) - Len(p) : r[n] = s[Len(p) + n]
  <2>1. \A h \in Len(p) + 1 .. Len(s) : s[h] \in Chars
    BY <1>1, ElementOfSeq
  <2>2. Len(p) + 1 \in Int /\ Len(s) \in Int
    BY <1>1
  <2>3. /\ r \in Seq(Chars)
        /\ Len(r) = IF Len(p) + 1 <= Len(s) THEN Len(s) - (Len(p) + 1) + 1 ELSE 0
        /\ \A h \in 1 .. Len(s) - (Len(p) + 1) + 1 : r[h] = s[Len(p) + 1 + h - 1]
    BY <2>1, <2>2, SubSeqProperties
  <2> HIDE DEF r
  <2> QED BY <1>1, <2>3
<1>3. TrimPrefix(s, p) \in Text
  BY <1>1, <1>2 DEF TrimPrefix, Text
<1>4. ASSUME NEW t \in Text, s = p \o t
      PROVE  TrimPrefix(s, p) = t
  <2>1. /\ Len(t) \in Nat /\ Len(s) = Len(p) + Len(t) /\ t \in Seq(Chars)
        /\ \A n \in 1 .. Len(p) + Len(t) : s[n] = IF n <= Len(p) THEN p[n] ELSE t[n - Len(p)]
    BY <1>1, <1>4, ConcatProperties, LenProperties DEF Text
  <2> HIDE DEF r
  <2>2. IsPrefix(p, s)
    <3>1. Len(p) <= Len(s) /\ \A n \in 1 .. Len(p) : p[n] = s[n]
      BY <1>1, <2>1
    <3> QED BY <1>1, <3>1, IsPrefixIs
  <2>3. Len(r) = Len(t) /\ \A n \in 1 .. Len(r) : r[n] = t[n]
    <3>1. Len(r) = Len(t)
      BY <1>1, <1>2, <2>1
    <3>2. ASSUME NEW n \in 1 .. Len(r) PROVE r[n] = t[n]
      <4>1. n \in 1 .. Len(s) - Len(p) /\ Len(p) + n \in 1 .. Len(p) + Len(t)
            /\ ~(Len(p) + n <= Len(p)) /\ (Len(p) + n) - Len(p) = n
        BY <1>1, <2>1, <3>1
      <4> QED BY <1>2, <2>1, <4>1
    <3> QED BY <3>1, <3>2
  <2>4. r = t
    BY <1>2, <2>1, <2>3, SeqEqual
  <2> QED BY <2>2, <2>4 DEF TrimPrefix, r
<1>5. ASSUME IsPrefix(p, s)
      PROVE  s = p \o TrimPrefix(s, p)
  <2>1. Len(p) <= Len(s) /\ SubSeq(p, 1, Len(p)) = SubSeq(s, 1, Len(p))
    BY <1>5 DEF IsPrefix
  <2>2. SubSeq(p, 1, Len(p)) = p /\ SubSeq(s, 1, Len(s)) = s
    BY <1>1, SubSeqFull
  <2>3. SubSeq(s, 1, Len(p)) \o SubSeq(s, Len(p) + 1, Len(s)) = SubSeq(s, 1, Len(s))
    <3>1. 1 \in 1 .. Len(s) + 1 /\ Len(p) \in 1 - 1 .. Len(s) /\ Len(s) \in Len(p) .. Len(s)
      BY <1>1, <2>1
    <3> QED BY <1>1, <3>1, ConcatAdjacentSubSeq
  <2> QED BY <1>5, <2>1, <2>2, <2>3 DEF TrimPrefix
<1> QED BY <1>3, <1>4, <1>5 DEF TrimPrefix

(* Three texts put together.                                               *)
LEMMA Associative ==
  ASSUME NEW a \in Text, NEW b \in Text, NEW c \in Text
  PROVE  (a \o b) \o c = a \o (b \o c)
<1>1. a \in Seq(Chars) /\ b \in Seq(Chars) /\ c \in Seq(Chars)
  BY DEF Text
<1> QED BY <1>1, ConcatAssociative

(* The path of two lists of names is the one path after the other.         *)
LEMMA RootedConcat ==
  ASSUME NEW M \in Seq(Place), M # <<>>, NEW N \in Seq(Place), N # <<>>
  PROVE  /\ Rooted(M \o N) = (Rooted(M) \o Slash) \o Joined(N, Slash)
         /\ Rooted(M \o N) = Rooted(M) \o Rooted(N)
         /\ M \o N \in Seq(Place) /\ M \o N # <<>>
<1>1. M \in Seq(Piece) /\ N \in Seq(Piece) /\ Slash \in Text
  BY PiecesAre, CharactersAre
<1> DEFINE m == Joined(M, Slash)
           n == Joined(N, Slash)
           ms == m \o Slash
           r == Rooted(M)
           rs == r \o Slash
           rn == Rooted(N)
<1>2. m \in Text /\ n \in Text
  BY <1>1, JoinedPlaces
<1>3. ms \in Text /\ r \in Text /\ rs \in Text /\ rn \in Text
  BY <1>1, <1>2, RootedIs, ConcatProperties DEF Text
<1>4. Joined(M \o N, Slash) = ms \o n
  BY <1>1, JoinedConcat
<1>5. r = Slash \o m /\ rn = Slash \o n
  BY DEF Rooted
<1>6. Rooted(M \o N) = Slash \o (ms \o n)
  BY <1>4 DEF Rooted
<1> HIDE DEF m, n, r, rn
<1>7. Slash \o ms = rs
  BY <1>1, <1>2, <1>5, Associative
<1> HIDE DEF ms, rs
<1>8. (Slash \o ms) \o n = Slash \o (ms \o n)
  <2>1. Slash \in Text /\ ms \in Text /\ n \in Text
    BY <1>1, <1>2, <1>3
  <2> QED BY <2>1, Associative
<1>9. rs \o n = r \o rn
  <2>1. ASSUME NEW a \in Text, NEW b \in Text, NEW c \in Text
        PROVE  (a \o b) \o c = a \o (b \o c)
    BY Associative
  <2>2. (r \o Slash) \o n = r \o (Slash \o n)
    <3>1. r \in Text /\ Slash \in Text /\ n \in Text
      BY <1>1, <1>2, <1>3
    <3> QED BY <2>1, <3>1
  <2> QED BY <1>5, <2>2 DEF rs
<1>10. M \o N \in Seq(Place) /\ M \o N # <<>>
  BY ConcatProperties, ConcatEqualIffEmpty
<1>11. Rooted(M \o N) = rs \o n /\ Rooted(M \o N) = r \o rn
  BY <1>6, <1>7, <1>8, <1>9
<1> QED BY <1>10, <1>11 DEF r, rs, rn, n

(* What is tidy, and what has a slash more than that.                      *)
LEMMA TidyIs ==
  ASSUME NEW p \in Text, TidyOrSlashed(p)
  PROVE  /\ NamesOf(p) \in Seq(Place) /\ UpFree(p) /\ BeginsWithSlash(p)
         /\ p = Rooted(NamesOf(p)) \/ p = Rooted(NamesOf(p)) \o Slash
         /\ Tidy(p) => p = Rooted(NamesOf(p))
<1>1. ASSUME NEW q \in Text, Tidy(q)
      PROVE  /\ NamesOf(q) \in Seq(Place) /\ UpFree(q) /\ BeginsWithSlash(q)
             /\ q = Rooted(NamesOf(q))
  <2>1. q = Rooted(NamesOf(q)) /\ UpFree(q)
    BY <1>1 DEF Tidy, Rooted
  <2>2. NamesOf(q) \in Seq(Name)
    BY SplitTexts
  <2>3. BeginsWithSlash(q)
    BY <2>1, <2>2, PiecesAre, JoinedIs, SlashBegins, CharactersAre DEF Rooted
  <2>4. NamesOf(q) \in Seq(Place)
    BY <2>1, <2>3, CleanIs
  <2> QED BY <2>1, <2>3, <2>4
<1>2. CASE Tidy(p)
  BY <1>1, <1>2
<1>3. CASE ~Tidy(p)
  <2> DEFINE q == SubSeq(p, 1, Len(p) - 1)
  <2>1. Last(p) = "/" /\ Tidy(q)
    BY <1>3 DEF TidyOrSlashed
  <2>2. p \in Seq(Chars) /\ Len(p) \in Nat
    BY LenProperties DEF Text
  <2>3. p # <<>>
    <3> SUFFICES ASSUME p = <<>> PROVE FALSE
      OBVIOUS
    <3>1. q = <<>>
      <4>1. Len(p) = 0
        OBVIOUS
      <4>2. 1 \in Int /\ Len(p) - 1 \in Int /\ Len(p) - 1 < 1
        BY <4>1
      <4> QED BY <4>2, SubSeqEmpty
    <3>2. q \in Text
      BY <3>1, CharactersAre
    <3> QED BY <1>1, <2>1, <3>1, <3>2 DEF BeginsWithSlash
  <2>4. PICK t \in Seq(Chars), c \in Chars : p = Append(t, c) /\ Len(p) = Len(t) + 1
    BY <2>2, <2>3, IsAppended
  <2>5. q = t /\ c = "/"
    <3>1. /\ Len(t) \in Nat /\ p[Len(t) + 1] = c /\ \A h \in 1 .. Len(t) : p[h] = t[h]
      BY <2>4, AppendIs, LenProperties
    <3>2. c = "/"
      BY <2>1, <2>4, <3>1 DEF Last
    <3>3. q \in Seq(Chars) /\ Len(q) = Len(t) /\ \A h \in 1 .. Len(q) : q[h] = t[h]
      <4>1. 1 \in Int /\ Len(t) \in Int /\ \A h \in 1 .. Len(t) : p[h] \in Chars
        BY <2>2, <2>4, <3>1, ElementOfSeq
      <4>2. Len(p) - 1 = Len(t)
        BY <2>4, <3>1
      <4>3. /\ SubSeq(p, 1, Len(t)) \in Seq(Chars)
            /\ Len(SubSeq(p, 1, Len(t))) = IF 1 <= Len(t) THEN Len(t) - 1 + 1 ELSE 0
            /\ \A h \in 1 .. Len(t) - 1 + 1 : SubSeq(p, 1, Len(t))[h] = p[1 + h - 1]
        BY <4>1, SubSeqProperties
      <4> DEFINE r == SubSeq(p, 1, Len(t))
      <4> HIDE DEF r
      <4>4. r \in Seq(Chars) /\ Len(r) = Len(t) /\ \A h \in 1 .. Len(t) : r[h] = t[h]
        BY <3>1, <4>3 DEF r
      <4> QED BY <4>2, <4>4 DEF r
    <3> HIDE DEF q
    <3>4. q = t
      BY <3>3, SeqEqual
    <3> QED BY <3>2, <3>4
  <2>6. q \in Text /\ p = q \o Slash
    BY <2>4, <2>5, AppendOne DEF Slash, Text
  <2> HIDE DEF q
  <2>7. /\ NamesOf(q) \in Seq(Place) /\ UpFree(q) /\ BeginsWithSlash(q)
        /\ q = Rooted(NamesOf(q))
    BY <1>1, <2>1, <2>6
  <2>8. BeginsWithSlash(p) /\ NamesOf(p) = NamesOf(q) /\ UpFree(p)
    BY <2>6, <2>7, SlashAfter
  <2> QED BY <1>3, <2>6, <2>7, <2>8
<1> QED BY <1>2, <1>3

(* What is left of a key when its prefix is taken away has the names that  *)
(* the prefix had been put before.                                         *)
LEMMA TrimLeavesNames ==
  ASSUME NEW p \in Text, TidyOrSlashed(p), NEW K \in Seq(Place), Tidy(p) \/ K # <<>>
  PROVE  LET t == TrimPrefix(Rooted(NamesOf(p) \o K), p)
         IN t \in Text /\ NamesOf(t) = K /\ UpFree(t)
<1> DEFINE P == NamesOf(p)
           s == Rooted(P \o K)
           t == TrimPrefix(s, p)
           k == Joined(K, Slash)
<1>1. /\ P \in Seq(Place) /\ UpFree(p) /\ BeginsWithSlash(p)
      /\ p = Rooted(P) \/ p = Rooted(P) \o Slash
      /\ Tidy(p) => p = Rooted(P)
  BY TidyIs
<1>2. k \in Text /\ NamesOf(k) = K /\ UpFree(k) /\ (K = <<>> => k = <<>>)
  BY JoinedPlaces
<1>3. Rooted(K) \in Text /\ NamesOf(Rooted(K)) = K /\ UpFree(Rooted(K))
  BY RootedIs
<1>4. P \o K \in Seq(Place) /\ (P = <<>> => P \o K = K) /\ (K = <<>> => P \o K = P)
  BY <1>1, ConcatProperties, ConcatEmptySeq
<1>5. s \in Text /\ NamesOf(s) = P \o K /\ UpFree(s)
  BY <1>4, RootedIs
<1> HIDE DEF P, k
<1>6. t \in Text /\ (\A r \in Text : s = p \o r => t = r)
      /\ (IsPrefix(p, s) => s = p \o t) /\ (~IsPrefix(p, s) => t = s)
  BY <1>5, TrimIs
<1>7. CASE K = <<>>
  <2>1. s = p /\ p \o <<>> = p
    BY <1>1, <1>4, <1>7, ConcatEmptySeq DEF Text
  <2>2. t = <<>>
    BY <1>6, <2>1, CharactersAre
  <2> QED BY <1>7, <2>2, NamesOfEmpty, CharactersAre DEF P
<1>8. CASE K # <<>> /\ P # <<>>
  <2>1. s = (Rooted(P) \o Slash) \o k /\ s = Rooted(P) \o Rooted(K)
    BY <1>1, <1>8, RootedConcat DEF k
  <2>2. t = k \/ t = Rooted(K)
    BY <1>1, <1>2, <1>3, <1>6, <2>1
  <2> QED BY <1>2, <1>3, <1>6, <2>2 DEF P
<1>9. CASE K # <<>> /\ P = <<>>
  <2>1. s = Rooted(K) /\ s = Slash \o k
    BY <1>4, <1>9 DEF Rooted, k
  <2>2. Rooted(<<>>) = Slash
    <3>1. Joined(<<>>, Slash) = <<>> /\ Slash \o <<>> = Slash
      BY JoinedIs, CharactersAre, ConcatEmptySeq DEF Text
    <3> QED BY <3>1 DEF Rooted
  <2>3. CASE p = Slash
    BY <1>2, <1>6, <2>1, <2>3 DEF P
  <2>4. CASE p # Slash
    <3>1. p = Slash \o Slash
      BY <1>1, <1>9, <2>2, <2>4
    <3>2. CASE IsPrefix(p, s)
      <4>1. s = (Slash \o Slash) \o t
        BY <1>6, <3>1, <3>2
      <4>2. NamesOf((Slash \o Slash) \o t) = NamesOf(Slash) \o NamesOf(t)
            /\ (UpFree((Slash \o Slash) \o t) <=> UpFree(Slash) /\ UpFree(t))
        BY <1>6, NamesConcat, CharactersAre
      <4>3. NamesOf(Slash) = <<>>
        <5>1. NamesOf(Rooted(<<>>)) = <<>>
          BY <1>1, <1>9, RootedIs
        <5> QED BY <2>2, <5>1
      <4>4. <<>> \o NamesOf(t) = NamesOf(t)
        BY <1>6, SplitTexts, ConcatEmptySeq
      <4> QED BY <1>3, <1>6, <2>1, <4>1, <4>2, <4>3, <4>4 DEF P
    <3>3. CASE ~IsPrefix(p, s)
      BY <1>3, <1>6, <2>1, <3>3 DEF P
    <3> QED BY <3>2, <3>3
  <2> QED BY <2>3, <2>4
<1> QED BY <1>7, <1>8, <1>9

-----------------------------------------------------------------------------
(* Data ids.                                                               *)

(* What a data id is made of: the names with dots between them.            *)
Dotted(s) == ReplaceAll(s, "/", ".")
Dot == <<".">>

(* ReplaceAll puts a dot for each slash and keeps the rest.                *)
LEMMA DottedIs ==
  ASSUME NEW s \in Text
  PROVE  /\ Dotted(s) \in Text /\ Len(Dotted(s)) = Len(s) /\ Len(s) \in Nat
         /\ \A n \in 1 .. Len(s) : Dotted(s)[n] = IF s[n] = "/" THEN "." ELSE s[n]
<1> DEFINE e(n) == IF s[n] = "/" THEN "." ELSE s[n]
           d == [n \in 1 .. Len(s) |-> e(n)]
<1>1. Len(s) \in Nat /\ \A n \in 1 .. Len(s) : s[n] \in Chars
  BY LenProperties, ElementOfSeq DEF Text
<1>2. \A n \in 1 .. Len(s) : e(n) \in Chars
  BY <1>1, CharactersAre
<1>3. d \in Text
  <2> HIDE DEF e
  <2> QED BY <1>1, <1>2, IsASeq DEF Text
<1>4. Dotted(s) = d
  BY DEF Dotted, ReplaceAll
<1>5. DOMAIN d = 1 .. Len(s) /\ \A n \in 1 .. Len(s) : d[n] = e(n)
  OBVIOUS
<1> HIDE DEF d
<1>6. Len(d) = Len(s)
  <2>1. DOMAIN d = 1 .. Len(d) /\ Len(d) \in Nat
    BY <1>3, LenProperties DEF Text
  <2> QED BY <1>1, <1>5, <2>1
<1> QED BY <1>1, <1>3, <1>4, <1>5, <1>6

(* Dots for slashes in two texts put together.                             *)
LEMMA DottedConcat ==
  ASSUME NEW s \in Text, NEW t \in Text
  PROVE  Dotted(s \o t) = Dotted(s) \o Dotted(t)
<1> DEFINE u == s \o t
           v == Dotted(s) \o Dotted(t)
           w == Dotted(u)
           m == Len(s)
           n == Len(t)
<1>1. /\ u \in Text /\ Len(u) = m + n
      /\ \A h \in 1 .. m + n : u[h] = IF h <= m THEN s[h] ELSE t[h - m]
  BY ConcatProperties DEF Text
<1>2. /\ Dotted(s) \in Text /\ Len(Dotted(s)) = m /\ m \in Nat
      /\ \A h \in 1 .. m : Dotted(s)[h] = IF s[h] = "/" THEN "." ELSE s[h]
  BY DottedIs
<1>3. /\ Dotted(t) \in Text /\ Len(Dotted(t)) = n /\ n \in Nat
      /\ \A h \in 1 .. n : Dotted(t)[h] = IF t[h] = "/" THEN "." ELSE t[h]
  BY DottedIs
<1>4. /\ v \in Text /\ Len(v) = m + n
      /\ \A h \in 1 .. m + n : v[h] = IF h <= m THEN Dotted(s)[h] ELSE Dotted(t)[h - m]
  <2> DEFINE x == Dotted(s)
             y == Dotted(t)
  <2>1. x \in Seq(Chars) /\ y \in Seq(Chars) /\ Len(x) = m /\ Len(y) = n
    BY <1>2, <1>3 DEF Text
  <2> HIDE DEF m, n, x, y
  <2>2. /\ x \o y \in Seq(Chars) /\ Len(x \o y) = Len(x) + Len(y)
        /\ \A h \in 1 .. Len(x) + Len(y) : (x \o y)[h] = IF h <= Len(x) THEN x[h] ELSE y[h - Len(x)]
    BY <2>1, ConcatProperties
  <2> QED BY <2>1, <2>2 DEF x, y, Text
<1> HIDE DEF u, v
<1>5. /\ w \in Text /\ Len(w) = m + n
      /\ \A h \in 1 .. m + n : w[h] = IF u[h] = "/" THEN "." ELSE u[h]
  BY <1>1, DottedIs
<1> HIDE DEF m, n, w
<1>6. ASSUME NEW h \in 1 .. m + n PROVE v[h] = w[h]
  <2>1. CASE h <= m
    <3>1. h \in 1 .. m
      BY <1>2, <2>1
    <3> QED BY <1>1, <1>2, <1>4, <1>5, <2>1, <3>1
  <2>2. CASE ~(h <= m)
    <3>1. h - m \in 1 .. n
      BY <1>2, <1>3, <2>2
    <3> QED BY <1>1, <1>3, <1>4, <1>5, <2>2, <3>1
  <2> QED BY <2>1, <2>2
<1>7. v = w
  BY <1>4, <1>5, <1>6, SeqEqual DEF Text
<1> QED BY <1>7 DEF u, v, w

(* Dots for slashes: the slash becomes a dot, and a part is kept.          *)
LEMMA DottedPart ==
  /\ Dot \in Text /\ Dotted(Slash) = Dot
  /\ \A p \in Part : Dotted(p) = p
<1>1. Dot \in Text
  BY CharactersAre DEF Dot, Text
<1>2. Dotted(Slash) = Dot
  <2> DEFINE d == Dotted(Slash)
  <2>1. Slash \in Text /\ Len(Slash) = 1 /\ Slash[1] = "/" /\ Len(Dot) = 1 /\ Dot[1] = "."
    BY CharactersAre DEF Dot, Slash
  <2>2. /\ d \in Text /\ Len(d) = Len(Slash)
        /\ \A n \in 1 .. Len(Slash) : d[n] = IF Slash[n] = "/" THEN "." ELSE Slash[n]
    BY <2>1, DottedIs
  <2> HIDE DEF d
  <2>3. d \in Text /\ Len(d) = 1 /\ d[1] = "."
    BY <2>1, <2>2
  <2>4. d = Dot
    BY <1>1, <2>1, <2>3, SeqEqual DEF Text
  <2> QED BY <2>4 DEF d
<1>3. ASSUME NEW p \in Part PROVE Dotted(p) = p
  <2>1. p \in Text /\ Len(p) \in Nat /\ \A n \in 1 .. Len(p) : p[n] # "/"
    BY CharactersAre, LenProperties, ElementOfSeq DEF Part, Letters
  <2>2. /\ Dotted(p) \in Text /\ Len(Dotted(p)) = Len(p)
        /\ \A n \in 1 .. Len(p) : Dotted(p)[n] = IF p[n] = "/" THEN "." ELSE p[n]
    BY <2>1, DottedIs
  <2> DEFINE d == Dotted(p)
  <2> HIDE DEF d
  <2>3. d \in Seq(Chars) /\ p \in Seq(Chars) /\ Len(d) = Len(p) /\ \A n \in 1 .. Len(d) : d[n] = p[n]
    BY <2>1, <2>2 DEF d, Text
  <2>4. d = p
    BY <2>3, SeqEqual
  <2> QED BY <2>4 DEF d
<1> QED BY <1>1, <1>2, <1>3

(* Names joined by slashes become names joined by dots.                    *)
LEMMA DottedJoined ==
  ASSUME NEW N \in Seq(Piece)
  PROVE  Dotted(Joined(N, Slash)) = Joined(N, Dot)
<1> DEFINE T == {M \in Seq(Piece) : Dotted(Joined(M, Slash)) = Joined(M, Dot)}
<1>1. <<>> \in T
  <2>1. Dotted(<<>>) = <<>>
    BY DottedPart, CharactersAre
  <2>2. <<>> \in Seq(Piece) /\ Joined(<<>>, Slash) = <<>> /\ Joined(<<>>, Dot) = <<>>
    BY JoinedIs, DottedPart, CharactersAre
  <2> QED BY <2>1, <2>2
<1>2. ASSUME NEW M \in Seq(Piece), NEW p \in Piece, M \in T
      PROVE  Append(M, p) \in T
  <2> DEFINE m == Joined(M, Slash)
             d == Joined(M, Dot)
  <2>1. Append(M, p) \in Seq(Piece) /\ p \in Text /\ p \in Part
    BY PiecesAre, AppendProperties
  <2>2. /\ m \in Text /\ Joined(Append(M, p), Slash) = WithPart(m, Slash, p)
        /\ d \in Text /\ Joined(Append(M, p), Dot) = WithPart(d, Dot, p)
    BY JoinedAppend, CharactersAre, DottedPart
  <2>3. Dotted(m) = d
    BY <1>2
  <2> HIDE DEF m, d
  <2>4. Dotted(p) = p /\ Dotted(Slash) = Dot /\ Slash \in Text /\ Dot \in Text
    BY <2>1, DottedPart, CharactersAre
  <2>5. m = <<>> <=> d = <<>>
    <3>1. /\ d \in Text /\ Len(d) = Len(m) /\ Len(m) \in Nat
      BY <2>2, <2>3, DottedIs
    <3>2. \A x \in Text : x = <<>> <=> Len(x) = 0
      BY EmptySeq DEF Text
    <3> QED BY <2>2, <3>1, <3>2
  <2>6. m \o Slash \in Text /\ Dotted(m \o Slash) = d \o Dot
    <3>1. m \o Slash \in Text
      BY <2>2, <2>4, ConcatProperties DEF Text
    <3> QED BY <2>2, <2>3, <2>4, <3>1, DottedConcat
  <2>7. Dotted((m \o Slash) \o p) = (d \o Dot) \o p
    BY <2>1, <2>4, <2>6, DottedConcat
  <2>8. Dotted(WithPart(m, Slash, p)) = WithPart(d, Dot, p)
    BY <2>4, <2>5, <2>7 DEF WithPart
  <2> QED BY <2>1, <2>2, <2>8
<1> HIDE DEF T
<1>3. N \in T
  BY <1>1, <1>2, SeqInduction
<1> QED BY <1>3 DEF T

(* What Nacos is asked for and where it is stored, for a key with names.   *)
LEMMA DataIdIs ==
  ASSUME NEW N \in Seq(Place)
  PROVE  DataId(Rooted(N)) = Joined(N, Dot)
<1>1. Joined(N, Slash) \in Text /\ Rooted(N) \in Text /\ Slash \in Text /\ N \in Seq(Piece)
  BY JoinedPlaces, RootedIs, CharactersAre, PiecesAre
<1>2. TrimPrefix(Rooted(N), Slash) = Joined(N, Slash)
  BY <1>1, TrimIs DEF Rooted
<1> QED BY <1>1, <1>2, DottedJoined DEF DataId, Dotted

(* A data id is a text.                                                    *)
LEMMA DataIdText ==
  ASSUME NEW k \in Text
  PROVE  DataId(k) \in Text
BY TrimIs, CharactersAre, DottedIs DEF DataId, Dotted

-----------------------------------------------------------------------------
(* The store.                                                              *)

(* What a function with a finite domain gives is finite.                   *)
LEMMA ImageFinite ==
  ASSUME NEW f, IsFiniteSet(DOMAIN f)
  PROVE  IsFiniteSet({f[x] : x \in DOMAIN f})
<1> DEFINE S == DOMAIN f
           T == {f[x] : x \in S}
           g == [x \in S |-> f[x]]
<1>1. g \in [S -> T] /\ \A t \in T : \E x \in S : g[x] = t
  OBVIOUS
<1>2. g \in Surjection(S, T)
  <2> HIDE DEF S, T, g
  <2> QED BY <1>1 DEF Surjection
<1> HIDE DEF S, T, g
<1>3. IsFiniteSet(S)
  BY DEF S
<1>4. IsFiniteSet(T)
  BY <1>2, <1>3, FS_Surjection
<1> QED BY <1>4 DEF S, T

(* A sequence has finitely many members.                                   *)
LEMMA ToSetFinite ==
  ASSUME NEW D, NEW s \in Seq(D)
  PROVE  IsFiniteSet(ToSet(s)) /\ IsFiniteSet(DOMAIN s)
<1>1. DOMAIN s = 1 .. Len(s) /\ Len(s) \in Nat
  BY LenProperties
<1>2. IsFiniteSet(DOMAIN s)
  BY <1>1, FS_Interval
<1> QED BY <1>2, ImageFinite DEF ToSet

(* The configuration. *)
Configured == resource \in Resources /\ prefix = Prefix(resource)
TheKeys == AppendPrefix(prefix, resource.keys)

(* The prefix is a path from the root, and the keys that are asked for are *)
(* texts, and finitely many.                                               *)
LEMMA PrefixIs ==
  ASSUME Configured
  PROVE  /\ prefix \in Text /\ BeginsWithSlash(prefix)
         /\ resource.keys \in Seq(Text) /\ ToSet(resource.keys) \subseteq Text
         /\ TheKeys \subseteq Text /\ IsFiniteSet(TheKeys)
<1>1. /\ resource.config \in Text /\ resource.file \in Text
      /\ resource.keys \in Seq(Text)
  <2>1. resource \in [config : Text, file : Text, keys : Seq(Text)]
    BY DataAssumption DEF Configured, Text, Chars
  <2> QED BY <2>1
<1>2. prefix \in Text /\ BeginsWithSlash(prefix)
  <2> DEFINE p == IF resource.config # <<>> THEN resource.config ELSE resource.file
  <2>1. p \in Text
    BY <1>1
  <2>2. prefix = IF IsPrefix(Slash, p) THEN p ELSE Slash \o p
    BY DEF Configured, Prefix
  <2> HIDE DEF p
  <2> QED BY <2>1, <2>2, PrefixSlash, SlashBegins
<1>3. ToSet(resource.keys) \subseteq Text /\ IsFiniteSet(ToSet(resource.keys))
  BY <1>1, ToSetIs, ToSetFinite
<1>4. ASSUME NEW k \in ToSet(resource.keys)
      PROVE  Join(prefix, k) \in Text
  BY <1>2, <1>3, JoinIs, RootedIs
<1>5. IsFiniteSet(TheKeys)
  <2> DEFINE f == [k \in ToSet(resource.keys) |-> Join(prefix, k)]
  <2>1. DOMAIN f = ToSet(resource.keys) /\ TheKeys = {f[x] : x \in DOMAIN f}
    BY DEF TheKeys, AppendPrefix
  <2> HIDE DEF f
  <2> QED BY <1>3, <2>1, ImageFinite
<1> QED BY <1>1, <1>2, <1>3, <1>4, <1>5 DEF TheKeys, AppendPrefix

(* A key of the store is a path that path.Clean leaves alone.              *)
LEMMA StoreKeyIs ==
  ASSUME prefix \in Text, NEW k \in Text
  PROVE  \E N \in Seq(Place) : StoreKey(k) = Rooted(N)
BY TrimIs, JoinIs, SlashBegins, CharactersAre DEF StoreKey

(* What becomes of a key of the resource.                                  *)
LEMMA KeyIs ==
  ASSUME prefix \in Text, BeginsWithSlash(prefix), TidyOrSlashed(prefix),
         NEW k \in Text, UpFree(k), Tidy(prefix) \/ NamesOf(k) # <<>>
  PROVE  LET key == Join(prefix, k)
         IN /\ NamesOf(k) \in Seq(Place) /\ NamesOf(prefix) \in Seq(Place)
            /\ key = Rooted(NamesOf(prefix) \o NamesOf(k))
            /\ StoreKey(key) = Rooted(NamesOf(k))
            /\ DataId(key) = Joined(NamesOf(prefix) \o NamesOf(k), Dot)
<1> DEFINE P == NamesOf(prefix)
           K == NamesOf(k)
           key == Join(prefix, k)
           t == TrimPrefix(Rooted(P \o K), prefix)
<1>1. P \in Seq(Place) /\ UpFree(prefix)
  BY TidyIs
<1>2. key = Rooted(P \o K) /\ K \in Seq(Place)
  BY <1>1, JoinIs
<1>3. t \in Text /\ NamesOf(t) = K /\ UpFree(t)
  BY <1>2, TrimLeavesNames
<1>4. P \o K \in Seq(Place)
  BY <1>1, <1>2, ConcatProperties
<1>5. DataId(key) = Joined(P \o K, Dot)
  BY <1>2, <1>4, DataIdIs
<1>6. StoreKey(key) = Rooted(K)
  <2>1. StoreKey(key) = Join(Slash, t)
    BY <1>2 DEF StoreKey
  <2> HIDE DEF t, K
  <2>2. Slash \in Text /\ BeginsWithSlash(Slash) /\ UpFree(Slash) /\ NamesOf(Slash) = <<>>
    <3>1. Rooted(<<>>) = Slash
      <4>1. Joined(<<>>, Slash) = <<>> /\ Slash \o <<>> = Slash
        BY JoinedIs, CharactersAre, ConcatEmptySeq DEF Text
      <4> QED BY <4>1 DEF Rooted
    <3>2. <<>> \in Seq(Place)
      BY EmptySeq
    <3> QED BY <3>1, <3>2, RootedIs
  <2>3. Join(Slash, t) = Rooted(NamesOf(Slash) \o NamesOf(t))
    BY <1>3, <2>2, JoinIs
  <2>4. <<>> \o K = K
    BY <1>2, ConcatEmptySeq
  <2> QED BY <1>3, <2>1, <2>2, <2>3, <2>4
<1> QED BY <1>1, <1>2, <1>5, <1>6

(* setVars in the midst of its loop: what it has stored and what is still  *)
(* to be stored are the keys of the resource.                              *)
StoreInv ==
  /\ Configured
  /\ at \in {"pass", "set", "render", "dead"}
  /\ IsFiniteSet(DOMAIN result) /\ IsFiniteSet(DOMAIN store)
  /\ \A k \in DOMAIN result : k \in TheKeys /\ result[k] = Asked(DataId(k))
  /\ \A j \in DOMAIN store :
       \E k \in TheKeys : j = StoreKey(k) /\ store[j] = Asked(DataId(k))
  /\ at # "pass" =>
       \A k \in TheKeys : k \in DOMAIN result \/ StoreKey(k) \in DOMAIN store
  /\ at = "render" => DOMAIN result = {}

(* The store before the first pass.                                        *)
LEMMA StoreInit == Init => StoreInv
<1> SUFFICES ASSUME Init PROVE StoreInv
  OBVIOUS
<1>1. DOMAIN result = {} /\ DOMAIN store = {} /\ at = "pass"
  BY DEF Init
<1> QED BY <1>1, FS_EmptySet DEF Init, StoreInv, Configured

(* GetValues, the loop that stores its result, and the template keep what  *)
(* is known of the store.                                                  *)
LEMMA StoreStep == StoreInv /\ [Next]_vars => StoreInv'
<1> SUFFICES ASSUME StoreInv, [Next]_vars PROVE StoreInv'
  OBVIOUS
<1>1. CASE GetValues
  <2>1. /\ UNCHANGED <<resource, prefix>> /\ at' = "set"
        /\ DOMAIN store' = {} /\ DOMAIN result' = TheKeys
        /\ \A k \in TheKeys : result'[k] = Asked(DataId(k))
    BY <1>1 DEF GetValues, TheKeys
  <2>2. Configured' /\ TheKeys' = TheKeys
    BY <2>1 DEF StoreInv, Configured, TheKeys
  <2>3. IsFiniteSet(TheKeys)
    BY PrefixIs DEF StoreInv
  <2> QED BY <2>1, <2>2, <2>3, FS_EmptySet DEF StoreInv
<1>2. CASE Set
  <2>1. PICK k \in DOMAIN result :
          /\ store' = [j \in DOMAIN store \cup {StoreKey(k)} |->
                         IF j = StoreKey(k) THEN result[k] ELSE store[j]]
          /\ result' = [j \in DOMAIN result \ {k} |-> result[j]]
    BY <1>2 DEF Set
  <2>2. UNCHANGED <<resource, prefix, at>> /\ at = "set"
    BY <1>2 DEF Set
  <2>3. Configured' /\ TheKeys' = TheKeys
    BY <2>2 DEF StoreInv, Configured, TheKeys
  <2>4. \A j : StoreKey(j)' = StoreKey(j)
    BY <2>2 DEF StoreKey
  <2> DEFINE s == StoreKey(k)
  <2>5. /\ DOMAIN store' = DOMAIN store \cup {s} /\ DOMAIN result' = DOMAIN result \ {k}
        /\ \A j \in DOMAIN store' : store'[j] = IF j = s THEN result[k] ELSE store[j]
        /\ \A j \in DOMAIN result' : result'[j] = result[j]
    BY <2>1
  <2>6. IsFiniteSet(DOMAIN store') /\ IsFiniteSet(DOMAIN result')
    BY <2>5, FS_AddElement, FS_RemoveElement DEF StoreInv
  <2>7. k \in TheKeys /\ result[k] = Asked(DataId(k))
    BY DEF StoreInv
  <2> HIDE DEF s
  <2>8. \A j \in DOMAIN store' : \E l \in TheKeys : j = StoreKey(l) /\ store'[j] = Asked(DataId(l))
    BY <2>5, <2>7 DEF StoreInv, s
  <2>9. \A l \in TheKeys : l \in DOMAIN result' \/ StoreKey(l) \in DOMAIN store'
    BY <2>2, <2>5 DEF StoreInv, s
  <2>10. \A l \in DOMAIN result' : l \in TheKeys /\ result'[l] = Asked(DataId(l))
    BY <2>5 DEF StoreInv
  <2>11. (\A j \in DOMAIN store : \E l \in TheKeys : j = StoreKey(l) /\ store[j] = Asked(DataId(l)))'
    BY <2>3, <2>4, <2>8
  <2>12. (\A l \in TheKeys : l \in DOMAIN result \/ StoreKey(l) \in DOMAIN store)'
    BY <2>3, <2>4, <2>9
  <2>13. (\A l \in DOMAIN result : l \in TheKeys /\ result[l] = Asked(DataId(l)))'
    BY <2>3, <2>10
  <2>14. at' = "set"
    BY <2>2
  <2> QED BY <2>3, <2>6, <2>11, <2>12, <2>13, <2>14 DEF StoreInv
<1>3. CASE Stored
  BY <1>3 DEF Stored, StoreInv, Configured, TheKeys, StoreKey
<1>4. CASE Render
  <2>1. UNCHANGED <<resource, prefix, result, store>> /\ at' \in {at, "dead"} /\ at # "pass"
    BY <1>4 DEF Render, Gets, GetVs, Ls, LsDir, TurnRound, CallSeq, NextNumber, EndOfSeq, Give,
                Fresh, StoreInv
  <2> QED BY <2>1 DEF StoreInv, Configured, TheKeys, StoreKey
<1>5. CASE UNCHANGED vars
  BY <1>5 DEF vars, StoreInv, Configured, TheKeys, StoreKey
<1> QED BY <1>1, <1>2, <1>3, <1>4, <1>5 DEF Next

(* Between GetValues and the template the store holds what was asked for   *)
(* under the key that the loop computes, for each key that is no longer in *)
(* the result.                                                             *)
LEMMA StoreInvariant == Spec => []StoreInv
BY StoreInit, StoreStep, PTL DEF Spec

(* Whatever prefix and keys a resource has that path.Join does not change, *)
(* the template reads under each key what Nacos has for the prefix and the *)
(* key, in whatever order the loop of setVars stores them                  *)
(* (resource.go:267, util.go: AppendPrefix).                               *)
THEOREM KeysAreServed == Spec => []KeysServed
<1>1. StoreInv => KeysServed
  <2> SUFFICES ASSUME StoreInv, at = "render", Plain, NEW k \in ToSet(resource.keys)
               PROVE  GetValue(Slash \o Joined(NamesOf(k), Slash), NoAnswer)
                        = Asked(Joined(NamesOf(prefix) \o NamesOf(k), <<".">>))
    BY DEF KeysServed
  <2>1. /\ Configured /\ prefix \in Text /\ BeginsWithSlash(prefix)
        /\ ToSet(resource.keys) \subseteq Text
    BY PrefixIs DEF StoreInv
  <2>2. \A l \in ToSet(resource.keys) :
          LET key == Join(prefix, l)
          IN /\ NamesOf(l) \in Seq(Place) /\ NamesOf(prefix) \in Seq(Place)
             /\ key = Rooted(NamesOf(prefix) \o NamesOf(l))
             /\ StoreKey(key) = Rooted(NamesOf(l))
             /\ DataId(key) = Joined(NamesOf(prefix) \o NamesOf(l), Dot)
    <3> TAKE l \in ToSet(resource.keys)
    <3>1. TidyOrSlashed(prefix) /\ UpFree(l) /\ (Tidy(prefix) \/ NamesOf(l) # <<>>)
      BY DEF Plain, TidyOrSlashed
    <3> QED BY <2>1, <3>1, KeyIs
  <2>3. Rooted(NamesOf(k)) \in DOMAIN store
    <3>1. Join(prefix, k) \in TheKeys
      BY DEF TheKeys, AppendPrefix
    <3> QED BY <2>2, <3>1 DEF StoreInv
  <2>4. PICK l \in ToSet(resource.keys) :
          /\ Rooted(NamesOf(k)) = StoreKey(Join(prefix, l))
          /\ store[Rooted(NamesOf(k))] = Asked(DataId(Join(prefix, l)))
    BY <2>3 DEF StoreInv, TheKeys, AppendPrefix
  <2>5. NamesOf(l) = NamesOf(k)
    BY <2>2, <2>4, RootedTells
  <2>6. store[Rooted(NamesOf(k))] = Asked(Joined(NamesOf(prefix) \o NamesOf(k), Dot))
    BY <2>2, <2>4, <2>5
  <2> QED BY <2>3, <2>6 DEF GetValue, Exists, Rooted, Dot
<1> QED BY <1>1, StoreInvariant, PTL

-----------------------------------------------------------------------------
(* What ls and lsdir make of paths.                                        *)

(* What it is to be a prefix and shorter, member by member.                *)
LEMMA StrictPrefixIs ==
  ASSUME NEW D, NEW s \in Seq(D), NEW t \in Seq(D)
  PROVE  IsStrictPrefix(s, t) <=> Len(s) < Len(t) /\ \A n \in 1 .. Len(s) : s[n] = t[n]
<1>1. IsPrefix(s, t) <=> Len(s) <= Len(t) /\ \A n \in 1 .. Len(s) : s[n] = t[n]
  BY IsPrefixIs
<1>2. Len(s) \in Nat /\ Len(t) \in Nat
  BY LenProperties
<1>3. Len(s) = Len(t) /\ (\A n \in 1 .. Len(s) : s[n] = t[n]) => s = t
  BY SeqEqual
<1> QED BY <1>1, <1>2, <1>3 DEF IsStrictPrefix

(* One member in front of a sequence.                                      *)
LEMMA OneInFront ==
  ASSUME NEW D, NEW e \in D, NEW a \in Seq(D)
  PROVE  /\ <<e>> \o a \in Seq(D) /\ Len(<<e>> \o a) = Len(a) + 1 /\ Len(a) \in Nat
         /\ (<<e>> \o a)[1] = e
         /\ \A n \in 1 .. Len(a) : (<<e>> \o a)[n + 1] = a[n]
<1> DEFINE one == <<e>>
<1>1. one \in Seq(D) /\ Len(one) = 1 /\ one[1] = e
  OBVIOUS
<1> HIDE DEF one
<1>2. /\ one \o a \in Seq(D) /\ Len(one \o a) = Len(one) + Len(a)
      /\ \A n \in 1 .. Len(one) + Len(a) :
           (one \o a)[n] = IF n <= Len(one) THEN one[n] ELSE a[n - Len(one)]
  BY <1>1, ConcatProperties
<1>3. Len(a) \in Nat
  BY LenProperties
<1>4. \A n \in 1 .. Len(a) : (one \o a)[n + 1] = a[n]
  <2> TAKE n \in 1 .. Len(a)
  <2>1. n + 1 \in 1 .. 1 + Len(a) /\ ~(n + 1 <= 1) /\ (n + 1) - 1 = n
    BY <1>3
  <2> QED BY <1>1, <1>2, <2>1
<1> QED BY <1>1, <1>2, <1>3, <1>4 DEF one

(* The same member in front of two sequences leaves it to the rest which   *)
(* is a prefix of which.                                                   *)
LEMMA PrefixInFront ==
  ASSUME NEW D, NEW e \in D, NEW a \in Seq(D), NEW b \in Seq(D)
  PROVE  IsPrefix(<<e>> \o a, <<e>> \o b)
           <=> Len(a) <= Len(b) /\ \A n \in 1 .. Len(a) : a[n] = b[n]
<1> DEFINE s == <<e>> \o a
           t == <<e>> \o b
<1>1. /\ s \in Seq(D) /\ Len(s) = Len(a) + 1 /\ Len(a) \in Nat /\ s[1] = e
      /\ \A n \in 1 .. Len(a) : s[n + 1] = a[n]
  BY OneInFront
<1>2. /\ t \in Seq(D) /\ Len(t) = Len(b) + 1 /\ Len(b) \in Nat /\ t[1] = e
      /\ \A n \in 1 .. Len(b) : t[n + 1] = b[n]
  BY OneInFront
<1> HIDE DEF s, t
<1>3. IsPrefix(s, t) <=> Len(s) <= Len(t) /\ \A n \in 1 .. Len(s) : s[n] = t[n]
  BY <1>1, <1>2, IsPrefixIs
<1>4. ASSUME Len(s) <= Len(t), \A n \in 1 .. Len(s) : s[n] = t[n], NEW n \in 1 .. Len(a)
      PROVE  a[n] = b[n]
  <2>1. n + 1 \in 1 .. Len(s) /\ n \in 1 .. Len(b)
    BY <1>1, <1>2, <1>4
  <2> QED BY <1>1, <1>2, <1>4, <2>1
<1>5. ASSUME Len(a) <= Len(b), \A n \in 1 .. Len(a) : a[n] = b[n], NEW n \in 1 .. Len(s)
      PROVE  s[n] = t[n]
  <2>1. CASE n = 1
    BY <1>1, <1>2, <2>1
  <2>2. CASE n # 1
    <3>1. n - 1 \in 1 .. Len(a) /\ n - 1 \in 1 .. Len(b) /\ (n - 1) + 1 = n
      BY <1>1, <1>5, <2>2
    <3> QED BY <1>1, <1>2, <1>5, <3>1
  <2> QED BY <2>1, <2>2
<1>6. Len(s) <= Len(t) <=> Len(a) <= Len(b)
  BY <1>1, <1>2
<1> QED BY <1>3, <1>4, <1>5, <1>6 DEF s, t

(* Some numbers up to a bound have a greatest.                             *)
LEMMA Highest ==
  ASSUME NEW m \in Nat, NEW I \in SUBSET (1 .. m), I # {}
  PROVE  Max(I) \in I /\ \A h \in I : h <= Max(I)
<1> DEFINE T == {m - h : h \in I}
<1>1. T \in SUBSET Nat /\ T # {}
  OBVIOUS
<1> HIDE DEF T
<1>2. PICK n \in T : \A l \in T : n <= l
  BY <1>1, Lowest
<1>3. PICK x \in I : n = m - x
  BY <1>2 DEF T
<1>4. \A h \in I : m - h \in T
  BY DEF T
<1>5. \A h \in I : x >= h
  <2> TAKE h \in I
  <2>1. n <= m - h
    BY <1>2, <1>4
  <2> QED BY <1>3, <2>1
<1>6. \E y \in I : \A h \in I : y >= h
  BY <1>5
<1>7. Max(I) \in I /\ \A h \in I : Max(I) >= h
  BY <1>6 DEF Max
<1> QED BY <1>7

(* The last slash of a text, and its directory.                            *)
LEMMA LastSlashIs ==
  ASSUME NEW s \in Text
  PROVE  LET n == SelectLastInSeq(s, LAMBDA c : c = "/")
         IN /\ n \in 0 .. Len(s) /\ Len(s) \in Nat
            /\ \A h \in 1 .. Len(s) : s[h] = "/" => h <= n /\ s[n] = "/"
<1> DEFINE I == {h \in 1 .. Len(s) : s[h] = "/"}
           n == SelectLastInSeq(s, LAMBDA c : c = "/")
<1>1. n = IF I # {} THEN Max(I) ELSE 0
  BY DEF SelectLastInSeq
<1>2. Len(s) \in Nat
  BY LenProperties DEF Text
<1>3. I # {} => Max(I) \in I /\ \A h \in I : h <= Max(I)
  <2>1. I \in SUBSET (1 .. Len(s))
    OBVIOUS
  <2> HIDE DEF I
  <2> QED BY <1>2, <2>1, Highest
<1> HIDE DEF n
<1> QED BY <1>1, <1>2, <1>3 DEF n

(* path.Dir cuts off the part behind the last slash.                       *)
LEMMA DirOf ==
  ASSUME NEW s \in Text, NEW p \in Part
  PROVE  Dir((s \o Slash) \o p) = Clean(s \o Slash)
<1> DEFINE t == s \o Slash
           u == t \o p
           n == SelectLastInSeq(u, LAMBDA c : c = "/")
<1>1. t \in Seq(Chars) /\ t = Append(s, "/") /\ p \in Seq(Chars) /\ s \in Seq(Chars)
  <2>1. t = Append(s, "/") /\ s \in Seq(Chars) /\ p \in Seq(Chars) /\ "/" \in Chars
    BY SplitConcat, CharactersAre DEF Text
  <2> QED BY <2>1, AppendIs
<1>2. Len(t) \in Nat \ {0} /\ t[Len(t)] = "/"
  <2>1. Len(t) = Len(s) + 1 /\ t[Len(s) + 1] = "/" /\ Len(s) \in Nat
    BY <1>1, CharactersAre, AppendIs, LenProperties
  <2> HIDE DEF t
  <2> QED BY <2>1
<1>3. Len(p) \in Nat /\ \A h \in 1 .. Len(p) : p[h] # "/"
  BY LenProperties, ElementOfSeq DEF Part, Letters
<1> HIDE DEF t
<1>4. /\ u \in Seq(Chars) /\ Len(u) = Len(t) + Len(p)
      /\ \A h \in 1 .. Len(t) + Len(p) : u[h] = IF h <= Len(t) THEN t[h] ELSE p[h - Len(t)]
  BY <1>1, ConcatProperties
<1> HIDE DEF u
<1>5. /\ n \in 0 .. Len(u)
      /\ \A h \in 1 .. Len(u) : u[h] = "/" => h <= n /\ u[n] = "/"
  <2>1. u \in Text
    BY <1>4 DEF Text
  <2> QED BY <2>1, LastSlashIs
<1> HIDE DEF n
<1>6. n = Len(t)
  <2>1. Len(t) \in 1 .. Len(u) /\ u[Len(t)] = "/"
    BY <1>2, <1>3, <1>4
  <2>2. Len(t) <= n /\ u[n] = "/"
    BY <1>5, <2>1
  <2>3. ASSUME n > Len(t) PROVE FALSE
    <3>1. n \in 1 .. Len(t) + Len(p) /\ n - Len(t) \in 1 .. Len(p) /\ ~(n <= Len(t))
      BY <1>2, <1>3, <1>4, <1>5, <2>3
    <3>2. u[n] = p[n - Len(t)]
      BY <1>4, <3>1
    <3> QED BY <1>3, <2>2, <3>1, <3>2
  <2> QED BY <1>2, <1>5, <2>2, <2>3
<1>7. SubSeq(u, 1, n) = t
  <2> DEFINE r == SubSeq(u, 1, Len(t))
  <2>1. \A h \in 1 .. Len(t) : u[h] \in Chars /\ u[h] = t[h]
    <3> TAKE h \in 1 .. Len(t)
    <3>1. h \in 1 .. Len(t) + Len(p) /\ h <= Len(t) /\ t[h] \in Chars
      BY <1>1, <1>2, <1>3, ElementOfSeq
    <3> QED BY <1>4, <3>1
  <2>2. 1 \in Int /\ Len(t) \in Int
    BY <1>2
  <2>3. /\ r \in Seq(Chars) /\ Len(r) = IF 1 <= Len(t) THEN Len(t) - 1 + 1 ELSE 0
        /\ \A h \in 1 .. Len(t) - 1 + 1 : r[h] = u[1 + h - 1]
    BY <2>1, <2>2, SubSeqProperties
  <2> HIDE DEF r
  <2>4. Len(r) = Len(t) /\ \A h \in 1 .. Len(r) : r[h] = t[h]
    <3>1. Len(r) = Len(t)
      BY <1>2, <2>3
    <3>2. ASSUME NEW h \in 1 .. Len(r) PROVE r[h] = t[h]
      <4>1. h \in 1 .. Len(t) - 1 + 1 /\ 1 + h - 1 = h /\ h \in 1 .. Len(t)
        BY <1>2, <3>1
      <4>2. r[h] = u[1 + h - 1] /\ u[h] = t[h]
        BY <2>1, <2>3, <4>1
      <4> QED BY <4>1, <4>2
    <3> QED BY <3>1, <3>2
  <2>5. r = t
    BY <1>1, <2>3, <2>4, SeqEqual
  <2> QED BY <1>6, <2>5 DEF r
<1>8. Dir(u) = Clean(SubSeq(u, 1, n))
  BY DEF Dir, n
<1> QED BY <1>7, <1>8 DEF u, t

(* The path without names is the slash.                                    *)
LEMMA RootIs ==
  /\ Rooted(<<>>) = Slash /\ <<>> \in Seq(Place)
  /\ (<<>> \o Slash) \o <<>> = Slash /\ <<>> \o Slash = Slash
  /\ Clean(Slash) = Slash
<1>1. Joined(<<>>, Slash) = <<>> /\ Slash \o <<>> = Slash /\ <<>> \o Slash = Slash
  BY JoinedIs, CharactersAre, ConcatEmptySeq DEF Text
<1>2. Rooted(<<>>) = Slash
  BY <1>1 DEF Rooted
<1>3. <<>> \in Seq(Place)
  BY EmptySeq
<1>4. Clean(Rooted(<<>>)) = Rooted(<<>>)
  BY <1>3, RootedIs
<1> QED BY <1>1, <1>2, <1>3, <1>4

(* path.Dir takes the last name away, and at the root nothing.             *)
LEMMA DirIs ==
  /\ Dir(Rooted(<<>>)) = Rooted(<<>>)
  /\ \A F \in Seq(Place), x \in Place : Dir(Rooted(Append(F, x))) = Rooted(F)
<1>1. Dir((<<>> \o Slash) \o <<>>) = Clean(<<>> \o Slash)
  BY CharactersAre, DirOf
<1>2. Dir(Slash) = Slash
  BY <1>1, RootIs
<1>3. ASSUME NEW F \in Seq(Place), NEW x \in Place
      PROVE  Dir(Rooted(Append(F, x))) = Rooted(F)
  <2>1. x \in Part /\ x \in Piece /\ <<x>> \in Seq(Place) /\ <<x>> # <<>> /\ Append(F, x) = F \o <<x>>
    BY PiecesAre, AppendOne
  <2>2. Joined(<<x>>, Slash) = x
    BY <2>1, JoinedOne, CharactersAre
  <2>3. CASE F = <<>>
    <3>1. Append(F, x) = <<x>>
      BY <2>3, AppendOne
    <3>2. Rooted(Append(F, x)) = (<<>> \o Slash) \o x
      BY <2>2, <3>1, RootIs DEF Rooted
    <3>3. Dir((<<>> \o Slash) \o x) = Clean(<<>> \o Slash)
      BY <2>1, CharactersAre, DirOf
    <3> QED BY <2>3, <3>2, <3>3, RootIs
  <2>4. CASE F # <<>>
    <3>1. Rooted(F \o <<x>>) = (Rooted(F) \o Slash) \o Joined(<<x>>, Slash)
      <4> DEFINE X == <<x>>
      <4>1. X \in Seq(Place) /\ X # <<>>
        BY <2>1
      <4> HIDE DEF X
      <4>2. Rooted(F \o X) = (Rooted(F) \o Slash) \o Joined(X, Slash)
        BY <2>4, <4>1, RootedConcat
      <4> QED BY <4>2 DEF X
    <3>2. Rooted(F) \in Text /\ BeginsWithSlash(Rooted(F)) /\ UpFree(Rooted(F)) /\ NamesOf(Rooted(F)) = F
      BY RootedIs
    <3>3. /\ Rooted(F) \o Slash \in Text /\ BeginsWithSlash(Rooted(F) \o Slash)
          /\ NamesOf(Rooted(F) \o Slash) = F /\ UpFree(Rooted(F) \o Slash)
      BY <3>2, SlashAfter
    <3>4. Clean(Rooted(F) \o Slash) = Rooted(F)
      BY <3>3, CleanIs
    <3>5. Dir((Rooted(F) \o Slash) \o x) = Clean(Rooted(F) \o Slash)
      BY <2>1, <3>2, DirOf
    <3> QED BY <2>1, <2>2, <3>1, <3>4, <3>5
  <2> QED BY <2>3, <2>4
<1> QED BY <1>2, <1>3, RootIs

(* The terms of a path: what is before the first slash, and the names.     *)
LEMMA TermsIs ==
  ASSUME NEW N \in Seq(Place)
  PROVE  LET M == IF N = <<>> THEN <<<<>>>> ELSE N
         IN /\ Terms(Rooted(N)) = <<<<>>>> \o M /\ M \in Seq(Part) /\ <<>> \in Part
            /\ \A s \in Text : Clean(s) = Rooted(N) => Terms(s) = <<<<>>>> \o M
<1>1. /\ Clean(Rooted(N)) = Rooted(N)
      /\ Split(Rooted(N)) = <<<<>>>> \o (IF N = <<>> THEN <<<<>>>> ELSE N)
  BY RootedIs
<1>2. N \in Seq(Part) /\ <<<<>>>> \in Seq(Part) /\ <<>> \in Part
  BY PiecesAre, OneSkipped, CharactersAre
<1> QED BY <1>1, <1>2 DEF Terms

(* The terms of a path below the root are the empty part and its names,    *)
(* with or without a slash after it.                                       *)
LEMMA PathIs ==
  ASSUME NEW path \in Text, TidyOrSlashed(path), NamesOf(path) # <<>>
  PROVE  /\ NamesOf(path) \in Seq(Place) /\ Terms(path) = <<<<>>>> \o NamesOf(path)
         /\ Len(Terms(path)) = Len(NamesOf(path)) + 1 /\ Len(NamesOf(path)) \in Nat \ {0}
<1> DEFINE P == NamesOf(path)
<1>1. P \in Seq(Place) /\ UpFree(path) /\ BeginsWithSlash(path)
  BY TidyIs
<1>2. Clean(path) = Rooted(P)
  BY <1>1, CleanIs
<1> HIDE DEF P
<1>3. P # <<>>
  BY DEF P
<1>4. Terms(path) = <<<<>>>> \o P /\ P \in Seq(Part) /\ <<>> \in Part
  BY <1>1, <1>2, <1>3, TermsIs
<1>5. Len(<<<<>>>> \o P) = Len(P) + 1
  BY <1>4, OneInFront
<1>6. Len(P) \in Nat \ {0}
  BY <1>1, <1>3, EmptySeq
<1> QED BY <1>1, <1>4, <1>5, <1>6 DEF P

(* A key below a path, seen as the code does and as a list of names.       *)
LEMMA TermsBelow ==
  ASSUME NEW P \in Seq(Place), P # <<>>, NEW J \in Seq(Place)
  PROVE  /\ IsPrefix(<<<<>>>> \o P, Terms(Dir(Rooted(J)))) <=> IsStrictPrefix(P, J)
         /\ IsStrictPrefix(P, J) =>
              /\ Len(Terms(Dir(Rooted(J)))) = Len(J) /\ Len(J) \in Nat
              /\ Len(J) > Len(P) + 1 => Terms(Dir(Rooted(J)))[Len(P) + 2] = J[Len(P) + 1]
<1>1. /\ Len(P) \in Nat \ {0} /\ Len(J) \in Nat /\ P \in Seq(Part)
      /\ \A n \in 1 .. Len(P) : P[n] # <<>>
  <2>1. Len(P) \in Nat \ {0} /\ Len(J) \in Nat /\ P \in Seq(Part)
    BY EmptySeq, LenProperties, PiecesAre
  <2>2. \A n \in 1 .. Len(P) : P[n] \in Place
    BY ElementOfSeq
  <2>3. <<>> \notin Place
    BY DEF Place, Name, NoName
  <2> QED BY <2>1, <2>2, <2>3
<1>2. IsStrictPrefix(P, J) <=> Len(P) < Len(J) /\ \A n \in 1 .. Len(P) : P[n] = J[n]
  BY StrictPrefixIs
<1>3. \A F \in Seq(Place) :
        LET M == IF F = <<>> THEN <<<<>>>> ELSE F
        IN /\ Terms(Rooted(F)) = <<<<>>>> \o M /\ M \in Seq(Part) /\ <<>> \in Part
           /\ IsPrefix(<<<<>>>> \o P, <<<<>>>> \o M)
                <=> Len(P) <= Len(M) /\ \A n \in 1 .. Len(P) : P[n] = M[n]
  <2> TAKE F \in Seq(Place)
  <2> DEFINE M == IF F = <<>> THEN <<<<>>>> ELSE F
  <2>1. Terms(Rooted(F)) = <<<<>>>> \o M /\ M \in Seq(Part) /\ <<>> \in Part
    BY TermsIs
  <2> HIDE DEF M
  <2>2. IsPrefix(<<<<>>>> \o P, <<<<>>>> \o M)
          <=> Len(P) <= Len(M) /\ \A n \in 1 .. Len(P) : P[n] = M[n]
    BY <1>1, <2>1, PrefixInFront
  <2> QED BY <2>1, <2>2 DEF M
<1>4. ASSUME NEW F \in Seq(Place), F = <<>>
      PROVE  ~IsPrefix(<<<<>>>> \o P, Terms(Rooted(F)))
  <2> DEFINE M == <<<<>>>>
  <2>1. Len(M) = 1 /\ M[1] = <<>>
    OBVIOUS
  <2> HIDE DEF M
  <2>2. Terms(Rooted(F)) = <<<<>>>> \o M
        /\ (IsPrefix(<<<<>>>> \o P, <<<<>>>> \o M)
              <=> Len(P) <= Len(M) /\ \A n \in 1 .. Len(P) : P[n] = M[n])
    BY <1>3, <1>4 DEF M
  <2>3. P[1] # <<>> /\ 1 \in 1 .. Len(P)
    BY <1>1
  <2> QED BY <2>1, <2>2, <2>3
<1>5. CASE J = <<>>
  <2>1. Len(J) = 0 /\ Dir(Rooted(J)) = Rooted(J)
    BY <1>5, DirIs
  <2>2. ~IsPrefix(<<<<>>>> \o P, Terms(Rooted(J)))
    BY <1>4, <1>5
  <2>3. ~IsStrictPrefix(P, J)
    <3>1. ~(Len(P) < Len(J))
      BY <1>1, <2>1
    <3> QED BY <1>2, <3>1
  <2> QED BY <2>1, <2>2, <2>3
<1>6. CASE J # <<>>
  <2>1. PICK F \in Seq(Place), x \in Place : J = Append(F, x) /\ Len(J) = Len(F) + 1
    BY <1>6, IsAppended
  <2>2. Dir(Rooted(J)) = Rooted(F) /\ Len(F) \in Nat /\ \A n \in 1 .. Len(F) : J[n] = F[n]
    BY <2>1, DirIs, AppendIs, LenProperties
  <2>3. CASE F = <<>>
    <3>1. Len(F) = 0
      BY <2>3
    <3>2. ~IsPrefix(<<<<>>>> \o P, Terms(Rooted(F)))
      BY <1>4, <2>3
    <3>3. ~IsStrictPrefix(P, J)
      <4>1. ~(Len(P) < Len(J))
        BY <1>1, <2>1, <3>1
      <4> QED BY <1>2, <4>1
    <3> QED BY <2>2, <3>2, <3>3
  <2>4. CASE F # <<>>
    <3>1. /\ Terms(Rooted(F)) = <<<<>>>> \o F /\ F \in Seq(Part) /\ <<>> \in Part
          /\ IsPrefix(<<<<>>>> \o P, <<<<>>>> \o F)
                <=> Len(P) <= Len(F) /\ \A n \in 1 .. Len(P) : P[n] = F[n]
      BY <1>3, <2>4
    <3>2. Len(P) <= Len(F) /\ (\A n \in 1 .. Len(P) : P[n] = F[n])
            <=> Len(P) < Len(J) /\ (\A n \in 1 .. Len(P) : P[n] = J[n])
      BY <1>1, <2>1, <2>2
    <3> DEFINE T == <<<<>>>> \o F
    <3>3. Len(T) = Len(F) + 1 /\ \A n \in 1 .. Len(F) : T[n + 1] = F[n]
      BY <3>1, OneInFront
    <3> HIDE DEF T
    <3>4. ASSUME Len(J) > Len(P) + 1
          PROVE  T[Len(P) + 2] = J[Len(P) + 1]
      <4>1. Len(P) + 1 \in 1 .. Len(F) /\ (Len(P) + 1) + 1 = Len(P) + 2
        BY <1>1, <2>1, <2>2, <3>4
      <4>2. T[(Len(P) + 1) + 1] = F[Len(P) + 1] /\ J[Len(P) + 1] = F[Len(P) + 1]
        BY <2>2, <3>3, <4>1
      <4> QED BY <4>1, <4>2
    <3>5. Terms(Dir(Rooted(J))) = T
      BY <2>2, <3>1 DEF T
    <3>6. IsPrefix(<<<<>>>> \o P, T) <=> IsStrictPrefix(P, J)
      BY <1>2, <3>1, <3>2 DEF T
    <3> QED BY <1>1, <2>1, <3>3, <3>4, <3>5, <3>6
  <2> QED BY <2>3, <2>4
<1> QED BY <1>5, <1>6

(* The rest of a list behind a strict prefix.                              *)
LEMMA RestIs ==
  ASSUME NEW D, NEW P \in Seq(D), NEW J \in Seq(D), IsStrictPrefix(P, J)
  PROVE  \E R \in Seq(D) : R # <<>> /\ J = P \o R /\ R[1] = J[Len(P) + 1]
<1>1. /\ Len(P) < Len(J) /\ (\A n \in 1 .. Len(P) : P[n] = J[n])
      /\ Len(P) \in Nat /\ Len(J) \in Nat
  BY StrictPrefixIs, LenProperties
<1> DEFINE R == SubSeq(J, Len(P) + 1, Len(J))
           Q == SubSeq(J, 1, Len(P))
<1>2. R \in Seq(D) /\ Len(R) # 0 /\ R[1] = J[Len(P) + 1]
  <2>1. Len(P) + 1 \in Int /\ Len(J) \in Int /\ \A h \in Len(P) + 1 .. Len(J) : J[h] \in D
    BY <1>1, ElementOfSeq
  <2>2. /\ R \in Seq(D)
        /\ Len(R) = IF Len(P) + 1 <= Len(J) THEN Len(J) - (Len(P) + 1) + 1 ELSE 0
        /\ \A h \in 1 .. Len(J) - (Len(P) + 1) + 1 : R[h] = J[Len(P) + 1 + h - 1]
    BY <2>1, SubSeqProperties
  <2> HIDE DEF R
  <2>3. 1 \in 1 .. Len(J) - (Len(P) + 1) + 1 /\ Len(P) + 1 + 1 - 1 = Len(P) + 1
    BY <1>1
  <2>4. Len(R) # 0
    BY <1>1, <2>2
  <2>5. R[1] = J[Len(P) + 1 + 1 - 1]
    BY <2>2, <2>3
  <2> QED BY <2>2, <2>3, <2>4, <2>5
<1>3. Q = P
  <2>1. IsPrefix(P, J)
    BY DEF IsStrictPrefix
  <2>2. SubSeq(P, 1, Len(P)) = P
    BY SubSeqFull
  <2> QED BY <2>1, <2>2 DEF IsPrefix
<1>4. Q \o R = J
  <2>1. 1 \in 1 .. Len(J) + 1 /\ Len(P) \in 1 - 1 .. Len(J) /\ Len(J) \in Len(P) .. Len(J)
    BY <1>1
  <2>2. Q \o R = SubSeq(J, 1, Len(J))
    BY <2>1, ConcatAdjacentSubSeq
  <2> QED BY <2>2, SubSeqFull
<1> HIDE DEF R, Q
<1>5. R # <<>>
  BY <1>2
<1> QED BY <1>2, <1>3, <1>4, <1>5

(* strings.TrimPrefix takes away what was put before a text.               *)
LEMMA TrimConcat ==
  ASSUME NEW p \in Text, NEW t \in Text
  PROVE  TrimPrefix(p \o t, p) = t /\ IsPrefix(p, p \o t)
<1> DEFINE s == p \o t
<1>1. /\ s \in Seq(Chars) /\ Len(s) = Len(p) + Len(t) /\ p \in Seq(Chars)
      /\ Len(p) \in Nat /\ Len(t) \in Nat
      /\ \A h \in 1 .. Len(p) + Len(t) : s[h] = IF h <= Len(p) THEN p[h] ELSE t[h - Len(p)]
  BY ConcatProperties, LenProperties DEF Text
<1>2. s \in Text /\ \A r \in Text : s = p \o r => TrimPrefix(s, p) = r
  <2>1. s \in Text
    BY <1>1 DEF Text
  <2> HIDE DEF s
  <2> QED BY <2>1, TrimIs
<1>3. TrimPrefix(s, p) = t
  BY <1>2
<1> HIDE DEF s
<1>4. Len(p) <= Len(s) /\ \A h \in 1 .. Len(p) : p[h] = s[h]
  BY <1>1
<1>5. IsPrefix(p, s)
  BY <1>1, <1>4, IsPrefixIs
<1> QED BY <1>3, <1>5 DEF s

(* What is left of a key below a path begins with the name below it.       *)
LEMMA StripIs ==
  ASSUME NEW path \in Text, TidyOrSlashed(path), NamesOf(path) # <<>>, NEW J \in Seq(Place),
         IsStrictPrefix(NamesOf(path), J)
  PROVE  /\ Split(TrimPrefix(TrimPrefix(Rooted(J), path), Slash))[1] = J[Len(NamesOf(path)) + 1]
         /\ IsPrefix(path, Rooted(J))
<1> DEFINE P == NamesOf(path)
<1>1. /\ P \in Seq(Place) /\ P # <<>>
      /\ path = Rooted(P) \/ path = Rooted(P) \o Slash
  BY TidyIs
<1>2. PICK R \in Seq(Place) : R # <<>> /\ J = P \o R /\ R[1] = J[Len(P) + 1]
  BY <1>1, RestIs
<1> HIDE DEF P
<1> DEFINE r == Joined(R, Slash)
           j == Rooted(J)
           s == TrimPrefix(j, path)
<1>3. /\ j = (Rooted(P) \o Slash) \o r /\ j = Rooted(P) \o Rooted(R)
      /\ Rooted(R) = Slash \o r
  BY <1>1, <1>2, RootedConcat DEF Rooted
<1>4. /\ r \in Text /\ r # <<>> /\ Split(r) = R /\ Rooted(R) \in Text /\ j \in Text
      /\ Slash \in Text
  BY <1>2, JoinedPlaces, RootedIs, CharactersAre
<1> HIDE DEF r, j
<1>5. IsPrefix(path, j) /\ (s = r \/ s = Slash \o r)
  <2>1. CASE path = Rooted(P)
    <3>1. j = path \o Rooted(R)
      BY <1>3, <2>1
    <3>2. s = Rooted(R) /\ IsPrefix(path, j)
      BY <1>4, <3>1, TrimConcat
    <3> QED BY <1>3, <3>2
  <2>2. CASE path = Rooted(P) \o Slash
    <3>1. j = path \o r
      BY <1>3, <2>2
    <3> QED BY <1>4, <3>1, TrimConcat
  <2> QED BY <1>1, <2>1, <2>2
<1> HIDE DEF s
<1>6. TrimPrefix(Slash \o r, Slash) = r
  BY <1>4, TrimConcat
<1>7. TrimPrefix(r, Slash) = r
  <2> DEFINE t == TrimPrefix(r, Slash)
  <2>1. CASE IsPrefix(Slash, r)
    <3>1. r = Slash \o t /\ t \in Text
      BY <1>4, <2>1, TrimIs
    <3> HIDE DEF t
    <3>2. Split(r) = <<<<>>>> \o Split(t) /\ Split(t) \in Seq(Part) /\ <<>> \in Part
      BY <3>1, SlashBegins, SplitTexts, CharactersAre
    <3>3. (<<<<>>>> \o Split(t))[1] = <<>>
      BY <3>2, OneInFront
    <3>4. R[1] \in Place
      BY <1>2, EmptySeq, ElementOfSeq
    <3> QED BY <1>4, <3>2, <3>3, <3>4 DEF Place, Name, NoName
  <2>2. CASE ~IsPrefix(Slash, r)
    BY <1>4, <2>2, TrimIs
  <2> QED BY <2>1, <2>2
<1>8. TrimPrefix(s, Slash) = r
  BY <1>5, <1>6, <1>7
<1>9. Split(TrimPrefix(s, Slash))[1] = J[Len(P) + 1]
  BY <1>2, <1>4, <1>8
<1> QED BY <1>5, <1>9 DEF s, j, P

-----------------------------------------------------------------------------
(* What ls and lsdir give.                                                 *)

(* The keys of the store are paths that path.Clean leaves alone.           *)
LEMMA StoreKeysAreRooted ==
  ASSUME StoreInv
  PROVE  \A j \in DOMAIN store : \E J \in Seq(Place) : j = Rooted(J)
<1> TAKE j \in DOMAIN store
<1>1. prefix \in Text /\ TheKeys \subseteq Text
  BY PrefixIs DEF StoreInv
<1>2. PICK k \in TheKeys : j = StoreKey(k)
  BY DEF StoreInv
<1> QED BY <1>1, <1>2, StoreKeyIs

(* For a path below the root, ls and lsdir compute the names below it.     *)
LEMMA ListedBelow ==
  ASSUME StoreInv, NEW path \in Text, TidyOrSlashed(path), NamesOf(path) # <<>>
  PROVE  LET n == Len(NamesOf(path)) + 1
         IN /\ List(path) = {NamesOf(k)[n] : k \in Below(path)}
                              \cup {Base(k) : k \in DOMAIN store \cap {path}}
            /\ ListDir(path) = {NamesOf(k)[n] :
                                  k \in {j \in Below(path) : Len(NamesOf(j)) > n}}
<1> DEFINE P == NamesOf(path)
           n == Len(P) + 1
           strip(k) == TrimPrefix(TrimPrefix(k, path), Slash)
           Same(j) == SamePrefixTerms(Terms(path), Terms(Dir(j)))
<1>1. /\ P \in Seq(Place) /\ Terms(path) = <<<<>>>> \o P /\ Len(Terms(path)) = n
      /\ Len(P) \in Nat /\ P # <<>>
  BY PathIs
<1>2. ASSUME NEW j \in DOMAIN store
      PROVE  /\ Same(j) <=> j \in Below(path)
             /\ j \in Below(path) =>
                  /\ j # path /\ Split(strip(j))[1] = NamesOf(j)[n] /\ IsPrefix(path, j)
                  /\ Len(Terms(Dir(j))) = Len(NamesOf(j)) /\ Len(NamesOf(j)) \in Nat
                  /\ Len(NamesOf(j)) > n => Terms(Dir(j))[n + 1] = NamesOf(j)[n]
  <2>1. PICK J \in Seq(Place) : j = Rooted(J)
    BY StoreKeysAreRooted
  <2>2. NamesOf(j) = J
    BY <2>1, RootedIs
  <2>3. j \in Below(path) <=> IsStrictPrefix(P, J)
    BY <2>2 DEF Below
  <2> HIDE DEF P
  <2>4. /\ IsPrefix(<<<<>>>> \o P, Terms(Dir(j))) <=> IsStrictPrefix(P, J)
        /\ IsStrictPrefix(P, J) =>
             /\ Len(Terms(Dir(j))) = Len(J) /\ Len(J) \in Nat
             /\ Len(J) > Len(P) + 1 => Terms(Dir(j))[Len(P) + 2] = J[Len(P) + 1]
    BY <1>1, <2>1, TermsBelow
  <2>5. Same(j) <=> IsStrictPrefix(P, J)
    BY <1>1, <2>4 DEF SamePrefixTerms
  <2>6. IsStrictPrefix(P, J) => Split(strip(j))[1] = J[n] /\ IsPrefix(path, j)
    BY <2>1, StripIs DEF P
  <2>7. IsStrictPrefix(P, J) => j # path
    BY <2>2 DEF P, IsStrictPrefix
  <2>8. n + 1 = Len(P) + 2
    BY <1>1
  <2> HIDE DEF n, strip, Same
  <2>9. IsStrictPrefix(P, J) => (Len(J) > n => Terms(Dir(j))[n + 1] = J[n])
    BY <2>4, <2>8 DEF n
  <2> QED BY <2>2, <2>3, <2>4, <2>5, <2>6, <2>7, <2>9
<1>3. Below(path) \subseteq DOMAIN store
  BY DEF Below
<1>4. List(path) = {Base(k) : k \in DOMAIN store \cap {path}}
                     \cup {Split(strip(k))[1] : k \in {j \in DOMAIN store \ {path} : Same(j)}}
  BY DEF List
<1>5. ListDir(path) = {Terms(Dir(k))[Len(Terms(path)) + 1] :
                         k \in {j \in DOMAIN store : /\ IsPrefix(path, j) /\ Same(j)
                                                     /\ Len(Terms(Dir(j))) > Len(Terms(path))}}
  BY DEF ListDir
<1> HIDE DEF P, n, strip, Same
<1>6. {j \in DOMAIN store \ {path} : Same(j)} = Below(path)
  BY <1>2, <1>3
<1>7. {Split(strip(k))[1] : k \in Below(path)} = {NamesOf(k)[n] : k \in Below(path)}
  <2>1. \A k \in Below(path) : Split(strip(k))[1] = NamesOf(k)[n]
    BY <1>2, <1>3
  <2> QED BY <2>1
<1>8. {j \in DOMAIN store : /\ IsPrefix(path, j) /\ Same(j)
                            /\ Len(Terms(Dir(j))) > Len(Terms(path))}
        = {j \in Below(path) : Len(NamesOf(j)) > n}
  <2>1. \A j \in DOMAIN store : IsPrefix(path, j) /\ Same(j) /\ Len(Terms(Dir(j))) > Len(Terms(path))
                                  <=> j \in Below(path) /\ Len(NamesOf(j)) > n
    BY <1>1, <1>2
  <2> QED BY <1>3, <2>1
<1>9. {Terms(Dir(k))[Len(Terms(path)) + 1] : k \in {j \in Below(path) : Len(NamesOf(j)) > n}}
        = {NamesOf(k)[n] : k \in {j \in Below(path) : Len(NamesOf(j)) > n}}
  <2> DEFINE B == {j \in Below(path) : Len(NamesOf(j)) > n}
  <2>1. \A k \in B : Terms(Dir(k))[n + 1] = NamesOf(k)[n]
    BY <1>2, <1>3
  <2> HIDE DEF B
  <2>2. {Terms(Dir(k))[Len(Terms(path)) + 1] : k \in B} = {NamesOf(k)[n] : k \in B}
    BY <1>1, <2>1
  <2> QED BY <2>2 DEF B
<1>10. List(path) = {NamesOf(k)[n] : k \in Below(path)}
                      \cup {Base(k) : k \in DOMAIN store \cap {path}}
  BY <1>4, <1>6, <1>7
<1>11. ListDir(path) = {NamesOf(k)[n] : k \in {j \in Below(path) : Len(NamesOf(j)) > n}}
  BY <1>5, <1>8, <1>9
<1> QED BY <1>10, <1>11 DEF P, n

(* Whatever is in the store, ls gives for a path below the root the names  *)
(* right below it and lsdir those that have others below them, neither     *)
(* more nor less: "/a" does not list what is below "/ab" (store.go: List,  *)
(* ListDir, stripKey, samePrefixTerms).                                    *)
THEOREM NamesBelowAreListed == Spec => []ListsWhatIsBelow
<1>1. Paths \subseteq Text
  BY DataAssumption DEF Text, Chars
<1>2. StoreInv => ListsWhatIsBelow
  <2> SUFFICES ASSUME StoreInv, NEW path \in Paths, NamesOf(path) # <<>>, TidyOrSlashed(path)
               PROVE  LET n == Len(NamesOf(path)) + 1
                      IN /\ List(path) = {NamesOf(k)[n] : k \in Below(path)}
                                           \cup {Base(k) : k \in DOMAIN store \cap {path}}
                         /\ ListDir(path) = {NamesOf(k)[n] :
                                               k \in {j \in Below(path) : Len(NamesOf(j)) > n}}
    BY DEF ListsWhatIsBelow
  <2> QED BY <1>1, ListedBelow
<1> QED BY <1>2, StoreInvariant, PTL

-----------------------------------------------------------------------------
(* The order of texts.                                                     *)

(* The first place that makes one text less than another.                  *)
LessAt(s, t, n) ==
  /\ n \in 1 .. Len(t)
  /\ \A m \in 1 .. n - 1 : m <= Len(s) /\ s[m] = t[m]
  /\ n = Len(s) + 1 \/ (n <= Len(s) /\ Rank[s[n]] < Rank[t[n]])

(* To begin with the same members, member by member.                       *)
LEMMA SubSeqAgree ==
  ASSUME NEW D, NEW s \in Seq(D), NEW t \in Seq(D), NEW m \in Nat, m <= Len(s), m <= Len(t)
  PROVE  SubSeq(s, 1, m) = SubSeq(t, 1, m) <=> \A h \in 1 .. m : s[h] = t[h]
<1>1. ASSUME NEW r \in Seq(D), m <= Len(r)
      PROVE  /\ SubSeq(r, 1, m) \in Seq(D) /\ Len(SubSeq(r, 1, m)) = m
             /\ \A h \in 1 .. m : SubSeq(r, 1, m)[h] = r[h]
  <2>1. Len(r) \in Nat /\ \A h \in 1 .. m : r[h] \in D
    BY <1>1, LenProperties, ElementOfSeq
  <2>2. 1 \in Int /\ m \in Int
    OBVIOUS
  <2> DEFINE u == SubSeq(r, 1, m)
  <2>3. /\ u \in Seq(D) /\ Len(u) = IF 1 <= m THEN m - 1 + 1 ELSE 0
        /\ \A h \in 1 .. m - 1 + 1 : u[h] = r[1 + h - 1]
    BY <2>1, <2>2, SubSeqProperties
  <2> HIDE DEF u
  <2>4. Len(u) = m
    BY <2>3
  <2>5. \A h \in 1 .. m : u[h] = r[h]
    <3> TAKE h \in 1 .. m
    <3>1. h \in 1 .. m - 1 + 1 /\ 1 + h - 1 = h
      OBVIOUS
    <3>2. u[h] = r[1 + h - 1]
      BY <2>3, <3>1
    <3> QED BY <3>1, <3>2
  <2> QED BY <2>3, <2>4, <2>5 DEF u
<1> DEFINE a == SubSeq(s, 1, m)
           b == SubSeq(t, 1, m)
<1>2. a \in Seq(D) /\ Len(a) = m /\ \A h \in 1 .. m : a[h] = s[h]
  BY <1>1
<1>3. b \in Seq(D) /\ Len(b) = m /\ \A h \in 1 .. m : b[h] = t[h]
  BY <1>1
<1> HIDE DEF a, b
<1>4. ASSUME \A h \in 1 .. m : s[h] = t[h] PROVE a = b
  <2>1. Len(a) = Len(b) /\ \A h \in 1 .. Len(a) : a[h] = b[h]
    BY <1>2, <1>3, <1>4
  <2> QED BY <1>2, <1>3, <2>1, SeqEqual
<1>5. a = b => \A h \in 1 .. m : s[h] = t[h]
  BY <1>2, <1>3
<1> QED BY <1>4, <1>5 DEF a, b

(* A text is less than another at the first place where they differ.       *)
LEMMA LessIs ==
  ASSUME NEW s \in Text, NEW t \in Text
  PROVE  Less(s, t) <=> \E n \in Nat : LessAt(s, t, n)
<1>1. s \in Seq(Chars) /\ t \in Seq(Chars)
  BY DEF Text
<1>2. /\ Len(s) \in Nat /\ Len(t) \in Nat /\ DOMAIN s = 1 .. Len(s) /\ DOMAIN t = 1 .. Len(t)
  BY <1>1, LenProperties
<1>3. IsStrictPrefix(s, t) <=> Len(s) < Len(t) /\ \A n \in 1 .. Len(s) : s[n] = t[n]
  BY <1>1, StrictPrefixIs
<1>4. ASSUME NEW n \in 1 .. Len(s), n <= Len(t)
      PROVE  SubSeq(s, 1, n - 1) = SubSeq(t, 1, n - 1) <=> \A m \in 1 .. n - 1 : s[m] = t[m]
  <2>1. n - 1 \in Nat /\ n - 1 <= Len(s) /\ n - 1 <= Len(t)
    BY <1>2, <1>4
  <2> QED BY <1>1, <2>1, SubSeqAgree
<1>5. ASSUME IsStrictPrefix(s, t) PROVE \E n \in Nat : LessAt(s, t, n)
  <2>1. LessAt(s, t, Len(s) + 1)
    BY <1>2, <1>3, <1>5 DEF LessAt
  <2>2. Len(s) + 1 \in Nat
    BY <1>2
  <2> QED BY <2>1, <2>2
<1>6. ASSUME NEW n \in DOMAIN s \cap DOMAIN t,
             SubSeq(s, 1, n - 1) = SubSeq(t, 1, n - 1), Rank[s[n]] < Rank[t[n]]
      PROVE  LessAt(s, t, n) /\ n \in Nat
  <2>1. n \in 1 .. Len(s) /\ n <= Len(t) /\ n \in 1 .. Len(t) /\ n \in Nat /\ n <= Len(s)
    BY <1>2
  <2>2. \A m \in 1 .. n - 1 : s[m] = t[m]
    BY <1>4, <1>6, <2>1
  <2>3. \A m \in 1 .. n - 1 : m <= Len(s)
    BY <1>2, <2>1
  <2> QED BY <1>6, <2>1, <2>2, <2>3 DEF LessAt
<1>7. ASSUME NEW n \in Nat, LessAt(s, t, n) PROVE Less(s, t)
  <2>1. CASE n = Len(s) + 1
    <3>1. Len(s) < Len(t) /\ \A m \in 1 .. Len(s) : s[m] = t[m]
      BY <1>2, <1>7, <2>1 DEF LessAt
    <3> QED BY <1>3, <3>1 DEF Less
  <2>2. CASE n # Len(s) + 1
    <3>1. /\ n \in 1 .. Len(s) /\ n <= Len(t) /\ n \in 1 .. Len(t)
          /\ \A m \in 1 .. n - 1 : s[m] = t[m]
          /\ Rank[s[n]] < Rank[t[n]]
      BY <1>2, <1>7, <2>2 DEF LessAt
    <3>2. SubSeq(s, 1, n - 1) = SubSeq(t, 1, n - 1)
      BY <1>4, <3>1
    <3> QED BY <1>2, <3>1, <3>2 DEF Less
  <2> QED BY <2>1, <2>2
<1> QED BY <1>5, <1>6, <1>7 DEF Less

(* The characters have different ranks.                                    *)
LEMMA Ranks ==
  /\ \A c \in Chars : Rank[c] \in Int
  /\ \A c, d \in Chars : Rank[c] = Rank[d] => c = d
  /\ \A s \in Text : Len(s) \in Nat /\ \A n \in 1 .. Len(s) : s[n] \in Chars
BY DataAssumption, LenProperties, ElementOfSeq DEF Chars, Text

(* No text is less than itself.                                            *)
LEMMA LessIrreflexive ==
  ASSUME NEW s \in Text
  PROVE  ~Less(s, s)
<1> SUFFICES ASSUME NEW n \in Nat, LessAt(s, s, n) PROVE FALSE
  BY LessIs
<1>1. n \in 1 .. Len(s) /\ Len(s) \in Nat /\ Rank[s[n]] \in Int
  BY Ranks DEF LessAt
<1> QED BY <1>1 DEF LessAt

(* The order of texts is transitive.                                       *)
LEMMA LessTransitive ==
  ASSUME NEW s \in Text, NEW t \in Text, NEW u \in Text, Less(s, t), Less(t, u)
  PROVE  Less(s, u)
<1>1. PICK n \in Nat : LessAt(s, t, n)
  BY LessIs
<1>2. PICK m \in Nat : LessAt(t, u, m)
  BY LessIs
<1>3. /\ Len(s) \in Nat /\ Len(t) \in Nat /\ Len(u) \in Nat
      /\ \A h \in 1 .. Len(s) : Rank[s[h]] \in Int
      /\ \A h \in 1 .. Len(t) : Rank[t[h]] \in Int
      /\ \A h \in 1 .. Len(u) : Rank[u[h]] \in Int
  BY Ranks
<1>4. /\ n \in 1 .. Len(t) /\ (\A h \in 1 .. n - 1 : h <= Len(s) /\ s[h] = t[h])
      /\ n = Len(s) + 1 \/ (n <= Len(s) /\ Rank[s[n]] < Rank[t[n]])
  BY <1>1 DEF LessAt
<1>5. /\ m \in 1 .. Len(u) /\ (\A h \in 1 .. m - 1 : h <= Len(t) /\ t[h] = u[h])
      /\ m = Len(t) + 1 \/ (m <= Len(t) /\ Rank[t[m]] < Rank[u[m]])
  BY <1>2 DEF LessAt
<1>6. CASE n < m
  <2>1. n \in 1 .. m - 1 /\ n \in 1 .. Len(u) /\ t[n] = u[n]
    BY <1>4, <1>5, <1>6
  <2>2. \A h \in 1 .. n - 1 : h <= Len(s) /\ s[h] = u[h]
    BY <1>4, <1>5, <1>6
  <2>3. LessAt(s, u, n)
    BY <1>4, <2>1, <2>2 DEF LessAt
  <2> QED BY <2>3, LessIs
<1>7. CASE n = m
  <2>1. \A h \in 1 .. n - 1 : h <= Len(s) /\ s[h] = u[h]
    BY <1>4, <1>5, <1>7
  <2>2. Rank[t[n]] < Rank[u[n]] /\ n \in 1 .. Len(u)
    BY <1>3, <1>4, <1>5, <1>7
  <2>3. n = Len(s) + 1 \/ (n <= Len(s) /\ Rank[s[n]] < Rank[u[n]])
    <3>1. CASE n = Len(s) + 1
      BY <3>1
    <3>2. CASE n <= Len(s) /\ Rank[s[n]] < Rank[t[n]]
      <4>1. Rank[s[n]] \in Int /\ Rank[t[n]] \in Int /\ Rank[u[n]] \in Int
        BY <1>3, <1>4, <2>2, <3>2
      <4> QED BY <2>2, <3>2, <4>1
    <3> QED BY <1>4, <3>1, <3>2
  <2>4. LessAt(s, u, n)
    BY <2>1, <2>2, <2>3 DEF LessAt
  <2> QED BY <2>4, LessIs
<1>8. CASE m < n
  <2>1. m \in 1 .. n - 1 /\ m <= Len(s) /\ s[m] = t[m] /\ m \in 1 .. Len(u)
    BY <1>4, <1>5, <1>8
  <2>2. \A h \in 1 .. m - 1 : h <= Len(s) /\ s[h] = u[h]
    BY <1>4, <1>5, <1>8
  <2>3. Rank[t[m]] < Rank[u[m]]
    BY <1>3, <1>4, <1>5, <1>8
  <2>4. LessAt(s, u, m)
    BY <2>1, <2>2, <2>3 DEF LessAt
  <2> QED BY <2>4, LessIs
<1> QED BY <1>6, <1>7, <1>8

(* Of two different texts one is less.                                     *)
LEMMA LessTotal ==
  ASSUME NEW s \in Text, NEW t \in Text, s # t
  PROVE  Less(s, t) \/ Less(t, s)
<1>1. /\ Len(s) \in Nat /\ Len(t) \in Nat
      /\ (\A h \in 1 .. Len(s) : s[h] \in Chars) /\ (\A h \in 1 .. Len(t) : t[h] \in Chars)
  BY Ranks
<1> DEFINE Ends(n) == n = Len(s) + 1 \/ n = Len(t) + 1
           T == {n \in Nat \ {0} : /\ n <= Len(s) + 1 /\ n <= Len(t) + 1
                                   /\ Ends(n) \/ s[n] # t[n]}
<1>2. T \in SUBSET Nat /\ T # {}
  <2>1. (IF Len(s) <= Len(t) THEN Len(s) + 1 ELSE Len(t) + 1) \in T
    BY <1>1
  <2> QED BY <2>1
<1>3. PICK n \in T : \A m \in T : n <= m
  <2> HIDE DEF T
  <2> QED BY <1>2, Lowest
<1>4. /\ n \in Nat \ {0} /\ n <= Len(s) + 1 /\ n <= Len(t) + 1 /\ (Ends(n) \/ s[n] # t[n])
      /\ \A h \in 1 .. n - 1 : h <= Len(s) /\ h <= Len(t) /\ s[h] = t[h]
  <2>1. n \in Nat \ {0} /\ n <= Len(s) + 1 /\ n <= Len(t) + 1 /\ (Ends(n) \/ s[n] # t[n])
    OBVIOUS
  <2>2. ASSUME NEW h \in 1 .. n - 1
        PROVE  h <= Len(s) /\ h <= Len(t) /\ s[h] = t[h]
    <3>1. h \notin T
      BY <1>3, <2>1
    <3>2. h \in Nat \ {0} /\ h <= Len(s) /\ h <= Len(t)
      BY <1>1, <2>1
    <3> QED BY <3>1, <3>2
  <2> QED BY <2>1, <2>2
<1> HIDE DEF T
<1>5. CASE n = Len(s) + 1 /\ n = Len(t) + 1
  <2>1. Len(s) = Len(t) /\ \A h \in 1 .. Len(s) : s[h] = t[h]
    BY <1>1, <1>4, <1>5
  <2> QED BY <2>1, SeqEqual DEF Text
<1>6. CASE n = Len(s) + 1 /\ n # Len(t) + 1
  <2>1. LessAt(s, t, n)
    BY <1>1, <1>4, <1>6 DEF LessAt
  <2> QED BY <1>4, <2>1, LessIs
<1>7. CASE n # Len(s) + 1 /\ n = Len(t) + 1
  <2>1. LessAt(t, s, n)
    BY <1>1, <1>4, <1>7 DEF LessAt
  <2> QED BY <1>4, <2>1, LessIs
<1>8. CASE n # Len(s) + 1 /\ n # Len(t) + 1
  <2>1. n \in 1 .. Len(s) /\ n \in 1 .. Len(t) /\ s[n] # t[n]
    BY <1>1, <1>4, <1>8
  <2>2. Rank[s[n]] \in Int /\ Rank[t[n]] \in Int /\ Rank[s[n]] # Rank[t[n]]
    BY <1>1, <2>1, Ranks
  <2>3. CASE Rank[s[n]] < Rank[t[n]]
    <3>1. LessAt(s, t, n)
      BY <1>4, <2>1, <2>3 DEF LessAt
    <3> QED BY <1>4, <3>1, LessIs
  <2>4. CASE Rank[t[n]] < Rank[s[n]]
    <3>1. LessAt(t, s, n)
      BY <1>4, <2>1, <2>4 DEF LessAt
    <3> QED BY <1>4, <3>1, LessIs
  <2> QED BY <2>2, <2>3, <2>4
<1> QED BY <1>5, <1>6, <1>7, <1>8

-----------------------------------------------------------------------------
(* Sorting.                                                                *)

(* Texts in order, each perhaps several times; and texts that differ.      *)
Weakly(x) == \A h, l \in 1 .. Len(x) : h < l => ~Less(x[l], x[h])
Different(x) == \A h, l \in 1 .. Len(x) : h < l => x[h] # x[l]

(* Where sort.Strings puts one more text.                                  *)
InsertedAt(x, s, y, n) ==
  /\ n \in 1 .. Len(x) + 1 /\ Len(y) = Len(x) + 1
  /\ \A h \in 1 .. n - 1 : y[h] = x[h] /\ ~Less(s, x[h])
  /\ y[n] = s
  /\ \A h \in n .. Len(x) : y[h + 1] = x[h]
  /\ n <= Len(x) => Less(s, x[n])

(* The place at which sorting puts one more text.                          *)
LEMMA InsertPlace ==
  ASSUME NEW x \in Seq(Text), NEW s \in Text
  PROVE  \E n \in Nat : InsertedAt(x, s, Insert(x, s), n)
<1> DEFINE n == SelectInSeq(x, LAMBDA t : Less(s, t))
           y == Insert(x, s)
           N == Len(x)
<1>1. /\ n = 0 => (\A h \in 1 .. N : ~Less(s, x[h])) /\ y = Append(x, s)
      /\ n # 0 => /\ n \in 1 .. N
                  /\ (\A h \in 1 .. n - 1 : ~Less(s, x[h]))
                  /\ Less(s, x[n])
                  /\ y = SubSeq(x, 1, n - 1) \o <<s>> \o SubSeq(x, n, N)
  BY InsertIs
<1>2. N \in Nat /\ \A h \in 1 .. N : x[h] \in Text
  BY LenProperties, ElementOfSeq
<1> HIDE DEF n, y
<1>3. CASE n = 0
  <2>1. /\ Len(y) = N + 1 /\ (\A h \in 1 .. N : y[h] = x[h]) /\ y[N + 1] = s
    BY <1>1, <1>3, AppendIs
  <2>2. \A h \in 1 .. N : ~Less(s, x[h])
    BY <1>1, <1>3
  <2>3. InsertedAt(x, s, y, N + 1)
    BY <1>2, <2>1, <2>2 DEF InsertedAt
  <2> QED BY <1>2, <2>3 DEF y
<1>4. CASE n # 0
  <2> DEFINE a == SubSeq(x, 1, n - 1)
             b == <<s>>
             c == SubSeq(x, n, N)
             ab == a \o b
  <2>1. n \in 1 .. N /\ (\A h \in 1 .. n - 1 : ~Less(s, x[h])) /\ Less(s, x[n]) /\ y = ab \o c
    BY <1>1, <1>4
  <2>2. a \in Seq(Text) /\ Len(a) = n - 1 /\ \A h \in 1 .. n - 1 : a[h] = x[h]
    <3>1. 1 \in Int /\ n - 1 \in Int /\ \A h \in 1 .. n - 1 : x[h] \in Text
      BY <1>2, <2>1
    <3>2. /\ a \in Seq(Text) /\ Len(a) = IF 1 <= n - 1 THEN n - 1 - 1 + 1 ELSE 0
          /\ \A h \in 1 .. n - 1 - 1 + 1 : a[h] = x[1 + h - 1]
      BY <3>1, SubSeqProperties
    <3> HIDE DEF a
    <3>3. \A h \in 1 .. n - 1 : h \in 1 .. n - 1 - 1 + 1 /\ 1 + h - 1 = h
      BY <2>1
    <3>4. \A h \in 1 .. n - 1 : a[h] = x[h]
      <4> TAKE h \in 1 .. n - 1
      <4>1. a[h] = x[1 + h - 1]
        BY <3>2, <3>3
      <4> QED BY <3>3, <4>1
    <3>5. Len(a) = n - 1
      BY <2>1, <3>2
    <3> QED BY <3>2, <3>4, <3>5
  <2>3. c \in Seq(Text) /\ Len(c) = N - n + 1 /\ \A h \in 1 .. N - n + 1 : c[h] = x[n + h - 1]
    <3>1. n \in Int /\ N \in Int /\ n <= N /\ \A h \in n .. N : x[h] \in Text
      BY <1>2, <2>1
    <3> QED BY <3>1, SubSeqProperties
  <2>4. b \in Seq(Text) /\ Len(b) = 1 /\ b[1] = s
    OBVIOUS
  <2> HIDE DEF a, b, c
  <2>5. /\ ab \in Seq(Text) /\ Len(ab) = Len(a) + Len(b)
        /\ \A h \in 1 .. Len(a) + Len(b) : ab[h] = IF h <= Len(a) THEN a[h] ELSE b[h - Len(a)]
    BY <2>2, <2>4, ConcatProperties
  <2> HIDE DEF ab
  <2>6. Len(ab) = n /\ ab[n] = s /\ \A h \in 1 .. n - 1 : ab[h] = x[h]
    <3>1. Len(ab) = n
      BY <2>1, <2>2, <2>4, <2>5
    <3>2. ab[n] = s
      <4>1. n \in 1 .. Len(a) + Len(b) /\ ~(n <= Len(a)) /\ n - Len(a) = 1
        BY <2>1, <2>2, <2>4
      <4> QED BY <2>4, <2>5, <4>1
    <3>3. ASSUME NEW h \in 1 .. n - 1 PROVE ab[h] = x[h]
      <4>1. h \in 1 .. Len(a) + Len(b) /\ h <= Len(a)
        BY <2>1, <2>2, <2>4
      <4> QED BY <2>2, <2>5, <4>1
    <3> QED BY <3>1, <3>2, <3>3
  <2>7. /\ ab \o c \in Seq(Text) /\ Len(ab \o c) = Len(ab) + Len(c)
        /\ \A h \in 1 .. Len(ab) + Len(c) : (ab \o c)[h] = IF h <= Len(ab) THEN ab[h] ELSE c[h - Len(ab)]
    <3>1. ab \in Seq(Text) /\ c \in Seq(Text)
      BY <2>3, <2>5
    <3> QED BY <3>1, ConcatProperties
  <2>8. Len(y) = N + 1
    BY <1>2, <2>1, <2>3, <2>6, <2>7
  <2>9. y[n] = s /\ \A h \in 1 .. n - 1 : y[h] = x[h]
    <3>1. ASSUME NEW h \in 1 .. n PROVE y[h] = ab[h]
      <4>1. h \in 1 .. Len(ab) + Len(c) /\ h <= Len(ab)
        BY <1>2, <2>1, <2>3, <2>6
      <4> QED BY <2>1, <2>7, <4>1
    <3>2. n \in 1 .. n /\ \A h \in 1 .. n - 1 : h \in 1 .. n
      BY <2>1
    <3> QED BY <2>6, <3>1, <3>2
  <2>10. ASSUME NEW h \in n .. N PROVE y[h + 1] = x[h]
    <3>1. /\ h + 1 \in 1 .. Len(ab) + Len(c) /\ ~(h + 1 <= Len(ab))
          /\ (h + 1) - Len(ab) = h + 1 - n /\ h + 1 - n \in 1 .. N - n + 1
          /\ n + (h + 1 - n) - 1 = h
      BY <1>2, <2>1, <2>3, <2>6
    <3>2. y[h + 1] = c[h + 1 - n]
      BY <2>1, <2>7, <3>1
    <3>3. c[h + 1 - n] = x[n + (h + 1 - n) - 1]
      BY <2>3, <3>1
    <3> QED BY <3>1, <3>2, <3>3
  <2>11. InsertedAt(x, s, y, n)
    BY <1>2, <2>1, <2>8, <2>9, <2>10 DEF InsertedAt
  <2> QED BY <2>1, <2>11 DEF y
<1> QED BY <1>3, <1>4

(* One more text put in its place: the texts stay in order and, if it is a *)
(* new one, differ.                                                        *)
LEMMA InsertKeeps ==
  ASSUME NEW x \in Seq(Text), NEW s \in Text
  PROVE  LET y == Insert(x, s)
         IN /\ y \in Seq(Text) /\ Len(y) = Len(x) + 1
            /\ \A h \in 1 .. Len(y) : y[h] = s \/ \E l \in 1 .. Len(x) : y[h] = x[l]
            /\ Weakly(x) => Weakly(y)
            /\ Different(x) /\ s \notin ToSet(x) => Different(y)
<1> DEFINE y == Insert(x, s)
           N == Len(x)
<1>1. PICK n \in Nat : InsertedAt(x, s, y, n)
  BY InsertPlace
<1>2. y \in Seq(Text)
  BY InsertIs
<1> HIDE DEF y
<1>3. N \in Nat /\ (\A h \in 1 .. N : x[h] \in Text) /\ \A h \in 1 .. N : x[h] \in ToSet(x)
  BY LenProperties, ElementOfSeq, ToSetIs
<1>4. /\ n \in 1 .. N + 1 /\ Len(y) = N + 1
      /\ \A h \in 1 .. n - 1 : y[h] = x[h] /\ ~Less(s, x[h])
      /\ y[n] = s
      /\ n <= N => Less(s, x[n])
  BY <1>1 DEF InsertedAt
<1>5. ASSUME NEW h \in n + 1 .. N + 1
      PROVE  y[h] = x[h - 1] /\ h - 1 \in 1 .. N /\ n <= h - 1 /\ n <= N
  <2>1. h - 1 \in n .. N /\ (h - 1) + 1 = h
    BY <1>3, <1>4
  <2>2. y[(h - 1) + 1] = x[h - 1]
    BY <1>1, <2>1 DEF InsertedAt
  <2> QED BY <1>3, <1>4, <2>1, <2>2
<1>6. \A h \in 1 .. N + 1 : h \in 1 .. n - 1 \/ h = n \/ h \in n + 1 .. N + 1
  BY <1>3, <1>4
<1>7. \A h \in 1 .. n - 1 : h \in 1 .. N
  BY <1>3, <1>4
<1>8. \A h \in 1 .. Len(y) : y[h] = s \/ \E l \in 1 .. N : y[h] = x[l]
  BY <1>4, <1>5, <1>6, <1>7
<1>9. ASSUME Weakly(x), NEW h \in 1 .. N + 1, NEW l \in 1 .. N + 1, h < l
      PROVE  ~Less(y[l], y[h])
  <2>1. CASE l \in 1 .. n - 1
    <3>1. h \in 1 .. n - 1
      BY <1>9, <2>1
    <3> QED BY <1>4, <1>7, <1>9, <2>1, <3>1 DEF Weakly
  <2>2. CASE l = n
    <3>1. h \in 1 .. n - 1
      BY <1>9, <2>2
    <3> QED BY <1>4, <2>2, <3>1
  <2>3. CASE l \in n + 1 .. N + 1
    <3>0. y[l] = x[l - 1] /\ l - 1 \in 1 .. N /\ n <= l - 1 /\ n <= N /\ x[l - 1] \in Text
      BY <1>3, <1>5, <2>3
    <3>1. CASE h \in 1 .. n - 1
      <4>1. h < l - 1
        BY <1>4, <3>0, <3>1
      <4> QED BY <1>4, <1>7, <1>9, <3>0, <3>1, <4>1 DEF Weakly
    <3>2. CASE h = n
      <4>1. Less(s, x[n]) /\ n \in 1 .. N /\ x[n] \in Text
        BY <1>3, <1>4, <3>0
      <4>2. CASE n = l - 1
        <5>1. Less(s, x[l - 1])
          BY <4>1, <4>2
        <5>2. ~(Less(x[l - 1], s) /\ Less(s, x[l - 1]))
          BY <3>0, LessTransitive, LessIrreflexive
        <5> QED BY <1>4, <3>0, <3>2, <5>1, <5>2
      <4>3. CASE n # l - 1
        <5>1. n < l - 1
          BY <1>4, <3>0, <4>3
        <5>2. ~Less(x[l - 1], x[n])
          BY <1>9, <3>0, <4>1, <5>1 DEF Weakly
        <5>3. ~Less(x[l - 1], s)
          BY <3>0, <4>1, <5>2, LessTransitive
        <5> QED BY <1>4, <3>0, <3>2, <5>3
      <4> QED BY <4>2, <4>3
    <3>3. CASE h \in n + 1 .. N + 1
      <4>1. y[h] = x[h - 1] /\ h - 1 \in 1 .. N
        BY <1>5, <3>3
      <4>2. h - 1 < l - 1
        BY <1>9
      <4> QED BY <1>9, <3>0, <4>1, <4>2 DEF Weakly
    <3> QED BY <1>6, <3>1, <3>2, <3>3
  <2> QED BY <1>6, <2>1, <2>2, <2>3
<1>10. ASSUME Different(x), s \notin ToSet(x), NEW h \in 1 .. N + 1, NEW l \in 1 .. N + 1, h < l
       PROVE  y[h] # y[l]
  <2>1. CASE l \in 1 .. n - 1
    <3>1. h \in 1 .. n - 1
      BY <1>10, <2>1
    <3> QED BY <1>4, <1>7, <1>10, <2>1, <3>1 DEF Different
  <2>2. CASE l = n
    <3>1. h \in 1 .. n - 1
      BY <1>10, <2>2
    <3> QED BY <1>3, <1>4, <1>7, <1>10, <2>2, <3>1
  <2>3. CASE l \in n + 1 .. N + 1
    <3>0. y[l] = x[l - 1] /\ l - 1 \in 1 .. N /\ n <= l - 1
      BY <1>5, <2>3
    <3>1. CASE h \in 1 .. n - 1
      <4>1. h < l - 1
        BY <1>4, <3>0, <3>1
      <4> QED BY <1>4, <1>7, <1>10, <3>0, <3>1, <4>1 DEF Different
    <3>2. CASE h = n
      BY <1>3, <1>4, <1>10, <3>0, <3>2
    <3>3. CASE h \in n + 1 .. N + 1
      <4>1. y[h] = x[h - 1] /\ h - 1 \in 1 .. N
        BY <1>5, <3>3
      <4>2. h - 1 < l - 1
        BY <1>10
      <4> QED BY <1>10, <3>0, <4>1, <4>2 DEF Different
    <3> QED BY <1>6, <3>1, <3>2, <3>3
  <2> QED BY <1>6, <2>1, <2>2, <2>3
<1>11. Weakly(x) => Weakly(y)
  BY <1>4, <1>9 DEF Weakly
<1>12. Different(x) /\ s \notin ToSet(x) => Different(y)
  BY <1>4, <1>10 DEF Different
<1> QED BY <1>2, <1>4, <1>8, <1>11, <1>12 DEF y

(* Sorting gives as many texts as before, in order, and no new ones.       *)
LEMMA SortedKeeps ==
  ASSUME NEW ps \in Seq(Text)
  PROVE  /\ Sorted(ps) \in Seq(Text) /\ Len(Sorted(ps)) = Len(ps)
         /\ Weakly(Sorted(ps)) /\ ToSet(Sorted(ps)) \subseteq ToSet(ps)
         /\ Different(ps) => Different(Sorted(ps))
<1> DEFINE Good(x) == /\ Len(Sorted(x)) = Len(x)
                      /\ Weakly(Sorted(x)) /\ ToSet(Sorted(x)) \subseteq ToSet(x)
                      /\ Different(x) => Different(Sorted(x))
           T == {x \in Seq(Text) : Good(x)}
<1>1. <<>> \in T
  <2>1. <<>> \in Seq(Text) /\ Sorted(<<>>) = <<>> /\ Len(<<>>) = 0
    BY SortedIs, EmptySeq
  <2>2. Weakly(<<>>) /\ Different(<<>>)
    BY <2>1 DEF Weakly, Different
  <2> QED BY <2>1, <2>2
<1>2. ASSUME NEW x \in Seq(Text), NEW p \in Text, x \in T
      PROVE  Append(x, p) \in T
  <2> DEFINE y == Sorted(x)
             z == Insert(y, p)
             u == Append(x, p)
  <2>1. /\ y \in Seq(Text) /\ Len(y) = Len(x) /\ Weakly(y) /\ ToSet(y) \subseteq ToSet(x)
        /\ Different(x) => Different(y)
    BY <1>2, SortedIs
  <2>2. Sorted(u) = z
    BY SortedIs
  <2> HIDE DEF y
  <2>3. /\ z \in Seq(Text) /\ Len(z) = Len(y) + 1
        /\ \A h \in 1 .. Len(z) : z[h] = p \/ \E l \in 1 .. Len(y) : z[h] = y[l]
        /\ Weakly(y) => Weakly(z)
        /\ Different(y) /\ p \notin ToSet(y) => Different(z)
    BY <2>1, InsertKeeps
  <2> HIDE DEF z
  <2>4. /\ u \in Seq(Text) /\ Len(u) = Len(x) + 1 /\ Len(x) \in Nat /\ ToSet(u) = ToSet(x) \cup {p}
        /\ (\A h \in 1 .. Len(x) : u[h] = x[h]) /\ u[Len(x) + 1] = p
    BY AppendIs, ToSetAppend, LenProperties
  <2> HIDE DEF u
  <2>5. ToSet(z) \subseteq ToSet(u)
    <3> SUFFICES ASSUME NEW e \in ToSet(z) PROVE e \in ToSet(u)
      OBVIOUS
    <3>1. PICK h \in 1 .. Len(z) : e = z[h]
      BY <2>3, ToSetIs
    <3>2. CASE z[h] = p
      BY <2>4, <3>1, <3>2
    <3>3. CASE \E l \in 1 .. Len(y) : z[h] = y[l]
      <4>1. e \in ToSet(y)
        BY <2>1, <3>1, <3>3, ToSetIs
      <4> QED BY <2>1, <2>4, <4>1
    <3> QED BY <2>3, <3>1, <3>2, <3>3
  <2>6. ASSUME Different(u) PROVE Different(z)
    <3>1. Different(x)
      <4> SUFFICES ASSUME NEW h \in 1 .. Len(x), NEW l \in 1 .. Len(x), h < l PROVE x[h] # x[l]
        BY DEF Different
      <4>1. h \in 1 .. Len(u) /\ l \in 1 .. Len(u)
        BY <2>4
      <4> QED BY <2>4, <2>6, <4>1 DEF Different
    <3>2. p \notin ToSet(x)
      <4> SUFFICES ASSUME p \in ToSet(x) PROVE FALSE
        OBVIOUS
      <4>1. PICK h \in 1 .. Len(x) : p = x[h]
        BY ToSetIs
      <4>2. h \in 1 .. Len(u) /\ Len(x) + 1 \in 1 .. Len(u) /\ h < Len(x) + 1
        BY <2>4
      <4> QED BY <2>4, <2>6, <4>1, <4>2 DEF Different
    <3> QED BY <2>1, <2>3, <3>1, <3>2
  <2> QED BY <2>1, <2>2, <2>3, <2>4, <2>5, <2>6 DEF u
<1>3. ps \in T
  <2> HIDE DEF T
  <2> QED BY <1>1, <1>2, SeqInduction
<1> QED BY <1>3, SortedIs

-----------------------------------------------------------------------------
(* What is sorted.                                                         *)

(* An order in which a map's iteration may give texts.                     *)
LEMMA OrderIs ==
  ASSUME NEW S \in SUBSET Text, IsFiniteSet(S), NEW order \in SetToSeqs(S)
  PROVE  order \in Seq(Text) /\ Different(order) /\ ToSet(order) \subseteq S
<1> DEFINE N == Cardinality(S)
<1>1. N \in Nat
  BY FS_CardinalityType
<1>2. order \in [1 .. N -> S] /\ \A h, l \in 1 .. N : h # l => order[h] # order[l]
  BY DEF SetToSeqs
<1> HIDE DEF N
<1>3. order \in Seq(S) /\ Len(order) = N
  BY <1>1, <1>2
<1>4. order \in Seq(Text)
  BY <1>3, SeqMonotonic
<1>5. Different(order)
  BY <1>1, <1>2, <1>3 DEF Different
<1>6. ToSet(order) \subseteq S
  BY <1>3, ToSetIs
<1> QED BY <1>4, <1>5, <1>6

(* Lists in order. *)
LEMMA InOrder ==
  ASSUME NEW x \in Seq(Text), Weakly(x)
  PROVE  /\ Different(x) => \A n, m \in DOMAIN x : n < m => Less(x[n], x[m])
         /\ \A n, m \in DOMAIN x : n < m => ~Less(x[m], x[n])
<1>1. DOMAIN x = 1 .. Len(x) /\ \A h \in 1 .. Len(x) : x[h] \in Text
  BY LenProperties, ElementOfSeq
<1>2. ASSUME Different(x), NEW n \in DOMAIN x, NEW m \in DOMAIN x, n < m
      PROVE  Less(x[n], x[m])
  <2>1. x[n] \in Text /\ x[m] \in Text /\ x[n] # x[m] /\ ~Less(x[m], x[n])
    BY <1>1, <1>2 DEF Different, Weakly
  <2> QED BY <2>1, LessTotal
<1> QED BY <1>1, <1>2 DEF Weakly

(* Texts that increase are in order.                                       *)
LEMMA StrictIsWeak ==
  ASSUME NEW x \in Seq(Text), \A n, m \in DOMAIN x : n < m => Less(x[n], x[m])
  PROVE  Weakly(x)
<1> SUFFICES ASSUME NEW n \in 1 .. Len(x), NEW m \in 1 .. Len(x), n < m, Less(x[m], x[n])
             PROVE  FALSE
  BY DEF Weakly
<1>1. x[n] \in Text /\ x[m] \in Text /\ Less(x[n], x[m])
  BY LenProperties, ElementOfSeq
<1> QED BY <1>1, LessTransitive, LessIrreflexive

(* Texts in order, turned round, are in the opposite order.                *)
LEMMA ReverseIs ==
  ASSUME NEW x \in Seq(Text), Weakly(x)
  PROVE  /\ Reverse(x) \in Seq(Text)
         /\ \A n, m \in DOMAIN Reverse(x) : n < m => ~Less(Reverse(x)[n], Reverse(x)[m])
<1> DEFINE N == Len(x)
           y == [h \in 1 .. N |-> x[(N - h) + 1]]
<1>1. N \in Nat /\ \A h \in 1 .. N : x[h] \in Text
  BY LenProperties, ElementOfSeq
<1>2. Reverse(x) = y
  BY DEF Reverse
<1>3. \A h \in 1 .. N : (N - h) + 1 \in 1 .. N
  BY <1>1
<1>4. y \in Seq(Text) /\ DOMAIN y = 1 .. N /\ \A h \in 1 .. N : y[h] = x[(N - h) + 1]
  <2>1. y \in [1 .. N -> Text]
    BY <1>1, <1>3
  <2>2. \A h \in 1 .. N : y[h] = x[(N - h) + 1]
    OBVIOUS
  <2> HIDE DEF y
  <2> QED BY <1>1, <2>1, <2>2
<1> HIDE DEF y
<1>5. ASSUME NEW n \in DOMAIN y, NEW m \in DOMAIN y, n < m
      PROVE  ~Less(y[n], y[m])
  <2>1. n \in 1 .. N /\ m \in 1 .. N /\ (N - m) + 1 < (N - n) + 1
    BY <1>1, <1>4, <1>5
  <2>2. (N - m) + 1 \in 1 .. N /\ (N - n) + 1 \in 1 .. N
    BY <1>3, <2>1
  <2>3. ~Less(x[(N - n) + 1], x[(N - m) + 1])
    BY <2>1, <2>2 DEF Weakly
  <2> QED BY <1>4, <2>1, <2>3
<1> QED BY <1>2, <1>4, <1>5

(* What the store and the template's functions make texts of.              *)
LEMMA PathsAreTexts ==
  ASSUME NEW s \in Text
  PROVE  Clean(s) \in Text /\ Dir(s) \in Text /\ Base(s) \in Text /\ Terms(s) \in Seq(Part)
<1>1. ASSUME NEW t \in Text PROVE Clean(t) \in Text
  <2> DEFINE rooted == IsPrefix(Slash, t)
             p == Joined(Names(Split(t), rooted), Slash)
  <2>1. rooted \in BOOLEAN
    BY DEF IsPrefix
  <2>2. Split(t) \in Seq(Part)
    BY SplitTexts
  <2> HIDE DEF rooted
  <2>3. Names(Split(t), rooted) \in Seq(Name)
    BY <2>1, <2>2, NamesIs
  <2>4. p \in Text
    BY <2>3, PiecesAre, JoinedIs, CharactersAre
  <2>5. Clean(t) = IF rooted THEN Slash \o p ELSE IF p = <<>> THEN <<".">> ELSE p
    BY DEF Clean, rooted
  <2> HIDE DEF p
  <2>6. Slash \o p \in Text /\ <<".">> \in Text
    BY <2>4, SlashBegins, DottedPart DEF Dot
  <2> QED BY <2>4, <2>5, <2>6
<1>2. Dir(s) \in Text
  <2> DEFINE n == SelectLastInSeq(s, LAMBDA c : c = "/")
  <2>1. n \in 0 .. Len(s) /\ Len(s) \in Nat
    BY LastSlashIs
  <2>2. Dir(s) = Clean(SubSeq(s, 1, n))
    BY DEF Dir
  <2> HIDE DEF n
  <2>3. SubSeq(s, 1, n) \in Text
    <3>1. 1 \in Int /\ n \in Int /\ \A h \in 1 .. n : s[h] \in Chars
      BY <2>1, Ranks
    <3>2. SubSeq(s, 1, n) \in Seq(Chars)
      BY <3>1, SubSeqProperties
    <3> QED BY <3>2 DEF Text
  <2> QED BY <1>1, <2>2, <2>3
<1>3. Base(s) \in Text
  <2> DEFINE ps == Split(s)
             I == {h \in 1 .. Len(ps) : ps[h] # <<>>}
             n == SelectLastInSeq(ps, LAMBDA p : p # <<>>)
  <2>1. ps \in Seq(Part)
    BY SplitTexts
  <2>2. n = IF I # {} THEN Max(I) ELSE 0
    BY DEF SelectLastInSeq
  <2>3. Base(s) = IF s = <<>> THEN <<".">> ELSE IF n = 0 THEN Slash ELSE ps[n]
    BY DEF Base
  <2> HIDE DEF ps
  <2>4. Len(ps) \in Nat
    BY <2>1, LenProperties
  <2>5. I # {} => Max(I) \in I
    <3>1. I \in SUBSET (1 .. Len(ps))
      OBVIOUS
    <3> HIDE DEF I
    <3> QED BY <2>4, <3>1, Highest
  <2> HIDE DEF n
  <2>6. n # 0 => n \in 1 .. Len(ps)
    BY <2>2, <2>5
  <2>7. n # 0 => ps[n] \in Part
    BY <2>1, <2>6, ElementOfSeq
  <2>8. <<".">> \in Text /\ Slash \in Text /\ Part \subseteq Text
    BY CharactersAre, DottedPart DEF Dot
  <2> QED BY <2>3, <2>7, <2>8
<1>4. Terms(s) \in Seq(Part)
  BY <1>1, SplitTexts DEF Terms
<1> QED BY <1>1, <1>2, <1>3, <1>4

(* What ls and lsdir give are finitely many texts.                         *)
LEMMA ListsAreTexts ==
  ASSUME StoreInv, NEW path \in Text
  PROVE  /\ List(path) \subseteq Text /\ IsFiniteSet(List(path))
         /\ ListDir(path) \subseteq Text /\ IsFiniteSet(ListDir(path))
<1> DEFINE K == DOMAIN store
           strip(k) == TrimPrefix(TrimPrefix(k, path), Slash)
           B == K \cap {path}
           C == {j \in K \ {path} : SamePrefixTerms(Terms(path), Terms(Dir(j)))}
           n == Len(Terms(path))
           E == {j \in K : /\ IsPrefix(path, j)
                           /\ SamePrefixTerms(Terms(path), Terms(Dir(j)))
                           /\ Len(Terms(Dir(j))) > n}
           f == [k \in B |-> Base(k)]
           g == [k \in C |-> Split(strip(k))[1]]
           e == [k \in E |-> Terms(Dir(k))[n + 1]]
<1>1. K \subseteq Text /\ IsFiniteSet(K)
  BY StoreKeysAreRooted, RootedIs DEF StoreInv
<1>2. /\ List(path) = {f[k] : k \in DOMAIN f} \cup {g[k] : k \in DOMAIN g}
      /\ ListDir(path) = {e[k] : k \in DOMAIN e}
      /\ DOMAIN f = B /\ DOMAIN g = C /\ DOMAIN e = E
  BY DEF List, ListDir
<1>3. /\ \A k \in B : f[k] = Base(k)
      /\ \A k \in C : g[k] = Split(strip(k))[1]
      /\ \A k \in E : e[k] = Terms(Dir(k))[n + 1]
  OBVIOUS
<1>4. B \subseteq K /\ C \subseteq K /\ E \subseteq K /\ \A k \in E : Len(Terms(Dir(k))) > n
  OBVIOUS
<1> HIDE DEF K, strip, B, C, E, f, g, e
<1>5. IsFiniteSet(B) /\ IsFiniteSet(C) /\ IsFiniteSet(E)
  BY <1>1, <1>4, FS_Subset
<1>6. /\ IsFiniteSet({f[k] : k \in DOMAIN f}) /\ IsFiniteSet({g[k] : k \in DOMAIN g})
      /\ IsFiniteSet({e[k] : k \in DOMAIN e})
  BY <1>2, <1>5, ImageFinite
<1>7. IsFiniteSet(List(path)) /\ IsFiniteSet(ListDir(path))
  <2> DEFINE F == {f[k] : k \in DOMAIN f}
             G == {g[k] : k \in DOMAIN g}
  <2>1. List(path) = F \cup G /\ IsFiniteSet(F) /\ IsFiniteSet(G)
    BY <1>2, <1>6
  <2> HIDE DEF F, G
  <2>2. IsFiniteSet(F \cup G)
    BY <2>1, FS_Union
  <2> QED BY <1>2, <1>6, <2>1, <2>2
<1>8. \A k \in B : f[k] \in Text
  BY <1>1, <1>3, <1>4, PathsAreTexts
<1>9. ASSUME NEW k \in C PROVE g[k] \in Text
  <2>1. TrimPrefix(k, path) \in Text
    BY <1>1, <1>4, TrimIs
  <2>2. strip(k) \in Text
    BY <2>1, CharactersAre, TrimIs DEF strip
  <2>3. Split(strip(k)) \in Seq(Part) /\ Split(strip(k)) # <<>>
    BY <2>2, SplitTexts
  <2>4. Split(strip(k))[1] \in Part
    BY <2>3, EmptySeq, ElementOfSeq
  <2> QED BY <1>3, <2>4, CharactersAre
<1>10. ASSUME NEW k \in E PROVE e[k] \in Text
  <2>1. Dir(k) \in Text
    BY <1>1, <1>4, PathsAreTexts
  <2>2. Terms(Dir(k)) \in Seq(Part) /\ Terms(path) \in Seq(Part)
    BY <2>1, PathsAreTexts
  <2>3. n + 1 \in 1 .. Len(Terms(Dir(k)))
    BY <1>4, <2>2, LenProperties
  <2>4. Terms(Dir(k))[n + 1] \in Part
    BY <2>2, <2>3, ElementOfSeq
  <2> QED BY <1>3, <2>4, CharactersAre
<1> QED BY <1>2, <1>7, <1>8, <1>9, <1>10

(* The keys that a pattern matches are finitely many keys of the store.    *)
LEMMA MatchingIs ==
  ASSUME StoreInv, NEW pattern
  PROVE  /\ Matching(pattern) \subseteq Text /\ IsFiniteSet(Matching(pattern))
         /\ Matching(pattern) \subseteq DOMAIN store
<1>1. Matching(pattern) \subseteq DOMAIN store
  BY DEF Matching
<1>2. DOMAIN store \subseteq Text /\ IsFiniteSet(DOMAIN store)
  BY StoreKeysAreRooted, RootedIs DEF StoreInv
<1> QED BY <1>1, <1>2, FS_Subset

(* What GetAllValues sorts are texts.                                      *)
LEMMA ValuesAreTexts ==
  ASSUME StoreInv, NEW keys \in Seq(Text), ToSet(keys) \subseteq DOMAIN store
  PROVE  [n \in DOMAIN keys |-> store[GetAll(keys)[n]].id] \in Seq(Text)
<1> DEFINE x == Sorted(keys)
           N == Len(keys)
<1>1. x \in Seq(Text) /\ Len(x) = N /\ ToSet(x) \subseteq DOMAIN store
      /\ N \in Nat /\ DOMAIN keys = 1 .. N /\ \A n \in 1 .. Len(x) : x[n] \in ToSet(x)
  BY SortedKeeps, LenProperties, ToSetIs
<1> HIDE DEF x, N
<1>2. \A j \in DOMAIN store : store[j].id \in Text
  <2> TAKE j \in DOMAIN store
  <2>1. PICK k \in TheKeys : store[j] = Asked(DataId(k))
    BY DEF StoreInv
  <2>2. k \in Text
    BY PrefixIs DEF StoreInv
  <2>3. store[j].id = DataId(k)
    BY <2>1 DEF Asked
  <2> QED BY <2>2, <2>3, DataIdText
<1>3. \A n \in 1 .. N : store[x[n]].id \in Text
  BY <1>1, <1>2
<1> DEFINE v == [n \in 1 .. N |-> store[x[n]].id]
<1>4. v \in [1 .. N -> Text]
  BY <1>3
<1>5. v \in Seq(Text)
  <2> HIDE DEF v
  <2> QED BY <1>1, <1>4
<1>6. [n \in DOMAIN keys |-> store[GetAll(keys)[n]].id] = v
  BY <1>1 DEF GetAll, x
<1> QED BY <1>5, <1>6

-----------------------------------------------------------------------------
(* The answers.                                                            *)

(* A list that was just made, in order, of what a map holds.               *)
AnswerInv ==
  /\ StoreInv
  /\ AnswersOrdered
  /\ answer.call \in {"getvs", "ls", "lsdir"} => answer.list \in Seq(Text)

(* What a map gives in any order, sorted, is increasing.                   *)
LEMMA GivenInOrder ==
  ASSUME NEW S \in SUBSET Text, IsFiniteSet(S), NEW order \in SetToSeqs(S)
  PROVE  Sorted(order) \in Seq(Text) /\ Ordered(Sorted(order), Less)
<1> DEFINE x == Sorted(order)
<1>1. x \in Seq(Text) /\ Weakly(x) /\ Different(x)
  BY OrderIs, SortedKeeps
<1> HIDE DEF x
<1>2. \A n, m \in DOMAIN x : n < m => Less(x[n], x[m])
  BY <1>1, InOrder
<1> QED BY <1>1, <1>2 DEF Ordered, x

(* Each call of the template gives a list in order, and reverse turns one  *)
(* round.                                                                  *)
LEMMA AnswerStep == AnswerInv /\ [Next]_vars => AnswerInv'
<1> SUFFICES ASSUME AnswerInv, [Next]_vars PROVE AnswerInv'
  OBVIOUS
<1>1. StoreInv /\ StoreInv'
  BY StoreStep DEF AnswerInv
<1>2. ASSUME UNCHANGED answer PROVE AnswerInv'
  BY <1>1, <1>2 DEF AnswerInv, AnswersOrdered, Ordered
<1>3. Paths \subseteq Text
  BY DataAssumption DEF Text, Chars
<1>4. ASSUME NEW p \in Patterns, Gets(p) PROVE AnswerInv'
  <2>1. PICK order \in SetToSeqs(Matching(p)) : Give("gets", p, GetAll(order))
    BY <1>4 DEF Gets
  <2>2. Sorted(order) \in Seq(Text) /\ Ordered(Sorted(order), Less)
    BY <1>1, MatchingIs, GivenInOrder
  <2>3. answer'.call = "gets" /\ answer'.list = Sorted(order)
    BY <2>1 DEF Give, GetAll
  <2> QED BY <1>1, <2>2, <2>3 DEF AnswerInv, AnswersOrdered, Ordered
<1>5. ASSUME NEW p \in Patterns, GetVs(p) PROVE AnswerInv'
  <2>1. PICK order \in SetToSeqs(Matching(p)) : Give("getvs", p, GetAllValues(order))
    BY <1>5 DEF GetVs
  <2> DEFINE v == [n \in DOMAIN order |-> store[GetAll(order)[n]].id]
             x == Sorted(v)
  <2>2. order \in Seq(Text) /\ ToSet(order) \subseteq DOMAIN store
    BY <1>1, MatchingIs, OrderIs
  <2>3. v \in Seq(Text)
    BY <1>1, <2>2, ValuesAreTexts
  <2>4. GetAllValues(order) = x
    BY DEF GetAllValues
  <2> HIDE DEF v
  <2>5. x \in Seq(Text) /\ Weakly(x)
    BY <2>3, SortedKeeps
  <2> HIDE DEF x
  <2>6. \A n, m \in DOMAIN x : n < m => ~Less(x[m], x[n])
    BY <2>5, InOrder
  <2>7. answer'.call = "getvs" /\ answer'.list = x
    BY <2>1, <2>4 DEF Give
  <2> QED BY <1>1, <2>5, <2>6, <2>7 DEF AnswerInv, AnswersOrdered, Ordered
<1>6. ASSUME NEW p \in Paths, Ls(p) PROVE AnswerInv'
  <2>1. PICK order \in SetToSeqs(List(p)) : Give("ls", p, Sorted(order))
    BY <1>6 DEF Ls
  <2>2. List(p) \subseteq Text /\ IsFiniteSet(List(p))
    BY <1>1, <1>3, ListsAreTexts
  <2>3. Sorted(order) \in Seq(Text) /\ Ordered(Sorted(order), Less)
    BY <2>2, GivenInOrder
  <2>4. answer'.call = "ls" /\ answer'.list = Sorted(order)
    BY <2>1 DEF Give
  <2> QED BY <1>1, <2>3, <2>4 DEF AnswerInv, AnswersOrdered, Ordered
<1>7. ASSUME NEW p \in Paths, LsDir(p) PROVE AnswerInv'
  <2>1. PICK order \in SetToSeqs(ListDir(p)) : Give("lsdir", p, Sorted(order))
    BY <1>7 DEF LsDir
  <2>2. ListDir(p) \subseteq Text /\ IsFiniteSet(ListDir(p))
    BY <1>1, <1>3, ListsAreTexts
  <2>3. Sorted(order) \in Seq(Text) /\ Ordered(Sorted(order), Less)
    BY <2>2, GivenInOrder
  <2>4. answer'.call = "lsdir" /\ answer'.list = Sorted(order)
    BY <2>1 DEF Give
  <2> QED BY <1>1, <2>3, <2>4 DEF AnswerInv, AnswersOrdered, Ordered
<1>8. ASSUME TurnRound PROVE AnswerInv'
  <2> DEFINE x == answer.list
  <2>1. /\ answer.call \in {"getvs", "ls", "lsdir"} /\ x \in Seq(Text)
        /\ answer'.call = "reverse" /\ answer'.list = Reverse(x)
    BY <1>8 DEF TurnRound, Give, AnswerInv
  <2>2. Weakly(x)
    <3>1. CASE answer.call = "getvs"
      <4>1. \A n, m \in DOMAIN x : n < m => ~Less(x[m], x[n])
        BY <3>1 DEF AnswerInv, AnswersOrdered, Ordered
      <4>2. DOMAIN x = 1 .. Len(x)
        BY <2>1, LenProperties
      <4> QED BY <4>1, <4>2 DEF Weakly
    <3>2. CASE answer.call \in {"ls", "lsdir"}
      <4>1. \A n, m \in DOMAIN x : n < m => Less(x[n], x[m])
        BY <3>2 DEF AnswerInv, AnswersOrdered, Ordered
      <4> HIDE DEF x
      <4> QED BY <2>1, <4>1, StrictIsWeak
    <3> QED BY <2>1, <3>1, <3>2
  <2> HIDE DEF x
  <2>3. \A n, m \in DOMAIN Reverse(x) : n < m => ~Less(Reverse(x)[n], Reverse(x)[m])
    BY <2>1, <2>2, ReverseIs
  <2> QED BY <1>1, <2>1, <2>3 DEF AnswerInv, AnswersOrdered, Ordered
<1>9. ASSUME answer'.call \in {"seq", "numbers"} PROVE AnswerInv'
  BY <1>1, <1>9 DEF AnswerInv, AnswersOrdered
<1>10. CASE GetValues \/ Set \/ Stored \/ UNCHANGED vars
  BY <1>2, <1>10 DEF GetValues, Set, Stored, vars
<1>11. ASSUME NEW first, NEW last, CallSeq(first, last) PROVE AnswerInv'
  BY <1>9, <1>11 DEF CallSeq, Give
<1>12. CASE NextNumber \/ EndOfSeq
  BY <1>2, <1>9, <1>12 DEF NextNumber, EndOfSeq, Give
<1> QED BY <1>4, <1>5, <1>6, <1>7, <1>8, <1>10, <1>11, <1>12 DEF Next, Render

(* Whatever order a map is iterated in, gets, ls and lsdir give increasing *)
(* lists, getvs one that never decreases and reverse one that never        *)
(* increases (store.go:110, 126, 148, 168; template_funcs.go: Reverse).    *)
THEOREM AnswersAreOrdered == Spec => []AnswersOrdered
<1>1. Init => AnswerInv
  <2> SUFFICES ASSUME Init PROVE AnswerInv
    OBVIOUS
  <2>1. answer.call = "none"
    BY DEF Init, NoAnswer
  <2> QED BY <2>1, StoreInit DEF AnswerInv, AnswersOrdered
<1>2. AnswerInv => AnswersOrdered
  BY DEF AnswerInv
<1> QED BY <1>1, <1>2, AnswerStep, PTL DEF Spec
=============================================================================
