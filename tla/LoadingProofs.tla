---------------------------- MODULE LoadingProofs ----------------------------
(***************************************************************************)
(* Theorems about Loading: whatever other programs create, remove and      *)
(* replace while confd walks over conf.d and reads what it has found, a    *)
(* load that reports no error has loaded every resource file that stayed   *)
(* where it was, once, and an error or a panic has a cause.  They hold for *)
(* every tree of files, every change and any number of failures.           *)
(***************************************************************************)
EXTENDS Loading, SequenceTheorems, FiniteSetTheorems, WellFoundedInduction, TLAPS

Names == ToSet(Sorted)
Paths == Seq(Names)
Calls == [dir : Paths, names : SUBSET Names]
Contents == {e.content : e \in {x \in Entries : x.kind = "file"}} \cup {NotToml}
Resources == UNION {NewTemplateResource(c) : c \in Contents}

Starting == {"config", "read", "keyring", "new", "confdir", "lookup"}
Descending == {"lstat", "readdir"}
Visiting == Descending \cup {"callback"}
Walking == Visiting \cup {"walk"}

(* Every variable of the walk keeps its kind, and what has something below *)
(* it is a directory, whatever other programs do.                          *)
TypeOK ==
  /\ DOMAIN fs \subseteq Places /\ (\A p \in DOMAIN fs : fs[p] \in Entries) /\ IsTree(fs)
  /\ at \in Starting \cup Walking \cup {"load", "done", "panic", "fatal"}
  /\ path \in Paths /\ frames \in Seq(Calls)
  /\ result \in Seq(Paths) /\ failed \in BOOLEAN
  /\ templates \in Seq([path : Paths, tr : Resources]) /\ decoded \in Seq(Contents)
  /\ faults \in Nat

(* The order of the load: nothing is found before the walk and nothing     *)
(* loaded before its end, and the templates are those of the files loaded  *)
(* so far unless one has failed.                                           *)
InOrderOfCalls ==
  /\ at \in Starting => path = Root /\ frames = <<>> /\ result = <<>>
  /\ at \in Starting \cup Walking => decoded = <<>> /\ templates = <<>> /\ ~failed
  /\ ~failed /\ at # "panic" =>
       /\ Len(templates) = Len(decoded) /\ Len(decoded) <= Len(result)
       /\ \A k \in 1 .. Len(templates) : templates[k].path = result[k]
  /\ at = "done" /\ ~failed => Len(decoded) = Len(result)

(* A path is left if the walk has yet to come to it or above it.           *)
Left(p) ==
  \E i \in 1 .. Len(frames) : \E n \in frames[i].names :
    IsPrefix(Append(frames[i].dir, n), p)
Found(p) == \E k \in 1 .. Len(result) : result[k] = p

(* The walk goes down: each directory that it is in lies below those       *)
(* before it, and none of them is left in one of those.                    *)
Nested ==
  /\ \A j \in 1 .. Len(frames) : \A i \in 1 .. j - 1 :
       /\ Len(frames[i].dir) < Len(frames[j].dir)
       /\ \A n \in frames[i].names : ~IsPrefix(Append(frames[i].dir, n), frames[j].dir)
  /\ at \in Descending => \A i \in 1 .. Len(frames) : Len(frames[i].dir) < Len(path)
  /\ at \in Visiting => ~Left(path)

(* What has been found is not come to again.                               *)
OnlyOnce ==
  /\ \A k, l \in 1 .. Len(result) : result[k] = result[l] => k = l
  /\ \A k \in 1 .. Len(result) :
       /\ ~Left(result[k])
       /\ at \in Descending => ~IsPrefix(path, result[k])
       /\ at = "callback" => result[k] # path

(* Every steady resource below directories that could be read is found, is *)
(* left, or lies at or below the path that the walk is at.                 *)
Here(p) ==
  \/ at = "lstat" /\ IsPrefix(path, p)
  \/ at = "readdir" /\ IsStrictPrefix(path, p)
  \/ at = "callback" /\ path = p
Covered ==
  at \in Walking \/ at = "load" \/ (at = "done" /\ ~failed) =>
    \A p \in DOMAIN fs :
      SteadyResource(p) /\ unread \cap Prefixes(p) = {} =>
        Found(p) \/ (at \in Walking /\ (Left(p) \/ Here(p)))

(* What the walk comes to was there when its directory was read, and what  *)
(* it has found was no directory.                                          *)
Known ==
  /\ at \in Visiting => path \in DOMAIN fs \cup touched
  /\ \A i \in 1 .. Len(frames) : \A n \in frames[i].names :
       Append(frames[i].dir, n) \in DOMAIN fs \cup touched
  /\ IsPrefix(Root, path)
  /\ \A i \in 1 .. Len(frames) : IsPrefix(Root, frames[i].dir)
  /\ \A k \in 1 .. Len(result) :
       /\ result[k] = Root \/ (IsStrictPrefix(Root, result[k]) /\ Last(result[k]) \in Matching)
       /\ touched = {} => result[k] \in DOMAIN fs /\ ~IsDir(Stat(result[k]))

ParserPanics ==
  IF decoded = <<>> THEN confd = PanicToml ELSE Last(decoded) = PanicToml
Caused ==
  /\ at = "panic" => ~Steady(path) \/ path \in unread \/ ParserPanics
  /\ failed =>
       touched # {} \/ faults > 0 \/ \E p \in {Root} \cup DOMAIN fs : Unloadable(p)

LoadInv == TypeOK /\ InOrderOfCalls /\ Nested /\ OnlyOnce /\ Covered /\ Known /\ Caused
-----------------------------------------------------------------------------
(* A sequence is a prefix of another if it is no longer and agrees with it *)
(* at each of its places.                                                  *)
LEMMA PrefixIs ==
  ASSUME NEW S, NEW s \in Seq(S), NEW t \in Seq(S)
  PROVE IsPrefix(s, t) <=> Len(s) <= Len(t) /\ \A i \in 1 .. Len(s) : s[i] = t[i]
<1>1. Len(s) \in Nat /\ Len(t) \in Nat
  BY LenProperties
<1>2. SubSeq(s, 1, Len(s)) = [i \in 1 .. Len(s) |-> s[i]]
  BY <1>1
<1>3. ASSUME Len(s) <= Len(t)
      PROVE SubSeq(t, 1, Len(s)) = [i \in 1 .. Len(s) |-> t[i]]
  BY <1>1, <1>3
<1>4. ASSUME Len(s) <= Len(t)
      PROVE SubSeq(s, 1, Len(s)) = SubSeq(t, 1, Len(s))
              <=> \A i \in 1 .. Len(s) : s[i] = t[i]
  BY <1>2, <1>3, <1>4
<1> QED
  BY <1>4 DEF IsPrefix

(* What the model needs to know of prefixes.                               *)
LEMMA PrefixSelf ==
  ASSUME NEW S, NEW s \in Seq(S)
  PROVE IsPrefix(s, s)
BY PrefixIs

LEMMA EmptyPrefix ==
  ASSUME NEW S, NEW s \in Seq(S)
  PROVE IsPrefix(<<>>, s)
<1>1. PICK e \in Seq(S) : e = <<>> /\ Len(e) = 0
  BY EmptySeq
<1>2. Len(s) \in Nat
  BY LenProperties
<1>3. Len(e) <= Len(s) /\ \A i \in 1 .. Len(e) : e[i] = s[i]
  BY <1>1, <1>2
<1>4. IsPrefix(e, s)
  BY <1>3, PrefixIs
<1> QED
  BY <1>1, <1>4, Zenon

LEMMA PrefixOfPrefix ==
  ASSUME NEW S, NEW s \in Seq(S), NEW t \in Seq(S), NEW u \in Seq(S),
         IsPrefix(s, t), IsPrefix(t, u)
  PROVE IsPrefix(s, u)
<1>1. Len(s) \in Nat /\ Len(t) \in Nat /\ Len(u) \in Nat
  BY LenProperties
<1>2. Len(s) <= Len(t) /\ Len(t) <= Len(u)
  BY PrefixIs
<1>3. ASSUME NEW i \in 1 .. Len(s)
      PROVE s[i] = u[i]
  <2>1. i \in 1 .. Len(t)
    BY <1>1, <1>2
  <2> QED
    BY <2>1, PrefixIs
<1> QED
  BY <1>1, <1>2, <1>3, PrefixIs

LEMMA EqualLengths ==
  ASSUME NEW S, NEW s \in Seq(S), NEW t \in Seq(S), IsPrefix(s, t), Len(s) >= Len(t)
  PROVE s = t
<1>1. Len(s) \in Nat /\ Len(t) \in Nat /\ Len(s) <= Len(t)
  BY PrefixIs, LenProperties
<1>2. Len(s) = Len(t) /\ \A i \in 1 .. Len(s) : s[i] = t[i]
  BY <1>1, PrefixIs
<1> QED
  BY <1>2, SeqEqual

LEMMA StrictPrefixShorter ==
  ASSUME NEW S, NEW s \in Seq(S), NEW t \in Seq(S), IsPrefix(s, t), s # t
  PROVE Len(s) < Len(t)
<1>1. Len(s) \in Nat /\ Len(t) \in Nat
  BY LenProperties
<1>2. ~(Len(s) >= Len(t))
  BY EqualLengths
<1> QED
  BY <1>1, <1>2

LEMMA PrefixAppended ==
  ASSUME NEW S, NEW s \in Seq(S), NEW n \in S, NEW t \in Seq(S)
  PROVE IsPrefix(Append(s, n), t)
          <=> IsPrefix(s, t) /\ Len(s) < Len(t) /\ t[Len(s) + 1] = n
<1> DEFINE a == Append(s, n)
<1>1. /\ Len(s) \in Nat /\ Len(t) \in Nat
      /\ a \in Seq(S) /\ Len(a) = Len(s) + 1
      /\ a[Len(s) + 1] = n /\ \A i \in 1 .. Len(s) : a[i] = s[i]
  BY AppendProperties, LenProperties
<1> HIDE DEF a
<1>2. IsPrefix(a, t) <=> Len(a) <= Len(t) /\ \A i \in 1 .. Len(a) : a[i] = t[i]
  BY <1>1, PrefixIs
<1>3. IsPrefix(s, t) <=> Len(s) <= Len(t) /\ \A i \in 1 .. Len(s) : s[i] = t[i]
  BY PrefixIs
<1>4. ASSUME IsPrefix(a, t)
      PROVE IsPrefix(s, t) /\ Len(s) < Len(t) /\ t[Len(s) + 1] = n
  <2>1. Len(s) < Len(t)
    BY <1>1, <1>2, <1>4
  <2>2. Len(s) + 1 \in 1 .. Len(a) /\ \A i \in 1 .. Len(s) : i \in 1 .. Len(a)
    BY <1>1
  <2>3. t[Len(s) + 1] = n
    BY <1>1, <1>2, <1>4, <2>2
  <2>4. \A i \in 1 .. Len(s) : s[i] = t[i]
    BY <1>1, <1>2, <1>4, <2>2
  <2> QED
    BY <1>1, <1>3, <2>1, <2>3, <2>4
<1>5. ASSUME IsPrefix(s, t), Len(s) < Len(t), t[Len(s) + 1] = n
      PROVE IsPrefix(a, t)
  <2>1. ASSUME NEW i \in 1 .. Len(a)
        PROVE a[i] = t[i]
    <3>1. i \in 1 .. Len(s) \/ i = Len(s) + 1
      BY <1>1
    <3> QED
      BY <1>1, <1>3, <1>5, <3>1
  <2> QED
    BY <1>1, <1>2, <1>5, <2>1
<1> QED
  BY <1>4, <1>5 DEF a

LEMMA PrefixOfAppended ==
  ASSUME NEW S, NEW s \in Seq(S), NEW t \in Seq(S), NEW n \in S
  PROVE IsPrefix(s, Append(t, n)) <=> IsPrefix(s, t) \/ s = Append(t, n)
<1> DEFINE a == Append(t, n)
<1>1. /\ Len(s) \in Nat /\ Len(t) \in Nat
      /\ a \in Seq(S) /\ Len(a) = Len(t) + 1
      /\ a[Len(t) + 1] = n /\ \A i \in 1 .. Len(t) : a[i] = t[i]
  BY AppendProperties, LenProperties
<1> HIDE DEF a
<1>2. IsPrefix(s, a) <=> Len(s) <= Len(a) /\ \A i \in 1 .. Len(s) : s[i] = a[i]
  BY <1>1, PrefixIs
<1>3. IsPrefix(s, t) <=> Len(s) <= Len(t) /\ \A i \in 1 .. Len(s) : s[i] = t[i]
  BY PrefixIs
<1>4. ASSUME IsPrefix(s, a), s # a
      PROVE IsPrefix(s, t)
  <2>1. Len(s) < Len(a)
    BY <1>1, <1>4, StrictPrefixShorter
  <2>2. Len(s) <= Len(t)
    BY <1>1, <2>1
  <2>3. ASSUME NEW i \in 1 .. Len(s)
        PROVE s[i] = t[i]
    <3>1. i \in 1 .. Len(t)
      BY <1>1, <2>2
    <3> QED
      BY <1>1, <1>2, <1>4, <3>1
  <2> QED
    BY <1>3, <2>2, <2>3
<1>5. ASSUME IsPrefix(s, t)
      PROVE IsPrefix(s, a)
  <2>1. Len(s) <= Len(a)
    BY <1>1, <1>3, <1>5
  <2>2. ASSUME NEW i \in 1 .. Len(s)
        PROVE s[i] = a[i]
    <3>1. i \in 1 .. Len(t)
      BY <1>1, <1>3, <1>5
    <3> QED
      BY <1>1, <1>3, <1>5, <3>1
  <2> QED
    BY <1>2, <2>1, <2>2
<1>6. s = a => IsPrefix(s, a)
  BY <1>1, PrefixSelf
<1> QED
  BY <1>4, <1>5, <1>6 DEF a

LEMMA PrefixesAre ==
  ASSUME NEW S, NEW s \in Seq(S), NEW t
  PROVE t \in Prefixes(s) <=> t \in Seq(S) /\ IsPrefix(t, s)
<1>1. Len(s) \in Nat
  BY LenProperties
<1>2. ASSUME NEW l \in 0 .. Len(s)
      PROVE /\ SubSeq(s, 1, l) \in Seq(S) /\ Len(SubSeq(s, 1, l)) = l
            /\ \A i \in 1 .. l : SubSeq(s, 1, l)[i] = s[i]
  BY <1>1
<1>3. ASSUME t \in Prefixes(s)
      PROVE t \in Seq(S) /\ IsPrefix(t, s)
  <2>1. PICK l \in 0 .. Len(s) : t = SubSeq(s, 1, l)
    BY <1>3 DEF Prefixes
  <2>2. l <= Len(s)
    BY <1>1
  <2> QED
    BY <1>2, <2>1, <2>2, PrefixIs
<1>4. ASSUME t \in Seq(S), IsPrefix(t, s)
      PROVE t \in Prefixes(s)
  <2> DEFINE u == SubSeq(s, 1, Len(t))
  <2>1. Len(t) \in 0 .. Len(s) /\ \A i \in 1 .. Len(t) : t[i] = s[i]
    BY <1>1, <1>4, PrefixIs, LenProperties
  <2>2. u \in Seq(S) /\ Len(u) = Len(t) /\ \A i \in 1 .. Len(t) : u[i] = s[i]
    BY <1>2, <2>1
  <2> HIDE DEF u
  <2>3. t = u
    BY <1>4, <2>1, <2>2, SeqEqual
  <2> QED
    BY <2>1, <2>3 DEF Prefixes, u
<1> QED
  BY <1>3, <1>4

LEMMA FrontAndLast ==
  ASSUME NEW S, NEW s \in Seq(S), s # <<>>
  PROVE /\ Front(s) \in Seq(S) /\ Last(s) \in S /\ s = Append(Front(s), Last(s))
        /\ Len(Front(s)) = Len(s) - 1 /\ \A i \in 1 .. Len(s) - 1 : Front(s)[i] = s[i]
<1>1. Len(s) \in Nat \ {0}
  BY LenProperties, EmptySeq
<1>2. ASSUME NEW m \in 0 .. Len(s)
      PROVE /\ SubSeq(s, 1, m) \in Seq(S) /\ Len(SubSeq(s, 1, m)) = m
            /\ \A i \in 1 .. m : SubSeq(s, 1, m)[i] = s[i]
  BY <1>1
<1>3. /\ Front(s) \in Seq(S) /\ Len(Front(s)) = Len(s) - 1
      /\ \A i \in 1 .. Len(s) - 1 : Front(s)[i] = s[i]
  <2>1. Len(s) - 1 \in 0 .. Len(s)
    BY <1>1
  <2> QED
    BY <1>2, <2>1, Zenon DEF Front
<1>4. Last(s) = s[Len(s)] /\ Last(s) \in S
  BY <1>1, ElementOfSeq DEF Last
<1> DEFINE a == Append(Front(s), Last(s))
<1>5. /\ a \in Seq(S) /\ Len(a) = Len(s)
      /\ a[Len(s)] = Last(s) /\ \A i \in 1 .. Len(s) - 1 : a[i] = s[i]
  BY <1>1, <1>3, <1>4, AppendProperties
<1> HIDE DEF a
<1>6. \A i \in 1 .. Len(s) : i \in 1 .. Len(s) - 1 \/ i = Len(s)
  BY <1>1
<1>7. a = s
  BY <1>4, <1>5, <1>6, SeqEqual
<1> QED
  BY <1>3, <1>4, <1>7 DEF a
-----------------------------------------------------------------------------
(* What is at a path, and which paths there are.                           *)
LEMMA PlacesArePaths == Places \subseteq Paths /\ Root \in Paths /\ Root # <<>>
BY FilesAssumption DEF Paths, Names, Root

LEMMA LstatIs ==
  ASSUME NEW p
  PROVE /\ p \in DOMAIN fs => Lstat(p) = {fs[p]}
        /\ p \notin DOMAIN fs => Lstat(p) = {}
BY DEF Lstat

LEMMA StatIs ==
  ASSUME TypeOK, NEW p
  PROVE /\ p \notin DOMAIN fs => Stat(p) = {}
        /\ p \in DOMAIN fs /\ fs[p].kind # "link" => Stat(p) = {fs[p]}
        /\ \A e \in Stat(p) : e \in Entries /\ e.kind \in {"dir", "file"}
        /\ \A e, f \in Stat(p) : e = f
<1>1. ASSUME p \notin DOMAIN fs
      PROVE Stat(p) = {}
  BY <1>1, LstatIs DEF Stat
<1>2. ASSUME p \in DOMAIN fs, fs[p].kind # "link"
      PROVE Stat(p) = {fs[p]}
  BY <1>2, LstatIs DEF Stat
<1>3. ASSUME p \in DOMAIN fs, fs[p].kind = "link"
      PROVE Stat(p) = {f \in Lstat(fs[p].to) : f.kind # "link"}
  BY <1>3, LstatIs DEF Stat
<1>4. ASSUME NEW q, NEW e \in Lstat(q)
      PROVE e \in Entries /\ e.kind \in {"dir", "file", "link"}
  BY <1>4, FilesAssumption DEF Lstat, TypeOK
<1>5. ASSUME NEW q, NEW e \in Lstat(q), NEW f \in Lstat(q)
      PROVE e = f
  BY <1>5 DEF Lstat
<1>6. ASSUME NEW e \in Stat(p)
      PROVE e \in Entries /\ e.kind \in {"dir", "file"}
  <2>1. CASE fs[p].kind = "link"
    BY <1>1, <1>3, <1>4, <1>6, <2>1
  <2>2. CASE fs[p].kind # "link"
    BY <1>1, <1>2, <1>4, <1>6, <2>2, LstatIs
  <2> QED
    BY <2>1, <2>2
<1>7. ASSUME NEW e \in Stat(p), NEW f \in Stat(p)
      PROVE e = f
  BY <1>1, <1>2, <1>3, <1>5, <1>7
<1> QED
  BY <1>1, <1>2, <1>6, <1>7

(* Above a path at which there is something there are only directories.    *)
LEMMA AboveAreDirs ==
  ASSUME TypeOK, NEW p \in DOMAIN fs, NEW q \in Paths, IsPrefix(q, p), q # p
  PROVE q \in DOMAIN fs /\ fs[q].kind = "dir"
<1>1. p \in Seq(Names)
  BY PlacesArePaths DEF TypeOK, Paths
<1>2. q \in Prefixes(p)
  BY <1>1, PrefixesAre DEF Paths
<1> QED
  BY <1>2 DEF TypeOK, IsTree

LEMMA SteadyIsUntouched ==
  ASSUME NEW p \in Paths, Steady(p)
  PROVE p \notin touched
<1>1. p \in Prefixes(p)
  BY PrefixSelf, PrefixesAre DEF Paths
<1> QED
  BY <1>1 DEF Steady

LEMMA ResourceIs ==
  ASSUME TypeOK, NEW p \in DOMAIN fs, SteadyResource(p)
  PROVE /\ p \in Paths /\ p # Root /\ IsPrefix(Root, p) /\ Last(p) \in Matching
        /\ ~IsDir(Lstat(p)) /\ Lstat(p) # {}
        /\ ~IsDir(Stat(p)) /\ Stat(p) # {}
        /\ p \notin touched
<1>1. p \in Paths
  BY PlacesArePaths DEF TypeOK
<1>2. /\ IsPrefix(Root, p) /\ p # Root /\ Last(p) \in Matching
      /\ Steady(p) /\ \E e \in Stat(p) : e.kind = "file"
  BY DEF SteadyResource, Resource, IsStrictPrefix
<1>3. p \notin touched
  BY <1>1, <1>2, SteadyIsUntouched
<1>4. ~IsDir(Stat(p)) /\ Stat(p) # {}
  BY <1>2, StatIs DEF IsDir
<1>5. Lstat(p) = {fs[p]}
  BY LstatIs
<1>6. fs[p].kind # "dir"
  BY <1>4, StatIs DEF IsDir
<1> QED
  BY <1>1, <1>2, <1>3, <1>4, <1>5, <1>6 DEF IsDir
-----------------------------------------------------------------------------
(* Other programs: what they do not touch stays, and what has something    *)
(* below it stays a directory.                                             *)
Others == \E p \in Places : Delete(p) \/ \E e \in News : Put(p, e)
Kept(q) ==
  /\ q \in DOMAIN fs <=> q \in DOMAIN fs'
  /\ q \in DOMAIN fs => fs'[q] = fs[q]

LEMMA DeleteKeeps ==
  ASSUME TypeOK, NEW p \in Places, Delete(p)
  PROVE /\ DOMAIN fs' \subseteq Places /\ (\A q \in DOMAIN fs' : fs'[q] \in Entries)
        /\ IsTree(fs')
        /\ touched \subseteq touched' /\ touched' # {}
        /\ DOMAIN fs \subseteq DOMAIN fs' \cup touched'
        /\ \A q : q \notin touched' => Kept(q)
<1>1. /\ p \in DOMAIN fs
      /\ fs' = [q \in {r \in DOMAIN fs : ~IsPrefix(p, r)} |-> fs[q]]
      /\ touched' = touched \cup (DOMAIN fs \ DOMAIN fs')
  BY DEF Delete
<1>2. /\ DOMAIN fs' = {r \in DOMAIN fs : ~IsPrefix(p, r)}
      /\ \A q \in DOMAIN fs' : q \in DOMAIN fs /\ fs'[q] = fs[q]
  BY <1>1
<1>3. DOMAIN fs \subseteq Seq(Names) /\ p \in Seq(Names)
  BY PlacesArePaths DEF TypeOK, Paths
<1>4. p \in touched'
  BY <1>1, <1>2, <1>3, PrefixSelf
<1>5. ASSUME NEW q \in DOMAIN fs', NEW r \in Prefixes(q) \ {q}
      PROVE r \in DOMAIN fs' /\ fs'[r].kind = "dir"
  <2>1. r \in DOMAIN fs /\ fs[r].kind = "dir"
    BY <1>2, <1>5 DEF TypeOK, IsTree
  <2>2. IsPrefix(r, q) /\ r \in Seq(Names) /\ q \in Seq(Names)
    BY <1>2, <1>3, <1>5, PrefixesAre
  <2>3. ~IsPrefix(p, r)
    BY <1>2, <1>3, <1>5, <2>2, PrefixOfPrefix
  <2> QED
    BY <1>2, <2>1, <2>3
<1>6. IsTree(fs')
  BY <1>5 DEF IsTree
<1>7. ASSUME NEW q, q \notin touched'
      PROVE Kept(q)
  BY <1>1, <1>2, <1>7 DEF Kept
<1>8. /\ touched \subseteq touched' /\ touched' # {}
      /\ DOMAIN fs \subseteq DOMAIN fs' \cup touched'
  BY <1>1, <1>4
<1> QED
  BY <1>2, <1>6, <1>7, <1>8 DEF TypeOK

LEMMA PutKeeps ==
  ASSUME TypeOK, NEW p \in Places, NEW e \in News, Put(p, e)
  PROVE /\ DOMAIN fs' \subseteq Places /\ (\A q \in DOMAIN fs' : fs'[q] \in Entries)
        /\ IsTree(fs')
        /\ touched \subseteq touched' /\ touched' # {}
        /\ DOMAIN fs \subseteq DOMAIN fs' \cup touched'
        /\ \A q : q \notin touched' => Kept(q)
<1>1. /\ p # <<>> /\ IsDir(Lstat(Front(p))) /\ ~IsDir(Lstat(p))
      /\ fs' = [q \in DOMAIN fs \cup {p} |-> IF q = p THEN e ELSE fs[q]]
      /\ touched' = touched \cup {p}
  BY DEF Put
<1>2. DOMAIN fs' = DOMAIN fs \cup {p}
  BY <1>1
<1>3. fs'[p] = e
  BY <1>1
<1>4. \A q \in DOMAIN fs : q # p => fs'[q] = fs[q]
  BY <1>1
<1>5. e \in Entries
  BY DEF Entries
<1>6. DOMAIN fs \subseteq Seq(Names) /\ p \in Seq(Names)
  BY PlacesArePaths DEF TypeOK, Paths
<1>7. Front(p) \in DOMAIN fs /\ fs[Front(p)].kind = "dir"
  BY <1>1, LstatIs DEF IsDir
<1>8. p \in DOMAIN fs => fs[p].kind # "dir"
  BY <1>1, LstatIs DEF IsDir
<1>9. ASSUME NEW q \in DOMAIN fs', NEW r \in Prefixes(q) \ {q}
      PROVE r \in DOMAIN fs' /\ fs'[r].kind = "dir"
  <2>1. IsPrefix(r, q) /\ r \in Seq(Names) /\ q \in Seq(Names)
    BY <1>2, <1>6, <1>9, PrefixesAre
  <2>2. r \in DOMAIN fs /\ fs[r].kind = "dir"
    <3>1. CASE q = p
      <4>1. Front(p) \in Seq(Names) /\ Last(p) \in Names /\ p = Append(Front(p), Last(p))
        BY <1>1, <1>6, FrontAndLast
      <4>2. IsPrefix(r, Front(p)) \/ r = p
        BY <2>1, <3>1, <4>1, PrefixOfAppended
      <4>3. r # p
        BY <1>9, <3>1
      <4>4. CASE r = Front(p)
        BY <1>7, <4>4
      <4>5. CASE r # Front(p)
        BY <1>7, <2>1, <4>2, <4>3, <4>5, AboveAreDirs DEF Paths
      <4> QED
        BY <4>4, <4>5
    <3>2. CASE q # p
      BY <1>2, <1>9, <2>1, <3>2, AboveAreDirs DEF Paths
    <3> QED
      BY <3>1, <3>2
  <2>3. r # p
    BY <1>8, <2>2
  <2> QED
    BY <1>2, <1>4, <2>2, <2>3
<1>10. IsTree(fs')
  BY <1>9 DEF IsTree
<1>11. ASSUME NEW q, q \notin touched'
       PROVE Kept(q)
  <2>1. q # p
    BY <1>1, <1>11
  <2> QED
    BY <1>2, <1>4, <2>1 DEF Kept
<1>12. ASSUME NEW q \in DOMAIN fs'
       PROVE q \in Places /\ fs'[q] \in Entries
  BY <1>2, <1>3, <1>4, <1>5, <1>12 DEF TypeOK
<1> QED
  BY <1>1, <1>2, <1>10, <1>11, <1>12

(* A steady resource was one before a change, with the same in it.         *)
LEMMA SteadyWasSteady ==
  ASSUME TypeOK, touched \subseteq touched', \A q : q \notin touched' => Kept(q),
         NEW p \in Paths, p \in DOMAIN fs', SteadyResource(p)'
  PROVE p \in DOMAIN fs /\ SteadyResource(p)
<1>1. \A q \in Prefixes(p) : q \notin touched'
  BY DEF SteadyResource, Steady
<1>2. p \in Prefixes(p)
  BY PrefixSelf, PrefixesAre DEF Paths
<1>3. Kept(p) /\ p \in DOMAIN fs /\ fs'[p] = fs[p]
  BY <1>1, <1>2 DEF Kept
<1>4. Lstat(p) = {fs[p]} /\ Lstat(p)' = {fs[p]}
  BY <1>3 DEF Lstat
<1>5. Steady(p)
  BY <1>1 DEF Steady
<1>6. PICK to : to = fs[p].to
  OBVIOUS
<1>7. ASSUME fs[p].kind = "link"
      PROVE Steady(to) /\ Lstat(to)' = Lstat(to)
  <2>1. to \in Seq(Names)
    BY <1>3, <1>6, <1>7, PlacesArePaths, FilesAssumption DEF TypeOK, Paths
  <2>2. \A q \in Prefixes(to) : q \notin touched'
    BY <1>4, <1>6, <1>7, <1>3 DEF SteadyResource, Steady
  <2>3. to \in Prefixes(to)
    BY <2>1, PrefixSelf, PrefixesAre
  <2>4. Kept(to)
    BY <2>2, <2>3
  <2> QED
    BY <2>2, <2>4 DEF Steady, Lstat, Kept
<1>8. Stat(p)' = Stat(p)
  <2>1. CASE fs[p].kind = "link"
    <3>1. Stat(p) = {f \in Lstat(to) : f.kind # "link"}
      BY <1>4, <1>6, <2>1 DEF Stat
    <3>2. Stat(p)' = {f \in Lstat(to)' : f.kind # "link"}
      BY <1>3, <1>4, <1>6, <2>1 DEF Stat
    <3> QED
      BY <1>7, <2>1, <3>1, <3>2
  <2>2. CASE fs[p].kind # "link"
    <3>1. Stat(p) = {fs[p]}
      BY <1>4, <2>2 DEF Stat
    <3>2. Stat(p)' = {fs[p]}
      BY <1>4, <2>2 DEF Stat
    <3> QED
      BY <3>1, <3>2
  <2> QED
    BY <2>1, <2>2
<1>9. Resource(p)
  BY <1>8 DEF SteadyResource, Resource
<1> QED
  BY <1>3, <1>4, <1>5, <1>6, <1>7, <1>9 DEF SteadyResource
-----------------------------------------------------------------------------
(* The inductive invariant at the beginning.                               *)
LEMMA InitLoadInv == Init => LoadInv
<1> SUFFICES ASSUME Init PROVE LoadInv
  OBVIOUS
<1>1. PICK s \in Starts : fs = s.tree
  BY DEF Init
<1>2. /\ DOMAIN fs \subseteq Places /\ IsTree(fs)
      /\ \A p \in DOMAIN fs : fs[p] \in Entries
  BY <1>1, FilesAssumption DEF Entries
<1>3. /\ at = "config" /\ path = Root /\ frames = <<>> /\ result = <<>>
      /\ templates = <<>> /\ failed = FALSE /\ decoded = <<>>
      /\ faults = 0 /\ touched = {} /\ unread = {}
  BY DEF Init
<1>4. at \in Starting /\ at \notin Walking \cup Visiting \cup Descending
  BY <1>3 DEF Starting, Walking, Visiting, Descending
<1>5. TypeOK
  BY <1>2, <1>3, <1>4, PlacesArePaths, EmptySeq DEF TypeOK
<1>6. Len(frames) = 0 /\ Len(result) = 0 /\ Len(templates) = 0 /\ Len(decoded) = 0
  BY <1>3
<1>7. \A i : i \notin 1 .. 0
  OBVIOUS
<1>8. InOrderOfCalls
  BY <1>3, <1>4, <1>6, <1>7 DEF InOrderOfCalls
<1>9. Nested /\ OnlyOnce
  BY <1>3, <1>4, <1>6, <1>7 DEF Nested, OnlyOnce
<1>10. Covered /\ Caused
  BY <1>3, <1>4 DEF Covered, Caused
<1>11. Known
  BY <1>3, <1>4, <1>6, <1>7, PlacesArePaths, PrefixSelf DEF Known, Paths
<1> QED
  BY <1>5, <1>8, <1>9, <1>10, <1>11 DEF LoadInv

(* Other programs do not disturb it.                                       *)
LEMMA OthersKeepInv ==
  ASSUME LoadInv, Others
  PROVE LoadInv'
<1>1. /\ DOMAIN fs' \subseteq Places /\ (\A q \in DOMAIN fs' : fs'[q] \in Entries)
      /\ IsTree(fs')
      /\ touched \subseteq touched' /\ touched' # {}
      /\ DOMAIN fs \subseteq DOMAIN fs' \cup touched'
      /\ \A q : q \notin touched' => Kept(q)
  BY DeleteKeeps, PutKeeps DEF Others, LoadInv
<1>2. /\ at' = at /\ at \notin {"done", "panic", "fatal"} /\ faults' = faults
      /\ path' = path /\ frames' = frames /\ result' = result
      /\ templates' = templates /\ failed' = failed /\ decoded' = decoded
      /\ unread' = unread
  BY DEF Others, Delete, Put, Change, load, walk
<1>3. TypeOK'
  BY <1>1, <1>2 DEF LoadInv, TypeOK
<1>4. InOrderOfCalls'
  BY <1>2 DEF LoadInv, InOrderOfCalls
<1>5. \A p : Left(p)' <=> Left(p)
  BY <1>2 DEF Left
<1>6. Nested' /\ OnlyOnce'
  <2>1. Nested'
    BY <1>2, <1>5 DEF LoadInv, Nested, Left
  <2>2. OnlyOnce'
    BY <1>2, <1>5 DEF LoadInv, OnlyOnce, Left
  <2> QED
    BY <2>1, <2>2
<1>7. Covered'
  <2> SUFFICES ASSUME at \in Walking \/ at = "load",
                      NEW p \in DOMAIN fs', SteadyResource(p)',
                      unread \cap Prefixes(p) = {}
               PROVE Found(p)' \/ (at \in Walking /\ (Left(p)' \/ Here(p)'))
    BY <1>2 DEF Covered
  <2>1. p \in Paths
    BY <1>1, PlacesArePaths
  <2>2. p \in DOMAIN fs /\ SteadyResource(p)
    BY <1>1, <2>1, SteadyWasSteady DEF LoadInv
  <2>3. Found(p) \/ (at \in Walking /\ (Left(p) \/ Here(p)))
    BY <2>2 DEF LoadInv, Covered
  <2>4. (Found(p)' <=> Found(p)) /\ (Here(p)' <=> Here(p))
    BY <1>2 DEF Found, Here
  <2> QED
    BY <1>5, <2>3, <2>4
<1>8. Known'
  BY <1>1, <1>2 DEF LoadInv, Known
<1>9. Caused'
  BY <1>1, <1>2 DEF LoadInv, Caused
<1> QED
  BY <1>3, <1>4, <1>6, <1>7, <1>8, <1>9 DEF LoadInv
-----------------------------------------------------------------------------
(* Where the walk does not go on, its order stays.                         *)
LEMMA StandingStill ==
  ASSUME Nested, OnlyOnce, frames' = frames, path' = path, result' = result,
         at' \notin Visiting
  PROVE Nested' /\ OnlyOnce'
<1>1. \A p : Left(p)' <=> Left(p)
  BY DEF Left
<1>2. at' \notin Descending /\ at' # "callback"
  BY DEF Visiting, Descending
<1>3. Nested'
  BY <1>2 DEF Nested
<1>4. OnlyOnce'
  BY <1>1, <1>2 DEF OnlyOnce
<1> QED
  BY <1>3, <1>4

(* The steps of confd leave the tree alone; those before the walk leave    *)
(* everything else of the load alone too.                                  *)
LEMMA BeforeTheWalk ==
  ASSUME LoadInv, UNCHANGED <<fs, touched, load>>,
         at \in Starting,
         at' \in Starting \cup {"fatal"} \/ (at' = "panic" /\ confd' = PanicToml),
         faults' = faults \/ faults' = faults + 1
  PROVE LoadInv'
<1>1. /\ fs' = fs /\ touched' = touched
      /\ path' = path /\ frames' = frames /\ result' = result
      /\ templates' = templates /\ failed' = failed /\ decoded' = decoded
      /\ unread' = unread
  BY DEF load, walk
<1>2. at' \notin Walking \cup Visiting \cup Descending \cup {"load", "done"}
  BY DEF Starting, Walking, Visiting, Descending
<1>3. TypeOK'
  BY <1>1 DEF LoadInv, TypeOK
<1>4. InOrderOfCalls'
  BY <1>1, <1>2 DEF LoadInv, InOrderOfCalls
<1>5. Nested' /\ OnlyOnce'
  BY <1>1, <1>2, StandingStill DEF LoadInv
<1>6. Covered'
  BY <1>2 DEF Covered
<1>7. Known'
  BY <1>1, <1>2 DEF LoadInv, Known, IsDir, Stat, Lstat
<1>8. Caused'
  <2>1. decoded' = <<>> /\ ~failed'
    BY <1>1 DEF LoadInv, InOrderOfCalls
  <2>2. at' = "panic" => confd' = PanicToml
    BY DEF Starting
  <2> QED
    BY <2>1, <2>2 DEF Caused, ParserPanics
<1> QED
  BY <1>3, <1>4, <1>5, <1>6, <1>7, <1>8 DEF LoadInv

LEMMA StartKeepsInv ==
  ASSUME LoadInv, TestConfigFile \/ ReadConfigFile \/ EndInitConfig \/ NewClient
  PROVE LoadInv'
<1>1. /\ at \in Starting
      /\ at' \in Starting \cup {"fatal"} \/ (at' = "panic" /\ confd' = PanicToml)
      /\ faults' = faults \/ faults' = faults + 1
      /\ UNCHANGED <<fs, touched, load>>
  <2>1. CASE TestConfigFile
    BY <2>1 DEF TestConfigFile, Quiet, Calm, Start, Starting
  <2>2. CASE ReadConfigFile
    BY <2>2 DEF ReadConfigFile, Calm, Start, Fault, Starting, Unparsed
  <2>3. CASE EndInitConfig
    BY <2>3 DEF EndInitConfig, Calm, Start, Fault, Starting
  <2>4. CASE NewClient
    BY <2>4 DEF NewClient, Calm, Start, Fault, Starting
  <2> QED
    BY <2>1, <2>2, <2>3, <2>4
<1> QED
  BY <1>1, BeforeTheWalk

(* Without confdir there is nothing to load.                               *)
LEMMA TestConfDirKeepsInv ==
  ASSUME LoadInv, TestConfDir
  PROVE LoadInv'
<1>1. /\ at = "confdir" /\ at' = (IF Stat(<<>>) = {} THEN "done" ELSE "lookup")
      /\ UNCHANGED <<fs, touched, load>> /\ faults' = faults
  BY DEF TestConfDir, Quiet, Calm
<1>2. CASE at' = "lookup"
  BY <1>1, <1>2, BeforeTheWalk DEF Starting
<1>3. CASE at' = "done"
  <2>1. Stat(<<>>) = {}
    BY <1>1, <1>3
  <2>2. /\ fs' = fs /\ touched' = touched
        /\ path' = path /\ frames' = frames /\ result' = result
        /\ templates' = templates /\ failed' = failed /\ decoded' = decoded
        /\ unread' = unread
    BY <1>1 DEF load, walk
  <2>3. at \in Starting /\ at' \notin Starting \cup Walking \cup Visiting \cup Descending
    BY <1>1, <1>3 DEF Starting, Walking, Visiting, Descending
  <2>4. result = <<>> /\ decoded = <<>> /\ ~failed
    BY <2>3 DEF LoadInv, InOrderOfCalls
  <2>5. TypeOK'
    BY <1>1, <1>3, <2>2 DEF LoadInv, TypeOK
  <2>6. InOrderOfCalls'
    BY <1>3, <2>2, <2>3, <2>4 DEF LoadInv, InOrderOfCalls
  <2>7. Nested' /\ OnlyOnce'
    BY <2>2, <2>3, StandingStill DEF LoadInv
  <2>8. \A p \in DOMAIN fs : ~SteadyResource(p)
    <3> SUFFICES ASSUME NEW p \in DOMAIN fs, SteadyResource(p) PROVE FALSE
      OBVIOUS
    <3>1. p \in Seq(Names) /\ Stat(p) # {}
      BY ResourceIs DEF LoadInv, Paths
    <3>2. p # <<>>
      BY <2>1, <3>1
    <3>3. <<>> \in Seq(Names) /\ Len(<<>>) = 0
      BY EmptySeq
    <3>4. IsPrefix(<<>>, p)
      BY <3>1, EmptyPrefix
    <3>5. <<>> \in DOMAIN fs /\ fs[<<>>].kind = "dir"
      BY <3>2, <3>3, <3>4, AboveAreDirs DEF LoadInv, Paths
    <3> QED
      BY <2>1, <3>5, StatIs DEF LoadInv
  <2>9. \A p \in DOMAIN fs' : ~SteadyResource(p)'
    BY <2>2, <2>8 DEF SteadyResource, Resource, Steady, Stat, Lstat
  <2>10. Covered'
    BY <2>9 DEF Covered
  <2>11. Known'
    BY <2>2, <2>3 DEF LoadInv, Known, IsDir, Stat, Lstat
  <2>12. Caused'
    BY <1>3, <2>2, <2>4 DEF Caused
  <2> QED
    BY <2>5, <2>6, <2>7, <2>10, <2>11, <2>12 DEF LoadInv
<1> QED
  BY <1>1, <1>2, <1>3
-----------------------------------------------------------------------------
(* A step that leaves the tree alone leaves what is said of its paths.     *)
LEMMA SameTree ==
  ASSUME fs' = fs, touched' = touched
  PROVE \A p : /\ SteadyResource(p)' <=> SteadyResource(p)
               /\ Stat(p)' = Stat(p) /\ Lstat(p)' = Lstat(p)
               /\ Unloadable(p)' <=> Unloadable(p)
<1> SUFFICES ASSUME NEW p
             PROVE /\ SteadyResource(p)' <=> SteadyResource(p)
                   /\ Stat(p)' = Stat(p) /\ Lstat(p)' = Lstat(p)
                   /\ Unloadable(p)' <=> Unloadable(p)
  OBVIOUS
<1>1. Lstat(p)' = Lstat(p) /\ Stat(p)' = Stat(p)
  BY DEF Stat, Lstat
<1>2. Unloadable(p)' <=> Unloadable(p)
  BY <1>1 DEF Unloadable
<1>3. SteadyResource(p)' <=> SteadyResource(p)
  BY <1>1 DEF SteadyResource, Resource, Steady
<1> QED
  BY <1>1, <1>2, <1>3

(* The walk begins at conf.d if that is a directory; if it is none, there  *)
(* is nothing below it.                                                    *)
LEMMA LookupKeepsInv ==
  ASSUME LoadInv, Lookup
  PROVE LoadInv'
<1>1. /\ at = "lookup" /\ fs' = fs /\ touched' = touched /\ faults' = faults
      /\ path' = path /\ frames' = frames /\ templates' = templates
      /\ unread' = unread /\ decoded' = decoded
  BY DEF Lookup, Quiet, Calm
<1>2. at \in Starting
  BY <1>1 DEF Starting
<1>3. path = Root /\ frames = <<>> /\ decoded = <<>> /\ templates = <<>> /\ ~failed
  BY <1>2 DEF LoadInv, InOrderOfCalls
<1>4. \/ at' = "done" /\ failed' = TRUE /\ result' = <<>> /\ Stat(Root) = {}
      \/ at' = "lstat" /\ failed' = FALSE /\ result' = <<>> /\ IsDir(Stat(Root))
      \/ /\ at' = "load" /\ failed' = FALSE /\ result' = <<Root>>
         /\ ~IsDir(Stat(Root)) /\ Stat(Root) # {}
  <2>1. failed' = (Stat(Root) = {})
    BY DEF Lookup, RootMissing
  <2>2. CASE Stat(Root) = {}
    BY <2>1, <2>2 DEF Lookup
  <2>3. CASE Stat(Root) # {} /\ IsDir(Stat(Root))
    BY <2>1, <2>3 DEF Lookup
  <2>4. CASE Stat(Root) # {} /\ ~IsDir(Stat(Root))
    BY <2>1, <2>4 DEF Lookup
  <2> QED
    BY <2>2, <2>3, <2>4
<1>5. Root \in Paths /\ IsPrefix(Root, Root)
  BY PlacesArePaths, PrefixSelf DEF Paths
<1>6. Stat(Root) # {} => Root \in DOMAIN fs
  BY StatIs DEF LoadInv
<1>7. Len(frames) = 0 /\ \A i \in 1 .. 0 : FALSE
  BY <1>3
<1>8. \A p : ~Left(p)'
  BY <1>1, <1>7 DEF Left
<1>9. /\ result' \in Seq(Paths) /\ Len(result') \in {0, 1}
      /\ \A k \in 1 .. Len(result') : result'[k] = Root /\ at' = "load"
  <2>1. CASE result' = <<>>
    BY <2>1
  <2>2. CASE result' = <<Root>> /\ at' = "load"
    <3>1. result' \in Seq(Paths) /\ Len(result') = 1 /\ result'[1] = Root
      BY <1>5, <2>2
    <3>2. \A k \in 1 .. 1 : k = 1
      OBVIOUS
    <3> QED
      BY <2>2, <3>1, <3>2
  <2> QED
    BY <1>4, <2>1, <2>2
<1>10. TypeOK'
  BY <1>1, <1>4, <1>9 DEF LoadInv, TypeOK, Walking, Visiting, Descending
<1>11. at' \notin Starting
  BY <1>4 DEF Starting
<1>12. Len(decoded) = 0 /\ Len(templates) = 0
  BY <1>3
<1>13. InOrderOfCalls'
  BY <1>1, <1>3, <1>4, <1>7, <1>9, <1>11, <1>12
     DEF InOrderOfCalls, Walking, Visiting, Descending
<1>14. Nested'
  BY <1>1, <1>7, <1>8 DEF Nested
<1>15. OnlyOnce'
  <2>1. \A k, l \in 1 .. Len(result') : k = l
    BY <1>9
  <2> QED
    BY <1>8, <1>9, <2>1 DEF OnlyOnce, Descending
<1>16. Covered'
  <2> SUFFICES ASSUME NEW p \in DOMAIN fs, SteadyResource(p),
                      at' = "lstat" \/ at' = "load"
               PROVE at' \in Walking /\ Here(p)'
    BY <1>1, <1>4, SameTree DEF Covered, Walking, Visiting, Descending
  <2>1. IsPrefix(Root, p) /\ p # Root
    BY ResourceIs DEF LoadInv
  <2>2. Root \in DOMAIN fs /\ fs[Root].kind = "dir"
    BY <1>5, <2>1, AboveAreDirs DEF LoadInv
  <2>3. IsDir(Stat(Root))
    BY <2>2, StatIs DEF LoadInv, IsDir
  <2> QED
    BY <1>1, <1>3, <1>4, <2>1, <2>3 DEF Here, Walking, Visiting, Descending
<1>17. Known'
  <2>1. at' \in Visiting => path' \in DOMAIN fs' \cup touched'
    BY <1>1, <1>3, <1>4, <1>6 DEF Visiting, Descending, IsDir
  <2>2. \A k \in 1 .. Len(result') :
          result'[k] = Root /\ Root \in DOMAIN fs' /\ ~IsDir(Stat(Root))
    BY <1>1, <1>4, <1>6, <1>9
  <2>3. Stat(Root)' = Stat(Root)
    BY <1>1, SameTree
  <2> QED
    BY <1>1, <1>3, <1>5, <1>7, <2>1, <2>2, <2>3 DEF Known, IsDir
<1>18. Caused'
  <2>1. Stat(Root) = {} => Unloadable(Root)
    BY DEF Unloadable
  <2> QED
    BY <1>1, <1>4, <2>1, SameTree DEF Caused
<1> QED
  BY <1>10, <1>13, <1>14, <1>15, <1>16, <1>17, <1>18 DEF LoadInv

(* The walk looks at a path: it has gone, is a directory or is not, or it  *)
(* cannot be looked at.                                                    *)
LEMMA WalkLstatKeepsInv ==
  ASSUME LoadInv, WalkLstat
  PROVE LoadInv'
<1>1. /\ at = "lstat" /\ fs' = fs /\ touched' = touched
      /\ faults' = faults \/ faults' = faults + 1
      /\ path' = path /\ frames' = frames /\ result' = result
      /\ templates' = templates /\ failed' = failed /\ decoded' = decoded
  BY DEF WalkLstat, Calm, Fault, walk
<1>2. \/ at' = "panic" /\ (Lstat(path) = {} \/ path \in unread')
      \/ at' = "readdir" /\ IsDir(Lstat(path)) /\ unread' = unread
      \/ at' = "callback" /\ Lstat(path) # {} /\ ~IsDir(Lstat(path)) /\ unread' = unread
  BY DEF WalkLstat
<1>3. at \in Descending /\ at \in Visiting /\ at \in Walking
  BY <1>1 DEF Descending, Visiting, Walking
<1>4. at' \notin Starting /\ (at' \in Walking <=> at' # "panic") /\ at' # "load" /\ at' # "done"
  BY <1>2 DEF Starting, Walking, Visiting, Descending
<1>5. TypeOK'
  BY <1>1, <1>4, <1>2 DEF LoadInv, TypeOK
<1>6. InOrderOfCalls'
  BY <1>1, <1>3, <1>4 DEF LoadInv, InOrderOfCalls
<1>7. \A p : Left(p)' <=> Left(p)
  BY <1>1 DEF Left
<1>8. Nested'
  BY <1>1, <1>3, <1>7 DEF LoadInv, Nested
<1>9. path \in Seq(Names) /\ result \in Seq(Seq(Names))
  BY DEF LoadInv, TypeOK, Paths
<1>10. OnlyOnce'
  <2>1. \A k \in 1 .. Len(result) : result[k] # path
    BY <1>3, <1>9, PrefixSelf DEF LoadInv, OnlyOnce
  <2> QED
    BY <1>1, <1>3, <1>7, <2>1 DEF LoadInv, OnlyOnce
<1>11. Covered'
  <2> SUFFICES ASSUME at' # "panic", NEW p \in DOMAIN fs, SteadyResource(p),
                      unread \cap Prefixes(p) = {}
               PROVE Found(p)' \/ Left(p)' \/ Here(p)'
    BY <1>1, <1>2, <1>4, SameTree DEF Covered
  <2>1. Found(p) \/ Left(p) \/ Here(p)
    BY <1>3 DEF LoadInv, Covered
  <2>2. Found(p)' <=> Found(p)
    BY <1>1 DEF Found
  <2>3. ASSUME Here(p)
        PROVE Here(p)'
    <3>1. IsPrefix(path, p)
      BY <1>1, <2>3 DEF Here
    <3>2. CASE path = p
      <4>1. at' = "callback"
        BY <1>2, <3>2, ResourceIs DEF LoadInv
      <4> QED
        BY <1>1, <3>2, <4>1 DEF Here
    <3>3. CASE path # p
      <4>1. path \in DOMAIN fs /\ fs[path].kind = "dir"
        BY <1>9, <3>1, <3>3, AboveAreDirs DEF LoadInv, Paths
      <4>2. IsDir(Lstat(path))
        BY <4>1, LstatIs DEF IsDir
      <4> QED
        BY <1>1, <1>2, <3>1, <3>3, <4>2 DEF Here, IsDir, IsStrictPrefix
    <3> QED
      BY <3>2, <3>3
  <2> QED
    BY <1>7, <2>1, <2>2, <2>3
<1>12. Known'
  BY <1>1, <1>3, SameTree DEF LoadInv, Known, IsDir
<1>13. Caused'
  <2>1. Lstat(path) = {} => path \in touched
    BY <1>3, LstatIs DEF LoadInv, Known
  <2>2. Lstat(path) = {} => ~Steady(path)
    BY <1>9, <2>1, SteadyIsUntouched DEF Paths
  <2>3. at' = "panic" => ~Steady(path)' \/ path' \in unread'
    BY <1>1, <1>2, <2>2 DEF Steady
  <2> QED
    BY <1>1, <1>3, <2>3 DEF LoadInv, Caused, InOrderOfCalls
<1> QED
  BY <1>5, <1>6, <1>8, <1>10, <1>11, <1>12, <1>13 DEF LoadInv

(* The walk reads a directory: each steady resource below it is left in it *)
(* if it can be read, and what it has found is not below it.               *)
LEMMA ReadDirKeepsInv ==
  ASSUME LoadInv, ReadDir
  PROVE LoadInv'
<1> DEFINE call == [dir |-> path, names |-> NamesIn(path)]
           Pushed == frames' = Append(frames, call) /\ unread' = unread
           Skipped == frames' = frames /\ unread' = unread \cup {path}
<1>1. /\ at = "readdir" /\ at' = "callback" /\ fs' = fs /\ touched' = touched
      /\ path' = path /\ result' = result
      /\ templates' = templates /\ failed' = failed /\ decoded' = decoded
      /\ faults' = faults \/ faults' = faults + 1
      /\ Pushed \/ Skipped
  BY DEF ReadDir, Calm, Fault
<1>2. /\ at \in Descending /\ at \in Visiting /\ at \in Walking /\ at' \in Visiting
      /\ at' \in Walking /\ at' \notin Descending /\ at' \notin Starting
  BY <1>1 DEF Descending, Visiting, Walking, Starting
<1>3. path \in Seq(Names) /\ result \in Seq(Seq(Names)) /\ frames \in Seq(Calls)
  BY DEF LoadInv, TypeOK, Paths
<1>4. call \in Calls /\ call.dir = path /\ call.names = NamesIn(path)
  BY <1>3 DEF NamesIn, Names, Calls, Paths
<1>5. ASSUME NEW n \in NamesIn(path)
      PROVE n \in Names /\ Append(path, n) \in DOMAIN fs
  BY <1>5 DEF NamesIn, Names
<1> HIDE DEF call
<1>6. Pushed =>
        /\ frames' \in Seq(Calls) /\ Len(frames') = Len(frames) + 1
        /\ frames'[Len(frames) + 1] = call
        /\ \A i \in 1 .. Len(frames) : frames'[i] = frames[i]
  BY <1>3, <1>4, AppendProperties
<1>7. Len(frames) \in Nat
  BY <1>3, LenProperties
<1>8. Pushed => \A i \in 1 .. Len(frames') : i \in 1 .. Len(frames) \/ i = Len(frames) + 1
  BY <1>6, <1>7
<1>9. Pushed => \A i \in 1 .. Len(frames) + 1 : i \in 1 .. Len(frames')
  BY <1>6, <1>7
<1>10. Len(frames) + 1 \in 1 .. Len(frames) + 1
       /\ \A i \in 1 .. Len(frames) : i \in 1 .. Len(frames) + 1
  BY <1>7
<1>11. \A p : Left(p) => Left(p)'
  BY <1>1, <1>6, <1>9, <1>10 DEF Left
<1>12. ASSUME NEW p, Left(p)'
       PROVE Left(p) \/ \E n \in NamesIn(path) : IsPrefix(Append(path, n), p)
  BY <1>1, <1>4, <1>6, <1>8, <1>12 DEF Left
<1>13. ASSUME NEW p \in Seq(Names), NEW n \in NamesIn(path), IsPrefix(Append(path, n), p)
       PROVE IsPrefix(path, p) /\ p # path
  BY <1>3, <1>5, <1>13, PrefixAppended, LenProperties
<1>14. TypeOK'
  BY <1>1, <1>2, <1>6 DEF LoadInv, TypeOK
<1>15. InOrderOfCalls'
  BY <1>1, <1>2 DEF LoadInv, InOrderOfCalls
<1>16. Nested'
  <2>1. ASSUME NEW j \in 1 .. Len(frames'), NEW i \in 1 .. j - 1
        PROVE /\ Len(frames'[i].dir) < Len(frames'[j].dir)
              /\ \A n \in frames'[i].names :
                   ~IsPrefix(Append(frames'[i].dir, n), frames'[j].dir)
    <3>1. CASE j \in 1 .. Len(frames)
      <4>1. i \in 1 .. Len(frames)
        BY <1>7, <3>1
      <4>2. frames'[i] = frames[i] /\ frames'[j] = frames[j]
        BY <1>1, <1>6, <3>1, <4>1
      <4> QED
        BY <3>1, <4>2 DEF LoadInv, Nested
    <3>2. CASE Pushed /\ j = Len(frames) + 1
      <4>1. i \in 1 .. Len(frames)
        BY <1>7, <3>2
      <4>2. frames'[i] = frames[i] /\ frames'[j] = call
        BY <1>6, <3>2, <4>1
      <4>3. Len(frames[i].dir) < Len(path) /\ ~Left(path)
        BY <1>2, <4>1 DEF LoadInv, Nested
      <4> QED
        BY <1>4, <4>1, <4>2, <4>3 DEF Left
    <3> QED
      BY <1>1, <1>8, <3>1, <3>2
  <2>2. ~Left(path)'
    <3>1. ~Left(path)
      BY <1>2 DEF LoadInv, Nested
    <3>2. PICK q \in Seq(Names) : q = path
      BY <1>3
    <3>3. ~Left(q)'
      BY <1>12, <1>13, <3>1, <3>2
    <3> QED
      BY <1>1, <3>2, <3>3 DEF Left
  <2> QED
    BY <1>1, <1>2, <2>1, <2>2 DEF Nested
<1>17. OnlyOnce'
  <2>1. ASSUME NEW k \in 1 .. Len(result)
        PROVE ~Left(result[k])' /\ result[k] # path
    <3>1. result[k] \in Seq(Names)
      BY <1>3, <2>1, ElementOfSeq
    <3>2. ~Left(result[k]) /\ ~IsPrefix(path, result[k])
      BY <1>2, <2>1 DEF LoadInv, OnlyOnce
    <3>3. result[k] # path
      BY <1>3, <3>2, PrefixSelf
    <3>4. PICK r \in Seq(Names) : r = result[k]
      BY <3>1
    <3>5. ~Left(r)'
      BY <1>12, <1>13, <3>2, <3>4
    <3> QED
      BY <1>1, <3>3, <3>4, <3>5 DEF Left
  <2> QED
    BY <1>1, <1>2, <2>1 DEF LoadInv, OnlyOnce, Left
<1>18. Covered'
  <2> SUFFICES ASSUME NEW p \in DOMAIN fs, SteadyResource(p),
                      unread' \cap Prefixes(p) = {}
               PROVE Found(p)' \/ Left(p)' \/ Here(p)'
    BY <1>1, <1>2, SameTree DEF Covered
  <2>1. unread \cap Prefixes(p) = {}
    BY <1>1
  <2>2. Found(p) \/ Left(p) \/ Here(p)
    BY <1>2, <2>1 DEF LoadInv, Covered
  <2>3. Found(p)' <=> Found(p)
    BY <1>1 DEF Found
  <2>4. ASSUME Here(p)
        PROVE Left(p)'
    <3>1. IsPrefix(path, p) /\ path # p /\ p \in Seq(Names)
      BY <1>1, <2>4, ResourceIs DEF LoadInv, Here, IsStrictPrefix, Paths
    <3>2. path \in Prefixes(p)
      BY <1>3, <3>1, PrefixesAre
    <3>3. Pushed
      BY <1>1, <3>2
    <3>4. Len(path) < Len(p) /\ Len(path) \in Nat /\ Len(p) \in Nat
      BY <1>3, <3>1, StrictPrefixShorter, LenProperties
    <3> DEFINE n == p[Len(path) + 1]
    <3>5. n \in Names
      BY <3>1, <3>4, ElementOfSeq
    <3> HIDE DEF n
    <3>6. IsPrefix(Append(path, n), p) /\ Append(path, n) \in Seq(Names)
      BY <1>3, <3>1, <3>4, <3>5, PrefixAppended, AppendProperties DEF n
    <3>7. Append(path, n) \in DOMAIN fs
      <4>1. CASE Append(path, n) = p
        BY <4>1
      <4>2. CASE Append(path, n) # p
        BY <3>6, <4>2, AboveAreDirs DEF LoadInv, Paths
      <4> QED
        BY <4>1, <4>2
    <3>8. n \in call.names
      BY <1>4, <3>5, <3>7 DEF NamesIn, Names
    <3> QED
      BY <1>4, <1>6, <1>9, <1>10, <3>3, <3>6, <3>8 DEF Left
  <2> QED
    BY <1>11, <2>2, <2>3, <2>4
<1>19. Known'
  <2>1. ASSUME NEW i \in 1 .. Len(frames')
        PROVE /\ IsPrefix(Root, frames'[i].dir)
              /\ \A n \in frames'[i].names :
                   Append(frames'[i].dir, n) \in DOMAIN fs \cup touched
    <3>1. CASE i \in 1 .. Len(frames)
      BY <1>1, <1>6, <3>1 DEF LoadInv, Known
    <3>2. CASE Pushed /\ i = Len(frames) + 1
      BY <1>4, <1>5, <1>6, <3>2 DEF LoadInv, Known
    <3> QED
      BY <1>1, <1>8, <3>1, <3>2
  <2> QED
    BY <1>1, <1>2, <2>1, SameTree DEF LoadInv, Known, IsDir
<1>20. Caused'
  BY <1>1, <1>2 DEF LoadInv, Caused, InOrderOfCalls
<1> QED
  BY <1>14, <1>15, <1>16, <1>17, <1>18, <1>19, <1>20 DEF LoadInv

(* The callback: the path is found if it is a resource.                    *)
LEMMA CallbackKeepsInv ==
  ASSUME LoadInv, Callback
  PROVE LoadInv'
<1> DEFINE match == Last(path) \in Matching
           Add == result' = Append(result, path) /\ match /\ ~IsDir(Stat(path))
           Same == result' = result
<1>1. /\ at = "callback" /\ fs' = fs /\ touched' = touched /\ faults' = faults
      /\ path' = path /\ frames' = frames /\ templates' = templates
      /\ decoded' = decoded /\ unread' = unread
      /\ failed' = (match /\ Stat(path) = {})
  BY DEF Callback, Quiet, Calm
<1>2. at' = IF failed' THEN "done" ELSE "walk"
  BY DEF Callback
<1>3. IF match /\ Stat(path) # {} /\ ~IsDir(Stat(path)) THEN Add ELSE Same
  BY DEF Callback, IsFile
<1>4. Add \/ Same
  BY <1>3
<1>5. /\ at \in Visiting /\ at \in Walking /\ at' \notin Visiting /\ at' \notin Starting
      /\ at' # "panic" /\ at' \in {"done", "walk"} /\ failed' \in BOOLEAN
      /\ at' \notin Descending /\ at' # "callback"
  BY <1>1, <1>2 DEF Descending, Visiting, Walking, Starting
<1>6. path \in Paths /\ result \in Seq(Paths) /\ Len(result) \in Nat
  BY LenProperties DEF LoadInv, TypeOK
<1>7. Add =>
        /\ result' \in Seq(Paths) /\ Len(result') = Len(result) + 1
        /\ result'[Len(result) + 1] = path
        /\ \A k \in 1 .. Len(result) : result'[k] = result[k]
        /\ \A k \in 1 .. Len(result') : k \in 1 .. Len(result) \/ k = Len(result) + 1
        /\ Len(result) + 1 \in 1 .. Len(result')
        /\ \A k \in 1 .. Len(result) : k \in 1 .. Len(result')
  <2>1. ASSUME Add
        PROVE /\ result' \in Seq(Paths) /\ Len(result') = Len(result) + 1
              /\ result'[Len(result) + 1] = path
              /\ \A k \in 1 .. Len(result) : result'[k] = result[k]
    BY <1>6, <2>1, AppendProperties
  <2> QED
    BY <1>6, <2>1
<1>8. \A p : Left(p)' <=> Left(p)
  BY <1>1 DEF Left
<1>9. decoded = <<>> /\ templates = <<>> /\ ~failed
  BY <1>5 DEF LoadInv, InOrderOfCalls
<1>10. ~Left(path) /\ \A k \in 1 .. Len(result) : result[k] # path /\ ~Left(result[k])
  BY <1>1, <1>5 DEF LoadInv, Nested, OnlyOnce
<1>11. TypeOK'
  BY <1>1, <1>4, <1>5, <1>6, <1>7 DEF LoadInv, TypeOK, Walking
<1>12. InOrderOfCalls'
  <2>1. Len(decoded) = 0 /\ Len(templates) = 0 /\ Len(result') \in Nat
    BY <1>4, <1>6, <1>7, <1>9, LenProperties
  <2>2. \A k : k \notin 1 .. 0
    OBVIOUS
  <2>3. at' = "walk" => ~failed'
    BY <1>2
  <2>4. at' = "done" => failed'
    BY <1>2
  <2>5. at' \in Walking => at' = "walk"
    BY <1>5 DEF Walking, Visiting, Descending
  <2> QED
    BY <1>1, <1>5, <1>9, <2>1, <2>2, <2>3, <2>4, <2>5 DEF InOrderOfCalls, Walking
<1>13. Nested'
  BY <1>1, <1>5 DEF LoadInv, Nested
<1>14. OnlyOnce'
  <2>1. CASE Same
    BY <1>1, <1>5, <1>8, <2>1 DEF LoadInv, OnlyOnce
  <2>2. CASE Add
    <3>1. ASSUME NEW k \in 1 .. Len(result'), NEW l \in 1 .. Len(result'),
                 result'[k] = result'[l]
          PROVE k = l
      BY <1>7, <1>10, <2>2, <3>1 DEF LoadInv, OnlyOnce
    <3>2. ASSUME NEW k \in 1 .. Len(result')
          PROVE ~Left(result'[k])
      BY <1>7, <1>10, <2>2, <3>2
    <3>3. ASSUME NEW k \in 1 .. Len(result')
          PROVE ~Left(result[k])'
      BY <1>1, <3>2, <3>3 DEF Left
    <3> QED
      BY <1>5, <3>1, <3>3 DEF OnlyOnce
  <2> QED
    BY <1>4, <2>1, <2>2
<1>15. Covered'
  <2> SUFFICES ASSUME at' = "walk", NEW p \in DOMAIN fs, SteadyResource(p),
                      unread \cap Prefixes(p) = {}
               PROVE Found(p)' \/ Left(p)'
    BY <1>1, <1>2, <1>5, SameTree DEF Covered, Walking
  <2>1. Found(p) \/ Left(p) \/ Here(p)
    BY <1>5 DEF LoadInv, Covered
  <2>2. Found(p) => Found(p)'
    BY <1>4, <1>7 DEF Found
  <2>3. ASSUME Here(p)
        PROVE Found(p)'
    <3>1. path = p
      BY <1>1, <2>3 DEF Here
    <3>2. Add
      BY <1>3, <3>1, ResourceIs DEF LoadInv
    <3> QED
      BY <1>7, <3>1, <3>2 DEF Found
  <2> QED
    BY <1>8, <2>1, <2>2, <2>3
<1>16. touched = {} => path \in DOMAIN fs
  BY <1>5 DEF LoadInv, Known
<1>17. path = Root \/ IsStrictPrefix(Root, path)
  BY DEF LoadInv, Known, IsStrictPrefix
<1>18. Known'
  <2>1. ASSUME NEW k \in 1 .. Len(result')
        PROVE /\ result'[k] = Root
                   \/ (IsStrictPrefix(Root, result'[k]) /\ Last(result'[k]) \in Matching)
              /\ touched = {} => result'[k] \in DOMAIN fs /\ ~IsDir(Stat(result'[k]))
    <3>1. CASE result'[k] = path /\ Add
      BY <1>16, <1>17, <3>1
    <3>2. CASE k \in 1 .. Len(result) /\ result'[k] = result[k]
      BY <3>2 DEF LoadInv, Known
    <3> QED
      BY <1>4, <1>7, <2>1, <3>1, <3>2
  <2>2. ASSUME NEW k \in 1 .. Len(result')
        PROVE touched' = {} => result'[k] \in DOMAIN fs' /\ ~IsDir(Stat(result[k]))'
    BY <1>1, <2>1, <2>2 DEF IsDir, Stat, Lstat
  <2> QED
    BY <1>1, <1>5, <2>1, <2>2 DEF LoadInv, Known
<1>19. Caused'
  <2>1. failed' => touched # {} \/ \E p \in {Root} \cup DOMAIN fs : Unloadable(p)
    <3>1. ASSUME match, Stat(path) = {}
          PROVE Unloadable(path)
      BY <1>17, <3>1 DEF Unloadable
    <3> QED
      BY <1>1, <1>16, <3>1
  <2> QED
    BY <1>1, <1>5, <2>1, SameTree DEF Caused
<1> QED
  BY <1>11, <1>12, <1>13, <1>14, <1>15, <1>18, <1>19 DEF LoadInv

(* The walk ends when it is in no directory any more: nothing is left.     *)
LEMMA WalkEndKeepsInv ==
  ASSUME LoadInv, WalkOn, frames = <<>>
  PROVE LoadInv'
<1>1. /\ at = "walk" /\ at' = "load" /\ fs' = fs /\ touched' = touched
      /\ faults' = faults /\ path' = path /\ frames' = frames /\ result' = result
      /\ templates' = templates /\ failed' = failed /\ decoded' = decoded
      /\ unread' = unread
  BY DEF WalkOn, Quiet, Calm
<1>2. at \in Walking /\ at' \notin Starting \cup Walking \cup Visiting
  BY <1>1 DEF Starting, Walking, Visiting, Descending
<1>3. TypeOK'
  BY <1>1 DEF LoadInv, TypeOK
<1>4. InOrderOfCalls'
  BY <1>1, <1>2 DEF LoadInv, InOrderOfCalls
<1>5. Nested' /\ OnlyOnce'
  BY <1>1, <1>2, StandingStill DEF LoadInv
<1>6. Covered'
  <2> SUFFICES ASSUME NEW p \in DOMAIN fs, SteadyResource(p), unread \cap Prefixes(p) = {}
               PROVE Found(p)'
    BY <1>1, SameTree DEF Covered
  <2>1. Found(p) \/ Left(p) \/ Here(p)
    BY <1>2 DEF LoadInv, Covered
  <2>2. ~Here(p)
    BY <1>1 DEF Here
  <2>3. Len(frames) = 0 /\ \A i : i \notin 1 .. 0
    OBVIOUS
  <2>4. ~Left(p)
    BY <2>3 DEF Left
  <2> QED
    BY <1>1, <2>1, <2>2, <2>4 DEF Found
<1>7. Known'
  BY <1>1, <1>2, SameTree DEF LoadInv, Known, IsDir
<1>8. Caused'
  BY <1>1, SameTree DEF LoadInv, Caused
<1> QED
  BY <1>3, <1>4, <1>5, <1>6, <1>7, <1>8 DEF LoadInv

(* It goes back from a directory in which no name is left.                 *)
LEMMA WalkUpKeepsInv ==
  ASSUME LoadInv, WalkOn, frames # <<>>, Last(frames).names = {}
  PROVE LoadInv'
<1>1. /\ at = "walk" /\ at' = "walk" /\ fs' = fs /\ touched' = touched
      /\ faults' = faults /\ path' = path /\ result' = result
      /\ templates' = templates /\ failed' = failed /\ decoded' = decoded
      /\ unread' = unread /\ frames' = Front(frames)
  BY DEF WalkOn, Quiet, Calm
<1>2. at \in Walking /\ at \notin Visiting
  BY <1>1 DEF Walking, Visiting, Descending
<1>3. frames \in Seq(Calls) /\ Len(frames) \in Nat \ {0}
  BY EmptySeq DEF LoadInv, TypeOK
<1>4. /\ frames' \in Seq(Calls) /\ Len(frames') = Len(frames) - 1
      /\ \A i \in 1 .. Len(frames) - 1 : frames'[i] = frames[i]
  BY <1>1, <1>3, FrontAndLast
<1>5. /\ \A i \in 1 .. Len(frames') : i \in 1 .. Len(frames) /\ frames'[i] = frames[i]
      /\ \A i \in 1 .. Len(frames) : i \in 1 .. Len(frames') \/ i = Len(frames)
  BY <1>3, <1>4
<1>6. frames[Len(frames)].names = {}
  BY DEF Last
<1>7. \A p : Left(p)' <=> Left(p)
  BY <1>5, <1>6 DEF Left
<1>8. TypeOK'
  BY <1>1, <1>4 DEF LoadInv, TypeOK
<1>9. InOrderOfCalls'
  BY <1>1 DEF LoadInv, InOrderOfCalls, Starting
<1>10. at \notin Descending /\ at # "callback" /\ at \notin Starting
  BY <1>1 DEF Descending, Starting
<1>11. Nested'
  <2>1. ASSUME NEW j \in 1 .. Len(frames'), NEW i \in 1 .. j - 1
        PROVE /\ Len(frames'[i].dir) < Len(frames'[j].dir)
              /\ \A n \in frames'[i].names :
                   ~IsPrefix(Append(frames'[i].dir, n), frames'[j].dir)
    <3>1. i \in 1 .. Len(frames')
      BY <1>3, <1>4
    <3> QED
      BY <1>5, <2>1, <3>1 DEF LoadInv, Nested
  <2> QED
    BY <1>1, <1>2, <1>10, <2>1 DEF Nested
<1>12. OnlyOnce'
  BY <1>1, <1>7, <1>10 DEF LoadInv, OnlyOnce
<1>13. Covered'
  <2> SUFFICES ASSUME NEW p \in DOMAIN fs, SteadyResource(p), unread \cap Prefixes(p) = {}
               PROVE Found(p)' \/ Left(p)'
    BY <1>1, <1>2, SameTree DEF Covered
  <2>1. Found(p) \/ Left(p) \/ Here(p)
    BY <1>2 DEF LoadInv, Covered
  <2>2. ~Here(p)
    BY <1>1 DEF Here
  <2> QED
    BY <1>1, <1>7, <2>1, <2>2 DEF Found
<1>14. Known'
  BY <1>1, <1>2, <1>5, SameTree DEF LoadInv, Known, IsDir
<1>15. Caused'
  BY <1>1, SameTree DEF LoadInv, Caused
<1> QED
  BY <1>8, <1>9, <1>11, <1>12, <1>13, <1>14, <1>15 DEF LoadInv

(* It goes on to a name that is left in the last directory: what was left  *)
(* at or below that name is what it is at now.                             *)
LEMMA WalkDownKeepsInv ==
  ASSUME LoadInv, WalkOn, frames # <<>>, Last(frames).names # {}
  PROVE LoadInv'
<1> DEFINE m == Len(frames)
           d == frames[m].dir
<1>1. /\ at = "walk" /\ fs' = fs /\ touched' = touched
      /\ faults' = faults /\ result' = result
      /\ templates' = templates /\ failed' = failed /\ decoded' = decoded
      /\ unread' = unread
  BY DEF WalkOn, Quiet, Calm
<1>2. PICK n \in Last(frames).names :
        /\ path' = Append(Last(frames).dir, n) /\ at' = "lstat"
        /\ frames' = Append(Front(frames), [Last(frames) EXCEPT !.names = @ \ {n}])
  BY DEF WalkOn
<1>3. /\ at \in Walking /\ at \notin Visiting /\ at \notin Descending
      /\ at' \in Walking /\ at' \in Descending /\ at' \in Visiting /\ at' \notin Starting
      /\ at' # "callback" /\ at' # "done" /\ at' # "panic"
  BY <1>1, <1>2 DEF Walking, Visiting, Descending, Starting
<1>4. frames \in Seq(Calls) /\ m \in Nat \ {0} /\ Last(frames) = frames[m]
  BY EmptySeq DEF LoadInv, TypeOK, Last
<1>5. frames[m] \in Calls /\ d \in Seq(Names) /\ n \in Names /\ n \in frames[m].names
  <2>1. frames[m] \in Calls
    BY <1>4, ElementOfSeq
  <2> QED
    BY <1>2, <1>4, <2>1 DEF Calls, Paths
<1> DEFINE call == [frames[m] EXCEPT !.names = @ \ {n}]
<1>6. call \in Calls /\ call.dir = d /\ call.names = frames[m].names \ {n}
  BY <1>5 DEF Calls
<1> HIDE DEF call
<1>7. /\ Front(frames) \in Seq(Calls) /\ Len(Front(frames)) = m - 1
      /\ \A i \in 1 .. m - 1 : Front(frames)[i] = frames[i]
  BY <1>4, FrontAndLast
<1>8. frames' = Append(Front(frames), call)
  BY <1>2, <1>4 DEF call
<1>9. /\ frames' \in Seq(Calls) /\ Len(frames') = m - 1 + 1
      /\ frames'[m - 1 + 1] = call
      /\ \A i \in 1 .. m - 1 : frames'[i] = frames[i]
  BY <1>6, <1>7, <1>8, AppendProperties
<1>10. /\ m - 1 + 1 = m /\ m \in 1 .. m
       /\ \A i \in 1 .. m : i \in 1 .. m - 1 \/ i = m
       /\ \A i \in 1 .. m - 1 : i \in 1 .. m
  BY <1>4
<1>11. /\ Len(frames') = m
       /\ \A i \in 1 .. m : frames'[i].dir = frames[i].dir
       /\ \A i \in 1 .. m - 1 : frames'[i].names = frames[i].names
       /\ frames'[m].names = frames[m].names \ {n}
  BY <1>6, <1>9, <1>10
<1>12. path' = Append(d, n) /\ path' \in Seq(Names) /\ Len(path') = Len(d) + 1
  BY <1>2, <1>4, <1>5, AppendProperties
<1> HIDE DEF m, d
<1>13. \A i \in 1 .. m : frames'[i].names \subseteq frames[i].names
  BY <1>10, <1>11
<1>14. \A p : Left(p)' => Left(p)
  BY <1>11, <1>13 DEF Left, m
<1>15. ASSUME NEW p, Left(p)
       PROVE Left(p)' \/ IsPrefix(path', p)
  <2>1. PICK i \in 1 .. m : \E k \in frames[i].names : IsPrefix(Append(frames[i].dir, k), p)
    BY <1>15 DEF Left, m
  <2>2. PICK k \in frames[i].names : IsPrefix(Append(frames[i].dir, k), p)
    BY <2>1
  <2>3. CASE i = m /\ k = n
    BY <1>12, <2>2, <2>3 DEF d
  <2>4. CASE ~(i = m /\ k = n)
    <3>1. k \in frames'[i].names
      BY <1>10, <1>11, <2>1, <2>2, <2>4
    <3> QED
      BY <1>11, <2>1, <2>2, <3>1 DEF Left
  <2> QED
    BY <2>3, <2>4
<1>16. ASSUME NEW p, IsPrefix(path', p)
       PROVE Left(p)
  BY <1>5, <1>10, <1>12, <1>16 DEF Left, m, d
<1>17. \A i \in 1 .. m - 1 : Len(frames[i].dir) < Len(d)
  BY <1>10 DEF LoadInv, Nested, m, d
<1>18. \A i \in 1 .. m : frames[i].dir \in Seq(Names) /\ frames[i].names \subseteq Names
  <2> SUFFICES ASSUME NEW i \in 1 .. m
               PROVE frames[i].dir \in Seq(Names) /\ frames[i].names \subseteq Names
    OBVIOUS
  <2>1. frames[i] \in Calls
    BY <1>4, ElementOfSeq DEF m
  <2> QED
    BY <2>1 DEF Calls, Paths
<1>19. TypeOK'
  BY <1>1, <1>2, <1>3, <1>9, <1>12 DEF LoadInv, TypeOK, Paths
<1>20. InOrderOfCalls'
  BY <1>1, <1>3 DEF LoadInv, InOrderOfCalls
<1>21. Nested'
  <2>1. ASSUME NEW j \in 1 .. Len(frames'), NEW i \in 1 .. j - 1
        PROVE /\ Len(frames'[i].dir) < Len(frames'[j].dir)
              /\ \A k \in frames'[i].names :
                   ~IsPrefix(Append(frames'[i].dir, k), frames'[j].dir)
    <3>1. j \in 1 .. m /\ i \in 1 .. m
      BY <1>4, <1>11 DEF m
    <3> QED
      BY <1>11, <1>13, <2>1, <3>1 DEF LoadInv, Nested, m
  <2>2. ASSUME NEW i \in 1 .. m
        PROVE Len(frames'[i].dir) < Len(path')
    <3>1. Len(d) \in Nat
      BY <1>5, LenProperties
    <3>2. CASE i = m
      BY <1>11, <1>12, <2>2, <3>1, <3>2 DEF d
    <3>3. CASE i \in 1 .. m - 1
      <4>1. Len(frames[i].dir) \in Nat
        BY <1>18, <2>2, LenProperties
      <4> QED
        BY <1>11, <1>12, <1>17, <2>2, <3>1, <3>3, <4>1
    <3> QED
      BY <1>10, <3>2, <3>3
  <2>3. ASSUME NEW i \in 1 .. m, NEW k \in frames'[i].names
        PROVE ~IsPrefix(Append(frames'[i].dir, k), path')
    <3>1. frames[i].dir \in Seq(Names) /\ k \in Names /\ k \in frames[i].names
      BY <1>13, <1>18, <2>3
    <3>2. Append(frames[i].dir, k) \in Seq(Names)
      BY <3>1, AppendProperties
    <3>3. IsPrefix(Append(frames[i].dir, k), Append(d, n))
            <=> IsPrefix(Append(frames[i].dir, k), d) \/ Append(frames[i].dir, k) = Append(d, n)
      <4>1. PICK s \in Seq(Names) : s = Append(frames[i].dir, k)
        BY <3>2
      <4>2. IsPrefix(s, Append(d, n)) <=> IsPrefix(s, d) \/ s = Append(d, n)
        BY <1>5, PrefixOfAppended
      <4> QED
        BY <4>1, <4>2, Zenon
    <3>4. Len(Append(frames[i].dir, k)) = Len(frames[i].dir) + 1
          /\ Append(frames[i].dir, k)[Len(frames[i].dir) + 1] = k
          /\ Append(d, n)[Len(d) + 1] = n
          /\ Len(frames[i].dir) \in Nat /\ Len(d) \in Nat
      BY <1>5, <3>1, AppendProperties, LenProperties
    <3>5. CASE i = m
      <4>1. k # n /\ frames[i].dir = d
        BY <1>11, <2>3, <3>5 DEF d
      <4>2. ~IsPrefix(Append(d, k), d)
        <5>1. Len(Append(d, k)) > Len(d)
          BY <3>4, <4>1
        <5> QED
          BY <3>4, <5>1, <4>1 DEF IsPrefix
      <4> QED
        BY <1>11, <1>12, <3>3, <3>4, <4>1, <4>2
    <3>6. CASE i \in 1 .. m - 1
      <4>1. Len(frames[i].dir) + 1 # Len(d) + 1
        BY <1>17, <3>4, <3>6
      <4>2. ~IsPrefix(Append(frames[i].dir, k), d)
        BY <1>10, <3>1, <3>6 DEF LoadInv, Nested, m, d
      <4> QED
        BY <1>11, <1>12, <3>3, <3>4, <4>1, <4>2
    <3> QED
      BY <1>10, <3>5, <3>6
  <2> QED
    BY <1>11, <2>1, <2>2, <2>3 DEF Nested, Left
<1>22. OnlyOnce'
  <2>1. ASSUME NEW k \in 1 .. Len(result)
        PROVE ~Left(result[k])' /\ ~IsPrefix(path', result[k])
    <3>1. PICK r : r = result[k]
      OBVIOUS
    <3>2. ~Left(r)
      BY <2>1, <3>1 DEF LoadInv, OnlyOnce
    <3>3. ~Left(r)' /\ ~IsPrefix(path', r)
      BY <1>14, <1>16, <3>2
    <3> QED
      BY <1>1, <3>1, <3>3 DEF Left
  <2> QED
    BY <1>1, <1>3, <2>1 DEF LoadInv, OnlyOnce
<1>23. Covered'
  <2> SUFFICES ASSUME NEW p \in DOMAIN fs, SteadyResource(p), unread \cap Prefixes(p) = {}
               PROVE Found(p)' \/ Left(p)' \/ Here(p)'
    BY <1>1, <1>3, SameTree DEF Covered
  <2>1. Found(p) \/ Left(p) \/ Here(p)
    BY <1>3 DEF LoadInv, Covered
  <2>2. ~Here(p)
    BY <1>1 DEF Here
  <2>3. Found(p)' <=> Found(p)
    BY <1>1 DEF Found
  <2> QED
    BY <1>2, <1>15, <2>1, <2>2, <2>3 DEF Here
<1>24. Known'
  <2>1. path' \in DOMAIN fs \cup touched
    BY <1>5, <1>10, <1>12 DEF LoadInv, Known, m, d
  <2>2. IsPrefix(Root, path')
    <3>1. IsPrefix(Root, d)
      BY <1>10 DEF LoadInv, Known, m, d
    <3> QED
      BY <1>5, <1>12, <3>1, PlacesArePaths, PrefixOfAppended DEF Paths
  <2>3. \A i \in 1 .. m : /\ IsPrefix(Root, frames'[i].dir)
                          /\ \A k \in frames'[i].names :
                               Append(frames'[i].dir, k) \in DOMAIN fs \cup touched
    BY <1>11, <1>13 DEF LoadInv, Known, m
  <2> QED
    BY <1>1, <1>11, <2>1, <2>2, <2>3, SameTree DEF LoadInv, Known, IsDir
<1>25. Caused'
  BY <1>1, <1>3, SameTree DEF LoadInv, Caused
<1> QED
  BY <1>19, <1>20, <1>21, <1>22, <1>23, <1>24, <1>25 DEF LoadInv

(* The loop over the files: one after the other, and an error is kept.     *)
LEMMA LoadKeepsInv ==
  ASSUME LoadInv, Load
  PROVE  LoadInv'
<1> DEFINE l == Len(decoded) + 1
           p == result[l]
           file == {e \in Stat(p) : e.kind = "file"}
<1>1. /\ at = "load" /\ at' \in {"load", "panic"} /\ fs' = fs /\ touched' = touched
      /\ path' = path /\ frames' = frames /\ result' = result /\ unread' = unread
      /\ Len(decoded) < Len(result)
  BY DEF Load, Calm, walk
<1>2. \/ \E e \in file :
           /\ decoded' = Append(decoded, e.content) /\ faults' = faults
           /\ \/ /\ e.content = PanicToml /\ at' = "panic"
                 /\ failed' = failed /\ templates' = templates
              \/ /\ Refused(e.content) /\ at' = "load"
                 /\ failed' = TRUE /\ templates' = templates
              \/ \E tr \in NewTemplateResource(e.content) :
                   /\ templates' = Append(templates, [path |-> p, tr |-> tr])
                   /\ failed' = failed /\ at' = "load"
      \/ /\ decoded' = Append(decoded, NotToml) /\ failed' = TRUE /\ templates' = templates
         /\ at' = "load"
         /\ \/ file = {} /\ faults' = faults
            \/ faults' = faults + 1
  BY DEF Load, KeepError, Fault, LoadInv, TypeOK
<1>3. /\ at \notin Starting \cup Walking \cup Visiting
      /\ at' \notin Starting \cup Walking \cup Visiting
  BY <1>1 DEF Starting, Walking, Visiting, Descending
<1>4. /\ decoded \in Seq(Contents) /\ Len(decoded) \in Nat /\ Len(templates) \in Nat
      /\ templates \in Seq([path : Paths, tr : Resources])
      /\ result \in Seq(Paths) /\ Len(result) \in Nat /\ failed \in BOOLEAN /\ faults \in Nat
  BY LenProperties DEF LoadInv, TypeOK
<1>5. l \in 1 .. Len(result) /\ p \in Paths
  BY <1>1, <1>4, ElementOfSeq
<1> HIDE DEF p
<1>6. ASSUME NEW e \in file
      PROVE e.content \in Contents
  BY <1>6, StatIs DEF LoadInv, Contents
<1>7. PICK c \in Contents : decoded' = Append(decoded, c)
  BY <1>2, <1>6 DEF Contents
<1>8. decoded' \in Seq(Contents) /\ Len(decoded') = Len(decoded) + 1
  BY <1>4, <1>7, AppendProperties
<1>9. \/ failed' \in {TRUE, failed} /\ templates' = templates
         /\ (failed' = TRUE \/ at' = "panic")
      \/ \E tr \in Resources :
           templates' = Append(templates, [path |-> p, tr |-> tr]) /\ failed' = failed
  BY <1>2, <1>6 DEF Resources
<1>10. ASSUME NEW tr \in Resources, templates' = Append(templates, [path |-> p, tr |-> tr])
       PROVE /\ templates' \in Seq([path : Paths, tr : Resources])
             /\ Len(templates') = Len(templates) + 1
             /\ templates'[Len(templates) + 1].path = p
             /\ \A k \in 1 .. Len(templates) : templates'[k] = templates[k]
  <2>1. PICK r \in [path : Paths, tr : Resources] : r = [path |-> p, tr |-> tr] /\ r.path = p
    BY <1>5, <1>10
  <2> QED
    BY <1>4, <1>10, <2>1, AppendProperties
<1>11. faults' \in Nat /\ (faults' = faults \/ faults' > 0)
  BY <1>2, <1>4
<1>12. failed' \in BOOLEAN /\ (failed => failed')
  BY <1>4, <1>9
<1>13. TypeOK'
  BY <1>1, <1>3, <1>4, <1>8, <1>9, <1>10, <1>11, <1>12 DEF LoadInv, TypeOK
<1>14. InOrderOfCalls'
  <2>1. ASSUME ~failed', at' # "panic"
        PROVE /\ Len(templates') = Len(decoded') /\ Len(decoded') <= Len(result)
              /\ \A k \in 1 .. Len(templates') : templates'[k].path = result[k]
    <3>1. ~failed
      BY <1>12, <2>1
    <3>2. PICK tr \in Resources : templates' = Append(templates, [path |-> p, tr |-> tr])
      BY <1>9, <2>1
    <3>3. /\ Len(templates) = Len(decoded)
          /\ \A k \in 1 .. Len(templates) : templates[k].path = result[k]
      BY <1>1, <3>1 DEF LoadInv, InOrderOfCalls
    <3>4. /\ Len(templates') = Len(templates) + 1
          /\ templates'[Len(templates) + 1].path = p
          /\ \A k \in 1 .. Len(templates) : templates'[k] = templates[k]
      BY <1>10, <3>2
    <3>5. \A k \in 1 .. Len(templates') : k \in 1 .. Len(templates) \/ k = Len(templates) + 1
      BY <1>4, <3>4
    <3>6. p = result[Len(templates) + 1]
      BY <3>3 DEF p
    <3>7. Len(templates') = Len(decoded') /\ Len(decoded') <= Len(result)
      BY <1>1, <1>4, <1>8, <3>3, <3>4
    <3>8. \A k \in 1 .. Len(templates') : templates'[k].path = result[k]
      BY <3>3, <3>4, <3>5, <3>6
    <3> QED
      BY <3>7, <3>8
  <2> QED
    BY <1>1, <1>3, <2>1 DEF InOrderOfCalls
<1>15. Nested' /\ OnlyOnce'
  BY <1>1, <1>3, StandingStill DEF LoadInv
<1>16. Covered'
  <2> SUFFICES ASSUME NEW q \in DOMAIN fs, SteadyResource(q), unread \cap Prefixes(q) = {}
               PROVE Found(q)'
    BY <1>1, SameTree DEF Covered
  <2>1. Found(q)
    BY <1>1, <1>3 DEF LoadInv, Covered
  <2> QED
    BY <1>1, <2>1 DEF Found
<1>17. Known'
  BY <1>1, <1>3, SameTree DEF LoadInv, Known, IsDir
<1>18. Caused'
  <2>1. ASSUME failed', ~failed, touched = {}, faults' = faults
        PROVE \E q \in {Root} \cup DOMAIN fs : Unloadable(q)
    <3>1. /\ p = Root \/ (IsStrictPrefix(Root, p) /\ Last(p) \in Matching)
          /\ p \in DOMAIN fs /\ ~IsDir(Stat(p))
      BY <1>5, <2>1 DEF LoadInv, Known, p
    <3>2. \A e \in Stat(p) : e.kind = "file"
      BY <3>1, StatIs DEF LoadInv, IsDir
    <3>3. (\E e \in file : Refused(e.content)) \/ file = {}
      <4>1. faults' # faults + 1
        BY <1>4, <2>1
      <4> QED
        BY <1>2, <2>1, <4>1
    <3>4. \A e \in Stat(p) : Refused(e.content)
      BY <3>2, <3>3, StatIs DEF LoadInv
    <3>5. Unloadable(p)
      BY <3>1, <3>2, <3>4 DEF Unloadable
    <3> QED
      BY <3>1, <3>5
  <2>2. failed => touched # {} \/ faults > 0
                    \/ \E q \in {Root} \cup DOMAIN fs : Unloadable(q)
    BY DEF LoadInv, Caused
  <2>3. failed' => touched # {} \/ faults' > 0
                     \/ \E q \in {Root} \cup DOMAIN fs : Unloadable(q)
    BY <1>11, <2>1, <2>2
  <2>4. at' = "panic" => decoded' = Append(decoded, PanicToml)
    BY <1>2
  <2>5. at' = "panic" => ParserPanics'
    <3>1. ASSUME at' = "panic"
          PROVE  Len(decoded') = Len(decoded) + 1 /\ decoded'[Len(decoded) + 1] = PanicToml
      BY <1>4, <2>4, <3>1, AppendProperties
    <3>2. Len(decoded) + 1 # 0 /\ Len(<<>>) = 0
      BY <1>4
    <3> QED
      BY <3>1, <3>2 DEF ParserPanics, Last
  <2> QED
    BY <1>1, <2>3, <2>5, SameTree DEF Caused
<1> QED
  BY <1>13, <1>14, <1>15, <1>16, <1>17, <1>18 DEF LoadInv

(* The end of the loop.                                                    *)
LEMMA ReturnKeepsInv ==
  ASSUME LoadInv, Return
  PROVE LoadInv'
<1>1. /\ at = "load" /\ at' = "done" /\ fs' = fs /\ touched' = touched
      /\ path' = path /\ frames' = frames /\ result' = result /\ unread' = unread
      /\ templates' = templates /\ failed' = failed /\ decoded' = decoded
      /\ faults' = faults /\ Len(decoded) = Len(result)
  BY DEF Return, Quiet, Calm, load, walk
<1>2. at' \notin Starting \cup Walking \cup Visiting
  BY <1>1 DEF Starting, Walking, Visiting, Descending
<1>3. at \notin Walking
  BY <1>1 DEF Walking, Visiting, Descending
<1>4. TypeOK'
  BY <1>1 DEF LoadInv, TypeOK
<1>5. InOrderOfCalls'
  BY <1>1, <1>2 DEF LoadInv, InOrderOfCalls
<1>6. Nested' /\ OnlyOnce'
  BY <1>1, <1>2, StandingStill DEF LoadInv
<1>7. Covered'
  <2> SUFFICES ASSUME NEW q \in DOMAIN fs, SteadyResource(q), unread \cap Prefixes(q) = {}
               PROVE Found(q)'
    BY <1>1, SameTree DEF Covered
  <2>1. Found(q)
    BY <1>1, <1>3 DEF LoadInv, Covered
  <2> QED
    BY <1>1, <2>1 DEF Found
<1>8. Known'
  BY <1>1, <1>2, SameTree DEF LoadInv, Known, IsDir
<1>9. Caused'
  BY <1>1, SameTree DEF LoadInv, Caused
<1> QED
  BY <1>4, <1>5, <1>6, <1>7, <1>8, <1>9 DEF LoadInv
-----------------------------------------------------------------------------
LEMMA StutterKeepsInv ==
  ASSUME LoadInv, UNCHANGED vars
  PROVE LoadInv'
<1>1. /\ at' = at /\ fs' = fs /\ touched' = touched
      /\ path' = path /\ frames' = frames /\ result' = result /\ unread' = unread
      /\ templates' = templates /\ failed' = failed /\ decoded' = decoded
      /\ faults' = faults
  BY DEF vars, load, walk
<1>2. TypeOK' /\ InOrderOfCalls'
  BY <1>1 DEF LoadInv, TypeOK, InOrderOfCalls
<1>3. \A p : (Left(p)' <=> Left(p)) /\ (Found(p)' <=> Found(p)) /\ (Here(p)' <=> Here(p))
  BY <1>1 DEF Left, Found, Here
<1>4. Nested'
  BY <1>1 DEF LoadInv, Nested, Left
<1>5. OnlyOnce'
  BY <1>1 DEF LoadInv, OnlyOnce, Left
<1>6. Covered'
  BY <1>1, <1>3, SameTree DEF LoadInv, Covered
<1>7. Known'
  BY <1>1, SameTree DEF LoadInv, Known, IsDir
<1>8. Caused'
  <2>1. confd' = confd
    BY DEF vars, start
  <2> QED
    BY <1>1, <2>1, SameTree DEF LoadInv, Caused, Steady, ParserPanics
<1> QED
  BY <1>2, <1>4, <1>5, <1>6, <1>7, <1>8 DEF LoadInv

(* The inductive invariant of a load: what has been found, what the walk   *)
(* has yet to come to and what other programs have touched cover every     *)
(* resource file below conf.d, without overlap (util.go:105,               *)
(* processor.go:164).                                                      *)
THEOREM LoadInvariant == Spec => []LoadInv
<1>1. Init => LoadInv
  BY InitLoadInv
<1>2. LoadInv /\ [Next]_vars => LoadInv'
  <2> SUFFICES ASSUME LoadInv, [Next]_vars PROVE LoadInv'
    OBVIOUS
  <2>1. CASE TestConfigFile \/ ReadConfigFile \/ EndInitConfig \/ NewClient
    BY <2>1, StartKeepsInv
  <2>2. CASE TestConfDir
    BY <2>2, TestConfDirKeepsInv
  <2>3. CASE Lookup
    BY <2>3, LookupKeepsInv
  <2>4. CASE WalkLstat
    BY <2>4, WalkLstatKeepsInv
  <2>5. CASE ReadDir
    BY <2>5, ReadDirKeepsInv
  <2>6. CASE Callback
    BY <2>6, CallbackKeepsInv
  <2>7. CASE WalkOn
    BY <2>7, WalkEndKeepsInv, WalkUpKeepsInv, WalkDownKeepsInv
  <2>8. CASE Load
    BY <2>8, LoadKeepsInv
  <2>9. CASE Return
    BY <2>9, ReturnKeepsInv
  <2>10. CASE Others
    BY <2>10, OthersKeepInv
  <2>11. CASE UNCHANGED vars
    BY <2>11, StutterKeepsInv
  <2> QED
    BY <2>1, <2>2, <2>3, <2>4, <2>5, <2>6, <2>7, <2>8, <2>9, <2>10, <2>11 DEF Next, Others
<1> QED
  BY <1>1, <1>2, PTL DEF Spec

(* A load that reports no error has loaded every resource file that stayed *)
(* where it was, below directories that could be read and a conf.d that is *)
(* no link, once, and everything that it found, whatever is created,       *)
(* replaced or removed meanwhile and however large and deep the tree is    *)
(* (processor.go:146, util.go:105).                                        *)
THEOREM NothingSteadyIsMissed == Spec => []LoadsWhatIsThere
<1>1. LoadInv => LoadsWhatIsThere
  <2> SUFFICES ASSUME LoadInv, at = "done", ~failed
               PROVE /\ [n \in DOMAIN templates |-> templates[n].path] = result
                     /\ \A p \in DOMAIN fs :
                          SteadyResource(p) /\ unread \cap Prefixes(p) = {} =>
                            \E n \in DOMAIN result :
                              result[n] = p /\ \A m \in DOMAIN result : result[m] = p => m = n
    BY DEF LoadsWhatIsThere
  <2>1. /\ templates \in Seq([path : Paths, tr : Resources]) /\ result \in Seq(Paths)
    BY DEF LoadInv, TypeOK
  <2>2. DOMAIN templates = 1 .. Len(templates) /\ DOMAIN result = 1 .. Len(result)
    BY <2>1, LenProperties
  <2>3. /\ Len(templates) = Len(result)
        /\ \A k \in 1 .. Len(templates) : templates[k].path = result[k]
    BY DEF LoadInv, InOrderOfCalls
  <2>4. [n \in DOMAIN templates |-> templates[n].path] = result
    <3>1. result = [n \in 1 .. Len(result) |-> result[n]]
      BY <2>1, LenProperties
    <3> QED
      BY <2>2, <2>3, <3>1
  <2>5. at \notin Walking
    BY DEF Walking, Visiting, Descending
  <2>6. \A p \in DOMAIN fs : SteadyResource(p) /\ unread \cap Prefixes(p) = {} => Found(p)
    BY <2>5 DEF LoadInv, Covered
  <2>7. \A k, m \in 1 .. Len(result) : result[k] = result[m] => k = m
    BY DEF LoadInv, OnlyOnce
  <2>8. ASSUME NEW p \in DOMAIN fs, SteadyResource(p), unread \cap Prefixes(p) = {}
        PROVE \E n \in DOMAIN result :
                result[n] = p /\ \A m \in DOMAIN result : result[m] = p => m = n
    <3>1. PICK n \in 1 .. Len(result) : result[n] = p
      BY <2>6, <2>8 DEF Found
    <3>2. \A m \in 1 .. Len(result) : result[m] = p => m = n
      BY <2>7, <3>1
    <3> QED
      BY <2>2, <3>1, <3>2
  <2> QED
    BY <2>4, <2>8
<1> QED
  BY <1>1, LoadInvariant, PTL

(* A load panics only at a path that has been removed under its feet or    *)
(* that could not be looked at, or at a text that makes the TOML parser    *)
(* panic, the last it has read; and it reports an error only if something  *)
(* has changed or failed meanwhile, there is no conf.d, or a file cannot   *)
(* be loaded (util.go:97, 113, 118, config.go:84, resource.go:155).        *)
THEOREM NoTroubleWithoutCause == Spec => []TroubleHasACause
<1>1. LoadInv => TroubleHasACause
  BY DEF LoadInv, Caused, TroubleHasACause, ParserPanics
<1> QED
  BY <1>1, LoadInvariant, PTL
-----------------------------------------------------------------------------
(* Each set of naturals has a least element, and what holds of 0 and, if   *)
(* of a number, of the next holds of all numbers.                          *)
LEMMA Least ==
  ASSUME NEW T \in SUBSET Nat, T # {}
  PROVE  \E n \in T : \A m \in T : n <= m
<1> DEFINE R == {ss \in Nat \X Nat : ss[1] < ss[2]}
<1>1. OpToRel(<, Nat) = R
  BY DEF OpToRel
<1>2. IsWellFoundedOn(R, Nat)
  BY <1>1, NatLessThanWellFounded
<1>3. PICK n \in T : \A m \in T : <<m, n>> \notin R
  <2> HIDE DEF R
  <2> QED
    BY <1>2, WFMin
<1>4. ASSUME NEW m \in T
      PROVE  n <= m
  <2>1. m \in Nat /\ n \in Nat
    BY <1>3
  <2>2. ~(m < n)
    <3>1. <<m, n>> \in Nat \X Nat /\ <<m, n>> \notin R
      BY <1>3, <2>1
    <3> QED
      BY <3>1
  <2> QED
    BY <2>1, <2>2
<1> HIDE DEF R
<1> QED
  BY <1>3, <1>4

LEMMA Induction ==
  ASSUME NEW S, 0 \in S, \A n \in Nat : n \in S => n + 1 \in S
  PROVE  Nat \subseteq S
<1>1. SUFFICES ASSUME Nat \ S # {} PROVE FALSE
  OBVIOUS
<1>2. PICK n \in Nat \ S : \A m \in Nat \ S : n <= m
  BY <1>1, Least
<1>3. n # 0 /\ n - 1 \in Nat /\ n - 1 \in S
  BY <1>2
<1> QED
  BY <1>2, <1>3

(* A structure's fields, of which no two have one name.                    *)
Structure(fields) ==
  /\ fields \in Seq(ToSet(fields))
  /\ \A i, j \in DOMAIN fields : Folded[fields[i].name] = Folded[fields[j].name] => i = j

(* The search for a field finds the one whose name is the key's when       *)
(* letters are folded, if there is one.                                    *)
LEMMA FirstIsSelected ==
  ASSUME NEW I \in SUBSET Nat, I # {}
  PROVE  Min(I) \in I
BY Least DEF Min

LEMMA FieldIsFound ==
  ASSUME NEW fields, Structure(fields), NEW key, NEW n \in DOMAIN fields,
         Folded[fields[n].name] = Folded[key]
  PROVE  FieldOf(fields, key) = n
<1> DEFINE Exact == {i \in 1 .. Len(fields) : fields[i].name = key}
           Fold == {i \in 1 .. Len(fields) : Folded[fields[i].name] = Folded[key]}
<1>1. FieldOf(fields, key) =
        IF (IF Exact # {} THEN Min(Exact) ELSE 0) # 0
        THEN (IF Exact # {} THEN Min(Exact) ELSE 0)
        ELSE (IF Fold # {} THEN Min(Fold) ELSE 0)
  BY DEF FieldOf, SelectInSeq
<1>2. Len(fields) \in Nat /\ DOMAIN fields = 1 .. Len(fields)
  BY DEF Structure
<1>3. n \in Fold /\ Fold \subseteq {n} /\ Exact \subseteq {n}
  BY <1>2 DEF Structure
<1>4. Min(Fold) = n /\ (Exact # {} => Min(Exact) = n) /\ n # 0
  <2>1. Fold \in SUBSET Nat /\ Exact \in SUBSET Nat
    BY <1>2
  <2>2. Min(Fold) \in Fold
    BY <1>3, <2>1, FirstIsSelected
  <2>3. Exact # {} => Min(Exact) \in Exact
    BY <2>1, FirstIsSelected
  <2> QED
    BY <1>2, <1>3, <2>2, <2>3
<1> HIDE DEF Exact, Fold
<1> QED
  BY <1>1, <1>3, <1>4

LEMMA NoFieldIsFound ==
  ASSUME NEW fields, Structure(fields), NEW key,
         \A n \in DOMAIN fields : Folded[fields[n].name] # Folded[key]
  PROVE  FieldOf(fields, key) = 0
<1> DEFINE Exact == {i \in 1 .. Len(fields) : fields[i].name = key}
           Fold == {i \in 1 .. Len(fields) : Folded[fields[i].name] = Folded[key]}
<1>1. FieldOf(fields, key) =
        IF (IF Exact # {} THEN Min(Exact) ELSE 0) # 0
        THEN (IF Exact # {} THEN Min(Exact) ELSE 0)
        ELSE (IF Fold # {} THEN Min(Fold) ELSE 0)
  BY DEF FieldOf, SelectInSeq
<1>2. Len(fields) \in Nat /\ DOMAIN fields = 1 .. Len(fields)
  BY DEF Structure
<1>3. Fold = {} /\ Exact = {}
  BY <1>2
<1> QED
  BY <1>1, <1>3

(* The rounds of unifyStruct's loop, one after the other.                  *)
LEMMA RoundsAre ==
  ASSUME NEW fields, NEW values, NEW table, NEW order, Len(order) \in Nat
  PROVE  LET s == Rounds(fields, values, table, order)
         IN /\ s[0] = [ok |-> TRUE, values |-> values]
            /\ \A i \in 1 .. Len(order) :
                 s[i] = UnifyKey(s[i - 1], fields, table, order[i])
<1> DEFINE N == Len(order)
           Start0 == [ok |-> TRUE, values |-> values]
           Go(s, i) == UnifyKey(s, fields, table, order[i])
           Are(g, n) == g = [i \in 0 .. n |-> IF i = 0 THEN Start0 ELSE Go(g[i - 1], i)]
           Some == {n \in Nat : \E g : Are(g, n)}
<1> HIDE DEF Start0, Go, N
<1>1. 0 \in Some
  <2>1. Are([i \in 0 .. 0 |-> Start0], 0)
    OBVIOUS
  <2> QED
    BY <2>1
<1>2. ASSUME NEW n \in Nat, n \in Some
      PROVE  n + 1 \in Some
  <2>1. PICK g : Are(g, n)
    BY <1>2
  <2> DEFINE h == [i \in 0 .. n + 1 |-> IF i \in 0 .. n THEN g[i] ELSE Go(g[n], i)]
  <2>2. ASSUME NEW i \in 0 .. n + 1
        PROVE  h[i] = IF i = 0 THEN Start0 ELSE Go(h[i - 1], i)
    <3>1. CASE i = 0
      BY <2>1, <3>1
    <3>2. CASE i \in 1 .. n
      <4>1. h[i] = g[i] /\ h[i - 1] = g[i - 1]
        BY <3>2
      <4>2. g[i] = Go(g[i - 1], i)
        BY <2>1, <3>2
      <4> QED
        BY <3>2, <4>1, <4>2
    <3>3. CASE i = n + 1
      <4>1. h[i] = Go(g[n], i) /\ h[i - 1] = g[n]
        BY <3>3
      <4> QED
        BY <3>3, <4>1
    <3> QED
      BY <3>1, <3>2, <3>3
  <2>3. Are(h, n + 1)
    BY <2>2
  <2> HIDE DEF h, Are
  <2> QED
    BY <2>3
<1>3. N \in Some
  <2>1. Nat \subseteq Some
    <3> HIDE DEF Some
    <3> QED
      BY <1>1, <1>2, Induction
  <2> QED
    BY <2>1 DEF N
<1>4. PICK g : Are(g, N)
  BY <1>3
<1> DEFINE s == CHOOSE f : Are(f, N)
<1>5. Are(s, N)
  BY <1>3, <1>4
<1>6. Rounds(fields, values, table, order) = s
  BY DEF Rounds, N, Start0, Go
<1> HIDE DEF s
<1>7. s[0] = Start0 /\ \A i \in 1 .. N : s[i] = Go(s[i - 1], i)
  BY <1>5 DEF N
<1> QED
  BY <1>6, <1>7 DEF N, Start0, Go

(* An order of a table's keys has each of them.                            *)
LEMMA OrdersAreWhole ==
  ASSUME NEW S, IsFiniteSet(S), NEW order \in SetToSeqs(S)
  PROVE  /\ Len(order) \in Nat
         /\ \A i \in 1 .. Len(order) : order[i] \in S
         /\ \A x \in S : \E i \in 1 .. Len(order) : order[i] = x
<1> DEFINE N == Cardinality(S)
<1>1. N \in Nat
  BY FS_CardinalityType
<1>2. order \in [1 .. N -> S] /\ \A i, j \in 1 .. N : i # j => order[i] # order[j]
  BY DEF SetToSeqs
<1> HIDE DEF N
<1>3. Len(order) = N
  BY <1>1, <1>2
<1>4. order \in Injection(1 .. N, S)
  BY <1>2 DEF Injection, IsInjective
<1>5. IsFiniteSet(1 .. N) /\ Cardinality(1 .. N) = N
  BY <1>1, FS_Interval
<1>6. order \in Surjection(1 .. N, S)
  BY <1>4, <1>5, FS_Injection DEF N
<1>7. \A x \in S : \E i \in 1 .. N : order[i] = x
  BY <1>6 DEF Surjection
<1> QED
  BY <1>1, <1>2, <1>3, <1>7

(* In whatever order the keys are taken, each field has in the end the     *)
(* value of a key that names it, or the value it had if none does.         *)
LEMMA UnifySays ==
  ASSUME NEW fields, Structure(fields), NEW values, DOMAIN values = DOMAIN fields,
         NEW table, IsFiniteSet(DOMAIN table),
         NEW s \in Unify(fields, values, table), s.ok
  PROVE  /\ DOMAIN s.values = DOMAIN fields
         /\ \A k \in DOMAIN fields : s.values[k] \in Says(table, fields[k], values[k])
<1>1. PICK order \in SetToSeqs(DOMAIN table) :
        s = Rounds(fields, values, table, order)[Len(order)]
  BY DEF Unify
<1> DEFINE r == Rounds(fields, values, table, order)
           N == Len(order)
           By(i, k) == {j \in 1 .. i : Folded[order[j]] = Folded[fields[k].name]}
           Said(i, k) == IF By(i, k) = {} THEN {values[k]}
                         ELSE {table[order[j]].value : j \in By(i, k)}
           Right(i) == r[i].ok => /\ DOMAIN r[i].values = DOMAIN fields
                                  /\ \A k \in DOMAIN fields : r[i].values[k] \in Said(i, k)
           All == {i \in Nat : i <= N => Right(i)}
<1>2. N \in Nat /\ (\A x \in DOMAIN table : \E i \in 1 .. N : order[i] = x)
      /\ \A i \in 1 .. N : order[i] \in DOMAIN table
  BY OrdersAreWhole
<1>3. /\ r[0] = [ok |-> TRUE, values |-> values]
      /\ \A i \in 1 .. N : r[i] = UnifyKey(r[i - 1], fields, table, order[i])
  BY <1>2, RoundsAre
<1> HIDE DEF r, N
<1>4. 0 \in All
  BY <1>3
<1>5. ASSUME NEW i \in Nat, i \in All
      PROVE  i + 1 \in All
  <2> HIDE DEF By, Said
  <2> SUFFICES ASSUME i + 1 <= N, r[i + 1].ok
               PROVE  /\ DOMAIN r[i + 1].values = DOMAIN fields
                      /\ \A k \in DOMAIN fields : r[i + 1].values[k] \in Said(i + 1, k)
    BY <1>5
  <2> DEFINE key == order[i + 1]
             n == FieldOf(fields, key)
  <2>1. r[i + 1] = UnifyKey(r[i], fields, table, key)
    BY <1>2, <1>3
  <2>2. r[i].ok /\ (n # 0 => r[i + 1].values = [r[i].values EXCEPT ![n] = table[key].value])
        /\ (n = 0 => r[i + 1] = r[i])
    BY <2>1 DEF UnifyKey
  <2>3. Right(i)
    BY <1>2, <1>5
  <2>4. ASSUME NEW k \in DOMAIN fields
        PROVE  By(i + 1, k) = IF Folded[key] = Folded[fields[k].name]
                              THEN By(i, k) \cup {i + 1} ELSE By(i, k)
    BY <1>5 DEF By
  <2>5. ASSUME NEW k \in DOMAIN fields
        PROVE  r[i + 1].values[k] \in Said(i + 1, k)
    <3>1. r[i].values[k] \in Said(i, k)
      BY <2>2, <2>3
    <3>2. CASE Folded[key] = Folded[fields[k].name]
      <4>1. n = k /\ k # 0
        <5>1. n = k
          BY <3>2, FieldIsFound
        <5>2. k # 0
          BY DEF Structure
        <5> QED
          BY <5>1, <5>2
      <4>2. r[i + 1].values[k] = table[key].value
        BY <2>2, <2>3, <4>1
      <4>3. i + 1 \in By(i + 1, k)
        BY <2>4, <3>2
      <4> QED
        BY <4>2, <4>3 DEF Said
    <3>3. CASE Folded[key] # Folded[fields[k].name]
      <4>1. n # k
        <5>1. CASE \E m \in DOMAIN fields : Folded[fields[m].name] = Folded[key]
          BY <3>3, <5>1, FieldIsFound
        <5>2. CASE \A m \in DOMAIN fields : Folded[fields[m].name] # Folded[key]
          <6>1. n = 0
            BY <5>2, NoFieldIsFound
          <6> QED
            BY <6>1 DEF Structure
        <5> QED
          BY <5>1, <5>2
      <4>2. r[i + 1].values[k] = r[i].values[k]
        BY <2>2, <2>3, <4>1
      <4>3. Said(i + 1, k) = Said(i, k)
        BY <2>4, <3>3 DEF Said
      <4> QED
        BY <3>1, <4>2, <4>3
    <3> QED
      BY <3>2, <3>3
  <2>6. DOMAIN r[i + 1].values = DOMAIN fields
    BY <2>2, <2>3
  <2> QED
    BY <2>5, <2>6
<1>6. Nat \subseteq All
  <2> HIDE DEF All
  <2> QED
    BY <1>4, <1>5, Induction
<1>7. Right(N)
  <2> HIDE DEF By, Said
  <2> QED
    BY <1>2, <1>6
<1>8. s = r[N]
  BY <1>1 DEF r, N
<1>9. ASSUME NEW k \in DOMAIN fields
      PROVE  Said(N, k) = Says(table, fields[k], values[k])
  <2> DEFINE keys == {x \in DOMAIN table : Folded[x] = Folded[fields[k].name]}
  <2>1. By(N, k) = {} <=> keys = {}
    BY <1>2
  <2>2. {table[order[j]].value : j \in By(N, k)} = {table[x].value : x \in keys}
    BY <1>2
  <2> QED
    BY <2>1, <2>2 DEF Says
<1> QED
  BY <1>7, <1>8, <1>9
-----------------------------------------------------------------------------
(* The settings and the templates so far come from their keys, except that *)
(* the default node may be among the settings until it is refused.         *)
FromKeys == \A k \in DOMAIN Settings : settings[k] \in Says(confd, Settings[k], flags[k])
TellsOf(content, tr) ==
  \A k \in DOMAIN Fields :
    tr[k] \in {Given(Fields[k], v) : v \in Says(content, Fields[k], Blank[k])}
Configuring == {"config", "read", "keyring", "new"}
FieldsInv ==
  /\ at \in Configuring => DOMAIN settings = DOMAIN Settings
  /\ at \in {"config", "read"} => settings = flags /\ confd = <<>>
  /\ at = "keyring" => FromKeys
  /\ at = "new" => FromKeys \/ Setting("nodes") = {DefaultNode}
  /\ at = "confdir" => FromKeys
  /\ Len(decoded) <= Len(result)
  /\ \A m \in 1 .. Len(templates) : \E n \in 1 .. Len(decoded) :
       templates[m].path = result[n] /\ TellsOf(decoded[n], templates[m].tr)

LEMMA StructuresAre == Structure(Fields) /\ Structure(Settings)
BY FieldsAssumption DEF Structure

LEMMA SaysNothing ==
  ASSUME NEW f, NEW v
  PROVE  Says(<<>>, f, v) = {v}
<1>1. DOMAIN <<>> = {}
  OBVIOUS
<1> QED
  BY <1>1 DEF Says

(* What is read from a file is a table with finitely many keys.            *)
LEMMA TablesAreFinite ==
  ASSUME LoadInv, NEW p, NEW e \in Stat(p), e.kind = "file", e.content \notin Unparsed
  PROVE  IsFiniteSet(DOMAIN e.content)
BY StatIs, FieldsAssumption DEF LoadInv

(* A resource that is loaded is what its content says.                     *)
LEMMA ResourceTells ==
  ASSUME NEW c, c \notin Unparsed => IsFiniteSet(DOMAIN c), NEW tr \in NewTemplateResource(c)
  PROVE  TellsOf(c, tr)
<1>1. PICK s \in Decoded(c) : Good(s) /\ tr = WithUid(s.values)
  BY DEF NewTemplateResource
<1>2. c \notin Unparsed
  <2>1. ASSUME c \in Unparsed
        PROVE  Decoded(c) = {[ok |-> FALSE, values |-> Blank]}
    BY <2>1 DEF Decoded
  <2>2. s.ok
    BY <1>1 DEF Good
  <2> QED
    BY <1>1, <2>1, <2>2
<1>3. s \in Unify(Fields, Blank, c) /\ s.ok
  BY <1>1, <1>2 DEF Decoded, Good
<1>4. DOMAIN Blank = DOMAIN Fields
  BY DEF Blank
<1>5. /\ DOMAIN s.values = DOMAIN Fields
      /\ \A k \in DOMAIN Fields : s.values[k] \in Says(c, Fields[k], Blank[k])
  BY <1>2, <1>3, <1>4, StructuresAre, UnifySays
<1>6. PICK u \in DOMAIN Fields : Fields[u].name = "Uid"
  BY FieldsAssumption
<1>7. FieldOf(Fields, "Uid") = u
  BY <1>6, StructuresAre, FieldIsFound
<1>8. ASSUME NEW k \in DOMAIN Fields
      PROVE  tr[k] = Given(Fields[k], s.values[k])
  <2>1. Fields[k].name = "Uid" <=> k = u
    BY <1>6, StructuresAre DEF Structure
  <2>2. tr = [s.values EXCEPT ![u] = IF s.values[u] = -1 THEN Euid ELSE s.values[u]]
    BY <1>1, <1>7 DEF WithUid
  <2> QED
    BY <1>5, <2>1, <2>2 DEF Given
<1> QED
  BY <1>5, <1>8 DEF TellsOf

(* The steps of initConfig and of NewNacosClient.                          *)
LEMMA SettingsKeepFields ==
  ASSUME LoadInv, FieldsInv,
         TestConfigFile \/ ReadConfigFile \/ EndInitConfig \/ NewClient
  PROVE  FieldsInv'
<1>1. UNCHANGED load /\ flags' = flags
  BY DEF TestConfigFile, ReadConfigFile, EndInitConfig, NewClient, Start
<1>2. /\ (Len(decoded) <= Len(result))'
      /\ (\A m \in 1 .. Len(templates) : \E n \in 1 .. Len(decoded) :
            templates[m].path = result[n] /\ TellsOf(decoded[n], templates[m].tr))'
  BY <1>1 DEF FieldsInv, load, walk
<1>3. CASE TestConfigFile
  <2>1. /\ at = "config" /\ at' \in {"keyring", "read"}
        /\ settings' = settings /\ confd' = confd
    BY <1>3 DEF TestConfigFile
  <2>2. DOMAIN settings = DOMAIN Settings /\ settings = flags /\ confd = <<>>
    BY <2>1 DEF FieldsInv, Configuring
  <2>3. FromKeys'
    BY <1>1, <2>1, <2>2, SaysNothing DEF FromKeys
  <2> QED
    BY <1>1, <1>2, <2>1, <2>2, <2>3 DEF FieldsInv
<1>4. CASE ReadConfigFile
  <2>1. at = "read" /\ DOMAIN settings = DOMAIN Settings /\ settings = flags
    BY <1>4 DEF ReadConfigFile, FieldsInv, Configuring
  <2>2. CASE at' \in {"fatal", "panic"}
    BY <1>2, <2>2 DEF FieldsInv, Configuring
  <2>3. CASE at' \notin {"fatal", "panic"}
    <3>1. PICK e \in Stat(ConfigFile) :
            /\ e.kind = "file" /\ e.content \notin Unparsed /\ confd' = e.content
            /\ \E s \in Unify(Settings, settings, e.content) :
                 settings' = s.values /\ s.ok /\ at' = "keyring"
      BY <1>4, <2>3 DEF ReadConfigFile
    <3>2. IsFiniteSet(DOMAIN e.content)
      BY <3>1, TablesAreFinite
    <3>3. /\ DOMAIN settings' = DOMAIN Settings
          /\ \A k \in DOMAIN Settings : settings'[k] \in Says(e.content, Settings[k], settings[k])
      BY <2>1, <3>1, <3>2, StructuresAre, UnifySays
    <3>4. FromKeys'
      BY <1>1, <2>1, <3>1, <3>3 DEF FromKeys
    <3> QED
      BY <1>2, <3>1, <3>3, <3>4 DEF FieldsInv
  <2> QED
    BY <2>2, <2>3
<1>5. CASE EndInitConfig
  <2>1. /\ at = "keyring" /\ at' \in {"new", "fatal"} /\ confd' = confd
        /\ \/ settings' = settings
           \/ settings' = [settings EXCEPT ![FieldOf(Settings, "nodes")] = {DefaultNode}]
    BY <1>5 DEF EndInitConfig
  <2>2. DOMAIN settings = DOMAIN Settings /\ FromKeys
    BY <2>1 DEF FieldsInv, Configuring
  <2>3. PICK n \in DOMAIN Settings : FieldOf(Settings, "nodes") = n
    BY FieldsAssumption, StructuresAre, FieldIsFound
  <2>4. DOMAIN settings' = DOMAIN Settings
    BY <2>1, <2>2
  <2>5. CASE settings' = settings
    <3>1. FromKeys'
      BY <1>1, <2>1, <2>2, <2>5 DEF FromKeys
    <3> QED
      BY <1>2, <2>1, <2>4, <3>1 DEF FieldsInv
  <2>6. CASE settings' = [settings EXCEPT ![FieldOf(Settings, "nodes")] = {DefaultNode}]
    <3>1. Setting("nodes")' = {DefaultNode}
      BY <2>2, <2>3, <2>6 DEF Setting
    <3> QED
      BY <1>2, <2>1, <2>4, <3>1 DEF FieldsInv
  <2> QED
    BY <2>1, <2>5, <2>6
<1>6. CASE NewClient
  <2>1. /\ at = "new" /\ at' \in {"confdir", "fatal"}
        /\ settings' = settings /\ confd' = confd
        /\ at' = "confdir" => NodesParse(Setting("nodes"))
    BY <1>6 DEF NewClient
  <2>2. CASE at' = "fatal"
    BY <1>2, <2>2 DEF FieldsInv, Configuring
  <2>3. CASE at' = "confdir"
    <3>1. Setting("nodes") # {DefaultNode}
      BY <2>1, <2>3, FieldsAssumption DEF NodesParse
    <3>2. FromKeys'
      BY <1>1, <2>1, <3>1 DEF FieldsInv, FromKeys
    <3> QED
      BY <1>2, <2>3, <3>2 DEF FieldsInv, Configuring
  <2> QED
    BY <2>1, <2>2, <2>3
<1> QED
  BY <1>3, <1>4, <1>5, <1>6

(* A file of the list is loaded.                                           *)
LEMMA LoadKeepsFields ==
  ASSUME LoadInv, FieldsInv, Load
  PROVE  FieldsInv'
<1> DEFINE l == Len(decoded) + 1
           p == result[l]
<1>1. at' \notin Configuring \cup {"confdir"} /\ result' = result /\ l <= Len(result)
  <2>1. Len(decoded) \in Nat /\ Len(result) \in Nat
    BY LenProperties DEF LoadInv, TypeOK
  <2>2. at' \in {"load", "panic"}
    BY DEF Load
  <2>3. result' = result /\ Len(decoded) < Len(result)
    BY DEF Load, walk
  <2> QED
    BY <2>1, <2>2, <2>3 DEF Configuring
<1>2. /\ decoded \in Seq(Contents) /\ Len(decoded) \in Nat /\ Len(templates) \in Nat
      /\ templates \in Seq([path : Paths, tr : Resources])
      /\ result \in Seq(Paths) /\ Len(result) \in Nat
  BY LenProperties DEF LoadInv, TypeOK
<1>3. p \in Paths
  BY <1>1, <1>2, ElementOfSeq
<1> DEFINE file == {e \in Stat(p) : e.kind = "file"}
<1>4. \/ \E e \in file :
           /\ decoded' = Append(decoded, e.content)
           /\ \/ templates' = templates
              \/ \E tr \in NewTemplateResource(e.content) :
                   templates' = Append(templates, [path |-> p, tr |-> tr])
      \/ decoded' = Append(decoded, NotToml) /\ templates' = templates
  BY DEF Load
<1>5. ASSUME NEW e \in file
      PROVE  e.content \in Contents /\ (e.content \notin Unparsed => IsFiniteSet(DOMAIN e.content))
  BY <1>5, StatIs, TablesAreFinite DEF LoadInv, Contents
<1> HIDE DEF p, file
<1>6. PICK c \in Contents : /\ decoded' = Append(decoded, c)
                            /\ c \notin Unparsed => IsFiniteSet(DOMAIN c)
                            /\ \/ templates' = templates
                               \/ \E tr \in NewTemplateResource(c) :
                                    templates' = Append(templates, [path |-> p, tr |-> tr])
  BY <1>4, <1>5 DEF Contents, Unparsed
<1>7. /\ Len(decoded') = l /\ decoded'[l] = c
      /\ \A n \in 1 .. Len(decoded) : decoded'[n] = decoded[n]
  BY <1>2, <1>6, AppendProperties
<1>8. ASSUME NEW m \in 1 .. Len(templates)
      PROVE  \E n \in 1 .. Len(decoded') :
               templates[m].path = result[n] /\ TellsOf(decoded'[n], templates[m].tr)
  <2>1. PICK n \in 1 .. Len(decoded) :
          templates[m].path = result[n] /\ TellsOf(decoded[n], templates[m].tr)
    BY DEF FieldsInv
  <2>2. n \in 1 .. Len(decoded')
    BY <1>2, <1>7
  <2> QED
    BY <1>7, <2>1, <2>2
<1>9. CASE templates' = templates
  BY <1>1, <1>7, <1>8, <1>9 DEF FieldsInv, TellsOf, Configuring
<1>10. ASSUME NEW tr \in NewTemplateResource(c),
              templates' = Append(templates, [path |-> p, tr |-> tr])
       PROVE  FieldsInv'
  <2>1. /\ Len(templates') = Len(templates) + 1
        /\ templates'[Len(templates) + 1] = [path |-> p, tr |-> tr]
        /\ \A m \in 1 .. Len(templates) : templates'[m] = templates[m]
    <3>1. tr \in Resources
      BY DEF Resources
    <3>2. [path |-> p, tr |-> tr] \in [path : Paths, tr : Resources]
      BY <1>3, <3>1
    <3> HIDE DEF Resources
    <3> QED
      BY <1>2, <1>10, <3>2, AppendProperties
  <2>2. TellsOf(c, tr)
    BY <1>6, ResourceTells
  <2>3. ASSUME NEW m \in 1 .. Len(templates')
        PROVE  \E n \in 1 .. Len(decoded') :
                 templates'[m].path = result[n] /\ TellsOf(decoded'[n], templates'[m].tr)
    <3>1. CASE m \in 1 .. Len(templates)
      BY <1>8, <2>1, <3>1
    <3>2. CASE m = Len(templates) + 1
      <4>1. templates'[m].path = result[l] /\ templates'[m].tr = tr
        BY <2>1, <3>2 DEF p
      <4>2. l \in 1 .. Len(decoded')
        BY <1>2, <1>7
      <4> QED
        BY <1>7, <2>2, <4>1, <4>2
    <3>3. m \in 1 .. Len(templates) \/ m = Len(templates) + 1
      BY <1>2, <2>1
    <3> QED
      BY <3>1, <3>2, <3>3
  <2> QED
    BY <1>1, <1>7, <2>3 DEF FieldsInv, TellsOf, Configuring
<1> QED
  BY <1>6, <1>9, <1>10

(* The other steps leave the settings alone or are past them, and find     *)
(* something only before anything is loaded.                               *)
LEMMA OtherStepsKeepFields ==
  ASSUME LoadInv, LoadInv', FieldsInv,
         \/ TestConfDir \/ Lookup \/ WalkLstat \/ ReadDir \/ Callback \/ WalkOn \/ Return
         \/ Others \/ UNCHANGED vars
  PROVE  FieldsInv'
<1>1. templates' = templates /\ decoded' = decoded
  BY DEF TestConfDir, Lookup, WalkLstat, ReadDir, Callback, WalkOn, Return, Others,
         Delete, Put, Change, vars, load
<1>2. \/ at' = at /\ UNCHANGED start
      \/ at' \notin Configuring \cup {"confdir"}
  BY DEF TestConfDir, Lookup, WalkLstat, ReadDir, Callback, WalkOn, Return, Others,
         Delete, Put, Change, vars, Configuring
<1>3. result' = result \/ at \in {"lookup", "callback"}
  BY DEF TestConfDir, Lookup, WalkLstat, ReadDir, Callback, WalkOn, Return, Others,
         Delete, Put, Change, vars, load, walk
<1>4. /\ Len(decoded) <= Len(result')
      /\ \A m \in 1 .. Len(templates) : \E n \in 1 .. Len(decoded) :
           templates[m].path = result'[n] /\ TellsOf(decoded[n], templates[m].tr)
  <2>1. CASE result' = result
    BY <2>1 DEF FieldsInv
  <2>2. CASE at \in {"lookup", "callback"}
    <3>1. decoded = <<>> /\ templates = <<>>
      BY <2>2 DEF LoadInv, InOrderOfCalls, Starting, Walking, Visiting
    <3>2. Len(result') \in Nat
      BY LenProperties DEF LoadInv, TypeOK
    <3> QED
      BY <3>1, <3>2
  <2> QED
    BY <1>3, <2>1, <2>2
<1>5. CASE at' = at /\ UNCHANGED start
  BY <1>1, <1>4, <1>5 DEF FieldsInv, FromKeys, Setting, start
<1>6. CASE at' \notin Configuring \cup {"confdir"}
  BY <1>1, <1>4, <1>6 DEF FieldsInv, Configuring
<1> QED
  BY <1>2, <1>5, <1>6

(* Each field of a resource has the value of a key that names it, as it    *)
(* was in the file when that was read, in whatever order the keys are      *)
(* taken, for structures with any fields and tables with any keys; the     *)
(* settings come from the configuration file and the flags in the same     *)
(* way, and never have the default node (decode.go:244, config.go:112).    *)
THEOREM ValuesFollowKeys == Spec => []FieldsFromTheirKeys
<1>1. Init => FieldsInv
  <2> SUFFICES ASSUME Init PROVE FieldsInv
    OBVIOUS
  <2>1. at = "config" /\ settings = flags /\ confd = <<>>
        /\ templates = <<>> /\ decoded = <<>> /\ result = <<>>
    BY DEF Init
  <2>2. DOMAIN settings = DOMAIN Settings
    BY <2>1, FieldsAssumption DEF Init
  <2> QED
    BY <2>1, <2>2 DEF FieldsInv
<1>2. LoadInv /\ LoadInv' /\ FieldsInv /\ [Next]_vars => FieldsInv'
  <2> SUFFICES ASSUME LoadInv, LoadInv', FieldsInv, [Next]_vars PROVE FieldsInv'
    OBVIOUS
  <2>1. CASE TestConfigFile \/ ReadConfigFile \/ EndInitConfig \/ NewClient
    BY <2>1, SettingsKeepFields
  <2>2. CASE Load
    BY <2>2, LoadKeepsFields
  <2>3. CASE \/ TestConfDir \/ Lookup \/ WalkLstat \/ ReadDir \/ Callback \/ WalkOn
             \/ Return \/ Others \/ UNCHANGED vars
    BY <2>3, OtherStepsKeepFields
  <2> QED
    BY <2>1, <2>2, <2>3 DEF Next, Others
<1>3. LoadInv /\ FieldsInv => FieldsFromTheirKeys
  <2> SUFFICES ASSUME LoadInv, FieldsInv PROVE FieldsFromTheirKeys
    OBVIOUS
  <2>1. ASSUME NEW m \in DOMAIN templates, NEW n \in DOMAIN decoded,
               templates[m].path = result[n]
        PROVE  TellsOf(decoded[n], templates[m].tr)
    <3>1. /\ DOMAIN templates = 1 .. Len(templates) /\ DOMAIN decoded = 1 .. Len(decoded)
          /\ Len(decoded) \in Nat /\ Len(result) \in Nat /\ Len(decoded) <= Len(result)
      BY LenProperties DEF LoadInv, TypeOK, FieldsInv
    <3>2. PICK o \in 1 .. Len(decoded) :
            templates[m].path = result[o] /\ TellsOf(decoded[o], templates[m].tr)
      BY <3>1 DEF FieldsInv
    <3>3. n \in 1 .. Len(result) /\ o \in 1 .. Len(result)
      BY <3>1
    <3>4. o = n
      BY <2>1, <3>2, <3>3 DEF LoadInv, OnlyOnce
    <3> QED
      BY <3>2, <3>4
  <2>2. at = "confdir" => FromKeys
    BY DEF FieldsInv
  <2> QED
    BY <2>1, <2>2 DEF FieldsFromTheirKeys, TellsOf, FromKeys
<1> QED
  BY <1>1, <1>2, <1>3, LoadInvariant, PTL DEF Spec
=============================================================================
