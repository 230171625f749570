----------------------------- MODULE TemplateData -----------------------------
(***************************************************************************)
(* What a template can read: how the keys of a template resource become    *)
(* data ids in Nacos and keys in the store (resource.go: setVars; util.go: *)
(* AppendPrefix; nacos/client.go: GetValues), and what the store's and the *)
(* template's functions answer (memkv/store.go, template_funcs.go).        *)
(*                                                                         *)
(* A text is the sequence of its characters, because prefixes are cut off  *)
(* and compared as texts and not as paths: "/a" begins "/ab".  A datum is  *)
(* known by what Nacos was asked for.  Go iterates over a map in any order.*)
(***************************************************************************)
EXTENDS Integers, Sequences, SequencesExt

CONSTANTS
  Rank,      \* the characters, with their order
  Resources, \* configurations: the prefix of confd's configuration, that of
             \* the resource's file, and its keys
  Paths,     \* arguments of ls and lsdir
  Patterns,  \* arguments of gets and getvs
  Least, Greatest,  \* the range of an int
  Memory     \* how many numbers fit into the memory

ASSUME DataAssumption ==
  /\ Rank \in [DOMAIN Rank -> Int] /\ {"/", ".", "*"} \subseteq DOMAIN Rank
  /\ \A c, d \in DOMAIN Rank : Rank[c] = Rank[d] => c = d
  /\ Resources \subseteq [config : Seq(DOMAIN Rank), file : Seq(DOMAIN Rank),
                          keys : Seq(Seq(DOMAIN Rank))]
  /\ Paths \cup Patterns \subseteq Seq(DOMAIN Rank)
  /\ Least \in Int /\ Greatest \in Int /\ Least < Greatest
  /\ Memory \in Nat

VARIABLES
  resource,  \* the configuration
  prefix,    \* t.Prefix
  at,        \* "pass", "set", "render" or "dead"
  result,    \* setVars' result, as far as it is not yet in the store
  store,     \* t.store
  answer,    \* what the template was last given, and for which call
  i          \* Seq's variable

vars == <<resource, prefix, at, result, store, answer, i>>

-----------------------------------------------------------------------------
(* The path package, on texts.                                             *)
Slash == <<"/">>

(* strings.Split(s, "/"), character by character, and strings.Join(ps, by) *)
WithCharacter(parts, c) ==
  IF c = "/" THEN Append(parts, <<>>)
             ELSE [parts EXCEPT ![Len(parts)] = Append(@, c)]
Split(s) ==
  LET after[n \in 0 .. Len(s)] ==
        IF n = 0 THEN <<<<>>>> ELSE WithCharacter(after[n - 1], s[n])
  IN after[Len(s)]

WithPart(s, by, p) == IF s = <<>> THEN p ELSE s \o by \o p
Joined(ps, by) ==
  LET after[n \in 0 .. Len(ps)] ==
        IF n = 0 THEN <<>> ELSE WithPart(after[n - 1], by, ps[n])
  IN after[Len(ps)]

(* path.Clean, part by part.                                               *)
Up == <<".", ".">>
NoName == {<<>>, <<".">>}
WithName(ns, p, rooted) ==
  IF p \in NoName THEN ns
  ELSE IF p # Up \/ (~rooted /\ (ns = <<>> \/ Last(ns) = Up)) THEN Append(ns, p)
       ELSE IF ns = <<>> THEN ns ELSE Front(ns)
Names(ps, rooted) ==
  LET after[n \in 0 .. Len(ps)] ==
        IF n = 0 THEN <<>> ELSE WithName(after[n - 1], ps[n], rooted)
  IN after[Len(ps)]
Clean(s) ==
  LET p == Joined(Names(Split(s), IsPrefix(Slash, s)), Slash)
  IN IF IsPrefix(Slash, s) THEN Slash \o p ELSE IF p = <<>> THEN <<".">> ELSE p

(* path.Join(s, t), path.Dir and path.Base                                 *)
Join(s, t) ==
  IF s \o t = <<>> THEN <<>>
  ELSE Clean(IF s = <<>> THEN t ELSE IF t = <<>> THEN s ELSE s \o Slash \o t)
Dir(s) == Clean(SubSeq(s, 1, SelectLastInSeq(s, LAMBDA c : c = "/")))
Base(s) ==
  LET n == SelectLastInSeq(Split(s), LAMBDA p : p # <<>>)
  IN IF s = <<>> THEN <<".">> ELSE IF n = 0 THEN Slash ELSE Split(s)[n]

(* strings.TrimPrefix                                                      *)
TrimPrefix(s, p) == IF IsPrefix(p, s) THEN SubSeq(s, Len(p) + 1, Len(s)) ELSE s

(* path.Match for patterns whose terms are names or a single *.            *)
Match(pattern, s) ==
  LET ps == Split(pattern) ss == Split(s)
  IN Len(ps) = Len(ss)
       /\ \A n \in DOMAIN ps : ps[n] \in {<<"*">>, ss[n]}

(* The order of texts, and sort.Strings and sort.Sort: it tells all texts  *)
(* apart, so that there is one result.                                     *)
Less(s, t) ==
  \/ IsStrictPrefix(s, t)
  \/ \E n \in DOMAIN s \cap DOMAIN t :
       /\ SubSeq(s, 1, n - 1) = SubSeq(t, 1, n - 1)
       /\ Rank[s[n]] < Rank[t[n]]
Insert(list, s) ==
  LET n == SelectInSeq(list, LAMBDA t : Less(s, t))
  IN IF n = 0 THEN Append(list, s) ELSE InsertAt(list, n, s)
Sorted(texts) ==
  LET after[n \in 0 .. Len(texts)] ==
        IF n = 0 THEN <<>> ELSE Insert(after[n - 1], texts[n])
  IN after[Len(texts)]
-----------------------------------------------------------------------------
NoAnswer == [call |-> "none", arg |-> <<>>, list |-> <<>>]

(* NewTemplateResource: confd's prefix before the file's, and a slash.     *)
Prefix(r) ==
  LET p == IF r.config # <<>> THEN r.config ELSE r.file
  IN IF IsPrefix(Slash, p) THEN p ELSE Slash \o p

Init ==
  /\ resource \in Resources
  /\ prefix = Prefix(resource)
  /\ at = "pass" /\ result = <<>> /\ store = <<>>
  /\ answer = NoAnswer /\ i = 0

AppendPrefix(p, keys) == {Join(p, k) : k \in ToSet(keys)}

(* The data id or the service that GetValues asks for.                     *)
DataId(key) == ReplaceAll(TrimPrefix(key, Slash), "/", ".")
Asked(id) == [kind |-> IF IsPrefix(<<"n", ".">>, id) THEN "service" ELSE "config",
              id |-> id]

(* setVars: GetValues, Purge,                                              *)
GetValues ==
  /\ at = "pass"
  /\ result' = [k \in AppendPrefix(prefix, resource.keys) |-> Asked(DataId(k))]
  /\ store' = <<>>
  /\ at' = "set"
  /\ UNCHANGED <<resource, prefix, answer, i>>

(* and the loop over the result, with the key that is stored.              *)
StoreKeyUnjoined(k) == TrimPrefix(k, prefix)                       \* mutant
StoreKey(k) == Join(Slash, TrimPrefix(k, prefix))
Set ==
  /\ at = "set"
  /\ \E k \in DOMAIN result :
       /\ store' = [j \in DOMAIN store \cup {StoreKey(k)} |->
                      IF j = StoreKey(k) THEN result[k] ELSE store[j]]
       /\ result' = [j \in DOMAIN result \ {k} |-> result[j]]
  /\ UNCHANGED <<resource, prefix, at, answer, i>>

Stored ==
  /\ at = "set" /\ DOMAIN result = {}
  /\ at' = "render"
  /\ UNCHANGED <<resource, prefix, result, store, answer, i>>
-----------------------------------------------------------------------------
(* memkv                                                                   *)
Exists(key) == key \in DOMAIN store
GetValue(key, default) == IF Exists(key) THEN store[key] ELSE default

(* What GetAll and GetAllValues make of the keys that match, in the order  *)
(* in which the map has given them.                                        *)
Matching(pattern) == {k \in DOMAIN store : Match(pattern, k)}
GetAllUnsorted(keys) == keys                                       \* mutant
GetAll(keys) == Sorted(keys)
GetAllValues(keys) ==
  Sorted([n \in DOMAIN keys |-> store[GetAll(keys)[n]].id])

Terms(s) == Split(Clean(s))
SamePrefixText(p, test) ==                                         \* mutant
  IsPrefix(FlattenSeq(p), FlattenSeq(test))
SamePrefixTerms(p, test) == IsPrefix(p, test)

List(path) ==
  LET strip(k) == TrimPrefix(TrimPrefix(k, path), Slash)
  IN {Base(k) : k \in DOMAIN store \cap {path}}
       \cup {Split(strip(k))[1] :
               k \in {j \in DOMAIN store \ {path} :
                        SamePrefixTerms(Terms(path), Terms(Dir(j)))}}
ListDir(path) ==
  {Terms(Dir(k))[Len(Terms(path)) + 1] :
     k \in {j \in DOMAIN store : /\ IsPrefix(path, j)
                                 /\ SamePrefixTerms(Terms(path), Terms(Dir(j)))
                                 /\ Len(Terms(Dir(j))) > Len(Terms(path))}}

(* A call from the template; lists are made of what the map's iteration,   *)
(* in some order, gives.  One call, and reverse of its answer, are enough: *)
(* no call depends on an earlier one.                                      *)
Fresh == answer = NoAnswer
Give(call, arg, list) ==
  /\ at = "render"
  /\ answer' = [call |-> call, arg |-> arg, list |-> list]
  /\ UNCHANGED <<resource, prefix, at, result, store>>

Gets(pattern) ==
  Fresh /\ \E order \in SetToSeqs(Matching(pattern)) :
    Give("gets", pattern, GetAll(order)) /\ UNCHANGED i
GetVs(pattern) ==
  Fresh /\ \E order \in SetToSeqs(Matching(pattern)) :
    Give("getvs", pattern, GetAllValues(order)) /\ UNCHANGED i
Ls(path) ==
  Fresh /\ \E order \in SetToSeqs(List(path)) :
    Give("ls", path, Sorted(order)) /\ UNCHANGED i
LsDir(path) ==
  Fresh /\ \E order \in SetToSeqs(ListDir(path)) :
    Give("lsdir", path, Sorted(order)) /\ UNCHANGED i

(* reverse turns a list of texts round where it stands; what gets returns  *)
(* has a type of its own, which Reverse does not know.                     *)
TurnRound ==
  /\ answer.call \in {"getvs", "ls", "lsdir"}
  /\ Give("reverse", answer.arg, Reverse(answer.list)) /\ UNCHANGED i

(* seq, one round of the loop after another; the memory may not suffice.   *)
Wrapped(n) == IF n = Greatest THEN Least ELSE n + 1
SeqGoesBefore(last) == i < last                                    \* mutant
SeqGoes(last) == i <= last
CallSeq(first, last) ==
  Fresh /\ Give("seq", <<first, last>>, <<>>) /\ i' = first
NextNumber ==
  /\ at = "render" /\ answer.call = "seq" /\ SeqGoes(answer.arg[2])
  /\ IF Len(answer.list) = Memory
     THEN at' = "dead" /\ UNCHANGED <<resource, prefix, result, store, answer, i>>
     ELSE Give("seq", answer.arg, Append(answer.list, i)) /\ i' = Wrapped(i)
EndOfSeq ==
  /\ answer.call = "seq" /\ ~SeqGoes(answer.arg[2])
  /\ Give("numbers", answer.arg, answer.list) /\ UNCHANGED i

Render ==
  \/ \E p \in Patterns : Gets(p) \/ GetVs(p)
  \/ \E p \in Paths : Ls(p) \/ LsDir(p)
  \/ TurnRound
  \/ \E first, last \in Least .. Greatest : CallSeq(first, last)
  \/ NextNumber
  \/ EndOfSeq

Next == GetValues \/ Set \/ Stored \/ Render

Spec == Init /\ [][Next]_vars
-----------------------------------------------------------------------------
(* The reference: paths as lists of names.                                 *)
NamesIn(ps) ==
  LET after[n \in 0 .. Len(ps)] ==
        IF n = 0 THEN <<>>
        ELSE IF ps[n] \in NoName THEN after[n - 1] ELSE Append(after[n - 1], ps[n])
  IN after[Len(ps)]
NamesOf(s) == NamesIn(Split(s))
UpFree(s) == Up \notin ToSet(Split(s))
Tidy(s) == s = Slash \o Joined(NamesOf(s), Slash) /\ UpFree(s)
TidyOrSlashed(s) ==
  Tidy(s) \/ (s # Slash /\ Last(s) = "/" /\ Tidy(SubSeq(s, 1, Len(s) - 1)))

(* Each key of the resource can be read under its own name, and what is    *)
(* read there is what Nacos has for the prefix and the key, whatever other *)
(* keys there are and in whatever order they are stored: what is put       *)
(* before the keys in AppendPrefix is what setVars takes away.             *)
(* It need not be so for a prefix that path.Join would change, for keys    *)
(* that go up, and for a key that is the prefix itself with a slash after  *)
(* it: there two keys may be stored under one name (resource.go:267).      *)
Plain ==
  /\ Tidy(prefix) \/ (TidyOrSlashed(prefix)
                        /\ \A k \in ToSet(resource.keys) : NamesOf(k) # <<>>)
  /\ \A k \in ToSet(resource.keys) : UpFree(k)
KeysServed ==
  at = "render" /\ Plain =>
    \A k \in ToSet(resource.keys) :
      GetValue(Slash \o Joined(NamesOf(k), Slash), NoAnswer)
        = Asked(Joined(NamesOf(prefix) \o NamesOf(k), <<".">>))

(* What a template lists is in order, although the map is not, so that     *)
(* equal stores give equal texts and confd reloads nothing without need    *)
(* (store.go:110, 126, 148, 168).                                          *)
Ordered(list, Before(_, _)) ==
  \A n, m \in DOMAIN list : n < m => Before(list[n], list[m])
AnswersOrdered ==
  /\ answer.call \in {"gets", "ls", "lsdir"} => Ordered(answer.list, Less)
  /\ answer.call = "getvs" => Ordered(answer.list, LAMBDA s, t : ~Less(t, s))
  /\ answer.call = "reverse" => Ordered(answer.list, LAMBDA s, t : ~Less(s, t))

(* For a path below the root ls gives the names below it, and the path's   *)
(* own name if it is a key; lsdir gives the names that have others below   *)
(* them (store.go:130, 152).  At the root the code gives less: ls only the *)
(* keys of one name, lsdir nothing.                                        *)
Below(path) == {k \in DOMAIN store : IsStrictPrefix(NamesOf(path), NamesOf(k))}
ListsWhatIsBelow ==
  at = "render" /\ Fresh =>
    \A path \in Paths :
      NamesOf(path) # <<>> /\ TidyOrSlashed(path) =>
        LET n == Len(NamesOf(path)) + 1
        IN /\ List(path) = {NamesOf(k)[n] : k \in Below(path)}
                             \cup {Base(k) : k \in DOMAIN store \cap {path}}
           /\ ListDir(path) = {NamesOf(k)[n] :
                                 k \in {j \in Below(path) : Len(NamesOf(j)) > n}}

(* seq gives the numbers from the first to the last; it runs out of memory *)
(* only if they do not fit, or if the last is the greatest int, where it   *)
(* does not end (template_funcs.go:70).                                    *)
SeqIsRange ==
  /\ answer.call = "numbers" =>
       LET first == answer.arg[1] last == answer.arg[2]
       IN answer.list = [n \in 1 .. (IF last < first THEN 0 ELSE last - first + 1)
                           |-> first + n - 1]
  /\ at = "dead" => \/ answer.arg[2] = Greatest
                   \/ answer.arg[2] - answer.arg[1] >= Memory
=============================================================================
