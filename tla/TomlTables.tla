------------------------------ MODULE TomlTables ------------------------------
(***************************************************************************)
(* Which definitions of tables and keys the TOML parser takes and which it *)
(* refuses (depends/toml/parse.go: establishContext, setValue and the      *)
(* implicit tables).  A step is one line of the text: a table header, an   *)
(* array header, a key with a value or with an inline table.               *)
(*                                                                         *)
(* p.mapping is flattened to a function from places to nodes.  A place is  *)
(* the path to a node; each of its steps is a name with the number of an   *)
(* element if the name is that of an array of tables, and with 0 if not.   *)
(* A value is known by the line that gave it.  What the metadata records   *)
(* (p.types, p.ordered) is read by nothing in confd and left out.          *)
(***************************************************************************)
EXTENDS Naturals, Sequences, SequencesExt

CONSTANTS
  Names,     \* names of keys, each as it stands between two dots
  Words,     \* the words of a name: one if it is bare, more if it is
             \* quoted and has dots in it
  Headers,   \* the keys a header may have
  Inlines,   \* the lists of names an inline table may have
  MaxLines   \* bound of a run

ASSUME TablesAssumption ==
  /\ Words \in [Names -> Seq(UNION {ToSet(Words[k]) : k \in Names}) \ {<<>>}]
  /\ \A j, k \in Names : Words[j] = Words[k] => j = k
  /\ Headers \subseteq Seq(Names) \ {<<>>}
  /\ Inlines \subseteq Seq(Names)
  /\ MaxLines \in Nat

VARIABLES
  tree,       \* p.mapping
  implicits,  \* p.implicits: the strings marked as created implicitly
  context,    \* p.context
  outcome,    \* "reading", "refused" (an error), or "panic"
  lines,      \* the lines read, at most MaxLines
  explicit,   \* history: the places of the tables the text has defined
  written,    \* history: how many values it has given
  legal,      \* history: every line so far is one TOML allows there
  odd         \* history: the unusual things the text has done

vars == <<tree, implicits, context, outcome, lines, explicit, written, legal,
          odd>>

Node(kind, n) == [kind |-> kind, n |-> n]
Table == Node("table", 0)          \* map[string]interface{}
Array(n) == Node("array", n)       \* []map[string]interface{} of n tables
Value(n) == Node("value", n)       \* anything else, given in line n

(* The nodes of two trees, and a tree of one node.                         *)
Over(f, g) ==
  [p \in DOMAIN f \cup DOMAIN g |-> IF p \in DOMAIN f THEN f[p] ELSE g[p]]
One(p, node) == [q \in {p} |-> node]

Init ==
  /\ tree = <<>> /\ implicits = {} /\ context = <<>> /\ outcome = "reading"
  /\ lines = 0 /\ explicit = {} /\ written = 0 /\ legal = TRUE /\ odd = {}
-----------------------------------------------------------------------------
(* Key.String: the names joined with dots, so that a dot in a quoted name  *)
(* is not told from one between names.                                     *)
String(key) == FlattenSeq([i \in DOMAIN key |-> Words[key[i]]])

(* hash[k] *)
At(hash, k) == Append(hash, <<k, 0>>)

(* The hash at a place: the table itself, or the last of an array.         *)
Within(t, at) ==
  IF t[at].kind = "array" THEN Append(Front(at), <<Last(at)[1], t[at].n>>)
                          ELSE at

AddImplicit(marks, key) == marks \cup {String(key)}
RemoveNoImplicit(marks, key) == marks                              \* mutant
RemoveImplicit(marks, key) == marks \ {String(key)}

(* One round of establishContext's loop.                                   *)
EnterOrCreate(s, k) ==
  LET at == At(s.hash, k)
      key == Append(s.key, k)
      new == at \notin DOMAIN s.tree
      t == IF new THEN Over(s.tree, One(at, Table)) ELSE s.tree
      marks == IF new THEN AddImplicit(s.implicits, key) ELSE s.implicits
  IN IF s.outcome # "reading" THEN s
     ELSE CASE t[at].kind = "value" -> [s EXCEPT !.outcome = "refused"]
            [] t[at] = Array(0)     -> [s EXCEPT !.outcome = "panic"]
            [] OTHER -> [hash |-> Within(t, at), key |-> key, tree |-> t,
                         implicits |-> marks, outcome |-> "reading"]

(* establishContext's loop, over all names of a header but the last.       *)
Establishing(key) ==
  LET after[i \in 0 .. Len(key) - 1] ==
        IF i = 0 THEN [hash |-> <<>>, key |-> <<>>, tree |-> tree,
                       implicits |-> implicits, outcome |-> "reading"]
        ELSE EnterOrCreate(after[i - 1], key[i])
  IN after
Establish(key) == Establishing(key)[Len(key) - 1]

(* setValue's walk along p.context: the hash it comes to, or none, which   *)
(* is one of its two p.bug.                                                *)
Enter(t, hashes, k) ==
  {Within(t, At(h, k)) : h \in {g \in hashes : /\ At(g, k) \in DOMAIN t
                                              /\ t[At(g, k)].kind # "value"
                                              /\ t[At(g, k)] # Array(0)}}
Walk(t, ctx) ==
  LET after[i \in 0 .. Len(ctx)] ==
        IF i = 0 THEN {<<>>} ELSE Enter(t, after[i - 1], ctx[i])
  IN after
Hash(t, ctx) == Walk(t, ctx)[Len(ctx)]

(* new, a function from places to nodes, hung up at a place.               *)
Hang(at, new) ==
  [p \in {at \o q : q \in DOMAIN new} |-> new[SubSeq(p, Len(at) + 1, Len(p))]]

(* setValue, in the context ctx: a key that is there already is refused,   *)
(* unless the string of its path is marked as an implicit table's; then    *)
(* the mark goes and the new value is dropped.                             *)
SetOver(s, ctx, k, new) ==                                         \* mutant
  [s EXCEPT !.tree = Over(Hang(At(CHOOSE h \in Hash(s.tree, ctx) : TRUE, k), new), @)]
SetValue(s, ctx, k, new) ==
  LET hs == Hash(s.tree, ctx)
      at == At(CHOOSE h \in hs : TRUE, k)
      key == Append(ctx, k)
  IN IF hs = {} THEN [s EXCEPT !.outcome = "panic"]
     ELSE IF at \notin DOMAIN s.tree THEN [s EXCEPT !.tree = Over(@, Hang(at, new))]
     ELSE IF String(key) \in s.implicits
          THEN [s EXCEPT !.implicits = RemoveImplicit(@, key)]
          ELSE [s EXCEPT !.outcome = "refused"]

(* establishContext's end for an array: its first table or one more.       *)
Element(s, k, n) ==
  Over(One(At(s.hash, k), Array(n)), One(Append(s.hash, <<k, n>>), Table))
OnlyElement(s, k) ==                                               \* mutant
  [s EXCEPT !.tree =
     Over(Element(s, k, 1),
          [p \in {q \in DOMAIN @ : ~IsPrefix(Append(s.hash, <<k, 1>>), q)} |-> @[p]])]
NoElement(s, k) == [s EXCEPT !.tree = Over(One(At(s.hash, k), Array(0)), @)]  \* mutant
AddElement(s, k) ==
  LET at == At(s.hash, k)
      n == IF at \in DOMAIN s.tree THEN s.tree[at].n + 1 ELSE 1
  IN IF at \in DOMAIN s.tree /\ s.tree[at].kind # "array"
     THEN [s EXCEPT !.outcome = "refused"]
     ELSE [s EXCEPT !.tree = Over(Element(s, k, n), @)]
-----------------------------------------------------------------------------
(* What TOML says, on the nodes of the text read so far.                   *)

(* The node a key names now, if there is one: of an array of tables it     *)
(* means the last.                                                         *)
Named(key) ==
  {p \in DOMAIN tree :
     /\ Len(p) = Len(key) /\ \A i \in 1 .. Len(key) : p[i][1] = key[i]
     /\ Last(p)[2] = 0
     /\ \A i \in 1 .. Len(key) - 1 :
          p[i][2] = tree[Append(SubSeq(p, 1, i - 1), <<key[i], 0>>)].n}

Crosses(key) ==
  \E i \in 1 .. Len(key) - 1 :
    \E p \in Named(SubSeq(key, 1, i)) : tree[p].kind = "value"

Implicit(p) == tree[p].kind = "table" /\ p \notin explicit

LegalTable(key) == ~Crosses(key) /\ \A p \in Named(key) : Implicit(p)
LegalArray(key) == ~Crosses(key) /\ \A p \in Named(key) : tree[p].kind = "array"
LegalValue(k) == Named(Append(context, k)) = {}

(* What a line does that few texts do: it uses a quoted name with a dot,   *)
(* adds to an array of tables, gives a value to the name of an implicit    *)
(* table, or repeats a name in an inline table.                            *)
If(cond, what) == IF cond THEN {what} ELSE {}
Dotted(key) == If(\E i \in DOMAIN key : Len(Words[key[i]]) > 1, "dotted")
Reopened(key) == If(\E p \in Named(key) : tree[p].kind = "array", "reopened")
Shadowed(k) == If(\E p \in Named(Append(context, k)) : Implicit(p), "shadowed")
-----------------------------------------------------------------------------
(* A line is read, with the outcome s of the parser's work on it.          *)
Line(s, allowed, oddities) ==
  /\ outcome = "reading" /\ lines < MaxLines
  /\ lines' = lines + 1
  /\ tree' = s.tree /\ implicits' = s.implicits /\ outcome' = s.outcome
  /\ legal' = (legal /\ allowed)
  /\ odd' = odd \cup oddities

(* The context in which establishContext calls setValue for the last name. *)
WholeKey(key) == key                                               \* mutant
Outer(key) == Front(key)

(* [key] *)
TableHeader(key) ==
  LET s == Establish(key)
  IN /\ Line(IF s.outcome # "reading" THEN s
             ELSE SetValue(s, Outer(key), Last(key), One(<<>>, Table)),
             LegalTable(key), Dotted(key))
     /\ context' = key
     /\ explicit' = explicit \cup Named(key)'
     /\ UNCHANGED written

(* [[key]] *)
ArrayHeader(key) ==
  LET s == Establish(key)
  IN /\ Line(IF s.outcome # "reading" THEN s ELSE AddElement(s, Last(key)),
             LegalArray(key), Dotted(key) \cup Reopened(key))
     /\ context' = key
     /\ UNCHANGED <<explicit, written>>

Now == [tree |-> tree, implicits |-> implicits, outcome |-> outcome]

(* k = value *)
KeyValue(k) ==
  /\ Line(SetValue(Now, context, k, One(<<>>, Value(lines + 1))),
          LegalValue(k), Dotted(<<k>>) \cup Shadowed(k))
  /\ written' = written + 1
  /\ UNCHANGED <<context, explicit>>

(* k = { fields }: value fills a hash of its own, in which a name that     *)
(* comes again replaces the first, and setValue is given the hash.         *)
InlineTable(k, fields) ==
  LET new == Over(One(<<>>, Table),
                  [p \in {At(<<>>, f) : f \in ToSet(fields)} |-> Value(lines + 1)])
      distinct == Cardinality(ToSet(fields)) = Len(fields)
  IN /\ Line(SetValue(Now, context, k, new), LegalValue(k) /\ distinct,
             Dotted(<<k>> \o fields) \cup Shadowed(k)
               \cup If(~distinct, "repeated"))
     /\ written' = written + Len(fields)
     /\ UNCHANGED context
     /\ explicit' = explicit \cup Named(Append(context, k))'

Next ==
  \/ \E key \in Headers : TableHeader(key) \/ ArrayHeader(key)
  \/ \E k \in Names : KeyValue(k)
  \/ \E k \in Names, fields \in Inlines : InlineTable(k, fields)

Spec == Init /\ [][Next]_vars
-----------------------------------------------------------------------------
(* Every variable keeps its kind, and the mapping hangs together: above    *)
(* each node there is a table, or an array that has the element.           *)
TypeOK ==
  /\ \A p \in DOMAIN tree :
       /\ tree[p].kind \in {"table", "array", "value"}
       /\ tree[p].n \in 0 .. MaxLines
       /\ Last(p)[2] = 0 \/ tree[p].kind = "table"
       /\ Len(p) > 1 => Front(p) \in DOMAIN tree /\ tree[Front(p)].kind = "table"
       /\ Last(p)[2] > 0 =>
            tree[At(Front(p), Last(p)[1])].n \in Last(p)[2] .. MaxLines
  /\ \A p \in DOMAIN tree : tree[p].kind = "array" =>
       /\ tree[p].n > 0
       /\ \A i \in 1 .. tree[p].n :
            Append(Front(p), <<Last(p)[1], i>>) \in DOMAIN tree
  /\ context \in Headers \cup {<<>>}
  /\ outcome \in {"reading", "refused", "panic"}
  /\ lines \in 0 .. MaxLines /\ written \in Nat
  /\ legal \in BOOLEAN
  /\ odd \subseteq {"dotted", "reopened", "shadowed", "repeated"}

(* setValue finds the context that establishContext has prepared, on a     *)
(* walk of its own (parse.go:411): neither of its p.bug can be reached.    *)
(* The code keeps this only as long as no mark of an implicit table can be *)
(* another's: the strings of paths are no paths where names have dots, and *)
(* say nothing of the element where an array has several.                  *)
ContextEstablishedIfMarksAgree ==
  odd \cap {"dotted", "reopened"} = {} => outcome # "panic"

(* A text that TOML allows is not refused, unless it has quoted names with *)
(* dots (parse.go:430, "it is allowed to be redefined concretely"), and a  *)
(* text that defines something twice is (parse.go:434, "another            *)
(* redefinition provokes an error"), unless it does one of the unusual     *)
(* things.                                                                 *)
RefusesRedefinitions ==
  /\ legal /\ "dotted" \notin odd => outcome = "reading"
  /\ ~legal /\ odd = {} => outcome # "reading"

(* A text that TOML allows and that is not refused has all its values in   *)
(* the mapping (parse.go:404, "sets the given key to the given value").    *)
Values == {p \in DOMAIN tree : tree[p].kind = "value"}
LegalValuesKept ==
  legal /\ outcome = "reading" => Cardinality(Values) = written

(* No line takes away or replaces what an earlier one has given: nodes     *)
(* stay, a value stays the same, and only arrays grow.                     *)
NothingLost ==
  [][\A p \in DOMAIN tree :
       /\ p \in DOMAIN tree'
       /\ tree'[p].kind = tree[p].kind
       /\ tree'[p] = tree[p] \/ tree[p].kind = "array"]_vars
=============================================================================
