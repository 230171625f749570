------------------------------- MODULE Loading -------------------------------
(***************************************************************************)
(* What confd reads from its own files: the settings (config.go:           *)
(* initConfig), the nodes it connects to (backends/client.go: New;         *)
(* nacos/client.go: NewNacosClient), and the template resources            *)
(* (processor.go: getTemplateResources): the walk over confdir/conf.d      *)
(* (util.go: recursiveLookup, over Go's filepath.Walk) and for each file   *)
(* found its decoding (resource.go: NewTemplateResource; decode.go:        *)
(* unifyStruct), while other programs create, replace and remove files.    *)
(* Each system call is a step.                                             *)
(*                                                                         *)
(* A path is the sequence of its names below confdir.  The content of a    *)
(* file is its table of keys, in a resource file that of [template], or    *)
(* something that is not TOML, or a text at which the parser panics        *)
(* (TomlParser and TomlTables say which there are).                        *)
(***************************************************************************)
EXTENDS Integers, Sequences, SequencesExt, TLC

CONSTANTS
  Places,      \* the paths at which there may be something
  Sorted,      \* the names, in the order of their texts
  Matching,    \* the names that "*toml" matches
  Starts,      \* the trees of files and the flags at the beginning
  News,        \* what may be put at a place
  NotToml,     \* the content the parser refuses
  PanicToml,   \* the content the parser panics at
  Fields,      \* the fields of TemplateResource: name and type, in order
  Settings,    \* the fields of Config, likewise
  Urls,        \* the nodes that have a scheme, a host and a port
  Folded,      \* a name of a field or a key with its letters folded
  Levels,      \* the levels the log knows, by their names
  Euid,        \* what os.Geteuid returns
  MaxChanges, MaxFaults  \* bounds of a run

Root == <<"conf.d">>
ConfigFile == <<"confd.toml">>
DefaultNode == "127.0.0.1:8848"

(* What may be at a place, at the beginning or later.                      *)
Entries == News \cup UNION {{s.tree[p] : p \in DOMAIN s.tree} : s \in Starts}

(* What has something below it is a directory.                             *)
IsTree(tree) ==
  \A p \in DOMAIN tree : \A q \in Prefixes(p) \ {p} :
    q \in DOMAIN tree /\ tree[q].kind = "dir"

ASSUME FilesAssumption ==
  /\ Sorted \in Seq(ToSet(Sorted)) /\ Places \subseteq Seq(ToSet(Sorted))
  /\ Root \in Places /\ Matching \subseteq ToSet(Sorted)
  /\ \A e \in Entries :
       e.kind \in {"dir", "file", "link"} /\ (e.kind = "link" => e.to \in Places)
  /\ \A s \in Starts : DOMAIN s.tree \subseteq Places /\ IsTree(s.tree)
  /\ MaxChanges \in Nat /\ MaxFaults \in Nat

Unparsed == {NotToml, PanicToml}

(* The fields of a structure differ also when letters are folded, and a    *)
(* table has finitely many keys.                                           *)
ASSUME FieldsAssumption ==
  /\ \A fields \in {Fields, Settings} :
       /\ fields \in Seq(ToSet(fields))
       /\ \A i, j \in DOMAIN fields : Folded[fields[i].name] = Folded[fields[j].name] => i = j
       /\ \A f \in ToSet(fields) : f.type \in {"string", "int", "uint32", "strings"}
  /\ \E n \in DOMAIN Fields : Fields[n].name = "Uid"
  /\ \E n \in DOMAIN Settings : Settings[n].name = "nodes"
  /\ \A e \in Entries :
       e.kind = "file" /\ e.content \notin Unparsed => IsFiniteSet(DOMAIN e.content)
  /\ DefaultNode \notin Urls
  /\ \A s \in Starts : DOMAIN s.flags = DOMAIN Settings
  /\ Euid \in Nat

VARIABLES
  fs,        \* the tree of files: what is at a path
  at,        \* what is done next
  settings,  \* config
  path,      \* the path that the walk is at
  frames,    \* the walk's calls: each a directory and the names left in it
  result,    \* recursiveLookup's result
  templates, \* getTemplateResources' templates
  failed,    \* its error is not nil
  changes, faults,  \* how many of each there have been
  touched,   \* history: the paths that have changed
  unread,    \* history: the paths the walk could not lstat or read
  decoded,   \* history: the content each file found had when it was read
  flags,     \* history: the values the flags gave
  confd      \* history: the content of the configuration file that was read

walk == <<path, frames, result>>
start == <<settings, flags, confd>>
load == <<walk, templates, failed, unread, decoded>>
vars == <<fs, at, start, load, changes, faults, touched>>

Init ==
  /\ \E s \in Starts : fs = s.tree /\ flags = s.flags
  /\ settings = flags /\ confd = <<>>
  /\ at = "config" /\ path = Root /\ frames = <<>> /\ result = <<>>
  /\ templates = <<>> /\ failed = FALSE
  /\ changes = 0 /\ faults = 0 /\ touched = {} /\ unread = {} /\ decoded = <<>>
-----------------------------------------------------------------------------
(* os.Lstat and os.Stat: what is at a path, if there is something; a link  *)
(* to a link counts as a link to nothing.                                  *)
Lstat(p) == {fs[q] : q \in DOMAIN fs \cap {p}}
Stat(p) ==
  UNION {IF e.kind # "link" THEN {e} ELSE {f \in Lstat(e.to) : f.kind # "link"} :
           e \in Lstat(p)}
IsDir(es) == \E e \in es : e.kind = "dir"

(* A call fails although the file is there.                                *)
Fault == faults < MaxFaults /\ faults' = faults + 1
Calm == UNCHANGED <<fs, changes, touched>>
Quiet == Calm /\ UNCHANGED faults

(* The names in a directory, and the one that sorts before the others.     *)
NamesIn(p) == {n \in ToSet(Sorted) : Append(p, n) \in DOMAIN fs}
IsFirst(n, names) ==
  \E i \in DOMAIN Sorted : /\ Sorted[i] = n
                          /\ \A j \in 1 .. i - 1 : Sorted[j] \notin names

(* unifyString, unifyInt, unifySlice and unify: whether a value fits a      *)
(* type.  The numbers of a run are all below 2^32.                         *)
FitsString(v) == v.kind = "string"
FitsInt(v, type) == v.kind = "integer" /\ (type = "uint32" => v.value >= 0)
FitsStrings(v) == v.kind = "array" /\ v.of \in {"string", "none"}
Fits(v, type) ==
  CASE type = "string"           -> FitsString(v)
    [] type = "strings"          -> FitsStrings(v)
    [] type \in {"int", "uint32"} -> FitsInt(v, type)

(* unifyStruct's search: a field of that very name, or else the first that *)
(* has it when letters are folded.                                         *)
FieldExactly(fields, key) == SelectInSeq(fields, LAMBDA f : f.name = key)  \* mutant
FieldOf(fields, key) ==
  LET exact == SelectInSeq(fields, LAMBDA f : f.name = key)
  IN IF exact # 0 THEN exact
     ELSE SelectInSeq(fields, LAMBDA f : Folded[f.name] = Folded[key])

(* A key and its value are put into a struct: a key that names no field is *)
(* passed over, and nothing more is done after a value that does not fit.  *)
UnifyKey(s, fields, table, key) ==
  LET n == FieldOf(fields, key)
  IN IF ~s.ok \/ n = 0 THEN s
     ELSE IF Fits(table[key], fields[n].type)
          THEN [ok |-> TRUE, values |-> [s.values EXCEPT ![n] = table[key].value]]
          ELSE [ok |-> FALSE, values |-> s.values]

(* What may become of the values of a struct when a table is decoded into  *)
(* it: unifyStruct ranges over a map, in any order.                        *)
Rounds(fields, values, table, order) ==
  LET after[i \in 0 .. Len(order)] ==
        IF i = 0 THEN [ok |-> TRUE, values |-> values]
        ELSE UnifyKey(after[i - 1], fields, table, order[i])
  IN after
Unify(fields, values, table) ==
  {Rounds(fields, values, table, order)[Len(order)] :
     order \in SetToSeqs(DOMAIN table)}
-----------------------------------------------------------------------------
(* initConfig and New.                                                     *)
Setting(name) == settings[FieldOf(Settings, name)]
Start == UNCHANGED <<load, flags>>

TestConfigFile ==
  /\ at = "config" /\ Quiet /\ Start
  /\ at' = IF Stat(ConfigFile) = {} THEN "keyring" ELSE "read"
  /\ UNCHANGED <<settings, confd>>

(* What the file says goes over what the flags say.  Nothing recovers from *)
(* a panic of the parser.                                                  *)
ReadConfigFile ==
  /\ at = "read" /\ Calm /\ Start
  /\ LET file == {e \in Stat(ConfigFile) : e.kind = "file"}
     IN \/ /\ \E e \in file :
                \/ /\ e.content \in Unparsed
                   /\ at' = IF e.content = NotToml THEN "fatal" ELSE "panic"
                   /\ confd' = e.content /\ UNCHANGED settings
                \/ /\ e.content \notin Unparsed
                   /\ confd' = e.content
                   /\ \E s \in Unify(Settings, settings, e.content) :
                        /\ settings' = s.values
                        /\ at' = IF s.ok THEN "keyring" ELSE "fatal"
           /\ UNCHANGED faults
        \/ /\ \/ file = {} /\ UNCHANGED faults
              \/ file # {} /\ Fault
           /\ at' = "fatal" /\ UNCHANGED <<settings, confd>>

(* The keyring, if there is one, must be readable, and the level of the    *)
(* log, if there is one, must be known; the default node.                  *)
LevelFits == Setting("LogLevel") \in Levels \cup {""}
EndInitConfig ==
  /\ at = "keyring" /\ Calm /\ Start
  /\ settings' = IF Setting("Backend") = "nacos" /\ Setting("nodes") = {}
                 THEN [settings EXCEPT ![FieldOf(Settings, "nodes")] = {DefaultNode}]
                 ELSE settings
  /\ \/ at' = (IF LevelFits THEN "new" ELSE "fatal") /\ UNCHANGED faults
     \/ Setting("SecretKeyring") # "" /\ Fault /\ at' = "fatal"
  /\ UNCHANGED confd

(* New and NewNacosClient: there is one backend, each node must have a     *)
(* port, and the SDK may fail.                                             *)
NodesParse(nodes) == nodes \subseteq Urls
NewClient ==
  /\ at = "new" /\ Calm /\ Start
  /\ LET fit == Setting("Backend") = "nacos" /\ NodesParse(Setting("nodes"))
     IN \/ at' = (IF fit THEN "confdir" ELSE "fatal") /\ UNCHANGED faults
        \/ fit /\ Fault /\ at' = "fatal"
  /\ UNCHANGED <<settings, confd>>
-----------------------------------------------------------------------------
(* getTemplateResources: without confdir there is nothing to load.         *)
TestConfDir ==
  /\ at = "confdir" /\ Quiet
  /\ at' = IF Stat(<<>>) = {} THEN "done" ELSE "lookup"
  /\ UNCHANGED <<start, load>>

(* recursiveLookup: conf.d must be there; if it is no directory it is the  *)
(* only file.                                                              *)
RootUntested == FALSE                                              \* mutant
RootMissing == Stat(Root) = {}
Lookup ==
  /\ at = "lookup" /\ Quiet
  /\ failed' = RootMissing
  /\ at' = CASE failed' -> "done"
             [] ~failed' /\ (IsDir(Stat(Root)) \/ Stat(Root) = {}) -> "lstat"
             [] OTHER -> "load"
  /\ result' = IF at' = "load" THEN <<Root>> ELSE <<>>
  /\ UNCHANGED <<start, path, frames, templates, unread, decoded>>

(* filepath.Walk: lstat of the path that comes next.  If it has gone, or   *)
(* lstat fails, the callback is given no FileInfo, and asks it for its     *)
(* name.                                                                   *)
WalkLstat ==
  /\ at = "lstat" /\ Calm
  /\ \/ /\ at' = IF Lstat(path) = {} THEN "panic"
                 ELSE IF IsDir(Lstat(path)) THEN "readdir" ELSE "callback"
        /\ UNCHANGED <<faults, unread>>
     \/ /\ Lstat(path) # {} /\ Fault
        /\ at' = "panic" /\ unread' = unread \cup {path}
  /\ UNCHANGED <<start, walk, templates, failed, decoded>>

(* filepath.Walk reads a directory before its callback is called; if that  *)
(* fails, the callback ignores it.                                         *)
ReadDir ==
  /\ at = "readdir" /\ Calm
  /\ \/ /\ IsDir(Lstat(path)) /\ UNCHANGED <<faults, unread>>
        /\ frames' = Append(frames, [dir |-> path, names |-> NamesIn(path)])
     \/ /\ \/ ~IsDir(Lstat(path)) /\ UNCHANGED faults
           \/ IsDir(Lstat(path)) /\ Fault
        /\ unread' = unread \cup {path}
        /\ UNCHANGED frames
  /\ at' = "callback"
  /\ UNCHANGED <<start, path, result, templates, failed, decoded>>

(* The callback: what matches, and is no directory, is a result.  A match  *)
(* that cannot be looked at ends the walk and the lookup with an error.    *)
IsFile(es) == ~IsDir(es)
Callback ==
  /\ at = "callback" /\ Quiet
  /\ LET match == Last(path) \in Matching
     IN /\ failed' = (match /\ Stat(path) = {})
        /\ result' = IF match /\ Stat(path) # {} /\ IsFile(Stat(path))
                     THEN Append(result, path) ELSE result
  /\ at' = IF failed' THEN "done" ELSE "walk"
  /\ UNCHANGED <<start, path, frames, templates, unread, decoded>>

(* filepath.Walk goes on to the next name, or back to the directory above. *)
WalkOn ==
  /\ at = "walk" /\ Quiet
  /\ IF frames = <<>> THEN at' = "load" /\ UNCHANGED <<path, frames>>
     ELSE LET f == Last(frames)
          IN IF f.names = {} THEN frames' = Front(frames) /\ UNCHANGED <<at, path>>
             ELSE \E n \in f.names :
                    /\ IsFirst(n, f.names)
                    /\ path' = Append(f.dir, n)
                    /\ frames' = Append(Front(frames), [f EXCEPT !.names = @ \ {n}])
                    /\ at' = "lstat"
  /\ UNCHANGED <<start, result, templates, failed, unread, decoded>>
-----------------------------------------------------------------------------
(* The resource before it is decoded.                                      *)
Blank == [n \in DOMAIN Fields |-> CASE Fields[n].type = "string" -> ""
                                    [] Fields[n].type = "strings" -> {}
                                    [] Fields[n].name = "Uid" -> -1
                                    [] OTHER -> 0]

(* NewTemplateResource: the resources that may come of a content, and      *)
(* whether it may be refused.  The user is confd's own unless the file has *)
(* one.                                                                    *)
WithUid(values) ==
  [values EXCEPT ![FieldOf(Fields, "Uid")] = IF @ = -1 THEN Euid ELSE @]
Decoded(content) ==
  IF content \in Unparsed THEN {[ok |-> FALSE, values |-> Blank]}
  ELSE Unify(Fields, Blank, content)
Good(s) == s.ok /\ s.values[FieldOf(Fields, "Src")] # ""
NewTemplateResource(content) ==
  {WithUid(s.values) : s \in {t \in Decoded(content) : Good(t)}}
Refused(content) == \E s \in Decoded(content) : ~Good(s)

ForgetError(wrong) == wrong                                        \* mutant
KeepError(wrong) == failed \/ wrong

(* getTemplateResources' loop: a file that cannot be loaded is an error,   *)
(* and the others are loaded all the same; but nothing recovers from a     *)
(* panic of the parser.                                                    *)
Load ==
  /\ at = "load" /\ Len(decoded) < Len(result) /\ Calm
  /\ LET p == result[Len(decoded) + 1]
         file == {e \in Stat(p) : e.kind = "file"}
     IN \/ /\ \E e \in file :
                /\ decoded' = Append(decoded, e.content)
                /\ \/ /\ e.content = PanicToml
                      /\ at' = "panic" /\ UNCHANGED <<templates, failed>>
                   \/ /\ e.content # PanicToml /\ Refused(e.content)
                      /\ failed' = KeepError(TRUE) /\ UNCHANGED <<at, templates>>
                   \/ \E tr \in NewTemplateResource(e.content) :
                        /\ templates' = Append(templates, [path |-> p, tr |-> tr])
                        /\ failed' = KeepError(FALSE) /\ UNCHANGED at
           /\ UNCHANGED faults
        \/ /\ \/ file = {} /\ UNCHANGED faults
              \/ file # {} /\ Fault
           /\ decoded' = Append(decoded, NotToml)
           /\ failed' = KeepError(TRUE) /\ UNCHANGED <<at, templates>>
  /\ UNCHANGED <<start, walk, unread>>

Return ==
  /\ at = "load" /\ Len(decoded) = Len(result) /\ Quiet
  /\ at' = "done"
  /\ UNCHANGED <<start, load>>
-----------------------------------------------------------------------------
(* Other programs.                                                         *)
Change ==
  /\ at \notin {"done", "panic", "fatal"}
  /\ changes < MaxChanges /\ changes' = changes + 1
  /\ UNCHANGED <<at, start, load, faults>>

Delete(p) ==
  /\ Change /\ p \in DOMAIN fs
  /\ fs' = [q \in {r \in DOMAIN fs : ~IsPrefix(p, r)} |-> fs[q]]
  /\ touched' = touched \cup (DOMAIN fs \ DOMAIN fs')

Put(p, e) ==
  /\ Change /\ p # <<>> /\ IsDir(Lstat(Front(p))) /\ ~IsDir(Lstat(p))
  /\ Lstat(p) # {e}
  /\ fs' = [q \in DOMAIN fs \cup {p} |-> IF q = p THEN e ELSE fs[q]]
  /\ touched' = touched \cup {p}

Next ==
  \/ TestConfigFile \/ ReadConfigFile \/ EndInitConfig \/ NewClient
  \/ TestConfDir \/ Lookup \/ WalkLstat \/ ReadDir \/ Callback \/ WalkOn
  \/ Load \/ Return
  \/ \E p \in Places : Delete(p) \/ \E e \in News : Put(p, e)

Spec == Init /\ [][Next]_vars
-----------------------------------------------------------------------------
(* What may be said of a load.                                             *)
Steady(p) == \A q \in Prefixes(p) : q \notin touched
Resource(p) ==
  /\ IsStrictPrefix(Root, p) /\ Last(p) \in Matching
  /\ \E e \in Stat(p) : e.kind = "file"
SteadyResource(p) ==
  Resource(p) /\ Steady(p) /\ \A e \in Lstat(p) : e.kind = "link" => Steady(e.to)

(* A load that reports no error has loaded every resource file that was    *)
(* there all the time, once, and everything that it has found: whatever is *)
(* created or removed meanwhile and however its loop over the files goes   *)
(* on after an error.  It holds of files below directories that could be   *)
(* read, since the walk passes over the others in silence, and below a     *)
(* conf.d that is no link, since the walk does not follow one              *)
(* (util.go:112, processor.go:167).                                        *)
LoadsWhatIsThere ==
  at = "done" /\ ~failed =>
    /\ [n \in DOMAIN templates |-> templates[n].path] = result
    /\ \A p \in DOMAIN fs :
         SteadyResource(p) /\ unread \cap Prefixes(p) = {} =>
           \E n \in DOMAIN result :
             result[n] = p /\ \A m \in DOMAIN result : result[m] = p => m = n

(* A load panics only at a path that has been removed under the walk's     *)
(* feet (a name that was read from a directory, or conf.d after it was     *)
(* tested), or that lstat failed on, or at a text that makes the parser    *)
(* panic, the last it has read (util.go:113, config.go:84,                 *)
(* resource.go:155).  It reports an error only if something has changed or *)
(* failed meanwhile, or there is no conf.d, or a file cannot be loaded:    *)
(* what is no resource, like a directory with such a name, does no harm    *)
(* (util.go:97, 113, 118).                                                 *)
Unloadable(p) ==
  /\ p = Root \/ (IsStrictPrefix(Root, p) /\ Last(p) \in Matching)
  /\ \A e \in Stat(p) : e.kind = "file" /\ Refused(e.content)
TroubleHasACause ==
  /\ at = "panic" =>
       \/ ~Steady(path) \/ path \in unread
       \/ IF decoded = <<>> THEN confd = PanicToml ELSE Last(decoded) = PanicToml
  /\ at = "done" /\ failed =>
       \/ touched # {} \/ faults > 0
       \/ \E p \in {Root} \cup DOMAIN fs : Unloadable(p)

(* A resource is what its file said when it was read, and the settings the *)
(* program comes to its resources with are what the configuration file     *)
(* said, and the flags where it says nothing: each field has the value of  *)
(* the key that names it, in whatever order the keys are taken.  Of several*)
(* keys that name one field, as src and SRC do, any may win.  The default  *)
(* node is never among the settings: it has no scheme, so that a program   *)
(* without nodes does not come so far (decode.go:244, config.go:112,       *)
(* nacos/client.go:40).                                                    *)
Says(table, f, otherwise) ==
  LET keys == {k \in DOMAIN table : Folded[k] = Folded[f.name]}
  IN IF keys = {} THEN {otherwise} ELSE {table[k].value : k \in keys}
Given(f, v) == IF f.name = "Uid" /\ v = -1 THEN Euid ELSE v
FieldsFromTheirKeys ==
  /\ \A m \in DOMAIN templates, n \in DOMAIN decoded :
       templates[m].path = result[n] =>
         \A k \in DOMAIN Fields :
           templates[m].tr[k] \in
             {Given(Fields[k], v) : v \in Says(decoded[n], Fields[k], Blank[k])}
  /\ at = "confdir" =>
       \A k \in DOMAIN Settings : settings[k] \in Says(confd, Settings[k], flags[k])
=============================================================================
