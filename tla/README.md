# Verification of nacos-confd

nacos-confd renders configuration files from templates and values in Nacos,
replaces the files when they change and reloads the services that read them.
This directory holds TLA+ modules of the program, configurations that
model-check them with TLC, and proofs that TLAPS checks. Source paths are
relative to the repository; line numbers are those of `PROJECT.json`.

## 1. The system

| Component | State | Operations | Talks to |
|---|---|---|---|
| `confd.go` main | `doneChan`, `stopChan`, `errChan`, `signalChan` | init, one-time run, start of a processor, select loop | processors over channels, OS signals, `os.Exit` |
| `config.go` | the global `config` | flags, TOML file, keyring, default nodes | TOML decoder |
| `processor.go` | the list of resources, a wait group | `process`, timer loop, `monitorPrefix` for each resource | template resources, Nacos client, `errChan` |
| `resource.go` | one `TemplateResource`: configuration, `store`, `FileMode`, `StageFile`, `lastIndex` | `process` = `setFileMode`, `setVars`, `createStageFile`, `sync` | file system, `check_cmd`, `reload_cmd`, client |
| `nacos/client.go` | `channel` (10), `count` | `GetValues`, `WatchPrefix`, SDK callbacks | Nacos SDK, every monitor goroutine |
| `backends/client.go` | none | factory of the client | client |
| `util/` | none | `IsConfigChanged`, path prefixes, directory walk | file system |
| `memkv` | a map and a mutex | set, purge, get, list, match | templates |
| `template_funcs.go` | none | pure functions for templates | Go library |
| `depends/toml` | lexer: state, stack, items channel; parser: mapping, implicits | lex, parse, decode, encode | `config.go`, `NewTemplateResource` |
| `secconf`, Loki notification, `log` | none | decrypt, post, print | I/O only |
| `services/` | none | supervisors that restart confd | confd's exit code |

Four files (`config.go`, `backends/config.go`, `backends/client.go`,
`template_funcs.go`) have no package clause at this commit; they are read as
belonging to the package of their directory. The repository has no tests.

What is hard in this program, and which property is about it:

- **A pass is a sequence of system calls** that other programs see, each of
  which may fail, and confd may be killed between any two of them. What
  readers of the destination see: `KeepsPromise`, `VettedReplace`. What a
  successful pass means: `FreshWhenOk`, `RenameInSync`,
  `ServiceRunsDestIfNoFault`. What a failed one leaves behind: `NoLitter`,
  `Converges`, `Recovers`.
- **Watch mode shares one counter and one channel** among goroutines that do
  not lock, and SDK callbacks block on that channel: `SomeoneIsWoken`,
  `FreshWhenQuiet`, `Settles`.
- **Subscribe, then read**: a change between the two must not be missed, and a
  failed subscription is retried and counted again: `FreshWhenQuiet`,
  `Converges`.
- **main's select** mixes errors, signals and a channel with two closers:
  `SignalEnds`, `ReportsAreHeard`, `ClosesHaveCauses`.
- **Errors that must not be swallowed**, and errors without a cause:
  `OneTimeIsHonest`, `LoadsWhatIsThere`, `TroubleHasACause`.
- **Files change while confd walks and reads them**: `LoadsWhatIsThere`,
  `TroubleHasACause`; and a table is decoded key by key in the random order
  of a map: `FieldsFromTheirKeys`.
- **A key is rewritten three times** on its way from a resource file to a
  template: joined with a prefix, sent with dots, stored with the prefix cut
  off again: `KeysServed`. What the store lists comes out of a map and is
  compared partly as text, partly name by name: `AnswersOrdered`,
  `ListsWhatIsBelow`. `seq` counts with an int that wraps: `SeqIsRange`.
- **Tables may be defined in any order and only once**, and what is implicit
  is remembered by a string: `RefusesRedefinitions`, `LegalValuesKept`,
  `NothingLost`, `ContextEstablishedIfMarksAgree`.
- **Lexer and parser each remember what is open**, and the timer parses the
  files in `conf.d` at every pass, where a panic ends it: `NoEmptyPop`,
  `StopsAtEOF`, `InStep`, `OnlyKnownPanics`, `ComesToAnEnd`.

`PROJECT.json` lists each hazard at its line.

## 2. The modules

```
ConfigFile  <--implements--  TemplateResource  <--  MCTemplateResource
                                     ^
                                     +----------  TemplateResourceProofs
NacosWatch    <--  MCNacosWatch, NacosWatchProofs
Confd         <--  ConfdProofs
Loading       <--  MCLoading, LoadingProofs
TemplateData  <--  MCTemplateData, TemplateDataProofs
TomlLexer     <--  TomlParser  <--  TomlProofs  <--  TomlStepProofs
TomlTables    <--  MCTomlTables, TomlTablesProofs
```

The modules meet at what one component leaves for the next. `Loading` ends
with the template resources, with which `Confd` starts its processor and each
of which is a `TemplateResource`; `Confd`'s `Initialise` and `Load` have
`Loading`'s outcomes: it goes on, it fails, or it panics. `NacosWatch` decides
when a watched resource's pass begins and `TemplateResource` is the pass. `TemplateData` is what lies between
`TemplateResource`'s `GetValue`, `SetVars` and `Render`. `TomlParser` allows
each definition to be taken or refused, and the context of a key to be found
or not, and `TomlTables` says which; `Loading` starts from the table that comes
of it, an error or a panic.

### TemplateResource: one resource and its destination

One behaviour is one resource, pass after pass. Its passes are started by the
timer, one after the other, or by the watcher's goroutine, at once and then for
each token it receives (`conf.watch`, chosen once). Every system call that
another program can observe is a step of its own, and `Kill` or `Exit` may come
between any two.

| TLA+ | Code |
|---|---|
| `conf` | the fields of `TemplateResource` that `NewTemplateResource` sets, and two facts of the host: whether the destination is a mount point and whether confd may change owners |
| `tokens` | the passes the watcher is still to start: one when the process starts, and one for a change of a key, unless two changes are told as one |
| `store`, `fileMode`, `staged` | `t.store`, `t.FileMode`, `t.StageFile` (the file, not the handle) |
| `got` | `vars` in `GetValues` |
| `backend`, `dest`, `loaded` | Nacos, the destination, what the service last loaded |
| `SetFileMode`, with `StartPass` | `setFileMode`, and the start of `process`: the timer's with a new resource and an empty store, the watcher's with a token and the resource it has |
| `GetValue`, `SetVars` | the loop of `GetValues`, then `store.Purge` and the `Set`s |
| `CreateStageFile`, `Render` | `createStageFile` up to `TempFile`, and from the execution of the template |
| `Compare`, with `Misread` | `IsConfigChanged` and `sync`'s decision; `FileStat` drops the error of `io.Copy`, so that a digest may be that of a part of the file |
| `Check` | `check`, which runs `check_cmd` on the stage file |
| `Rename`, or `Truncate`, `Write`, `ChownDest` | `replaceConfig`: the rename, or the fallback for a busy destination |
| `Reload`, `Cleanup` | `reload`; `sync`'s deferred function and the return |
| `Kill`, `Exit` | a signal that kills, `log.Fatal` or a panic; `os.Exit(0)` in main |
| `Restart`, `StartAgain` | the supervisor after `Kill`; after `Exit`, as supervisord does and systemd, with `Restart=on-failure`, does not |
| `Publish`, with `Token` | a user of Nacos; the tokens of `WatchPrefix` |

Abstractions. The text of a file is the sequence of the values it was rendered
from, one for each key, and a proper prefix of it is a file that was cut short.
A template that fails, a disk that is full and a Nacos request that times out
are all a fault of the step. Owner and group are one attribute, because the
code always treats them alike. `chmod` and `chown` of the stage file ignore
their errors, as in the code. `misread` is a history variable: the pass in
progress, or the last one, took files for equal that it had read in part. Every
change of a key gives the watcher its token here; that with several templates
it may not is `NacosWatch`'s. A configuration file read anew by a restart is
the same as before.

`ConfigFile` is what a reader of the destination may rely on: one whole text
at a time, replaced in one step by another whole text that the check command
lets through, and a service that only ever loads what is there.

### NacosWatch: monitors, client, callbacks

One monitor goroutine for each template and one client. `count++` is a read
and a write, since nothing orders the monitors. A callback that has sent `i`
tokens is one more in `looping[i]` or `sending[i]`; callbacks have no other
state, so they are counted instead of named. A key's value is its version; a
pass is its reads and then one step that makes the destination show them,
because `TemplateResource` has the steps in between. `unserved`
(keys told of since a pass began) is a history variable.

What is assumed of the SDK, which is not in the repository: a callback runs in
a goroutine of its own; a listener is told when the value it was last told of
differs from the present one, so that two quick changes may be told as one; a
second `ListenConfig` on a key adds no second callback while a second
`Subscribe` to a service does; a new subscription may or may not tell of the
current value at once; a subscriber to a service may be told an error instead.

### Confd: the program

main, the processor and the watchers as processes, with `errChan`,
`signalChan` and `doneChan`. `End` is the end of every goroutine: `os.Exit`,
`log.Fatal`, a panic or a deadly signal. A pass is a step in and a step out. A
closed channel is always ready to be received from; a second `close` panics
(`closedTwice`). The other panics are one outcome, `panic`: of the TOML parser
over the configuration file (`Initialise`) or a resource file (`Load`), of the
walk (`Load`), and of a pass whose `fstat` fails (`PassPanics`).
Nothing is sent on `stopChan` and nobody closes it, so the branches that
receive from it never run and are left out.

### TomlLexer and TomlParser: reading a TOML text

`TomlLexer` has one action for each state function of `lex.go`, with `state`,
`stack`, `atEOF` and `items` as in `lexer`. No text is given: the next rune is
chosen when it is read, among one of each class the code tells apart, so that
the behaviours are those of every text. Runes that were backed up over are
kept in `ahead` until they are read again; a function backs up over no more
than it has read itself, three runes at most, so that `backup`'s own panic
cannot be reached. A zero byte is a rune that the code takes for the end of
the text (`Ends`). What an item says and its line are left out, and `lexSkip`,
which only drops pending text, is not a state of its own.

`TomlParser` adds the recursive descent of `parse.go`: `frames` are the calls
in progress, and each action receives one item. The lexer runs only while the
parser waits (`nextItem`). An outcome is `accepted`, `refused` (an error for
the caller) or a panic: `bug` (`p.bug`), `bad escape` (`p.bug` in
`replaceEscapes`), `no context` (`p.bug` in `setValue`, whose walk does not
find the table) or `crash` (a slice of no elements). Where the content of an
item decides, both outcomes are allowed: a number out of range, an array of
mixed types, a key that is there already are refused or not, any multi-line
string may hold a backslash that `replaceEscapes` cannot replace, and any key
outside all values may be one whose context is not found (`SetValue`; for
which keys it can be, `TomlTables` says).

### TomlTables: which definitions are refused

A step is a line: `[key]`, `[[key]]`, `k = value`, `k = { .. }`. `tree` is
`p.mapping`, flattened to a function from places to nodes, `implicits` and
`context` are the parser's fields. `Establish` is the loop of
`establishContext`, `AddElement` its end for an array, `SetValue` is
`setValue` with the walk along the context (`Hash`) that it makes for itself.
A value is known by its line. The implicit marks are strings, so a name has
`Words`: the quoted name `"a.b"` has the string of the path `a.b`.

Against it stands what TOML says (`LegalTable`, `LegalArray`, `LegalValue`),
on places: the code's marks are not consulted. History variables record
whether the text has been legal so far and which of four `odd` things it has
done; the properties say for which texts the code does what TOML says and for
which it does not.

### TemplateData: from a key to what a template reads

`GetValues` is `AppendPrefix`, the client's request for each key (`DataId`,
with the first slash cut off and the others replaced by dots, and `Asked`, a service or a
configuration) and `Purge`; `Set` is one round of `setVars`' loop, in any
order; then the template calls functions of the store and of
`template_funcs.go`. Prefixes are cut off as texts, so a text is here, for
once, the sequence of its characters, and `Clean`, `Join`, `Dir` and `Base`
are the functions of Go's `path` package over them (external; `Match` has
only names and whole stars for patterns). `Split`, `Joined`, `Names` and
`Sorted` take a sequence member by member; `WithCharacter`, `WithPart`,
`WithName` and `Insert` say what one more does. The map's order is chosen anew at
each call. An int is `Least .. Greatest`, and memory is finite. That `reverse`
does nothing to what `gets` returns is kept: `Reverse`'s cases name other
types (`TurnRound`). `KeysServed` and `ListsWhatIsBelow` compare with a
reference that knows only lists of names (`NamesOf`).

### Loading: from confd's own files to the resources

| TLA+ | Code |
|---|---|
| `TestConfigFile`, `ReadConfigFile`, `EndInitConfig` | `initConfig`: flags, file over flags, keyring, log level, default node |
| `NewClient` | `New` and the part of `NewNacosClient` that reads the nodes |
| `TestConfDir`, `Lookup` | the start of `getTemplateResources` and of `recursiveLookup` |
| `WalkLstat`, `ReadDir`, `WalkOn` | Go's `filepath.Walk` (external), call by call |
| `Callback` | `recursiveLookup`'s callback |
| `Load`, `Return` | `getTemplateResources`' loop with `NewTemplateResource` |
| `Delete`, `Put` | other programs |

Each system call is a step, and between any two of them another program may
create, replace or remove something. A frame of `frames` is a directory whose
names are being gone through, with the set of those that are left, of which
`WalkOn` takes the one that sorts first. `Rounds` is `unifyStruct` over one order
of the map's keys and `Unify` all that may come of it; `FieldOf` is its search
of a field. A content is its
table, or something that is no TOML, which the parser refuses (`NotToml`) or
panics at (`PanicToml`), in the configuration file as well as in a resource
file. The walk's callback dereferences what `filepath.Walk` passes it, which is
nil whenever `lstat` fails: `WalkLstat` panics where a path has vanished and
where the call fails. Of the log level only whether `SetLevel` knows it is kept
(`LevelFits`), since it ends the program if not; of the fields there is one of each type
that confd's structures have. A link leads at most once: a link to a link
counts as broken.

## 3. The runs

| Run | Question | Bounds |
|---|---|---|
| `rename` | Is every replacement whole and vetted, is a successful pass fresh, is `ConfigFile` implemented? Does the destination come to show Nacos unless confd has given up, and does confd then leave it alone? | 2 keys, 2 values (one refused by the check), 2 changes, 1 fault, 1 kill or exit; timer and watcher |
| `mount` | Which of this holds where the file is written in place? Does a mount point recover from a write that was cut short, under the timer or after a restart? | the same with 1 change |
| `watch_one` | One template: is it fresh whenever all is quiet, does it become so, does everything come to rest? | 2 keys, 1 change of each, 2 faults, channel of 1 |
| `watch_two` | Two templates: does a change always start a pass, does everything come to rest? | 1 change of each key, no faults (a retry is in `watch_one`) |
| `confd` | Does an exit code tell the truth, what do an exit with 0 and a second close take, does main attend to signals and errors? | 2 templates, 2 signals, channels of 1 |
| `toml` | Which kinds of text can make the lexer or the parser panic, do the two agree on what is open, does the parser end? | a stack of 4; texts of any length |
| `toml_tables` | Which redefinitions are refused, is anything lost, does `setValue` find its context? | 5 lines, names `a`, `b` and `"a.b"`, 6 headers, inline tables with one name or a name twice |
| `template_data` | Does each key find its data, are lists complete and in order, is `seq` the range? | 1600 resources of one or two of 10 keys under 8 prefixes, and 8 with a store five keys deep; ints of 2 bits |
| `loading` | Is every file loaded that was there, does trouble have a cause, does each field have the value of its key? | 5 places below `conf.d`, 2 changes, 1 failing call; a content at which the parser panics |

Three more runs each show a property violated that the repository states and
the code does not keep; `PROJECT.json` quotes the lines.

| Run | What TLC finds |
|---|---|
| `reload_lost` | a reload that failed or was cut off is never made good; the next pass reports success |
| `watch_missed` | one monitor takes both tokens of a change and the other template stays stale |
| `confd_panic` | two signals close `doneChan` twice |

Other things the code does that a reader may not expect. They are excepted
where a property says so, and the model has each of them:

- A mount point's mode is never set, so where it differs from the one the
  resource asks for each pass rewrites the file and reloads the service
  (`replaceConfig`; `RenameInSync` speaks of renames).
- After a signal main exits, also in the middle of a pass, although the
  comment says that it tells the processor (`confd.go:78`; `Exit` of
  `TemplateResource`), and with the exit code 0, after which systemd does not
  start it again (`services/confd/confd.service`, `Restart=on-failure`).
- The watcher does not try a failed pass again until a key changes
  (`processor.go:133`; `GivenUp`).
- A read that fails in the comparison is ignored, so that files that differ may
  be taken for equal; a `fstat` that fails there is a nil dereference
  (`filestat_posix.go:22`, `27`).
- A panic of the TOML parser is recovered by nobody, whether it is over the
  configuration file (`config.go:84`) or over one resource file of many
  (`resource.go:155`): it ends the program (`PanicToml`).
- A comment in an inline table makes the parser panic, since the test for a
  comment comes after the test for anything but a key (`parse.go:282`), and so
  does a backslash that `replaceEscapes` cannot replace. The third kind of text
  that does is the next (`OnlyKnownPanics`).
- The marks of implicit tables are strings, so that one may be taken for
  another's: a redefinition then passes without an error and without its
  value, or `setValue` calls `p.bug`, a panic that nobody recovers. So it is
  for the lines `"a.b" = 1`, `[a.b.a]`, `["a.b"]`, `k = 2`, and for `[[a]]`,
  `[a.b.a]`, `[[a]]`, `b = 1`, `[a.b]`, `k = 2`.
- A value given to the name of an implicit table is dropped without an error,
  and of a name that comes twice in an inline table the last wins.
- The default node has no scheme, so `NewNacosClient` refuses it: without
  nodes confd does not start (`config.go:112`).
- A file that vanishes between two calls of the walk, or whose `lstat` fails, is
  a nil dereference (`util.go:113`); a directory that cannot be read is passed
  over.
- `seq` to the greatest int does not end; `ls` and `lsdir` of the root list
  less than what is below it; `reverse` leaves what `gets` returns as it is.
- Two keys may be stored under one name if the prefix is not clean, a key goes
  up, or a key is the prefix with a slash after it.

Why the bounds are enough to be of interest. Two keys are the fewest with
which a change can fall between two reads and a text can be cut in its middle.
One fault and one kill can each come at every step, and both in one behaviour;
what a second fault adds is a failure of the recovery, and liveness asks only
for what happens after the last. Channels of capacity one
are full at once; with ten, as in the code, a callback would only block later.
`MaxCount` is as large as the number of monitors plus the retries the faults
allow, so that it never stops a monitor. Values are versions in `NacosWatch`,
so that no two changes cancel out. A stack of four holds an array in an inline
table that is the value of a key, with a string or a comment on top: every
state function is entered from every kind of caller. Five lines are the fewest
that open an array of tables twice, with an implicit table below each, and
then define it. Two changes let a file vanish and another come, or a directory
be replaced. The keys and prefixes of `template_data` are one of each kind that
`path.Join`, `TrimPrefix` and `Split` tell apart: with a slash before, after
or not at all, with a dot, with a step up, a text that begins another.
Deadlock is not checked in the runs of `NacosWatch` and `TemplateResource`,
which rest when nobody publishes (in the latter the watcher then waits for a
token), and of `Confd`, `Loading`, `TemplateData`, `TomlParser` and
`TomlTables`, which end. `Loading`, `TemplateData` and `TomlTables` are checked
for safety only: each of their behaviours is a bounded sequence of steps, and
where `seq` does not end `SeqIsRange` says so.

Fairness. `TemplateResource`: a pass that has begun takes its next step; the
timer always starts another, whether the last one failed or not, and the
watcher starts one for each token and none besides; the supervisor restarts a
process that was killed or failed. Nothing is assumed of `StartAgain`: after an
exit with 0 systemd does not start confd again. So `Converges` and `Recovers`
except where confd has given up (`GivenUp`): a process that exited with 0, and
a watcher whose last pass failed or misread the files, which does nothing until
a key changes. No fairness is assumed of faults, kills or changes, and their
number is bounded: liveness is about what happens after the last of them.
`NacosWatch`: each goroutine that can run does (Go schedules all of them), the
SDK tells of every change in the end, and main drains `errChan`. `Confd`: main
and the processors take their steps; `select` chooses among its ready branches
at random, hence strong fairness of each branch, and a goroutine that waits to
send on a channel is in a queue, hence strong fairness of `Report`.
`TomlParser`: the one goroutine runs on; nothing is assumed of the text, so
`ComesToAnEnd` speaks of texts whose end has been seen.

Every property has a mutant of the code that breaks it, listed in
`PROJECT.json`; the mutated forms stand beside the definitions they replace
and are marked.

## 4. The proofs

All for every value of the constants: any number of keys, templates, faults,
kills, signals and changes, channels of any capacity, an int of any width, and
every text. The only assumptions are `ConstantsAssumption`, `WatchAssumption`,
`ConfdAssumption`, `DepthAssumption`, `DataAssumption`, `FilesAssumption`,
`FieldsAssumption` and `TablesAssumption`. They say of what kind each constant
is, and besides that what has something below it in a tree of files is a
directory; that the names of a structure's fields differ also when letters are
folded (as those of confd's two structures do), that a file's table has finitely
many keys and that the default node is none of the URLs that have a scheme
(`config.go:112`); that a name is told by its words and a header has at least
one name; and that different characters have different ranks in the order. Where a theorem needs more, it says so itself.

No induction theorem of the library can be used, because the provers cannot
instantiate its operator. Where a proof needs induction it is stated on sets: a
set of naturals that is not empty has a least element (`Least` or `Lowest`, from
the library's well-foundedness of `<`), so a set that holds 0 and with each number
the next holds all (`Induction`), and so does a set that holds the empty sequence
and with each sequence those with one member more (`SeqInduction`). What folds
over a sequence in the code is a recursive function in the model (`Rounds`,
`Establishing`, `Walk`, `Split`, `Sorted`), so that one round is one lemma.

`TemplateResourceProofs`:

- `TypeCorrect`: `TypeOK`, with the facts about where a stage file exists.
- `PassInvariant`: `FreshWhenOk` is not inductive, since it says nothing of a
  pass in progress. `PassInv` follows the values: what has been read was held
  by Nacos since the pass began (`ReadInv`), then the store, then the stage
  file (`RenderInv`), then the destination (`ReplaceInv`); it also carries the
  outcome of the check from `check` to the replacement.
- `Fresh` and `Vetted` follow from it; `Fresh` excepts the pass that misread,
  as `FreshWhenOk` does; `Vetted` needs that a file cut short
  consists of accepted values as well (`AcceptsPrefix`), and that only three
  steps write the destination (`DestWriters`).
- `StageRemoved`: `NoLitter`.
- `InSyncAfterRename`: `RenameInSync`. `AttributesInv` follows mode and owner
  from the stage file to the destination; that the comparison found nothing
  to do is a case of its own.
- `ServiceFollows`: `ServiceRunsDestIfNoFault`. In `ServiceInv` the service
  runs with the destination's text except between a replacement and the
  reload, or the destination has an owner confd cannot change, and then no
  pass reports success over it.
- `RenameKeepsPromise`: where no configuration has a mount point, each step
  maps to a step of `ConfigFile` or to a stutter.

`NacosWatchProofs`:

- `TypeCorrect`: with the places of the callbacks' loop within `MaxCount`.
- `ChangesWakeSomeone`: `SomeoneIsWoken`. The strengthening says that once a
  key has a callback, or a monitor is past `count++`, the counter is at least
  one, and that a monitor about to write it writes at least one: so although
  updates may be lost, the first test of a callback's loop succeeds.
- `OneTemplateIsFresh`: `FreshWhenQuiet`, supposing that there is a single
  monitor (with two, the run `watch_missed` refutes it). A value that was read
  is `Fine` if Nacos still holds it, or the SDK has not yet told of the newer
  one, or has told of it and no pass has begun since, or has told of an error.
  Only the beginning of a pass can spoil this, and a pass reads everything
  again; `SubscribedInv` says that a monitor past `WatchPrefix` has subscribed
  to all its keys. When all is quiet only the first of the four is left, by
  `ChangesWakeSomeone`.

`ConfdProofs`: `Life`, the invariant from which the three properties follow.

- `TypeCorrect`.
- `Honest`: `OneTimeIsHonest`. `ErrorInv` says that once a template has failed
  `lastErr` stays set until `process` returns.
- `ClosesCounted`: `ClosesHaveCauses`: once main listens, an exit with 0 takes
  a signal or a watch without templates, and a second close of `doneChan` takes
  two such causes. `CloseInv` counts: each close of `doneChan` has used up a signal that was sent, except for the one
  of a watch without templates (`PlacesInv` says where main, the processor and
  the passes may be together).

`TemplateDataProofs`: all four properties, for any prefixes, keys, paths and
patterns.

- `KeysAreServed`: `KeysServed`. In the midst of `setVars`' loop `StoreInv` says
  that each key of the resource is still in the result or has its key in the
  store, and that what is under a key of the store was asked for under a key
  that is stored there. The rest is about texts: for a prefix and a key as the
  property has them, what `Join` makes of both is the prefix's names and the
  key's behind a slash; `TrimPrefix` takes the former away, so that the store's key
  is the slash and the key's names (`RootedConcat`, `TrimIs`), which tells which
  key it was (`RootedTells`); and the data id is all these names with dots
  (`DottedJoined`).
- `NamesBelowAreListed`: `ListsWhatIsBelow`. By `StoreInv` each key of the store
  is a path that `Clean` leaves alone; of such paths `Dir` takes away the last
  name (`DirIs`), and to compare terms is to compare names (`PathIs`,
  `PrefixInFront`).
- `AnswersAreOrdered`: `AnswersOrdered`. `Less` orders all texts (`LessTransitive`,
  `LessTotal`), sorting keeps them in order and adds none (`InsertKeeps`,
  `SortedKeeps`); since a map gives each key once and sorting keeps different
  texts different, its list increases. `AnswerInv` adds what `reverse` turns round.
- `SeqGivesTheRange`: `SeqIsRange`. Unless the last number is the greatest
  int, the variable has not wrapped and is the first number plus how many have
  been given (`Rounds`); so the loop stops when it should, or the memory is
  used up by numbers that were asked for.

`Split`, `Joined`, `Names`, `NamesIn` and `Sorted` are folds over sequences.
`FoldIs` says once that such a fold has one result for each sequence, that of
one member less and one step (`SplitIs` to `SortedIs`); from there the lemmas
are inductions by `SeqInduction`: `Split` undoes `Joined` (`SplitJoined`), a
slash separates the parts of what is before and after it (`SplitConcat`), and
`Clean` keeps the names (`NamesWithoutUp`, `CleanIs`).

`TomlProofs`:

- `TypeCorrect`: `TypeOK` of `TomlParser`: whatever the text, both only come to
  states and calls that they know, and their stacks keep their kinds.
- `NothingPopsEmpty`: `NoEmptyPop`. What is in `items` says nothing of the
  stack; `LexInv` does: the function at the bottom of the stack is one that
  neither pops nor goes on to one that does (`TopStates`), and whenever any
  other runs the stack is not empty. One step for each state function; the
  lemmas `GoKeeps`, `CallKeeps` and `PopKeeps` say what each way of going on
  does to the stack.
- `NothingReadsPastTheEnd`: `StopsAtEOF`, which is inductive as it stands.

`TomlStepProofs`: `StepInvariant`, from which two properties follow.

- `ParserInStep`: `InStep`. It compares the parser only where it waits for an
  item, and only arrays and tables, so it is not inductive: a step from one
  item to the next passes through states where one of the two is ahead.
  `StepInv` says, call by call, which state the lexer may be in (`Ready`) and
  what its stack holds for each level the parser is in (`Awaits`): the
  function with which the lexer goes on when the value, the key, the array or
  the table at that level is over. What is in `items` but not yet received is
  accounted for in the same way, one item after the other.
- `PanicsKnown`: `OnlyKnownPanics`: from the same invariant the kind of the
  next item is known wherever the parser calls `p.bug` for any other item. What
  `setValue` finds is not known there; the invariant says that a key whose
  context is missing stands outside all values for the lexer as well.

`TomlTablesProofs`: what the parser takes and refuses, for lines without bound
and keys of any length. `ParserInv` has three parts.

- `TypeCorrect` (`TypeOK`) and `LinesOnlyAdd` (`NothingLost`) need `TreeInv`:
  the mapping hangs together and no array has more elements than lines have
  been read. Establishing a context, hanging up a value and adding an element
  each keep it and lose nothing (`EnterOrCreateEnters`, `HangKeepsSound`,
  `ElementKeepsSound`).
- `ContextIsEstablished` (`ContextEstablishedIfMarksAgree`) and `RefusalsRight`
  (`RefusesRedefinitions`) need `MarksInv`: the code asks the marks, TOML asks
  the nodes, and the two agree. A legal text has marked each table that it has
  not defined (`ImplicitsMarked`); unless it has done something unusual each
  mark is that of a table, and of one it has not defined (`MarksMeanTables`,
  `MarksMeanImplicits`); names in use have no dots if no line had any
  (`UndottedKeys`), so that a string is the string of one key only
  (`StringTells`); and the walk along the context leads somewhere. `Prepared`
  is what `establishContext` has done when it has passed some of a header's
  names. From there `setValue` does one of three things: it adds (`IsAdded`),
  takes a mark away (`LosesMark`) or refuses (`IsRefused`); each keeps the
  invariant, and each does what TOML says. `KeyInduction` carries what is said
  of one round to keys of any length.
- `ValuesStay` (`LegalValuesKept`) needs `ValuesInv`, the count of the values
  in the mapping.

`LoadingProofs`: `LoadInvariant`, from which the first two of three properties
follow.

- `NothingSteadyIsMissed`: `LoadsWhatIsThere`. It speaks of the end only. In
  `LoadInv` each resource file that stays where it is has been found, or is
  below a name that is left in some frame, below the path the walk is at, or
  below a directory that could not be read (`Covered`), and these places do
  not overlap (`OnlyOnce`, `Nested`): so it is found, and once. That the tree
  stays a tree whatever other programs do is part of it.
- `NoTroubleWithoutCause`: `TroubleHasACause`. `Known` says that a path the
  walk is at was there when its directory was read, so that a walk that panics
  is at a path that was touched or could not be examined; `Caused` that an error
  so far has one of the causes, and `ParserPanics` that the parser panics only
  at a text of `PanicToml`, the last it was given.
- `ValuesFollowKeys`: `FieldsFromTheirKeys`. `FieldsInv` says of each resource
  found what the file it was read from said then, and of the settings what the
  flags and confd's file said. `RoundsAre` follows `unifyStruct` key by key and
  `UnifySays` concludes for every order: each field has that of a key that
  names it, or the one it had if none does.

The invariants `StepInv`, `LoadInv`, `MarksInv` (for keys of bounded length) and
`AnswerInv` were also checked by TLC, as invariants of the runs `toml`, `loading`,
`toml_tables` and `template_data`.

Only model-checked: the liveness properties, which are out of the prover's
reach.

## 5. Not modelled

The Loki notification: its result is not read. Logging and decryption. Of the
template functions those that are one call of Go's library: the sorts by
length, `map`, `getenv`, `replace`, base64, the conversions, and the lookups,
which ask DNS. The strings, numbers and dates of a TOML text, of which only
the outcome is modelled, and the parser's metadata, which confd does not read.
Of the decoder all but tables, strings, ints, `uint32` and slices of strings,
which are what confd's two structures have: `Primitive`, floats, times, maps,
and the search for embedded fields. The TOML encoder, which confd never calls.
`Gid` apart from `Uid`. Time: an interval is only "later". Windows. The mutex
of the store, since each store belongs to one goroutine.

## 6. Plan

In this order:

1. `TomlStrings`: `stripEscapedWhitespace` and `replaceEscapes` over short
   strings, against the reading the lexer gives them.
2. A module that composes `NacosWatch` with the passes of `TemplateResource`.
3. `TypeFields`: the search for the fields of embedded structures, against
   Go's rule of promotion. A type that is embedded twice and itself embeds
   another is the case to look at, since the count is not passed on.
