-------------------------- MODULE TemplateResource --------------------------
(***************************************************************************)
(* One template resource (resource/template/resource.go) and the file it   *)
(* keeps in step with Nacos.  A pass is one call of process(): fix the     *)
(* file mode, read every key, render a stage file beside the destination,  *)
(* compare, check, replace, reload.  The steps are the system calls other  *)
(* programs can see, and the program may be killed between any two of      *)
(* them.  A call that can fail may do so while `faults` is below its       *)
(* bound.                                                                  *)
(*                                                                         *)
(* The timer starts a pass again and again, each from a new                *)
(* TemplateResource; the watcher's goroutine starts one for each token it  *)
(* receives, the first at once (processor.go).  Every change of a key      *)
(* gives it a token here: NacosWatch says when the code does so.           *)
(*                                                                         *)
(* The text of a file is abstracted to the sequence of the values it was   *)
(* rendered from, one for each key; a proper prefix of one is a file whose *)
(* write was cut short.                                                    *)
(***************************************************************************)
EXTENDS Naturals, Sequences

CONSTANTS
  NumKeys,     \* t.Keys is a list of NumKeys keys
  Values,      \* what a key can hold in Nacos
  Accepted,    \* the values check_cmd lets through
  Modes,       \* the permissions a file can have
  DefaultMode, \* 0644, for a destination that does not exist
  TempMode,    \* 0600, what ioutil.TempFile creates a file with
  Owners,      \* user ids
  Euid,        \* the user confd runs as
  NoFile,      \* what stands at a path where there is no file
  Unset,       \* mode is absent from the resource's toml
  BadMode,     \* a mode that strconv.ParseUint refuses
  Configs,     \* the configurations a run explores
  MaxChanges, MaxFaults, MaxCrashes   \* bounds of a run

Keys == 1 .. NumKeys
Contents == [Keys -> Values]
Files == [content : Seq(Values), mode : Modes, owner : Owners]

(* The fields of a TemplateResource that NewTemplateResource sets and      *)
(* nothing changes, whether the watcher or the timer starts its passes,    *)
(* and two facts of the host: whether the destination is a mount point (a  *)
(* rename onto it is "device or resource busy") and whether confd may      *)
(* chown a file to another user.                                           *)
ConfigType ==
  [watch : BOOLEAN, noop : BOOLEAN, syncOnly : BOOLEAN, keepStageFile : BOOLEAN,
   check : BOOLEAN, reload : BOOLEAN, mode : Modes \cup {Unset, BadMode},
   uid : Owners, mounted : BOOLEAN, root : BOOLEAN]

ASSUME ConstantsAssumption ==
  /\ NumKeys \in Nat \ {0}
  /\ Accepted \subseteq Values
  /\ DefaultMode \in Modes /\ TempMode \in Modes
  /\ Unset \notin Modes /\ BadMode \notin Modes /\ Unset # BadMode
  /\ Euid \in Owners
  /\ NoFile \notin Files
  /\ Configs \subseteq ConfigType
  /\ MaxChanges \in Nat /\ MaxFaults \in Nat /\ MaxCrashes \in Nat

VARIABLES
  conf,      \* the configuration, chosen once
  backend,   \* what Nacos holds
  store,     \* t.store: the last complete result of GetValues, or <<>>
  tokens,    \* the passes the watcher is still to start
  pc,        \* where the pass is; "idle" between passes
  got,       \* GetValues' vars: the values of the keys read so far
  fileMode,  \* t.FileMode
  staged,    \* the stage file of the pass in progress
  litter,    \* a stage file outlived its pass and is still in the directory
  dest,      \* the destination file
  loaded,    \* what the service last loaded: external, reload_cmd's effect
  err,       \* process() is returning an error
  last,      \* how the last pass ended: "none", "ok" or "err"
  seen,      \* history: what each key has held since the pass began
  misread,   \* history: the pass took files for equal that it read in part
  changes, faults, crashes   \* counters, bounded by the constants above

nacosVars == <<backend, tokens, seen, changes>>
vars == <<conf, backend, store, tokens, pc, got, fileMode, staged, litter,
          dest, loaded, err, last, seen, misread, changes, faults, crashes>>

Stopped == {"down", "exited"}   \* killed or failed; exited with status 0
Steps == {"idle", "vars", "stage", "render", "compare", "check", "replace",
          "write", "chown", "reload", "cleanup"} \cup Stopped

(* What a process that starts has to do: WatchPrefix returns at once when  *)
(* its waitIndex is 0.                                                     *)
FirstTokens == IF conf.watch THEN 1 ELSE 0

Checks  == conf.check /\ ~conf.syncOnly
Reloads == conf.reload /\ ~conf.syncOnly
Accepts(c) == \A k \in DOMAIN c : c[k] \in Accepted

Init ==
  /\ conf \in Configs
  /\ backend \in Contents
  /\ dest \in [content : Contents, mode : Modes, owner : Owners] \cup {NoFile}
  /\ conf.mounted => dest # NoFile
  /\ loaded = IF dest = NoFile THEN <<>> ELSE dest.content
  /\ store = <<>> /\ got = <<>> /\ fileMode = DefaultMode /\ staged = NoFile
  /\ pc = "idle" /\ err = FALSE /\ last = "none" /\ litter = FALSE
  /\ tokens = FirstTokens /\ misread = FALSE
  /\ seen = [k \in Keys |-> {backend[k]}]
  /\ changes = 0 /\ faults = 0 /\ crashes = 0
-----------------------------------------------------------------------------
GoTo(step) == pc' = step

(* A call fails: one more of the run's faults. *)
Fault == faults < MaxFaults /\ faults' = faults + 1

(* process() returns an error before there is a stage file. *)
GiveUp == GoTo("idle") /\ last' = "err" /\ UNCHANGED err

(* sync() returns, and its deferred function is to run. *)
Return(failed) == GoTo("cleanup") /\ err' = failed /\ UNCHANGED last

Proceed(step) == GoTo(step) /\ UNCHANGED <<err, last>>

StartPassUnlessFailed ==                                            \* mutant
  last # "err" /\ store' = <<>> /\ UNCHANGED tokens

(* The timer's next round, which makes a new TemplateResource, or the      *)
(* watcher's, which takes a token and keeps its own.                       *)
StartPass ==
  \/ ~conf.watch /\ store' = <<>> /\ UNCHANGED tokens
  \/ conf.watch /\ tokens > 0 /\ tokens' = tokens - 1 /\ UNCHANGED store

(* A pass begins: setFileMode. *)
SetFileMode ==
  /\ pc = "idle" /\ StartPass
  /\ got' = <<>> /\ misread' = FALSE
  /\ seen' = [k \in Keys |-> {backend[k]}]
  /\ \/ /\ conf.mode = Unset
        /\ fileMode' = IF dest = NoFile THEN DefaultMode ELSE dest.mode
        /\ Proceed("vars") /\ UNCHANGED faults
     \/ /\ conf.mode = Unset /\ dest # NoFile /\ Fault
        /\ GiveUp /\ UNCHANGED fileMode
     \/ /\ conf.mode = BadMode
        /\ GiveUp /\ UNCHANGED <<fileMode, faults>>
     \/ /\ conf.mode \notin {Unset, BadMode}
        /\ fileMode' = conf.mode
        /\ Proceed("vars") /\ UNCHANGED faults
  /\ UNCHANGED <<conf, backend, staged, litter, dest, loaded, changes, crashes>>

(* GetValues returns an error: what was read is discarded and the store is *)
(* left as it was.                                                         *)
FailGetValuesIgnored == Fault /\ Proceed("stage") /\ got' = <<>>   \* mutant
FailGetValues == Fault /\ GiveUp /\ got' = <<>>

(* One round of GetValues' loop. *)
GetValue ==
  /\ pc = "vars" /\ Len(got) < NumKeys
  /\ \/ /\ got' = Append(got, backend[Len(got) + 1])
        /\ Proceed("vars") /\ UNCHANGED faults
     \/ FailGetValues
  /\ UNCHANGED <<nacosVars, misread>>
  /\ UNCHANGED <<conf, store, fileMode, staged, litter, dest, loaded, crashes>>

(* The rest of setVars: purge the store and set every key read. *)
SetVars ==
  /\ pc = "vars" /\ Len(got) = NumKeys
  /\ store' = got /\ got' = <<>>
  /\ Proceed("stage")
  /\ UNCHANGED <<nacosVars, misread>>
  /\ UNCHANGED <<conf, fileMode, staged, litter, dest, loaded, faults, crashes>>

(* createStageFile, to TempFile.  A missing or malformed template is among *)
(* the faults.                                                             *)
CreateStageFile ==
  /\ pc = "stage"
  /\ \/ /\ staged' = [content |-> <<>>, mode |-> TempMode, owner |-> Euid]
        /\ Proceed("render") /\ UNCHANGED faults
     \/ Fault /\ GiveUp /\ UNCHANGED staged
  /\ UNCHANGED <<nacosVars, misread>>
  /\ UNCHANGED <<conf, store, got, fileMode, litter, dest, loaded, crashes>>

(* os.Remove of the stage file, and a pass that ends without it. *)
LeaveStage == staged' = NoFile /\ litter' = (litter \/ staged # NoFile)
ForgetStage == UNCHANGED <<staged, litter>>                         \* mutant
RemoveStage == staged' = NoFile /\ UNCHANGED litter

(* os.Chown(_, t.Uid, _) succeeds on a file of the given owner. *)
MayChown(owner) == conf.root \/ (owner = Euid /\ conf.uid = Euid)

(* The rest of createStageFile: run the template, write the result, set    *)
(* the attributes.  A failing template or write removes the file; chmod's  *)
(* and chown's errors are ignored.                                         *)
Render ==
  /\ pc = "render"
  /\ \/ /\ staged' = [content |-> store, mode |-> fileMode,
                      owner |-> IF MayChown(Euid) THEN conf.uid ELSE Euid]
        /\ Proceed("compare") /\ UNCHANGED <<faults, litter>>
     \/ /\ Fault
        /\ staged' = [content |-> store, mode |-> TempMode,
                      owner |-> IF MayChown(Euid) THEN conf.uid ELSE Euid]
        /\ Proceed("compare") /\ UNCHANGED litter
     \/ Fault /\ GiveUp /\ RemoveStage
  /\ UNCHANGED <<nacosVars, misread>>
  /\ UNCHANGED <<conf, store, got, fileMode, dest, loaded, crashes>>

(* util.IsConfigChanged on the stage file and the destination. *)
ContentChanged ==                                                   \* mutant
  IF dest = NoFile THEN TRUE ELSE dest.content # staged.content
AlwaysChanged == TRUE                                               \* mutant
DestMissing == dest = NoFile                                        \* mutant
IsConfigChanged == dest # staged

(* performSync: check_cmd comes before the replacement. *)
PerformSyncUnchecked == Proceed("replace")                          \* mutant
PerformSync == Proceed(IF Checks THEN "check" ELSE "replace")

(* FileStat ignores an error of io.Copy, so that a digest may be that of a *)
(* part of the file: the comparison finds a difference, or none where the  *)
(* parts agree.                                                            *)
Misread ==
  /\ dest # NoFile /\ ~conf.noop /\ Fault
  /\ \/ PerformSync /\ UNCHANGED misread
     \/ /\ dest.mode = staged.mode /\ dest.owner = staged.owner
        /\ Return(FALSE) /\ misread' = TRUE

(* sync(), to the decision whether to replace the destination. *)
Compare ==
  /\ pc = "compare"
  /\ \/ /\ conf.noop \/ ~IsConfigChanged
        /\ Return(FALSE) /\ UNCHANGED <<faults, misread>>
     \/ /\ ~conf.noop /\ IsConfigChanged
        /\ PerformSync /\ UNCHANGED <<faults, misread>>
     \/ dest # NoFile /\ Fault /\ Return(TRUE) /\ UNCHANGED misread
     \/ Misread
  /\ UNCHANGED nacosVars
  /\ UNCHANGED <<conf, store, got, fileMode, staged, litter, dest, loaded,
                 crashes>>

(* check(): check_cmd reads the stage file. *)
Check ==
  /\ pc = "check"
  /\ \/ Accepts(staged.content) /\ Proceed("replace") /\ UNCHANGED faults
     \/ ~Accepts(staged.content) /\ Return(TRUE) /\ UNCHANGED faults
     \/ Fault /\ Return(TRUE)
  /\ UNCHANGED <<nacosVars, misread>>
  /\ UNCHANGED <<conf, store, got, fileMode, staged, litter, dest, loaded,
                 crashes>>

(* The destination is replaced: performSync goes on to reload_cmd. *)
ReloadForgotten == Return(FALSE)                                    \* mutant
AfterReplace == IF Reloads THEN Proceed("reload") ELSE Return(FALSE)

(* replaceConfig: os.Rename, where the destination is not a mount point. *)
Rename ==
  /\ pc = "replace" /\ ~conf.mounted
  /\ \/ /\ dest' = staged /\ staged' = NoFile
        /\ AfterReplace /\ UNCHANGED faults
     \/ Fault /\ Return(TRUE) /\ UNCHANGED <<dest, staged>>
  /\ UNCHANGED <<nacosVars, misread>>
  /\ UNCHANGED <<conf, store, got, fileMode, litter, loaded, crashes>>

(* replaceConfig's fallback: the rename was refused as busy, and WriteFile *)
(* opens the destination, which truncates it and keeps its mode.           *)
Truncate ==
  /\ pc = "replace" /\ conf.mounted
  /\ \/ /\ dest' = [dest EXCEPT !.content = <<>>]
        /\ Proceed("write") /\ UNCHANGED faults
     \/ Fault /\ Return(TRUE) /\ UNCHANGED dest
  /\ UNCHANGED <<nacosVars, misread>>
  /\ UNCHANGED <<conf, store, got, fileMode, staged, litter, loaded, crashes>>

(* WriteFile writes the stage file's text; a failure leaves part of it. *)
Write ==
  /\ pc = "write"
  /\ \/ /\ dest' = [dest EXCEPT !.content = staged.content]
        /\ Proceed("chown") /\ UNCHANGED faults
     \/ /\ Fault /\ Return(TRUE)
        /\ \E n \in 0 .. Len(staged.content) - 1 :
             dest' = [dest EXCEPT !.content = SubSeq(staged.content, 1, n)]
  /\ UNCHANGED <<nacosVars, misread>>
  /\ UNCHANGED <<conf, store, got, fileMode, staged, litter, loaded, crashes>>

(* The end of replaceConfig's fallback. *)
ChownDest ==
  /\ pc = "chown"
  /\ \/ /\ MayChown(dest.owner)
        /\ dest' = [dest EXCEPT !.owner = conf.uid]
        /\ AfterReplace /\ UNCHANGED faults
     \/ /\ ~MayChown(dest.owner)
        /\ Return(TRUE) /\ UNCHANGED <<dest, faults>>
     \/ Fault /\ Return(TRUE) /\ UNCHANGED dest
  /\ UNCHANGED <<nacosVars, misread>>
  /\ UNCHANGED <<conf, store, got, fileMode, staged, litter, loaded, crashes>>

(* reload(): the service reads the destination. *)
Reload ==
  /\ pc = "reload"
  /\ \/ loaded' = dest.content /\ Return(FALSE) /\ UNCHANGED faults
     \/ Fault /\ Return(TRUE) /\ UNCHANGED loaded
  /\ UNCHANGED <<nacosVars, misread>>
  /\ UNCHANGED <<conf, store, got, fileMode, staged, litter, dest, crashes>>

(* sync()'s deferred function, and the end of process(). *)
Cleanup ==
  /\ pc = "cleanup"
  /\ IF conf.keepStageFile THEN LeaveStage ELSE RemoveStage
  /\ GoTo("idle") /\ err' = FALSE /\ last' = IF err THEN "err" ELSE "ok"
  /\ UNCHANGED <<nacosVars, misread>>
  /\ UNCHANGED <<conf, store, got, fileMode, dest, loaded, faults, crashes>>
-----------------------------------------------------------------------------
(* The process ends, in the middle of a pass or between two. *)
Stop(status) ==
  /\ pc \notin Stopped /\ crashes < MaxCrashes
  /\ crashes' = crashes + 1
  /\ GoTo(status) /\ last' = "none" /\ err' = FALSE
  /\ LeaveStage
  /\ store' = <<>> /\ got' = <<>> /\ fileMode' = DefaultMode
  /\ tokens' = 0 /\ misread' = FALSE
  /\ UNCHANGED <<conf, backend, seen, changes, dest, loaded, faults>>

(* It is killed, or it fails: log.Fatal, a panic. *)
Kill == Stop("down")

(* main calls os.Exit(0), after a signal. *)
Exit == Stop("exited")

Start ==
  /\ Proceed("idle")
  /\ tokens' = FirstTokens
  /\ UNCHANGED <<conf, backend, seen, changes, store, got, fileMode, staged,
                 litter, dest, loaded, misread, faults, crashes>>

(* systemd or supervisord starts it again; systemd does not if it exited   *)
(* with status 0.                                                          *)
Restart == pc = "down" /\ Start
StartAgain == pc = "exited" /\ Start

(* Someone publishes a new value of a key in Nacos, which gives the        *)
(* watcher a token; two changes may be told of as one.                     *)
Token ==
  \/ (conf.watch => pc \in Stopped \/ tokens > 0) /\ UNCHANGED tokens
  \/ conf.watch /\ pc \notin Stopped /\ tokens' = tokens + 1

Publish(k, v) ==
  /\ changes < MaxChanges /\ v # backend[k]
  /\ changes' = changes + 1
  /\ backend' = [backend EXCEPT ![k] = v]
  /\ seen' = [seen EXCEPT ![k] = @ \cup {v}]
  /\ Token
  /\ UNCHANGED <<conf, store, pc, got, fileMode, staged, litter, dest, loaded,
                 err, last, misread, faults, crashes>>

Pass ==
  \/ SetFileMode \/ GetValue \/ SetVars \/ CreateStageFile \/ Render
  \/ Compare \/ Check \/ Rename \/ Truncate \/ Write \/ ChownDest
  \/ Reload \/ Cleanup

Next ==
  \/ Pass
  \/ Kill \/ Exit \/ Restart \/ StartAgain
  \/ \E k \in Keys, v \in Values : Publish(k, v)

(* A pass's calls return; the timer always starts the next pass and the    *)
(* watcher one for each token, but none only because the last one failed;  *)
(* the supervisor restarts a process that was killed or failed, not one    *)
(* that exited with status 0.                                              *)
Spec == Init /\ [][Next]_vars /\ WF_vars(Pass) /\ WF_vars(Restart)
-----------------------------------------------------------------------------
(* Every variable keeps its kind, and a stage file exists exactly between  *)
(* its creation and the end of the pass (or its rename).                   *)
TypeOK ==
  /\ conf \in ConfigType
  /\ backend \in Contents /\ seen \in [Keys -> SUBSET Values]
  /\ store \in Seq(Values) /\ got \in Seq(Values) /\ loaded \in Seq(Values)
  /\ pc \in Steps
  /\ fileMode \in Modes
  /\ staged \in Files \cup {NoFile} /\ dest \in Files \cup {NoFile}
  /\ litter \in BOOLEAN /\ err \in BOOLEAN /\ misread \in BOOLEAN
  /\ tokens \in 0 .. changes + 1
  /\ last \in {"none", "ok", "err"}
  /\ changes \in 0 .. MaxChanges /\ faults \in 0 .. MaxFaults
  /\ crashes \in 0 .. MaxCrashes
  /\ pc \in {"idle", "vars", "stage"} \cup Stopped => staged = NoFile
  /\ pc \in {"render", "compare", "check", "replace", "write", "chown"}
       => staged # NoFile
  /\ pc \in {"write", "chown", "reload"} => dest # NoFile
  /\ conf.mounted => dest # NoFile

(* Whatever fails and wherever the program is killed, the destination      *)
(* changes only when noop is off, never to a text the check command would  *)
(* refuse, and, unless it is a mount point, never to part of a text        *)
(* (performSync, resource.go:359).                                         *)
VettedReplace ==
  [][dest' # dest =>
       /\ ~conf.noop
       /\ dest' # NoFile
       /\ conf.check /\ ~conf.syncOnly => Accepts(dest'.content)
       /\ ~conf.mounted => Len(dest'.content) = NumKeys]_vars

(* A pass that reports success leaves the destination showing, for each    *)
(* key, a value Nacos held during that pass: never a value of an earlier   *)
(* pass left in the store (setVars, resource.go:251).  The code does not   *)
(* keep this where it took the destination for equal because it could not  *)
(* read the files to the end (FileStat, filestat_posix.go:27).             *)
FreshWhenOk ==
  pc = "idle" /\ last = "ok" /\ ~conf.noop /\ ~misread =>
    /\ dest # NoFile
    /\ Len(dest.content) = NumKeys
    /\ \A k \in Keys : dest.content[k] \in seen[k]

(* After a pass that reports success the destination has the mode the pass *)
(* chose and the owner confd could give it, so that the next pass over the *)
(* same values finds nothing to do; a failed chmod, which the code         *)
(* ignores, is excepted.  The code does not keep this for a mount point,   *)
(* whose mode it never changes.                                            *)
RenameInSync ==
  pc = "idle" /\ last = "ok" /\ ~conf.noop /\ ~conf.mounted /\ faults = 0 =>
    /\ dest.mode = fileMode
    /\ dest.owner = IF MayChown(Euid) THEN conf.uid ELSE Euid

(* After a pass that reports success the service runs with the text that   *)
(* is in the destination.  The code keeps this as long as no call fails    *)
(* and the program is not killed, provided that confd may give a file the  *)
(* owner it is configured with (resource.go:371).                          *)
ServiceRunsDest ==
  pc = "idle" /\ last = "ok" /\ ~conf.noop /\ conf.reload /\ ~conf.syncOnly
    => dest # NoFile /\ loaded = dest.content
ServiceRunsDestIfNoFault ==
  faults = 0 /\ crashes = 0 /\ (conf.root \/ conf.uid = Euid)
    => ServiceRunsDest

(* A stage file is left behind only if keep-stage-file asks for it or the  *)
(* program was killed: every error path of createStageFile and sync        *)
(* removes it.                                                             *)
NoLitter == litter => conf.keepStageFile \/ crashes > 0

(* A text that can be synchronised. *)
Syncable ==
  /\ ~conf.noop /\ conf.mode # BadMode
  /\ conf.check /\ ~conf.syncOnly => Accepts(backend)

(* Where the code gives up until a key changes or someone starts it: the   *)
(* watcher after a pass that failed or misread the files, and a process    *)
(* that exited with status 0.                                              *)
GivenUp ==
  \/ pc = "exited"
  \/ conf.watch /\ (last = "err" \/ misread)

(* Once Nacos, the calls and the process are quiet, the destination comes  *)
(* to show what Nacos holds and keeps showing it, unless confd has given   *)
(* up; the timer never does while the process runs (processor.go:62), and  *)
(* the watcher only after its last pass failed (processor.go:133).         *)
Converges ==
  <>[](Syncable /\ ~GivenUp => dest # NoFile /\ dest.content = backend)

(* On a mount point it shows it again and again, and under the timer also  *)
(* after a write that was cut short (replaceConfig, resource.go:383).      *)
Recovers ==
  []<>(Syncable /\ ~GivenUp => dest # NoFile /\ dest.content = backend)

(* Where it is not a mount point, confd then stops replacing it and        *)
(* reloading the service.                                                  *)
Settles == <>[](pc \notin {"replace", "write", "chown", "reload"})

(* What makes VettedReplace and FreshWhenOk inductive.  A text shows the   *)
(* pass if it holds, for each key, a value Nacos held since the pass       *)
(* began: this is true of what is read, then of the store, of the stage    *)
(* file and at last of the destination.                                    *)
Shows(text) == Len(text) = NumKeys /\ \A k \in Keys : text[k] \in seen[k]

ReadInv ==
  /\ \A k \in Keys : backend[k] \in seen[k]
  /\ pc = "vars" => /\ Len(got) <= NumKeys
                    /\ \A k \in 1 .. Len(got) : got[k] \in seen[k]

RenderInv ==
  /\ pc \in {"stage", "render"} => Shows(store)
  /\ pc \in {"compare", "check", "replace", "write", "chown"}
       => Shows(staged.content)
  /\ pc \in {"check", "replace", "write", "chown"} => ~conf.noop
  /\ pc \in {"replace", "write", "chown"} /\ Checks => Accepts(staged.content)

ReplaceInv ==
  /\ pc \in {"write", "chown"} => conf.mounted
  /\ pc = "chown" => dest.content = staged.content
  /\ ~conf.mounted /\ dest # NoFile => Len(dest.content) = NumKeys
  /\ (pc = "reload" \/ (pc = "cleanup" /\ ~err)) /\ ~conf.noop /\ ~misread
       => dest # NoFile /\ Shows(dest.content)
  /\ pc \in Stopped => last = "none"

PassInv == ReadInv /\ RenderInv /\ ReplaceInv /\ FreshWhenOk

(* The destination as a reader sees it, and the texts this configuration   *)
(* lets through.                                                           *)
Promise == INSTANCE ConfigFile WITH
  Texts   <- Contents,
  NoText  <- <<>>,
  file    <- IF dest = NoFile THEN <<>> ELSE dest.content,
  service <- loaded,
  vetted  <- {c \in Contents : conf.check /\ ~conf.syncOnly => Accepts(c)}

(* Replacing the destination by rename keeps the promise, across failures  *)
(* and crashes (replaceConfig, resource.go:383).                           *)
KeepsPromise == Promise!Spec
=============================================================================
