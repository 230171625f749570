------------------------------- MODULE Confd --------------------------------
(***************************************************************************)
(* The life of the program: main (confd.go) and the processor it starts    *)
(* (resource/template/processor.go), their channels, and the signals of    *)
(* the operating system.  A pass over a template is one of                 *)
(* TemplateResource's; here it begins, and ends well or with an error.     *)
(* os.Exit and a panic end every goroutine where it is.                    *)
(*                                                                         *)
(* Nothing is ever sent on stopChan and nobody closes it, so the branches  *)
(* that receive from it are left out.                                      *)
(***************************************************************************)
EXTENDS Naturals, FiniteSets

CONSTANTS
  Templates,   \* the resource files there may be in conf.d
  ErrCap,      \* the capacity of errChan, 10 in the code
  SigCap,      \* the capacity of signalChan, 1 in the code
  MaxSignals   \* bound of a run

ASSUME ConfdAssumption ==
  /\ IsFiniteSet(Templates)
  /\ ErrCap \in Nat \ {0} /\ SigCap \in Nat \ {0} /\ MaxSignals \in Nat

VARIABLES
  mode,        \* "onetime", "interval" or "watch": the flags, chosen once
  main,        \* where main is
  exit,        \* how the program ended, "running" until it does
  proc,        \* where the processor (or template.Process) is
  found,       \* the templates that getTemplateResources returned
  todo,        \* those process() has still to go over
  pass,        \* what is being done about each template
  lastErr,     \* process() has an error to return
  erred,       \* history: the templates of found whose pass failed
  errs,        \* what is in errChan
  sigs,        \* what is in signalChan
  doneClosed,  \* doneChan is closed
  signals      \* counter, bounded by MaxSignals

passVars == <<todo, pass, lastErr, erred>>
chanVars == <<errs, sigs, doneClosed>>
vars == <<mode, main, exit, proc, found, passVars, chanVars, signals>>

Init ==
  /\ mode \in {"onetime", "interval", "watch"}
  /\ main = "init" /\ exit = "running" /\ proc = "none"
  /\ found = {} /\ todo = {} /\ erred = {} /\ lastErr = FALSE
  /\ pass = [t \in Templates |-> "none"]
  /\ errs = 0 /\ sigs = 0 /\ doneClosed = FALSE /\ signals = 0
-----------------------------------------------------------------------------
(* Where a goroutine is, in a program that has not ended. *)
Main(place) == exit = "running" /\ main = place
Proc(place) == exit = "running" /\ proc = place
Watching(t, place) == exit = "running" /\ mode = "watch" /\ pass[t] = place

MainGoTo(place) == main' = place /\ UNCHANGED exit
End(how) == exit' = how /\ UNCHANGED main

(* initConfig and backends.New; -version prints and exits.  The TOML       *)
(* parser may panic over the configuration file.                           *)
Initialise ==
  /\ Main("init")
  /\ \/ MainGoTo(IF mode = "onetime" THEN "onetime" ELSE "start")
     \/ End("ok") \/ End("failed") \/ End("panic")
  /\ proc' = IF main' = "onetime" THEN "load" ELSE proc
  /\ UNCHANGED <<mode, found, passVars, chanVars, signals>>

StartProcessor ==
  /\ Main("start")
  /\ MainGoTo("notify") /\ proc' = "load"
  /\ UNCHANGED <<mode, found, passVars, chanVars, signals>>

(* signal.Notify: until now a signal has killed the program. *)
NotifySignals ==
  /\ Main("notify")
  /\ MainGoTo("select")
  /\ UNCHANGED <<mode, proc, found, passVars, chanVars, signals>>

(* close(doneChan), which panics if it is closed. *)
CloseDone ==
  IF doneClosed THEN End("closedTwice") /\ UNCHANGED doneClosed
                ELSE doneClosed' = TRUE /\ UNCHANGED <<main, exit>>

(* The branches of main's select. *)
NoErrorBranch == FALSE                                            \* mutant
ReceiveError ==
  /\ Main("select") /\ errs > 0
  /\ errs' = errs - 1
  /\ UNCHANGED <<mode, main, exit, proc, found, passVars, sigs, doneClosed,
                 signals>>

SignalIgnored == UNCHANGED <<doneClosed, main, exit>>             \* mutant
AfterSignal == CloseDone

ReceiveSignal ==
  /\ Main("select") /\ sigs > 0
  /\ sigs' = sigs - 1
  /\ AfterSignal
  /\ UNCHANGED <<mode, proc, found, passVars, errs, signals>>

ReceiveDone ==
  /\ Main("select") /\ doneClosed
  /\ End("ok")
  /\ UNCHANGED <<mode, proc, found, passVars, chanVars, signals>>
-----------------------------------------------------------------------------
(* getTemplateResources.  The processors end the program if a resource     *)
(* file cannot be loaded; template.Process returns the error, and main     *)
(* ends it.  The walk may panic, and the TOML parser over a resource file. *)
Load ==
  /\ Proc("load")
  /\ \/ \E ts \in SUBSET Templates :
          /\ found' = ts /\ erred' = {} /\ lastErr' = FALSE
          /\ IF mode = "watch"
             THEN /\ proc' = "wait" /\ todo' = {}
                  /\ pass' = [t \in Templates |->
                                IF t \in ts THEN "watch" ELSE "none"]
             ELSE proc' = "process" /\ todo' = ts /\ UNCHANGED pass
          /\ UNCHANGED <<main, exit>>
     \/ /\ End("failed") \/ End("panic")
        /\ UNCHANGED <<proc, found, passVars>>
  /\ UNCHANGED <<mode, chanVars, signals>>

(* process(): the templates one after the other, whatever their errors. *)
BeginPass(t) ==
  /\ Proc("process") /\ t \in todo
  /\ \A u \in Templates : pass[u] # "run"
  /\ pass' = [pass EXCEPT ![t] = "run"] /\ todo' = todo \ {t}
  /\ UNCHANGED <<mode, main, exit, proc, found, lastErr, erred, chanVars,
                 signals>>

KeepLast(failed) == failed                                        \* mutant
KeepError(failed) == failed \/ lastErr

(* A pass panics if fstat fails, whose error FileStat ignores. *)
PassPanics == End("panic") /\ UNCHANGED <<pass, lastErr, erred>>

EndPass(t) ==
  /\ Proc("process") /\ pass[t] = "run"
  /\ \/ /\ pass' = [pass EXCEPT ![t] = "none"]
        /\ \E failed \in BOOLEAN :
             /\ lastErr' = KeepError(failed)
             /\ erred' = IF failed THEN erred \cup {t} ELSE erred
        /\ UNCHANGED <<main, exit>>
     \/ PassPanics
  /\ UNCHANGED <<mode, proc, found, todo, chanVars, signals>>

(* process() returns: to main, or to the timer's loop. *)
EndProcess ==
  /\ Proc("process") /\ todo = {} /\ \A t \in Templates : pass[t] # "run"
  /\ IF mode = "onetime"
     THEN /\ End(IF lastErr THEN "failed" ELSE "ok") /\ UNCHANGED proc
     ELSE proc' = "sleep" /\ UNCHANGED <<main, exit>>
  /\ UNCHANGED <<mode, found, passVars, chanVars, signals>>

(* time.After *)
Wake ==
  /\ Proc("sleep") /\ proc' = "load"
  /\ UNCHANGED <<mode, main, exit, found, passVars, chanVars, signals>>

(* monitorPrefix: WatchPrefix returns, and a pass begins, or fails. *)
Watched(t) ==
  /\ Watching(t, "watch")
  /\ \E next \in {"run", "report"} : pass' = [pass EXCEPT ![t] = next]
  /\ UNCHANGED <<mode, main, exit, proc, found, todo, lastErr, erred, chanVars,
                 signals>>

EndWatchedPass(t) ==
  /\ Watching(t, "run")
  /\ \/ /\ \E next \in {"watch", "report"} : pass' = [pass EXCEPT ![t] = next]
        /\ UNCHANGED <<main, exit, lastErr, erred>>
     \/ PassPanics
  /\ UNCHANGED <<mode, proc, found, todo, chanVars, signals>>

(* errChan <- err *)
RoomForOneMore == errs <= ErrCap                                  \* mutant
Room == errs < ErrCap
Report(t) ==
  /\ Watching(t, "report") /\ Room
  /\ errs' = errs + 1 /\ pass' = [pass EXCEPT ![t] = "watch"]
  /\ UNCHANGED <<mode, main, exit, proc, found, todo, lastErr, erred, sigs,
                 doneClosed, signals>>

(* wg.Wait returns at once where there is no template to watch, and the    *)
(* deferred close runs.                                                    *)
WaitForNone == TRUE                                               \* mutant
WaitIsOver == found = {}

EndWatch ==
  /\ Proc("wait") /\ WaitIsOver
  /\ CloseDone /\ proc' = "ended"
  /\ UNCHANGED <<mode, found, passVars, errs, sigs, signals>>
-----------------------------------------------------------------------------
(* SIGINT or SIGTERM.  The runtime drops it if signalChan is full. *)
Deliver == IF sigs < SigCap THEN sigs + 1 ELSE sigs

Signal ==
  /\ exit = "running"
  /\ signals < MaxSignals /\ signals' = signals + 1
  /\ IF main = "select"
     THEN /\ sigs' = Deliver
          /\ UNCHANGED <<main, exit>>
     ELSE End("killed") /\ UNCHANGED sigs
  /\ UNCHANGED <<mode, proc, found, passVars, errs, doneClosed>>

MainSteps ==
  Initialise \/ StartProcessor \/ NotifySignals \/ ReceiveError
    \/ ReceiveSignal \/ ReceiveDone
ProcSteps ==
  \/ Load \/ EndProcess \/ Wake \/ EndWatch
  \/ \E t \in Templates : BeginPass(t) \/ EndPass(t)
WatchSteps(t) == Watched(t) \/ EndWatchedPass(t) \/ Report(t)

Next ==
  \/ MainSteps \/ ProcSteps \/ Signal
  \/ \E t \in Templates : WatchSteps(t)

(* Every goroutine that can run does; a select that is ready with several  *)
(* of its branches chooses one at random, so that none is passed over for  *)
(* ever.                                                                   *)
Spec ==
  /\ Init /\ [][Next]_vars
  /\ WF_vars(MainSteps) /\ WF_vars(ProcSteps)
  /\ \A t \in Templates : SF_vars(Report(t))
  /\ SF_vars(ReceiveError) /\ SF_vars(ReceiveSignal) /\ SF_vars(ReceiveDone)
-----------------------------------------------------------------------------
(* Every variable keeps its kind, and the channels their capacity. *)
TypeOK ==
  /\ mode \in {"onetime", "interval", "watch"}
  /\ main \in {"init", "onetime", "start", "notify", "select"}
  /\ exit \in {"running", "ok", "failed", "killed", "panic", "closedTwice"}
  /\ proc \in {"none", "load", "process", "sleep", "wait", "ended"}
  /\ found \subseteq Templates /\ todo \subseteq found /\ erred \subseteq found
  /\ pass \in [Templates -> {"none", "watch", "run", "report"}]
  /\ lastErr \in BOOLEAN /\ doneClosed \in BOOLEAN
  /\ errs \in 0 .. ErrCap /\ sigs \in 0 .. SigCap /\ signals \in 0 .. MaxSignals

(* -onetime exits with 0 only if no template failed, also one before a     *)
(* template that went well (process, processor.go:29).                     *)
OneTimeIsHonest ==
  main = "onetime" /\ exit = "ok" => erred = {} /\ todo = {}

(* The watch ended for want of templates, and closed doneChan. *)
NothingToWatch == proc = "ended" /\ found = {}
Closers == signals + IF NothingToWatch THEN 1 ELSE 0

(* Once main listens, the program exits with status 0 only after a signal  *)
(* or for want of templates to watch, and closes doneChan twice, which     *)
(* panics, only if there were two such causes (confd.go:78,                *)
(* processor.go:105).                                                      *)
ClosesHaveCauses ==
  /\ main = "select" /\ exit = "ok" => Closers >= 1
  /\ exit = "closedTwice" => Closers >= 2

(* The program handles its signals without a panic. *)
NoPanic == exit # "closedTwice"

(* A signal that main can receive ends the program, however many errors    *)
(* there are to log.                                                       *)
SignalEnds == sigs > 0 ~> exit # "running"

(* A watcher with an error to report is not held up for ever.              *)
ReportsAreHeard ==
  \A t \in Templates :
    pass[t] = "report" ~> pass[t] # "report" \/ exit # "running"
=============================================================================
