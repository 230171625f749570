----------------------------- MODULE ConfdProofs -----------------------------
(***************************************************************************)
(* Proofs about Confd, for any number of templates and signals and any     *)
(* capacity of the channels: the type invariant, what the exit code of a   *)
(* one-time run says, and what closes doneChan.                            *)
(***************************************************************************)
EXTENDS Confd, TLAPS

(* Where main, the processor and the passes may be together: a pass is     *)
(* under way only over a template that was found, and between two runs of  *)
(* process() there is none.                                                *)
PlacesInv ==
  /\ main \in {"init", "start"} => proc = "none"
  /\ main = "onetime" => mode = "onetime"
  /\ mode = "onetime" => main \in {"init", "onetime"}
  /\ mode = "watch" => proc \notin {"process", "sleep"}
  /\ mode # "watch" => /\ proc \notin {"wait", "ended"}
                       /\ \A t \in Templates : pass[t] \in {"none", "run"}
  /\ proc \in {"none", "load", "sleep"} =>
       \A t \in Templates : pass[t] = "none"
  /\ \A t \in Templates : pass[t] # "none" => t \in found

(* An error of process() is not forgotten before it returns.               *)
ErrorInv == proc = "process" /\ erred # {} => lastErr

(* Each close of doneChan has used up a signal, but for the one of a watch *)
(* without templates.                                                      *)
WatchClosed == IF proc = "ended" THEN 1 ELSE 0
CloseInv ==
  /\ proc = "ended" => mode = "watch" /\ found = {} /\ doneClosed
  /\ IF doneClosed THEN sigs + 1 <= signals + WatchClosed ELSE sigs <= signals

LifeInv ==
  TypeOK /\ PlacesInv /\ ErrorInv /\ CloseInv
    /\ OneTimeIsHonest /\ ClosesHaveCauses
-----------------------------------------------------------------------------
(* Initially nothing has been found, nothing runs and nothing has closed.  *)
LEMMA InitLife == Init => LifeInv
<1> SUFFICES ASSUME Init PROVE LifeInv
  OBVIOUS
<1> USE DEF Init
<1>1. TypeOK
  <2>1. /\ errs \in 0 .. ErrCap /\ sigs \in 0 .. SigCap
        /\ signals \in 0 .. MaxSignals
    BY ConfdAssumption
  <2>2. lastErr \in BOOLEAN /\ doneClosed \in BOOLEAN
    OBVIOUS
  <2> QED BY <2>1, <2>2 DEF TypeOK
<1>2. PlacesInv BY DEF PlacesInv
<1>3. ErrorInv BY DEF ErrorInv
<1>4. CloseInv BY DEF CloseInv, WatchClosed
<1>5. OneTimeIsHonest /\ ClosesHaveCauses
  BY DEF OneTimeIsHonest, ClosesHaveCauses, Closers, NothingToWatch
<1> QED BY <1>1, <1>2, <1>3, <1>4, <1>5 DEF LifeInv

(* main's steps before its select loop.                                    *)
LEMMA StartKeeps ==
  LifeInv /\ (Initialise \/ StartProcessor \/ NotifySignals) => LifeInv'
<1> SUFFICES ASSUME LifeInv, Initialise \/ StartProcessor \/ NotifySignals
             PROVE  LifeInv'
  OBVIOUS
<1> USE DEF LifeInv, passVars, chanVars, Main, MainGoTo, End
<1>1. CASE Initialise
  <2>1. TypeOK' BY <1>1 DEF Initialise, TypeOK
  <2>2. PlacesInv' BY <1>1 DEF Initialise, TypeOK, PlacesInv
  <2>3. ErrorInv' BY <1>1 DEF Initialise, ErrorInv
  <2>4. CloseInv' BY <1>1 DEF Initialise, CloseInv, PlacesInv, WatchClosed
  <2>5. OneTimeIsHonest' BY <1>1 DEF Initialise, OneTimeIsHonest
  <2>6. ClosesHaveCauses'
    BY <1>1 DEF Initialise, ClosesHaveCauses, Closers, NothingToWatch
  <2> QED BY <2>1, <2>2, <2>3, <2>4, <2>5, <2>6
<1>2. CASE StartProcessor
  <2>1. TypeOK' BY <1>2 DEF StartProcessor, TypeOK
  <2>2. PlacesInv' BY <1>2 DEF StartProcessor, PlacesInv
  <2>3. ErrorInv' BY <1>2 DEF StartProcessor, ErrorInv
  <2>4. CloseInv' BY <1>2 DEF StartProcessor, CloseInv, PlacesInv, WatchClosed
  <2>5. OneTimeIsHonest' BY <1>2 DEF StartProcessor, OneTimeIsHonest
  <2>6. ClosesHaveCauses'
    BY <1>2 DEF StartProcessor, ClosesHaveCauses, Closers, NothingToWatch
  <2> QED BY <2>1, <2>2, <2>3, <2>4, <2>5, <2>6
<1>3. CASE NotifySignals
  <2>1. TypeOK' BY <1>3 DEF NotifySignals, TypeOK
  <2>2. PlacesInv' BY <1>3 DEF NotifySignals, PlacesInv
  <2>3. ErrorInv' BY <1>3 DEF NotifySignals, ErrorInv
  <2>4. CloseInv' BY <1>3 DEF NotifySignals, CloseInv, WatchClosed
  <2>5. OneTimeIsHonest' BY <1>3 DEF NotifySignals, OneTimeIsHonest
  <2>6. ClosesHaveCauses'
    BY <1>3 DEF NotifySignals, ClosesHaveCauses, Closers, NothingToWatch
  <2> QED BY <2>1, <2>2, <2>3, <2>4, <2>5, <2>6
<1> QED BY <1>1, <1>2, <1>3

(* The branches of main's select.  A signal that finds doneChan closed is  *)
(* the second, unless a watch without templates closed it.                 *)
LEMMA SelectKeeps ==
  LifeInv /\ (ReceiveError \/ ReceiveSignal \/ ReceiveDone) => LifeInv'
<1> SUFFICES ASSUME LifeInv, ReceiveError \/ ReceiveSignal \/ ReceiveDone
             PROVE  LifeInv'
  OBVIOUS
<1> USE DEF LifeInv, passVars, chanVars, Main, End
<1>1. CASE ReceiveError
  <2>1. TypeOK' BY <1>1, ConfdAssumption DEF ReceiveError, TypeOK
  <2>2. PlacesInv' BY <1>1 DEF ReceiveError, PlacesInv
  <2>3. ErrorInv' BY <1>1 DEF ReceiveError, ErrorInv
  <2>4. CloseInv' BY <1>1 DEF ReceiveError, CloseInv, WatchClosed
  <2>5. OneTimeIsHonest' BY <1>1 DEF ReceiveError, OneTimeIsHonest
  <2>6. ClosesHaveCauses'
    BY <1>1 DEF ReceiveError, ClosesHaveCauses, Closers, NothingToWatch
  <2> QED BY <2>1, <2>2, <2>3, <2>4, <2>5, <2>6
<1>2. CASE ReceiveSignal
  <2> USE DEF ReceiveSignal, AfterSignal, CloseDone
  <2>1. TypeOK'
    <3>1. sigs' \in 0 .. SigCap BY <1>2, ConfdAssumption DEF TypeOK
    <3>2. CASE doneClosed BY <1>2, <3>1, <3>2 DEF TypeOK
    <3>3. CASE ~doneClosed BY <1>2, <3>1, <3>3 DEF TypeOK
    <3> QED BY <3>2, <3>3
  <2>2. PlacesInv' BY <1>2 DEF PlacesInv
  <2>3. ErrorInv' BY <1>2 DEF ErrorInv
  <2>4. CloseInv' BY <1>2, ConfdAssumption DEF CloseInv, WatchClosed, TypeOK
  <2>5. OneTimeIsHonest' BY <1>2 DEF OneTimeIsHonest
  <2>6. ClosesHaveCauses'
    BY <1>2, ConfdAssumption
       DEF ClosesHaveCauses, Closers, NothingToWatch, CloseInv, WatchClosed,
           TypeOK
  <2> QED BY <2>1, <2>2, <2>3, <2>4, <2>5, <2>6
<1>3. CASE ReceiveDone
  <2>1. TypeOK' BY <1>3 DEF ReceiveDone, TypeOK
  <2>2. PlacesInv' BY <1>3 DEF ReceiveDone, PlacesInv
  <2>3. ErrorInv' BY <1>3 DEF ReceiveDone, ErrorInv
  <2>4. CloseInv' BY <1>3 DEF ReceiveDone, CloseInv, WatchClosed
  <2>5. OneTimeIsHonest' BY <1>3 DEF ReceiveDone, OneTimeIsHonest
  <2>6. ClosesHaveCauses'
    BY <1>3, ConfdAssumption
       DEF ReceiveDone, ClosesHaveCauses, Closers, NothingToWatch, CloseInv,
           WatchClosed, TypeOK
  <2> QED BY <2>1, <2>2, <2>3, <2>4, <2>5, <2>6
<1> QED BY <1>1, <1>2, <1>3

(* The processor finds its templates, once in watch mode, each time anew   *)
(* in the timer's loop.                                                    *)
LEMMA LoadKeeps == LifeInv /\ Load => LifeInv'
<1> SUFFICES ASSUME LifeInv, Load PROVE LifeInv'
  OBVIOUS
<1> USE DEF LifeInv, passVars, chanVars, Proc, End
<1>1. CASE /\ End("failed") \/ End("panic")
           /\ exit = "running"
           /\ UNCHANGED <<proc, found, passVars>>
           /\ UNCHANGED <<mode, chanVars, signals>>
  BY <1>1 DEF TypeOK, PlacesInv, ErrorInv, CloseInv, WatchClosed,
              OneTimeIsHonest, ClosesHaveCauses, Closers, NothingToWatch
<1>2. ASSUME NEW ts \in SUBSET Templates,
             exit = "running", proc = "load",
             found' = ts, erred' = {}, lastErr' = FALSE,
             IF mode = "watch"
             THEN /\ proc' = "wait" /\ todo' = {}
                  /\ pass' = [t \in Templates |->
                                IF t \in ts THEN "watch" ELSE "none"]
             ELSE proc' = "process" /\ todo' = ts /\ UNCHANGED pass,
             UNCHANGED <<main, exit, mode, chanVars, signals>>
      PROVE  LifeInv'
  <2>1. TypeOK' BY <1>2 DEF TypeOK
  <2>2. PlacesInv' BY <1>2 DEF PlacesInv, TypeOK
  <2>3. ErrorInv' BY <1>2 DEF ErrorInv
  <2>4. CloseInv' BY <1>2 DEF CloseInv, WatchClosed
  <2>5. OneTimeIsHonest' BY <1>2 DEF OneTimeIsHonest
  <2>6. ClosesHaveCauses' BY <1>2 DEF ClosesHaveCauses, Closers, NothingToWatch
  <2> QED BY <2>1, <2>2, <2>3, <2>4, <2>5, <2>6
<1> QED BY <1>1, <1>2 DEF Load

(* process() and the timer's loop: an error is kept until process()        *)
(* returns, and main's exit code is made of it.                            *)
LEMMA ProcessKeeps ==
  ASSUME LifeInv,
         \/ EndProcess \/ Wake
         \/ \E t \in Templates : BeginPass(t) \/ EndPass(t)
  PROVE  LifeInv'
<1> USE DEF LifeInv, passVars, chanVars, Proc, End
<1>1. ASSUME NEW t \in Templates, BeginPass(t) PROVE LifeInv'
  <2>1. TypeOK' BY <1>1 DEF BeginPass, TypeOK
  <2>2. PlacesInv' BY <1>1 DEF BeginPass, PlacesInv, TypeOK
  <2>3. ErrorInv' BY <1>1 DEF BeginPass, ErrorInv
  <2>4. CloseInv' BY <1>1 DEF BeginPass, CloseInv, WatchClosed
  <2>5. OneTimeIsHonest' BY <1>1 DEF BeginPass, OneTimeIsHonest
  <2>6. ClosesHaveCauses'
    BY <1>1 DEF BeginPass, ClosesHaveCauses, Closers, NothingToWatch
  <2> QED BY <2>1, <2>2, <2>3, <2>4, <2>5, <2>6
<1>2. ASSUME NEW t \in Templates, EndPass(t) PROVE LifeInv'
  <2> USE DEF EndPass, PassPanics
  <2>1. TypeOK' BY <1>2 DEF KeepError, TypeOK, PlacesInv
  <2>2. PlacesInv' BY <1>2 DEF PlacesInv, TypeOK
  <2>3. ErrorInv' BY <1>2 DEF KeepError, ErrorInv
  <2>4. CloseInv' BY <1>2 DEF CloseInv, WatchClosed
  <2>5. OneTimeIsHonest' BY <1>2 DEF OneTimeIsHonest
  <2>6. ClosesHaveCauses' BY <1>2 DEF ClosesHaveCauses, Closers, NothingToWatch
  <2> QED BY <2>1, <2>2, <2>3, <2>4, <2>5, <2>6
<1>3. CASE EndProcess
  <2>1. TypeOK' BY <1>3 DEF EndProcess, TypeOK
  <2>2. PlacesInv' BY <1>3 DEF EndProcess, PlacesInv
  <2>3. ErrorInv' BY <1>3 DEF EndProcess, ErrorInv
  <2>4. CloseInv' BY <1>3 DEF EndProcess, CloseInv, WatchClosed
  <2>5. OneTimeIsHonest' BY <1>3 DEF EndProcess, OneTimeIsHonest, ErrorInv
  <2>6. ClosesHaveCauses'
    BY <1>3
    DEF EndProcess, ClosesHaveCauses, Closers, NothingToWatch, PlacesInv
  <2> QED BY <2>1, <2>2, <2>3, <2>4, <2>5, <2>6
<1>4. CASE Wake
  BY <1>4 DEF Wake, TypeOK, PlacesInv, ErrorInv, CloseInv, WatchClosed,
              OneTimeIsHonest, ClosesHaveCauses, Closers, NothingToWatch
<1> QED BY <1>1, <1>2, <1>3, <1>4

(* A watcher goes round its loop.                                          *)
LEMMA WatcherKeeps ==
  ASSUME LifeInv, NEW t \in Templates, WatchSteps(t)
  PROVE  LifeInv'
<1> USE DEF LifeInv, passVars, chanVars, Watching
<1>1. ASSUME NEW next \in {"watch", "run", "report"},
             pass[t] # "none", mode = "watch", exit = "running",
             pass' = [pass EXCEPT ![t] = next],
             errs' \in 0 .. ErrCap,
             UNCHANGED <<mode, main, exit, proc, found, todo, lastErr, erred,
                         sigs, doneClosed, signals>>
      PROVE  LifeInv'
  <2>1. TypeOK' BY <1>1 DEF TypeOK
  <2>2. PlacesInv' BY <1>1 DEF PlacesInv, TypeOK
  <2>3. ErrorInv' BY <1>1 DEF ErrorInv
  <2>4. CloseInv' BY <1>1 DEF CloseInv, WatchClosed
  <2>5. OneTimeIsHonest' BY <1>1 DEF OneTimeIsHonest
  <2>6. ClosesHaveCauses' BY <1>1 DEF ClosesHaveCauses, Closers, NothingToWatch
  <2> QED BY <2>1, <2>2, <2>3, <2>4, <2>5, <2>6
<1>2. CASE Watched(t) BY <1>1, <1>2 DEF Watched, TypeOK
<1>3. CASE EndWatchedPass(t)
  <2>1. CASE PassPanics
    BY <1>3, <2>1
    DEF EndWatchedPass, PassPanics, End, chanVars, TypeOK, PlacesInv, ErrorInv,
        CloseInv, WatchClosed, OneTimeIsHonest, ClosesHaveCauses, Closers,
        NothingToWatch
  <2> QED BY <1>1, <1>3, <2>1 DEF EndWatchedPass, TypeOK
<1>4. CASE Report(t)
  <2>1. errs' \in 0 .. ErrCap
    BY <1>4, ConfdAssumption DEF Report, Room, TypeOK
  <2> QED BY <1>1, <1>4, <2>1 DEF Report
<1> QED BY <1>2, <1>3, <1>4 DEF WatchSteps

(* The watch that ends for want of templates closes doneChan itself.       *)
LEMMA EndWatchKeeps == LifeInv /\ EndWatch => LifeInv'
<1> SUFFICES ASSUME LifeInv, EndWatch PROVE LifeInv'
  OBVIOUS
<1> USE DEF LifeInv, EndWatch, WaitIsOver, CloseDone, passVars, Proc, End
<1>1. TypeOK' BY DEF TypeOK
<1>2. PlacesInv' BY DEF PlacesInv
<1>3. ErrorInv' BY DEF ErrorInv
<1>4. CloseInv' BY DEF CloseInv, WatchClosed, PlacesInv, TypeOK
<1>5. OneTimeIsHonest' BY DEF OneTimeIsHonest
<1>6. ClosesHaveCauses'
  BY ConfdAssumption
     DEF ClosesHaveCauses, Closers, NothingToWatch, CloseInv, WatchClosed,
         PlacesInv, TypeOK
<1> QED BY <1>1, <1>2, <1>3, <1>4, <1>5, <1>6

(* A signal comes, and is kept, dropped or deadly.                         *)
LEMMA SignalKeeps == LifeInv /\ Signal => LifeInv'
<1> SUFFICES ASSUME LifeInv, Signal PROVE LifeInv'
  OBVIOUS
<1> USE DEF LifeInv, Signal, Deliver, passVars, End
<1>1. TypeOK' BY ConfdAssumption DEF TypeOK
<1>2. PlacesInv' BY DEF PlacesInv
<1>3. ErrorInv' BY DEF ErrorInv
<1>4. CloseInv' BY ConfdAssumption DEF CloseInv, WatchClosed, TypeOK
<1>5. OneTimeIsHonest' BY DEF OneTimeIsHonest
<1>6. ClosesHaveCauses' BY DEF ClosesHaveCauses, Closers, NothingToWatch
<1> QED BY <1>1, <1>2, <1>3, <1>4, <1>5, <1>6
-----------------------------------------------------------------------------
(* LifeInv is inductive.                                                   *)
THEOREM Life == Spec => []LifeInv
<1>1. LifeInv /\ [Next]_vars => LifeInv'
  <2> SUFFICES ASSUME LifeInv, [Next]_vars PROVE LifeInv'
    OBVIOUS
  <2>1. CASE MainSteps BY <2>1, StartKeeps, SelectKeeps DEF MainSteps
  <2>2. CASE ProcSteps
    BY <2>2, LoadKeeps, ProcessKeeps, EndWatchKeeps DEF ProcSteps
  <2>3. CASE Signal BY <2>3, SignalKeeps
  <2>4. CASE \E t \in Templates : WatchSteps(t) BY <2>4, WatcherKeeps
  <2>5. CASE UNCHANGED vars
    BY <2>5 DEF vars, passVars, chanVars, LifeInv, TypeOK, PlacesInv, ErrorInv,
                CloseInv, WatchClosed, OneTimeIsHonest, ClosesHaveCauses,
                Closers, NothingToWatch
  <2> QED BY <2>1, <2>2, <2>3, <2>4, <2>5 DEF Next
<1> QED BY InitLife, <1>1, PTL DEF Spec

(* Every variable keeps its kind, and the channels their capacity.         *)
THEOREM TypeCorrect == Spec => []TypeOK
<1>1. LifeInv => TypeOK BY DEF LifeInv
<1> QED BY <1>1, Life, PTL

(* The exit code of a one-time run is 0 only if every template was gone    *)
(* over and none failed (process, processor.go:29).                        *)
THEOREM Honest == Spec => []OneTimeIsHonest
<1>1. LifeInv => OneTimeIsHonest BY DEF LifeInv
<1> QED BY <1>1, Life, PTL

(* However many signals come, main's select loop ends with status 0 only   *)
(* after one or for want of templates to watch, and doneChan is closed a   *)
(* second time only after two such causes (confd.go:78).                   *)
THEOREM ClosesCounted == Spec => []ClosesHaveCauses
<1>1. LifeInv => ClosesHaveCauses BY DEF LifeInv
<1> QED BY <1>1, Life, PTL
=============================================================================
