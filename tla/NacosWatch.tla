----------------------------- MODULE NacosWatch -----------------------------
(***************************************************************************)
(* Watch mode: the goroutine of each template (monitorPrefix,              *)
(* resource/template/processor.go) and the client they share               *)
(* (backends/nacos/client.go).  A monitor subscribes to its keys, then     *)
(* runs a pass of its template each time it receives from the client's     *)
(* channel.  The SDK runs a callback in a goroutine of its own when a key  *)
(* changes, and the callback sends client.count times on the channel,      *)
(* once, it is hoped, for every monitor.                                   *)
(*                                                                         *)
(* A key's value is abstracted to its version.  The steps of a pass after  *)
(* its reads are TemplateResource's; here a pass shows what it has read.   *)
(***************************************************************************)
EXTENDS Naturals, Sequences, FiniteSets

CONSTANTS
  Monitors,    \* one for each template
  Keys,
  Naming,      \* the keys that start with "naming.", which are services
  KeysOf,      \* the keys of each template, in order
  ChanCap,     \* the capacity of client.channel, 10 in the code
  ErrCap,      \* the capacity of errChan, 10 in the code
  MaxChanges, MaxFaults, MaxCount   \* bounds of a run

ASSUME WatchAssumption ==
  /\ IsFiniteSet(Monitors) /\ Naming \subseteq Keys
  /\ KeysOf \in [Monitors -> Seq(Keys)]
  /\ ChanCap \in Nat \ {0} /\ ErrCap \in Nat \ {0}
  /\ MaxChanges \in Nat /\ MaxFaults \in Nat /\ MaxCount \in Nat

VARIABLES
  backend,   \* external: the version of each key in Nacos
  subs,      \* external: the number of callbacks the SDK has for each key
  known,     \* external: the version the SDK last told the callbacks of
  lost,      \* the keys the SDK last told of with an error
  count,     \* client.count
  tokens,    \* what is in client.channel
  looping,   \* looping[i]: callbacks that sent i tokens and are to test count
  sending,   \* sending[i]: callbacks that sent i tokens and are to send
  errs,      \* what is in errChan
  pc,        \* where each monitor is
  copy,      \* the value of count that a monitor's count++ has read
  pos,       \* the number of keys WatchPrefix has subscribed to
  got,       \* what the pass in progress has read
  shown,     \* what the last complete pass read, and the destination shows
  failed,    \* the last pass returned an error
  unserved,  \* history: keys told of since any pass began
  faults     \* counter, bounded by MaxFaults

sdkVars == <<backend, subs, known, lost>>
callbackVars == <<looping, sending>>
passVars == <<got, shown, failed, unserved>>
vars == <<sdkVars, count, tokens, callbackVars, errs, pc, copy, pos, passVars,
          faults>>

Places == {"count", "increment", "subscribe", "report", "read", "reportPass",
           "wait"}

Zeros == [i \in 0 .. MaxCount |-> 0]
Plus(f, i, n) == [f EXCEPT ![i] = @ + n]
Minus(f, i) == [f EXCEPT ![i] = @ - 1]

Init ==
  /\ backend = [k \in Keys |-> 0] /\ subs = [k \in Keys |-> 0]
  /\ known = [k \in Keys |-> 0] /\ lost = {}
  /\ count = 0 /\ tokens = 0 /\ errs = 0
  /\ looping = Zeros /\ sending = Zeros
  /\ pc = [m \in Monitors |-> "count"]
  /\ copy = [m \in Monitors |-> 0] /\ pos = [m \in Monitors |-> 0]
  /\ got = [m \in Monitors |-> <<>>] /\ shown = [m \in Monitors |-> <<>>]
  /\ failed = [m \in Monitors |-> FALSE]
  /\ unserved = {} /\ faults = 0
-----------------------------------------------------------------------------
Move(m, from, to) == pc[m] = from /\ pc' = [pc EXCEPT ![m] = to]
Fault == faults < MaxFaults /\ faults' = faults + 1

(* WatchPrefix with waitIndex 0: client.count++, which the monitors run    *)
(* without a lock, so that its read and its write may be apart.            *)
ReadCount(m) ==
  /\ Move(m, "count", "increment")
  /\ copy' = [copy EXCEPT ![m] = count]
  /\ UNCHANGED <<sdkVars, count, tokens, callbackVars, errs, pos, passVars,
                 faults>>

WriteCount(m) ==
  /\ copy[m] < MaxCount
  /\ Move(m, "increment", "subscribe")
  /\ count' = copy[m] + 1 /\ copy' = [copy EXCEPT ![m] = 0]
  /\ UNCHANGED <<sdkVars, tokens, callbackVars, errs, pos, passVars, faults>>

(* Subscribe gives a service one more callback; ListenConfig leaves a key  *)
(* that has a listener as it is.  Either may tell of the current version.  *)
Subscribe(m) ==
  LET k == KeysOf[m][pos[m] + 1]
      callbacks == IF k \in Naming THEN subs[k] + 1 ELSE 1
  IN  /\ pos[m] < Len(KeysOf[m])
      /\ \/ /\ Move(m, "subscribe", "subscribe")
            /\ pos' = [pos EXCEPT ![m] = @ + 1]
            /\ subs' = [subs EXCEPT ![k] = callbacks]
            /\ known' = IF subs[k] = 0 THEN [known EXCEPT ![k] = backend[k]]
                                       ELSE known
            /\ \/ UNCHANGED <<looping, unserved>>
               \/ /\ callbacks > subs[k]
                  /\ looping' = Plus(looping, 0, 1)
                  /\ unserved' = unserved \cup {k}
            /\ UNCHANGED faults
         \/ /\ Fault /\ Move(m, "subscribe", "report")
            /\ pos' = [pos EXCEPT ![m] = 0]
            /\ UNCHANGED <<subs, known, looping, unserved>>
      /\ UNCHANGED <<backend, lost, count, tokens, sending, errs, copy, got,
                     shown, failed>>

(* errChan <- err, sleep, and WatchPrefix again, lastIndex being still 0. *)
ReportWatch(m) ==
  /\ errs < ErrCap
  /\ Move(m, "report", "count")
  /\ errs' = errs + 1
  /\ UNCHANGED <<sdkVars, count, tokens, callbackVars, copy, pos, passVars,
                 faults>>

BeginPass == unserved' = {}

(* WatchPrefix returns 1, and the first pass begins. *)
SubscribedNoPass(m) ==                                            \* mutant
  Move(m, "subscribe", "wait") /\ UNCHANGED unserved
SubscribedThenPass(m) == Move(m, "subscribe", "read") /\ BeginPass
Subscribed(m) ==
  /\ pos[m] = Len(KeysOf[m])
  /\ SubscribedThenPass(m)
  /\ pos' = [pos EXCEPT ![m] = 0]
  /\ UNCHANGED <<sdkVars, count, tokens, callbackVars, errs, copy, got, shown,
                 failed, faults>>

(* WatchPrefix with waitIndex 1; nothing is ever sent on stopChan. *)
Receive(m) ==
  /\ tokens > 0
  /\ Move(m, "wait", "read")
  /\ tokens' = tokens - 1
  /\ BeginPass
  /\ UNCHANGED <<sdkVars, count, callbackVars, errs, copy, pos, got, shown,
                 failed, faults>>

(* One round of GetValues' loop; an error anywhere in the pass ends it.    *)
ReadKey(m) ==
  /\ \/ /\ Len(got[m]) < Len(KeysOf[m])
        /\ Move(m, "read", "read")
        /\ got' = [got EXCEPT ![m] =
                     Append(@, backend[KeysOf[m][Len(@) + 1]])]
        /\ UNCHANGED <<failed, faults>>
     \/ /\ Fault /\ Move(m, "read", "reportPass")
        /\ failed' = [failed EXCEPT ![m] = TRUE]
        /\ got' = [got EXCEPT ![m] = <<>>]
  /\ UNCHANGED <<sdkVars, count, tokens, callbackVars, errs, copy, pos, shown,
                 unserved>>

(* After a pass, monitorPrefix goes round its loop. *)
LeaveLoop == "returned"                                           \* mutant
AfterPass == "wait"

EndPass(m) ==
  /\ Len(got[m]) = Len(KeysOf[m])
  /\ Move(m, "read", AfterPass)
  /\ shown' = [shown EXCEPT ![m] = got[m]] /\ got' = [got EXCEPT ![m] = <<>>]
  /\ failed' = [failed EXCEPT ![m] = FALSE]
  /\ UNCHANGED <<sdkVars, count, tokens, callbackVars, errs, copy, pos,
                 unserved, faults>>

(* errChan <- err.  The pass is not tried again. *)
ReportPass(m) ==
  /\ errs < ErrCap
  /\ Move(m, "reportPass", AfterPass)
  /\ errs' = errs + 1
  /\ UNCHANGED <<sdkVars, count, tokens, callbackVars, copy, pos, passVars,
                 faults>>
-----------------------------------------------------------------------------
(* A callback that has sent i tokens: for i := 0; i < client.count; i++.   *)
LoopAgainLate(i) == i + 1 < count                                 \* mutant
LoopAgain(i) == i < count

TestCount(i) ==
  /\ looping[i] > 0
  /\ looping' = Minus(looping, i)
  /\ sending' = IF LoopAgain(i) THEN Plus(sending, i, 1) ELSE sending
  /\ UNCHANGED <<sdkVars, count, tokens, errs, pc, copy, pos, passVars, faults>>

Send(i) ==
  /\ sending[i] > 0 /\ tokens < ChanCap
  /\ tokens' = tokens + 1
  /\ sending' = Minus(sending, i)
  /\ looping' = Plus(looping, i + 1, 1)
  /\ UNCHANGED <<sdkVars, count, errs, pc, copy, pos, passVars, faults>>

(* The SDK sees that a key has changed since it last told of it.  A        *)
(* service's callback that is given an error returns at once.              *)
Notify(k) ==
  /\ subs[k] > 0 /\ known[k] # backend[k]
  /\ known' = [known EXCEPT ![k] = backend[k]]
  /\ \/ /\ looping' = Plus(looping, 0, subs[k])
        /\ unserved' = unserved \cup {k}
        /\ lost' = lost \ {k}
        /\ UNCHANGED faults
     \/ /\ k \in Naming /\ Fault
        /\ lost' = lost \cup {k}
        /\ UNCHANGED <<looping, unserved>>
  /\ UNCHANGED <<backend, subs, count, tokens, sending, errs, pc, copy, pos,
                 got, shown, failed>>

(* main receives from errChan. *)
Drain ==
  /\ errs > 0 /\ errs' = errs - 1
  /\ UNCHANGED <<sdkVars, count, tokens, callbackVars, pc, copy, pos, passVars,
                 faults>>

(* Someone publishes a new version of a key. *)
Publish(k) ==
  /\ backend[k] < MaxChanges
  /\ backend' = [backend EXCEPT ![k] = @ + 1]
  /\ UNCHANGED <<subs, known, lost, count, tokens, callbackVars, errs, pc,
                 copy, pos, passVars, faults>>

Monitor(m) ==
  \/ ReadCount(m) \/ WriteCount(m) \/ Subscribe(m) \/ ReportWatch(m)
  \/ Subscribed(m) \/ Receive(m) \/ ReadKey(m) \/ EndPass(m) \/ ReportPass(m)

Callback == \E i \in 0 .. MaxCount : TestCount(i) \/ Send(i)

Next ==
  \/ \E m \in Monitors : Monitor(m)
  \/ Callback
  \/ \E k \in Keys : Notify(k) \/ Publish(k)
  \/ Drain

(* Every goroutine that can run does, and the SDK tells of every change.   *)
Spec ==
  /\ Init /\ [][Next]_vars
  /\ \A m \in Monitors : WF_vars(Monitor(m))
  /\ WF_vars(Callback) /\ WF_vars(Drain)
  /\ \A k \in Keys : WF_vars(Notify(k))
-----------------------------------------------------------------------------
(* Every variable keeps its kind; the two channels keep their capacity.    *)
TypeOK ==
  /\ backend \in [Keys -> 0 .. MaxChanges] /\ known \in [Keys -> 0 .. MaxChanges]
  /\ subs \in [Keys -> Nat] /\ lost \subseteq Keys /\ unserved \subseteq Keys
  /\ count \in 0 .. MaxCount /\ tokens \in 0 .. ChanCap /\ errs \in 0 .. ErrCap
  /\ looping \in [0 .. MaxCount -> Nat] /\ sending \in [0 .. MaxCount -> Nat]
  /\ \A i \in 0 .. MaxCount : sending[i] > 0 => i < MaxCount
  /\ pc \in [Monitors -> Places]
  /\ copy \in [Monitors -> 0 .. MaxCount] /\ pos \in [Monitors -> Nat]
  /\ got \in [Monitors -> Seq(0 .. MaxChanges)]
  /\ shown \in [Monitors -> Seq(0 .. MaxChanges)]
  /\ failed \in [Monitors -> BOOLEAN]
  /\ faults \in 0 .. MaxFaults

(* A change that a callback was told of is never forgotten before some     *)
(* monitor has begun a pass: until then a token is in the channel, or a    *)
(* callback is about to send its first (client.go:172).                    *)
SomeoneIsWoken ==
  unserved # {} => tokens > 0 \/ looping[0] > 0 \/ sending[0] > 0

(* Nothing is left to happen until someone publishes. *)
Quiet ==
  /\ tokens = 0 /\ looping = Zeros /\ sending = Zeros
  /\ \A k \in Keys : subs[k] > 0 => known[k] = backend[k]
  /\ \A m \in Monitors : pc[m] = "wait"

ShowsBackend(m) ==
  \A i \in 1 .. Len(KeysOf[m]) :
    KeysOf[m][i] \notin lost
      => i \in DOMAIN shown[m] /\ shown[m][i] = backend[KeysOf[m][i]]

(* When all is quiet, every template whose last pass did not fail shows    *)
(* what Nacos holds (monitorPrefix, processor.go:122).  The code keeps     *)
(* this for a single template only.                                        *)
FreshWhenQuiet == Quiet => \A m \in Monitors : failed[m] \/ ShowsBackend(m)

(* The same, supposing no update of client.count is lost: even then one    *)
(* monitor may receive the token that was meant for another.               *)
FreshIfCounted == count >= Cardinality(Monitors) => FreshWhenQuiet

(* A template's destination comes to show what Nacos holds, for good,      *)
(* unless the last pass failed.                                            *)
Converges == \A m \in Monitors : <>[](failed[m] \/ ShowsBackend(m))

(* No callback waits for ever on a full channel, and no monitor on         *)
(* errChan: when nobody publishes any more, all becomes quiet.             *)
Settles == <>[]Quiet
=============================================================================
