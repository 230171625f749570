-------------------------- MODULE NacosWatchProofs --------------------------
(***************************************************************************)
(* What holds of watch mode for every set of templates and keys, every     *)
(* capacity of the channels, and every number of changes and failures.     *)
(***************************************************************************)
EXTENDS NacosWatch, TLAPS

(* The number of callbacks at one place of their loop, after one of them   *)
(* came or left.                                                           *)
LEMMA CallbackCounts ==
  ASSUME NEW f \in [0 .. MaxCount -> Nat], NEW i \in 0 .. MaxCount, NEW n \in Nat
  PROVE  /\ Plus(f, i, n) \in [0 .. MaxCount -> Nat]
         /\ Plus(f, i, n)[i] = f[i] + n
         /\ f[i] > 0 => Minus(f, i) \in [0 .. MaxCount -> Nat]
         /\ \A j \in 0 .. MaxCount : j # i => /\ Plus(f, i, n)[j] = f[j]
                                             /\ Minus(f, i)[j] = f[j]
BY DEF Plus, Minus

(* The first place of the loop is one. *)
LEMMA FirstPlace == 0 \in 0 .. MaxCount
BY WatchAssumption

(* A template that has read nothing has read a sequence of versions. *)
LEMMA NoVersions == <<>> \in Seq(0 .. MaxChanges)
OBVIOUS

(* What is in a channel, and what is counted, stays within its bounds.     *)
LEMMA Counts ==
  ASSUME TypeOK
  PROVE  /\ Fault => faults' \in 0 .. MaxFaults
         /\ tokens < ChanCap => tokens + 1 \in 0 .. ChanCap
         /\ tokens > 0 => tokens - 1 \in 0 .. ChanCap
         /\ errs < ErrCap => errs + 1 \in 0 .. ErrCap
         /\ errs > 0 => errs - 1 \in 0 .. ErrCap
         /\ 0 \in 0 .. MaxCount
         /\ \A m \in Monitors :
              copy[m] < MaxCount => copy[m] + 1 \in 0 .. MaxCount
<1> USE WatchAssumption DEF TypeOK
<1>1. Fault => faults' \in 0 .. MaxFaults
  BY DEF Fault
<1>2. /\ tokens < ChanCap => tokens + 1 \in 0 .. ChanCap
      /\ tokens > 0 => tokens - 1 \in 0 .. ChanCap
  OBVIOUS
<1>3. /\ errs < ErrCap => errs + 1 \in 0 .. ErrCap
      /\ errs > 0 => errs - 1 \in 0 .. ErrCap
  OBVIOUS
<1>4. \A m \in Monitors : copy[m] < MaxCount => copy[m] + 1 \in 0 .. MaxCount
  <2>1. MaxCount \in Nat /\ \A m \in Monitors : copy[m] \in 0 .. MaxCount
    OBVIOUS
  <2>2. \A c \in 0 .. MaxCount : c < MaxCount => c + 1 \in 0 .. MaxCount
    BY <2>1
  <2> QED
    BY <2>1, <2>2
<1> QED
  BY <1>1, <1>2, <1>3, <1>4

(* A monitor that moves is somewhere. *)
LEMMA Moves ==
  ASSUME TypeOK, NEW m, NEW from, NEW to \in Places, Move(m, from, to)
  PROVE  pc' \in [Monitors -> Places]
BY DEF TypeOK, Move

(* Every action keeps TypeOK. *)
LEMMA TypeStep == TypeOK /\ [Next]_vars => TypeOK'
<1> SUFFICES ASSUME TypeOK, [Next]_vars PROVE TypeOK'
  OBVIOUS
<1> USE DEF sdkVars, callbackVars, passVars
<1>1. ASSUME NEW m \in Monitors, ReadCount(m) PROVE TypeOK'
  <2>1. pc' \in [Monitors -> Places]
    BY <1>1, Moves DEF ReadCount, Places
  <2> QED
    BY <1>1, <2>1 DEF ReadCount, TypeOK
<1>2. ASSUME NEW m \in Monitors, WriteCount(m) PROVE TypeOK'
  <2>1. pc' \in [Monitors -> Places]
    BY <1>2, Moves DEF WriteCount, Places
  <2>2. count' \in 0 .. MaxCount
    BY <1>2, Counts DEF WriteCount
  <2>3. copy' \in [Monitors -> 0 .. MaxCount]
    BY <1>2, Counts DEF WriteCount, TypeOK
  <2> QED
    BY <1>2, <2>1, <2>2, <2>3 DEF WriteCount, TypeOK
<1>3. ASSUME NEW m \in Monitors, Subscribe(m) PROVE TypeOK'
  <2> DEFINE k == KeysOf[m][pos[m] + 1]
  <2>1. k \in Keys
    BY <1>3, WatchAssumption DEF Subscribe, TypeOK
  <2> HIDE DEF k
  <2>2. subs' \in [Keys -> Nat]
    <3>1. (IF k \in Naming THEN subs[k] + 1 ELSE 1) \in Nat
      BY <2>1 DEF TypeOK
    <3>2. subs' = subs \/ subs' = [subs EXCEPT ![k] =
                                     IF k \in Naming THEN subs[k] + 1 ELSE 1]
      BY <1>3 DEF Subscribe, k
    <3> QED
      BY <3>1, <3>2 DEF TypeOK
  <2>3. known' \in [Keys -> 0 .. MaxChanges]
    <3>1. known' = known \/ known' = [known EXCEPT ![k] = backend[k]]
      BY <1>3 DEF Subscribe, k
    <3> QED
      BY <2>1, <3>1 DEF TypeOK
  <2>4. looping' \in [0 .. MaxCount -> Nat]
    <3>1. looping' = looping \/ looping' = Plus(looping, 0, 1)
      BY <1>3 DEF Subscribe
    <3>2. looping \in [0 .. MaxCount -> Nat] /\ 1 \in Nat
      BY DEF TypeOK
    <3>3. Plus(looping, 0, 1) \in [0 .. MaxCount -> Nat]
      BY <3>2, FirstPlace, CallbackCounts
    <3> QED
      BY <3>1, <3>2, <3>3
  <2>5. pos' \in [Monitors -> Nat]
    <3>1. \/ pos' = pos \/ pos' = [pos EXCEPT ![m] = 0]
          \/ pos' = [pos EXCEPT ![m] = @ + 1]
      BY <1>3 DEF Subscribe
    <3>2. pos \in [Monitors -> Nat] /\ pos[m] + 1 \in Nat
      BY DEF TypeOK
    <3>3. /\ [pos EXCEPT ![m] = 0] \in [Monitors -> Nat]
          /\ [pos EXCEPT ![m] = @ + 1] \in [Monitors -> Nat]
      BY <3>2
    <3> QED
      BY <3>1, <3>2, <3>3
  <2>6. unserved' \subseteq Keys
    <3>1. unserved' = unserved \/ unserved' = unserved \cup {k}
      BY <1>3 DEF Subscribe, k
    <3> QED
      BY <2>1, <3>1 DEF TypeOK
  <2>7. pc' \in [Monitors -> Places]
    BY <1>3, Moves DEF Subscribe, Places
  <2>8. faults' \in 0 .. MaxFaults
    BY <1>3, Counts DEF Subscribe, TypeOK
  <2> QED
    BY <1>3, <2>2, <2>3, <2>4, <2>5, <2>6, <2>7, <2>8 DEF Subscribe, TypeOK
<1>4. ASSUME NEW m \in Monitors, ReportWatch(m) PROVE TypeOK'
  <2>1. pc' \in [Monitors -> Places] /\ errs' \in 0 .. ErrCap
    BY <1>4, Moves, Counts DEF ReportWatch, Places
  <2> QED
    BY <1>4, <2>1 DEF ReportWatch, TypeOK
<1>5. ASSUME NEW m \in Monitors, Subscribed(m) PROVE TypeOK'
  <2>1. pc' \in [Monitors -> Places]
    BY <1>5, Moves DEF Subscribed, SubscribedThenPass, Places
  <2> QED
    BY <1>5, <2>1 DEF Subscribed, SubscribedThenPass, BeginPass, TypeOK
<1>6. ASSUME NEW m \in Monitors, Receive(m) PROVE TypeOK'
  <2>1. pc' \in [Monitors -> Places] /\ tokens' \in 0 .. ChanCap
    BY <1>6, Moves, Counts DEF Receive, Places
  <2> QED
    BY <1>6, <2>1 DEF Receive, BeginPass, TypeOK
<1>7. ASSUME NEW m \in Monitors, ReadKey(m) PROVE TypeOK'
  <2>1. got' \in [Monitors -> Seq(0 .. MaxChanges)]
    <3>1. got[m] \in Seq(0 .. MaxChanges) /\ KeysOf[m] \in Seq(Keys)
      BY WatchAssumption DEF TypeOK
    <3>2. CASE Len(got[m]) < Len(KeysOf[m])
      <4>1. KeysOf[m][Len(got[m]) + 1] \in Keys
        BY <3>1, <3>2
      <4>2. backend[KeysOf[m][Len(got[m]) + 1]] \in 0 .. MaxChanges
        BY <4>1 DEF TypeOK
      <4>3. Append(got[m], backend[KeysOf[m][Len(got[m]) + 1]])
              \in Seq(0 .. MaxChanges)
        BY <3>1, <4>2
      <4> QED
        BY <1>7, <4>3, NoVersions DEF ReadKey, TypeOK
    <3>3. CASE got' = [got EXCEPT ![m] = <<>>]
      BY <3>3, NoVersions DEF TypeOK
    <3> QED
      BY <1>7, <3>2, <3>3 DEF ReadKey
  <2>2. failed' \in [Monitors -> BOOLEAN]
    BY <1>7 DEF ReadKey, TypeOK
  <2>3. pc' \in [Monitors -> Places] /\ faults' \in 0 .. MaxFaults
    BY <1>7, Moves, Counts DEF ReadKey, TypeOK, Places
  <2> QED
    BY <1>7, <2>1, <2>2, <2>3 DEF ReadKey, TypeOK
<1>8. ASSUME NEW m \in Monitors, EndPass(m) PROVE TypeOK'
  <2>1. pc' \in [Monitors -> Places]
    BY <1>8, Moves DEF EndPass, AfterPass, Places
  <2>2. /\ shown' \in [Monitors -> Seq(0 .. MaxChanges)]
        /\ got' \in [Monitors -> Seq(0 .. MaxChanges)]
    BY <1>8, NoVersions DEF EndPass, TypeOK
  <2> QED
    BY <1>8, <2>1, <2>2 DEF EndPass, TypeOK
<1>9. ASSUME NEW m \in Monitors, ReportPass(m) PROVE TypeOK'
  <2>1. pc' \in [Monitors -> Places] /\ errs' \in 0 .. ErrCap
    BY <1>9, Moves, Counts DEF ReportPass, AfterPass, Places
  <2> QED
    BY <1>9, <2>1 DEF ReportPass, TypeOK
<1>10. ASSUME NEW i \in 0 .. MaxCount, TestCount(i) PROVE TypeOK'
  <2>1. looping' \in [0 .. MaxCount -> Nat] /\ sending' \in [0 .. MaxCount -> Nat]
    BY <1>10, CallbackCounts DEF TestCount, TypeOK
  <2>2. \A j \in 0 .. MaxCount : sending'[j] > 0 => j < MaxCount
    <3>1. LoopAgain(i) => i < MaxCount
      BY WatchAssumption DEF LoopAgain, TypeOK
    <3>2. LoopAgain(i) => sending' = Plus(sending, i, 1)
      BY <1>10 DEF TestCount
    <3>3. ~LoopAgain(i) => sending' = sending
      BY <1>10 DEF TestCount
    <3>4. sending \in [0 .. MaxCount -> Nat] /\ 1 \in Nat
      BY DEF TypeOK
    <3>5. \A j \in 0 .. MaxCount : j # i => Plus(sending, i, 1)[j] = sending[j]
      BY <3>4, CallbackCounts
    <3>6. \A j \in 0 .. MaxCount : sending[j] > 0 => j < MaxCount
      BY DEF TypeOK
    <3> QED
      BY <3>1, <3>2, <3>3, <3>5, <3>6
  <2> QED
    BY <1>10, <2>1, <2>2 DEF TestCount, TypeOK
<1>11. ASSUME NEW i \in 0 .. MaxCount, Send(i) PROVE TypeOK'
  <2>1. i + 1 \in 0 .. MaxCount /\ sending[i] > 0
    BY <1>11, WatchAssumption DEF Send, TypeOK
  <2>2. looping' \in [0 .. MaxCount -> Nat] /\ sending' \in [0 .. MaxCount -> Nat]
    BY <1>11, <2>1, CallbackCounts DEF Send, TypeOK
  <2>3. \A j \in 0 .. MaxCount : sending'[j] > 0 => j < MaxCount
    <3>1. i < MaxCount
      BY <2>1 DEF TypeOK
    <3>2. \A j \in 0 .. MaxCount : j # i => sending'[j] = sending[j]
      BY <1>11 DEF Send, Minus, TypeOK
    <3> QED
      BY <3>1, <3>2 DEF TypeOK
  <2>4. tokens' \in 0 .. ChanCap
    BY <1>11, Counts DEF Send
  <2> QED
    BY <1>11, <2>2, <2>3, <2>4 DEF Send, TypeOK
<1>12. ASSUME NEW k \in Keys, Notify(k) PROVE TypeOK'
  <2>1. looping' \in [0 .. MaxCount -> Nat]
    <3>1. looping' = looping \/ looping' = Plus(looping, 0, subs[k])
      BY <1>12 DEF Notify
    <3>2. subs[k] \in Nat /\ looping \in [0 .. MaxCount -> Nat]
      BY DEF TypeOK
    <3> QED
      BY <3>1, <3>2, FirstPlace, CallbackCounts
  <2>2. faults' \in 0 .. MaxFaults
    BY <1>12, Counts DEF Notify, TypeOK
  <2> QED
    BY <1>12, <2>1, <2>2 DEF Notify, TypeOK
<1>13. ASSUME NEW k \in Keys, Publish(k) PROVE TypeOK'
  <2>1. backend[k] + 1 \in 0 .. MaxChanges
    BY <1>13, WatchAssumption DEF Publish, TypeOK
  <2> QED
    BY <1>13, <2>1 DEF Publish, TypeOK
<1>14. CASE Drain
  BY <1>14, WatchAssumption DEF Drain, TypeOK
<1>15. CASE UNCHANGED vars
  BY <1>15 DEF vars, TypeOK
<1> QED
  BY <1>1, <1>2, <1>3, <1>4, <1>5, <1>6, <1>7, <1>8, <1>9, <1>10, <1>11,
     <1>12, <1>13, <1>14, <1>15 DEF Next, Monitor, Callback

(* Every variable keeps its kind; neither channel ever holds more than its *)
(* capacity (client.go:110, confd.go:55).                                  *)
THEOREM TypeCorrect == Spec => []TypeOK
<1>1. Init => TypeOK
  BY WatchAssumption DEF Init, TypeOK, Zeros, Places
<1> QED
  BY <1>1, TypeStep, PTL DEF Spec
-----------------------------------------------------------------------------
(* A monitor that subscribes has counted itself, so that the callbacks it  *)
(* registers find count positive and send at least once.  No lost update   *)
(* takes count back to 0.                                                  *)
CountedInv ==
  /\ \A m \in Monitors : pc[m] = "subscribe" => count > 0
  /\ \A k \in Keys : subs[k] > 0 => count > 0
  /\ looping[0] > 0 => count > 0

LEMMA WokenStep ==
  TypeOK /\ CountedInv /\ SomeoneIsWoken /\ [Next]_vars
    => CountedInv' /\ SomeoneIsWoken'
<1> SUFFICES ASSUME TypeOK, CountedInv, SomeoneIsWoken, [Next]_vars
             PROVE  CountedInv' /\ SomeoneIsWoken'
  OBVIOUS
<1> USE DEF sdkVars, callbackVars, passVars
<1>0. /\ 0 \in 0 .. MaxCount /\ tokens \in Nat /\ count \in Nat
      /\ looping \in [0 .. MaxCount -> Nat] /\ sending \in [0 .. MaxCount -> Nat]
      /\ pc \in [Monitors -> Places] /\ subs \in [Keys -> Nat]
  BY Counts DEF TypeOK
<1>1. ASSUME NEW m \in Monitors, ReadCount(m)
      PROVE  CountedInv' /\ SomeoneIsWoken'
  BY <1>0, <1>1 DEF ReadCount, Move, CountedInv, SomeoneIsWoken
<1>2. ASSUME NEW m \in Monitors, WriteCount(m)
      PROVE  CountedInv' /\ SomeoneIsWoken'
  <2>1. count' > 0
    BY <1>2 DEF WriteCount, TypeOK
  <2> QED
    BY <1>2, <2>1 DEF WriteCount, CountedInv, SomeoneIsWoken
<1>3. ASSUME NEW m \in Monitors, Subscribe(m)
      PROVE  CountedInv' /\ SomeoneIsWoken'
  <2>1. count > 0 /\ UNCHANGED <<count, tokens, sending>>
    BY <1>3 DEF Subscribe, Move, CountedInv
  <2>2. UNCHANGED <<looping, unserved>> \/ looping' = Plus(looping, 0, 1)
    BY <1>3 DEF Subscribe
  <2>3. Plus(looping, 0, 1)[0] > 0
    BY <1>0 DEF Plus
  <2> QED
    BY <2>1, <2>2, <2>3 DEF CountedInv, SomeoneIsWoken
<1>4. ASSUME NEW m \in Monitors, ReportWatch(m)
      PROVE  CountedInv' /\ SomeoneIsWoken'
  BY <1>0, <1>4 DEF ReportWatch, Move, CountedInv, SomeoneIsWoken
<1>5. ASSUME NEW m \in Monitors, Subscribed(m)
      PROVE  CountedInv' /\ SomeoneIsWoken'
  BY <1>0, <1>5
  DEF Subscribed, SubscribedThenPass, BeginPass, Move, CountedInv,
      SomeoneIsWoken
<1>6. ASSUME NEW m \in Monitors, Receive(m)
      PROVE  CountedInv' /\ SomeoneIsWoken'
  BY <1>0, <1>6 DEF Receive, BeginPass, Move, CountedInv, SomeoneIsWoken
<1>7. ASSUME NEW m \in Monitors, ReadKey(m)
      PROVE  CountedInv' /\ SomeoneIsWoken'
  BY <1>0, <1>7 DEF ReadKey, Move, CountedInv, SomeoneIsWoken
<1>8. ASSUME NEW m \in Monitors, EndPass(m)
      PROVE  CountedInv' /\ SomeoneIsWoken'
  BY <1>0, <1>8 DEF EndPass, AfterPass, Move, CountedInv, SomeoneIsWoken
<1>9. ASSUME NEW m \in Monitors, ReportPass(m)
      PROVE  CountedInv' /\ SomeoneIsWoken'
  BY <1>0, <1>9 DEF ReportPass, AfterPass, Move, CountedInv, SomeoneIsWoken
<1>10. ASSUME NEW i \in 0 .. MaxCount, TestCount(i)
       PROVE  CountedInv' /\ SomeoneIsWoken'
  <2>1. UNCHANGED <<count, tokens, unserved, pc, subs>>
    BY <1>10 DEF TestCount
  <2>2. looping'[0] > 0 => looping[0] > 0
    BY <1>0, <1>10 DEF TestCount, Minus
  <2>3. looping[0] > 0 \/ sending[0] > 0 => looping'[0] > 0 \/ sending'[0] > 0
    <3>1. CASE i = 0
      <4>1. LoopAgain(0)
        BY <1>10, <3>1 DEF TestCount, LoopAgain, CountedInv
      <4>2. sending' = Plus(sending, 0, 1)
        BY <1>10, <3>1, <4>1 DEF TestCount
      <4> QED
        BY <1>0, <4>2 DEF Plus
    <3>2. CASE i # 0
      BY <1>0, <1>10, <3>2 DEF TestCount, Plus, Minus
    <3> QED
      BY <3>1, <3>2
  <2> QED
    BY <2>1, <2>2, <2>3 DEF CountedInv, SomeoneIsWoken
<1>11. ASSUME NEW i \in 0 .. MaxCount, Send(i)
       PROVE  CountedInv' /\ SomeoneIsWoken'
  <2>1. UNCHANGED <<count, unserved, pc, subs>> /\ tokens' > 0
    BY <1>0, <1>11 DEF Send
  <2>2. looping'[0] = looping[0]
    BY <1>0, <1>11 DEF Send, Plus
  <2> QED
    BY <2>1, <2>2 DEF CountedInv, SomeoneIsWoken
<1>12. ASSUME NEW k \in Keys, Notify(k)
       PROVE  CountedInv' /\ SomeoneIsWoken'
  <2>1. UNCHANGED <<count, tokens, sending, pc, subs>> /\ count > 0
    BY <1>12 DEF Notify, CountedInv
  <2>2. UNCHANGED <<looping, unserved>> \/ looping'[0] > 0
    <3>1. subs[k] \in Nat /\ subs[k] > 0
      BY <1>0, <1>12 DEF Notify
    <3>2. Plus(looping, 0, subs[k])[0] = looping[0] + subs[k]
      BY <1>0, <3>1 DEF Plus
    <3>3. looping' = Plus(looping, 0, subs[k]) \/ UNCHANGED <<looping, unserved>>
      BY <1>12 DEF Notify
    <3> QED
      BY <1>0, <3>1, <3>2, <3>3
  <2> QED
    BY <2>1, <2>2 DEF CountedInv, SomeoneIsWoken
<1>13. ASSUME NEW k \in Keys, Publish(k)
       PROVE  CountedInv' /\ SomeoneIsWoken'
  BY <1>13 DEF Publish, CountedInv, SomeoneIsWoken
<1>14. CASE Drain
  BY <1>14 DEF Drain, CountedInv, SomeoneIsWoken
<1>15. CASE UNCHANGED vars
  BY <1>15 DEF vars, CountedInv, SomeoneIsWoken
<1> QED
  BY <1>1, <1>2, <1>3, <1>4, <1>5, <1>6, <1>7, <1>8, <1>9, <1>10, <1>11,
     <1>12, <1>13, <1>14, <1>15 DEF Next, Monitor, Callback

(* Every change a callback is told of wakes some monitor: until one has    *)
(* begun a pass there is a token in the channel or a callback about to     *)
(* send its first, whatever updates client.count loses (client.go:154,     *)
(* client.go:172).                                                         *)
THEOREM ChangesWakeSomeone == Spec => []SomeoneIsWoken
<1>1. Init => CountedInv /\ SomeoneIsWoken
  BY FirstPlace DEF Init, CountedInv, SomeoneIsWoken, Zeros
<1> QED
  BY <1>1, WokenStep, TypeCorrect, PTL DEF Spec
-----------------------------------------------------------------------------
(* With a single template nothing is missed.  A value that a pass has read *)
(* is still the one Nacos holds, or the SDK has yet to tell of a newer one,*)
(* or has told a callback and no pass has begun since, or has told of it   *)
(* with an error.                                                          *)
Fine(k, v) ==
  v = backend[k] \/ known[k] # backend[k] \/ k \in unserved \/ k \in lost

SubscribedInv ==
  /\ \A k \in Keys : known[k] <= backend[k]
  /\ \A m \in Monitors :
       /\ pos[m] <= Len(KeysOf[m])
       /\ \A i \in 1 .. pos[m] : subs[KeysOf[m][i]] > 0
       /\ pc[m] \in {"read", "reportPass", "wait"} =>
            \A i \in 1 .. Len(KeysOf[m]) : subs[KeysOf[m][i]] > 0

ReadFine(m) ==
  /\ pc[m] # "read" => got[m] = <<>>
  /\ Len(got[m]) <= Len(KeysOf[m])
  /\ \A i \in 1 .. Len(got[m]) : Fine(KeysOf[m][i], got[m][i])
ShownFine(m) ==
  /\ pc[m] = "reportPass" => failed[m]
  /\ pc[m] = "wait" /\ ~failed[m] =>
       \A i \in 1 .. Len(KeysOf[m]) :
         i \in DOMAIN shown[m] /\ Fine(KeysOf[m][i], shown[m][i])
FreshInv == \A m \in Monitors : ReadFine(m) /\ ShownFine(m)

(* What a template's keys are. *)
LEMMA KeysKnown ==
  ASSUME NEW m \in Monitors
  PROVE  /\ Len(KeysOf[m]) \in Nat
         /\ \A i \in 1 .. Len(KeysOf[m]) : KeysOf[m][i] \in Keys
BY WatchAssumption

(* A monitor past WatchPrefix has subscribed to all its keys, and the SDK  *)
(* is never ahead of Nacos.                                                *)
LEMMA SubscribedStep ==
  TypeOK /\ SubscribedInv /\ [Next]_vars => SubscribedInv'
<1> SUFFICES ASSUME TypeOK, SubscribedInv, [Next]_vars PROVE SubscribedInv'
  OBVIOUS
<1> USE DEF sdkVars, callbackVars, passVars
<1>0. /\ pc \in [Monitors -> Places] /\ subs \in [Keys -> Nat]
      /\ pos \in [Monitors -> Nat]
      /\ backend \in [Keys -> Nat] /\ known \in [Keys -> Nat]
  BY DEF TypeOK
<1>1. ASSUME NEW m \in Monitors,
             \/ ReadCount(m) \/ WriteCount(m) \/ ReportWatch(m) \/ Receive(m)
             \/ ReadKey(m) \/ EndPass(m) \/ ReportPass(m)
      PROVE  SubscribedInv'
  <2>1. UNCHANGED <<subs, known, backend, pos>>
    BY <1>1 DEF ReadCount, WriteCount, ReportWatch, Receive, ReadKey, EndPass,
                ReportPass
  <2>2. \A n \in Monitors :
          pc'[n] \in {"read", "reportPass", "wait"} =>
            pc[n] \in {"read", "reportPass", "wait"}
    BY <1>0, <1>1 DEF ReadCount, WriteCount, ReportWatch, Receive, ReadKey,
                      EndPass, ReportPass, Move, AfterPass
  <2> QED
    BY <2>1, <2>2 DEF SubscribedInv
<1>2. ASSUME NEW m \in Monitors, Subscribe(m) PROVE SubscribedInv'
  <2> DEFINE k == KeysOf[m][pos[m] + 1]
  <2>0. pos[m] < Len(KeysOf[m]) /\ pos[m] \in Nat
    BY <1>0, <1>2 DEF Subscribe
  <2>1. k \in Keys
    BY <2>0, KeysKnown
  <2>2. UNCHANGED backend /\ pc[m] = "subscribe"
    BY <1>2 DEF Subscribe, Move
  <2>3. CASE UNCHANGED <<subs, known>> /\ pos' = [pos EXCEPT ![m] = 0]
             /\ pc' = [pc EXCEPT ![m] = "report"]
    <3>1. \A n \in Monitors : n # m => pos'[n] = pos[n] /\ pc'[n] = pc[n]
      BY <1>0, <2>3
    <3>2. pos'[m] = 0 /\ pc'[m] = "report" /\ 0 <= Len(KeysOf[m])
      BY <1>0, <2>3, KeysKnown
    <3> QED
      BY <2>2, <2>3, <3>1, <3>2 DEF SubscribedInv
  <2>4. CASE /\ pos' = [pos EXCEPT ![m] = @ + 1]
             /\ pc' = [pc EXCEPT ![m] = "subscribe"]
             /\ subs' = [subs EXCEPT ![k] = IF k \in Naming THEN subs[k] + 1
                                                           ELSE 1]
             /\ known' = IF subs[k] = 0 THEN [known EXCEPT ![k] = backend[k]]
                                        ELSE known
    <3>1. \A j \in Keys : known'[j] <= backend'[j]
      BY <1>0, <2>1, <2>2, <2>4 DEF SubscribedInv
    <3>2. subs'[k] > 0 /\ \A j \in Keys : subs[j] > 0 => subs'[j] > 0
      BY <1>0, <2>1, <2>4
    <3>3. \A n \in Monitors :
            /\ pos'[n] <= Len(KeysOf[n])
            /\ \A i \in 1 .. pos'[n] : subs'[KeysOf[n][i]] > 0
      <4> SUFFICES ASSUME NEW n \in Monitors
                   PROVE  /\ pos'[n] <= Len(KeysOf[n])
                          /\ \A i \in 1 .. pos'[n] : subs'[KeysOf[n][i]] > 0
        OBVIOUS
      <4>1. CASE n = m
        <5>1. pos'[m] = pos[m] + 1
          BY <1>0, <2>4
        <5>2. \A i \in 1 .. pos[m] : KeysOf[m][i] \in Keys
                                       /\ subs[KeysOf[m][i]] > 0
          BY <2>0, KeysKnown DEF SubscribedInv
        <5>3. \A i \in 1 .. pos[m] + 1 : i \in 1 .. pos[m] \/ i = pos[m] + 1
          BY <2>0
        <5>4. \A i \in 1 .. pos[m] + 1 : subs'[KeysOf[m][i]] > 0
          BY <3>2, <5>2, <5>3
        <5>5. pos[m] + 1 <= Len(KeysOf[m])
          BY <2>0, KeysKnown
        <5> QED
          BY <4>1, <5>1, <5>4, <5>5
      <4>2. CASE n # m
        <5>1. pos'[n] = pos[n] /\ pos[n] <= Len(KeysOf[n]) /\ pos[n] \in Nat
          BY <1>0, <2>4, <4>2 DEF SubscribedInv
        <5>2. \A i \in 1 .. pos[n] : KeysOf[n][i] \in Keys
                                       /\ subs[KeysOf[n][i]] > 0
          BY <5>1, KeysKnown DEF SubscribedInv
        <5> QED
          BY <3>2, <5>1, <5>2
      <4> QED
        BY <4>1, <4>2
    <3>4. \A n \in Monitors : pc'[n] \in {"read", "reportPass", "wait"} =>
            \A i \in 1 .. Len(KeysOf[n]) : subs'[KeysOf[n][i]] > 0
      <4>1. \A n \in Monitors : pc'[n] \in {"read", "reportPass", "wait"} =>
              pc[n] \in {"read", "reportPass", "wait"}
        BY <1>0, <2>4
      <4>2. \A n \in Monitors : \A i \in 1 .. Len(KeysOf[n]) :
              KeysOf[n][i] \in Keys
        BY KeysKnown
      <4> QED
        BY <3>2, <4>1, <4>2 DEF SubscribedInv
    <3> QED
      BY <3>1, <3>3, <3>4 DEF SubscribedInv
  <2> QED
    BY <1>2, <2>3, <2>4 DEF Subscribe, Move
<1>3. ASSUME NEW m \in Monitors, Subscribed(m) PROVE SubscribedInv'
  <2>1. UNCHANGED <<subs, known, backend>> /\ pos[m] = Len(KeysOf[m])
    BY <1>3 DEF Subscribed
  <2>2. pos' = [pos EXCEPT ![m] = 0] /\ pc' = [pc EXCEPT ![m] = "read"]
    BY <1>3 DEF Subscribed, SubscribedThenPass, Move
  <2>3. \A i \in 1 .. Len(KeysOf[m]) : subs[KeysOf[m][i]] > 0
    BY <2>1 DEF SubscribedInv
  <2>4. \A n \in Monitors : n # m => pos'[n] = pos[n] /\ pc'[n] = pc[n]
    BY <1>0, <2>2
  <2>5. pos'[m] = 0 /\ 0 <= Len(KeysOf[m])
    BY <1>0, <2>2, KeysKnown
  <2> QED
    BY <2>1, <2>3, <2>4, <2>5 DEF SubscribedInv
<1>4. CASE Callback \/ Drain
  BY <1>4 DEF Callback, TestCount, Send, Drain, SubscribedInv
<1>5. ASSUME NEW k \in Keys, Notify(k) PROVE SubscribedInv'
  <2>1. UNCHANGED <<subs, backend, pos, pc>>
    BY <1>5 DEF Notify
  <2>2. known' = [known EXCEPT ![k] = backend[k]]
    BY <1>5 DEF Notify
  <2> QED
    BY <1>0, <2>1, <2>2 DEF SubscribedInv
<1>6. ASSUME NEW k \in Keys, Publish(k) PROVE SubscribedInv'
  <2>1. UNCHANGED <<subs, known, pos, pc>>
    BY <1>6 DEF Publish
  <2>2. backend' = [backend EXCEPT ![k] = @ + 1]
    BY <1>6 DEF Publish
  <2>3. \A j \in Keys : known'[j] <= backend'[j]
    BY <1>0, <2>1, <2>2 DEF SubscribedInv
  <2> QED
    BY <2>1, <2>3 DEF SubscribedInv
<1>7. CASE UNCHANGED vars
  BY <1>7 DEF vars, SubscribedInv
<1> QED
  BY <1>1, <1>2, <1>3, <1>4, <1>5, <1>6, <1>7 DEF Next, Monitor

(* What is fine stays fine, but for a pass that begins and for a key that  *)
(* is subscribed to for the first time.                                    *)
LEMMA FineStays ==
  ASSUME TypeOK, SubscribedInv, NEW k \in Keys, NEW v, Fine(k, v),
         \/ UNCHANGED <<backend, known, unserved, lost>>
         \/ \E j \in Keys : Notify(j) \/ Publish(j)
  PROVE  Fine(k, v)'
<1>1. CASE UNCHANGED <<backend, known, unserved, lost>>
  BY <1>1 DEF Fine
<1>2. ASSUME NEW j \in Keys, Notify(j) PROVE Fine(k, v)'
  <2>1. CASE j = k
    BY <1>2, <2>1 DEF Notify, Fine
  <2>2. CASE j # k
    BY <1>2, <2>2 DEF Notify, Fine, TypeOK
  <2> QED
    BY <2>1, <2>2
<1>3. ASSUME NEW j \in Keys, Publish(j) PROVE Fine(k, v)'
  <2>1. UNCHANGED <<known, unserved, lost>>
    BY <1>3 DEF Publish, passVars
  <2>2. backend' = [backend EXCEPT ![j] = @ + 1]
    BY <1>3 DEF Publish
  <2>3. CASE j = k
    <3>1. known[k] \in Nat /\ backend[k] \in Nat /\ known[k] <= backend[k]
      BY DEF TypeOK, SubscribedInv
    <3>2. backend'[k] = backend[k] + 1
      BY <2>2, <2>3 DEF TypeOK
    <3>3. known'[k] # backend'[k]
      BY <2>1, <3>1, <3>2
    <3> QED
      BY <3>3 DEF Fine
  <2>4. CASE j # k
    BY <2>1, <2>2, <2>4 DEF Fine, TypeOK
  <2> QED
    BY <2>3, <2>4
<1> QED
  BY <1>1, <1>2, <1>3

(* Where nothing moves a monitor, what it has read and shown stays fine.   *)
LEMMA FreshStays ==
  ASSUME TypeOK, SubscribedInv, FreshInv, UNCHANGED <<pc, got, shown, failed>>,
         \/ UNCHANGED <<backend, known, unserved, lost>>
         \/ \E j \in Keys : Notify(j) \/ Publish(j)
  PROVE  FreshInv'
<1> SUFFICES ASSUME NEW m \in Monitors PROVE (ReadFine(m) /\ ShownFine(m))'
  BY DEF FreshInv
<1>1. ReadFine(m) /\ ShownFine(m)
  BY DEF FreshInv
<1>2. Len(KeysOf[m]) \in Nat /\ Len(got[m]) \in Nat
  BY KeysKnown DEF TypeOK
<1>3. ReadFine(m)'
  <2>1. \A i \in 1 .. Len(got[m]) : KeysOf[m][i] \in Keys
    BY <1>1, <1>2, KeysKnown DEF ReadFine
  <2>2. \A i \in 1 .. Len(got[m]) : Fine(KeysOf[m][i], got[m][i])'
    BY <1>1, <2>1, FineStays DEF ReadFine
  <2> QED
    BY <1>1, <2>2 DEF ReadFine
<1>4. ShownFine(m)'
  <2>1. \A i \in 1 .. Len(KeysOf[m]) : KeysOf[m][i] \in Keys
    BY KeysKnown
  <2>2. \A i \in 1 .. Len(KeysOf[m]) :
          Fine(KeysOf[m][i], shown[m][i]) => Fine(KeysOf[m][i], shown[m][i])'
    BY <2>1, FineStays
  <2> QED
    BY <1>1, <2>2 DEF ShownFine
<1> QED
  BY <1>3, <1>4

(* The steps of the only monitor.                                          *)
LEMMA MonitorFresh ==
  ASSUME TypeOK, SubscribedInv, FreshInv,
         NEW m \in Monitors, \A n \in Monitors : n = m, Monitor(m)
  PROVE  FreshInv'
<1> SUFFICES (ReadFine(m) /\ ShownFine(m))'
  BY DEF FreshInv
<1> USE DEF sdkVars, callbackVars, passVars
<1>0. /\ ReadFine(m) /\ ShownFine(m) /\ pc \in [Monitors -> Places]
      /\ got[m] \in Seq(0 .. MaxChanges) /\ Len(got[m]) \in Nat
      /\ failed \in [Monitors -> BOOLEAN]
      /\ got \in [Monitors -> Seq(0 .. MaxChanges)]
      /\ shown \in [Monitors -> Seq(0 .. MaxChanges)]
      /\ Len(KeysOf[m]) \in Nat
  BY KeysKnown DEF FreshInv, TypeOK
<1>1. CASE pc'[m] \notin {"read", "reportPass", "wait"}
  <2>1. got'[m] = <<>>
    BY <1>0, <1>1 DEF Monitor, ReadCount, WriteCount, Subscribe, ReportWatch,
         Subscribed, SubscribedThenPass, Receive, ReadKey, EndPass, ReportPass,
         AfterPass, Move, ReadFine
  <2> QED
    BY <1>0, <1>1, <2>1 DEF ReadFine, ShownFine
<1>2. CASE Subscribed(m) \/ Receive(m)
  <2>1. pc'[m] = "read" /\ got'[m] = <<>>
    BY <1>0, <1>2 DEF Subscribed, SubscribedThenPass, Receive, Move, ReadFine
  <2> QED
    BY <1>0, <2>1 DEF ReadFine, ShownFine
<1>3. CASE ReadKey(m) /\ pc'[m] = "read"
  <2> DEFINE n == Len(got[m]) + 1
             k == KeysOf[m][n]
  <2>1. /\ Len(got[m]) < Len(KeysOf[m]) /\ pc[m] = "read"
        /\ got' = [got EXCEPT ![m] = Append(@, backend[KeysOf[m][Len(@) + 1]])]
        /\ UNCHANGED <<backend, known, unserved, lost>>
    BY <1>0, <1>3 DEF ReadKey, Move
  <2>2. /\ got'[m] = Append(got[m], backend[k]) /\ k \in Keys
    BY <1>0, <2>1, KeysKnown
  <2>3. backend[k] \in 0 .. MaxChanges
    BY <2>2 DEF TypeOK
  <2>4. /\ Len(got'[m]) = n /\ got'[m][n] = backend[k]
        /\ \A i \in 1 .. Len(got[m]) : got'[m][i] = got[m][i]
    <3> HIDE DEF k
    <3> QED BY <1>0, <2>2, <2>3
  <2>5. \A i \in 1 .. n : i \in 1 .. Len(got[m]) \/ i = n
    BY <1>0
  <2>6. \A i \in 1 .. Len(got[m]) : Fine(KeysOf[m][i], got[m][i])'
    BY <1>0, <2>1, <2>4 DEF ReadFine, Fine
  <2>7. \A i \in Nat : i = n => Fine(KeysOf[m][i], got[m][i])'
    BY <2>1, <2>4 DEF Fine
  <2>8. \A i \in 1 .. n : Fine(KeysOf[m][i], got[m][i])'
    BY <2>5, <2>6, <2>7
  <2>9. n <= Len(KeysOf[m])
    BY <1>0, <2>1
  <2> QED
    BY <1>3, <2>4, <2>8, <2>9 DEF ReadFine, ShownFine
<1>4. CASE ReadKey(m) /\ pc'[m] = "reportPass"
  <2>1. got'[m] = <<>> /\ failed'[m] = TRUE
    BY <1>0, <1>4 DEF ReadKey, Move
  <2> QED
    BY <1>0, <1>4, <2>1 DEF ReadFine, ShownFine
<1>5. CASE EndPass(m)
  <2>1. /\ pc[m] = "read" /\ pc'[m] = "wait" /\ Len(got[m]) = Len(KeysOf[m])
        /\ got'[m] = <<>> /\ shown'[m] = got[m] /\ failed'[m] = FALSE
        /\ UNCHANGED <<backend, known, unserved, lost>>
    BY <1>0, <1>5 DEF EndPass, AfterPass, Move
  <2>2. \A i \in 1 .. Len(KeysOf[m]) :
          i \in DOMAIN shown'[m] /\ Fine(KeysOf[m][i], shown[m][i])'
    BY <1>0, <2>1 DEF ReadFine, Fine
  <2> QED
    BY <1>0, <2>1, <2>2 DEF ReadFine, ShownFine
<1>6. CASE ReportPass(m)
  <2>1. pc[m] = "reportPass" /\ pc'[m] = "wait" /\ UNCHANGED <<got, failed>>
    BY <1>0, <1>6 DEF ReportPass, AfterPass, Move
  <2>2. failed'[m] /\ got'[m] = <<>>
    BY <1>0, <2>1 DEF ReadFine, ShownFine
  <2> QED
    BY <1>0, <2>1, <2>2 DEF ReadFine, ShownFine
<1>7. CASE ReadCount(m) \/ WriteCount(m) \/ Subscribe(m) \/ ReportWatch(m)
  <2>1. pc'[m] \notin {"read", "reportPass", "wait"}
    BY <1>0, <1>7 DEF ReadCount, WriteCount, Subscribe, ReportWatch, Move
  <2> QED
    BY <1>1, <2>1
<1>8. CASE ReadKey(m)
  <2>1. pc'[m] \in {"read", "reportPass"}
    BY <1>0, <1>8 DEF ReadKey, Move
  <2> QED
    BY <1>3, <1>4, <1>8, <2>1
<1> QED
  BY <1>2, <1>5, <1>6, <1>7, <1>8 DEF Monitor

LEMMA FreshStep ==
  ASSUME \A m, n \in Monitors : m = n
  PROVE  TypeOK /\ SubscribedInv /\ FreshInv /\ [Next]_vars => FreshInv'
<1> SUFFICES ASSUME TypeOK, SubscribedInv, FreshInv, [Next]_vars
             PROVE  FreshInv'
  OBVIOUS
<1> USE DEF sdkVars, callbackVars, passVars
<1>1. ASSUME NEW m \in Monitors, Monitor(m) PROVE FreshInv'
  BY <1>1, MonitorFresh
<1>2. CASE Callback \/ Drain
  <2>1. /\ UNCHANGED <<pc, got, shown, failed>>
        /\ UNCHANGED <<backend, known, unserved, lost>>
    BY <1>2 DEF Callback, TestCount, Send, Drain
  <2> QED
    BY <2>1, FreshStays
<1>3. ASSUME NEW k \in Keys, Notify(k) \/ Publish(k) PROVE FreshInv'
  <2>1. UNCHANGED <<pc, got, shown, failed>>
    BY <1>3 DEF Notify, Publish
  <2> QED
    BY <1>3, <2>1, FreshStays
<1>4. CASE UNCHANGED vars
  <2>1. /\ UNCHANGED <<pc, got, shown, failed>>
        /\ UNCHANGED <<backend, known, unserved, lost>>
    BY <1>4 DEF vars
  <2> QED
    BY <2>1, FreshStays
<1> QED
  BY <1>1, <1>2, <1>3, <1>4 DEF Next

(* A single template is fresh whenever all is quiet and its last pass did  *)
(* not fail, for any keys, retries and lost updates of the counter         *)
(* (monitorPrefix, processor.go:122).  With two it is not so, since one    *)
(* monitor may take the tokens of both.                                    *)
THEOREM OneTemplateIsFresh ==
  ASSUME \A m, n \in Monitors : m = n
  PROVE  Spec => []FreshWhenQuiet
<1>1. Init => SubscribedInv /\ FreshInv
  <2> SUFFICES ASSUME Init PROVE SubscribedInv /\ FreshInv
    OBVIOUS
  <2>1. SubscribedInv
    <3>1. \A m \in Monitors : pos[m] = 0 /\ pc[m] = "count"
      BY DEF Init
    <3> QED
      BY <3>1, KeysKnown DEF Init, SubscribedInv
  <2>2. \A m \in Monitors : pc[m] = "count" /\ got[m] = <<>>
    BY DEF Init
  <2> QED
    BY <2>1, <2>2, KeysKnown DEF FreshInv, ReadFine, ShownFine
<1>2. TypeOK /\ SomeoneIsWoken /\ SubscribedInv /\ FreshInv => FreshWhenQuiet
  <2> SUFFICES ASSUME TypeOK, SomeoneIsWoken, SubscribedInv, FreshInv, Quiet,
                      NEW m \in Monitors, ~failed[m],
                      NEW i \in 1 .. Len(KeysOf[m]), KeysOf[m][i] \notin lost
               PROVE  i \in DOMAIN shown[m] /\ shown[m][i] = backend[KeysOf[m][i]]
    BY DEF FreshWhenQuiet, ShowsBackend
  <2>1. unserved = {}
    BY FirstPlace DEF SomeoneIsWoken, Quiet, Zeros
  <2>2. pc[m] = "wait"
    BY DEF Quiet
  <2>3. i \in DOMAIN shown[m] /\ Fine(KeysOf[m][i], shown[m][i])
    BY <2>2 DEF FreshInv, ShownFine
  <2>4. KeysOf[m][i] \in Keys /\ subs[KeysOf[m][i]] > 0
    BY <2>2, KeysKnown DEF SubscribedInv
  <2>5. known[KeysOf[m][i]] = backend[KeysOf[m][i]]
    BY <2>4 DEF Quiet
  <2> QED
    BY <2>1, <2>3, <2>5 DEF Fine
<1> QED
  BY <1>1, <1>2, SubscribedStep, FreshStep, TypeCorrect, ChangesWakeSomeone,
     PTL DEF Spec
=============================================================================
