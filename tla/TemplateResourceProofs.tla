----------------------- MODULE TemplateResourceProofs -----------------------
(***************************************************************************)
(* What holds of TemplateResource for every number of keys, every set of   *)
(* values and configurations, and every number of changes, failures and    *)
(* crashes.                                                                *)
(***************************************************************************)
EXTENDS TemplateResource, SequenceTheorems, TLAPS

(* A complete text is a sequence of one value for each key. *)
LEMMA ContentsAreSequences ==
  ASSUME NEW c \in Contents
  PROVE  c \in Seq(Values) /\ Len(c) = NumKeys
<1>1. NumKeys \in Nat
  BY ConstantsAssumption
<1>2. QED
  BY <1>1 DEF Contents, Keys

(* The text of an empty file is a text. *)
LEMMA NothingIsAText == <<>> \in Seq(Values)
OBVIOUS

(* The three counters stay within their bounds. *)
LEMMA CountersBounded ==
  ASSUME TypeOK
  PROVE  /\ Fault => faults' \in 0 .. MaxFaults
         /\ crashes < MaxCrashes /\ crashes' = crashes + 1
              => crashes' \in 0 .. MaxCrashes
         /\ changes < MaxChanges /\ changes' = changes + 1
              => changes' \in 0 .. MaxChanges
BY ConstantsAssumption DEF TypeOK, Fault

(* The owner confd can give a file it created is a user. *)
LEMMA OwnersKnown ==
  ASSUME TypeOK
  PROVE  /\ conf.uid \in Owners
         /\ (IF MayChown(Euid) THEN conf.uid ELSE Euid) \in Owners
BY ConstantsAssumption DEF TypeOK, ConfigType

(* Every variable keeps its kind, and a stage file exists exactly between  *)
(* createStageFile and the end of its pass: TypeOK is inductive.           *)
THEOREM TypeCorrect == Spec => []TypeOK
<1>1. Init => TypeOK
  <2> SUFFICES ASSUME Init PROVE TypeOK
    OBVIOUS
  <2>1. conf \in ConfigType
    BY ConstantsAssumption DEF Init
  <2>2. dest \in Files \cup {NoFile} /\ loaded \in Seq(Values)
    BY ContentsAreSequences DEF Init, Files
  <2>3. seen \in [Keys -> SUBSET Values]
    BY DEF Init, Contents
  <2>4. /\ changes \in 0 .. MaxChanges /\ faults \in 0 .. MaxFaults
        /\ crashes \in 0 .. MaxCrashes
    BY ConstantsAssumption DEF Init
  <2>5. fileMode \in Modes
    BY ConstantsAssumption DEF Init
  <2>6. staged = NoFile /\ store \in Seq(Values) /\ got \in Seq(Values)
    BY DEF Init
  <2>7. err \in BOOLEAN /\ litter \in BOOLEAN /\ pc = "idle" /\ last = "none"
    BY DEF Init
  <2>8. backend \in Contents /\ (conf.mounted => dest # NoFile)
    BY DEF Init
  <2>9. misread = FALSE /\ tokens \in 0 .. changes + 1
    BY DEF Init, FirstTokens
  <2> QED
    BY <2>1, <2>2, <2>3, <2>4, <2>5, <2>6, <2>7, <2>8, <2>9 DEF TypeOK, Steps
<1>2. TypeOK /\ [Next]_vars => TypeOK'
  <2> SUFFICES ASSUME TypeOK, [Next]_vars PROVE TypeOK'
    OBVIOUS
  <2> USE DEF TypeOK, GoTo, Proceed, GiveUp, Return, nacosVars, Steps, Stopped
  <2>1. CASE SetFileMode
    <3>1. fileMode' \in Modes
      <4>1. conf.mode \in Modes \cup {Unset, BadMode}
        BY DEF ConfigType
      <4>2. dest # NoFile => dest.mode \in Modes
        BY DEF Files
      <4> QED
        BY <2>1, <4>1, <4>2, ConstantsAssumption DEF SetFileMode
    <3>2. seen' \in [Keys -> SUBSET Values] /\ got' = <<>>
      BY <2>1 DEF SetFileMode, Contents
    <3>3. store' \in Seq(Values)
      <4>1. store' = store \/ store' = <<>>
        BY <2>1 DEF SetFileMode, StartPass
      <4> QED
        BY <4>1, NothingIsAText
    <3>4. faults' \in 0 .. MaxFaults
      BY <2>1, CountersBounded DEF SetFileMode
    <3>5. /\ pc' \in {"idle", "vars"} /\ staged' = NoFile
          /\ last' \in {last, "err"} /\ err' = err
      BY <2>1 DEF SetFileMode
    <3>6. UNCHANGED <<conf, backend, litter, dest, loaded, changes, crashes>>
      BY <2>1 DEF SetFileMode
    <3>7. tokens' \in 0 .. changes + 1 /\ misread' = FALSE
      <4>1. tokens' = tokens \/ (tokens > 0 /\ tokens' = tokens - 1)
        BY <2>1 DEF SetFileMode, StartPass
      <4>2. misread' = FALSE
        BY <2>1 DEF SetFileMode
      <4>3. changes \in Nat
        BY ConstantsAssumption
      <4> QED
        BY <4>1, <4>2, <4>3
    <3>8. /\ tokens' \in 0 .. changes' + 1 /\ changes' \in 0 .. MaxChanges
          /\ misread' \in BOOLEAN
      BY <3>6, <3>7
    <3> QED
      BY <3>1, <3>2, <3>3, <3>4, <3>5, <3>6, <3>7, <3>8
  <2>2. CASE GetValue
    <3>1. CASE FailGetValues
      BY <2>2, <3>1, CountersBounded DEF GetValue, FailGetValues
    <3>2. CASE got' = Append(got, backend[Len(got) + 1]) /\ Proceed("vars")
                 /\ UNCHANGED faults
      <4>1. Len(got) + 1 \in Keys
        BY <2>2, ConstantsAssumption DEF GetValue, Keys
      <4>2. backend[Len(got) + 1] \in Values
        BY <4>1 DEF Contents
      <4> QED
        BY <2>2, <3>2, <4>2 DEF GetValue
    <3> QED
      BY <2>2, <3>1, <3>2 DEF GetValue
  <2>3. CASE SetVars
    BY <2>3 DEF SetVars
  <2>4. CASE CreateStageFile
    <3>1. [content |-> <<>>, mode |-> TempMode, owner |-> Euid] \in Files
      BY ConstantsAssumption DEF Files
    <3> QED
      BY <2>4, <3>1, CountersBounded, ConstantsAssumption DEF CreateStageFile
  <2>5. CASE Render
    <3> DEFINE owner == IF MayChown(Euid) THEN conf.uid ELSE Euid
    <3>1. \A m \in Modes :
            [content |-> store, mode |-> m, owner |-> owner] \in Files
      BY OwnersKnown DEF Files
    <3> HIDE DEF owner
    <3>2. staged' \in Files \/ (staged' = NoFile /\ pc' = "idle")
      BY <2>5, <3>1, ConstantsAssumption DEF Render, RemoveStage, owner
    <3>3. pc' \in {"compare", "idle"} /\ (pc' = "compare" => staged' \in Files)
      BY <2>5, <3>1, <3>2, ConstantsAssumption DEF Render, RemoveStage, owner
    <3>4. faults' \in 0 .. MaxFaults
      BY <2>5, CountersBounded DEF Render
    <3>5. litter' = litter /\ err' = err /\ last' \in {last, "err"}
      BY <2>5 DEF Render, RemoveStage
    <3>6. pc' = "idle" => staged' = NoFile
      BY <2>5 DEF Render, RemoveStage
    <3> QED
      BY <2>5, <3>2, <3>3, <3>4, <3>5, <3>6, ConstantsAssumption DEF Render
  <2>6. CASE Compare
    <3>1. faults' \in 0 .. MaxFaults
      BY <2>6, CountersBounded DEF Compare, Misread, PerformSync
    <3>2. /\ pc' \in {"check", "replace", "cleanup"} /\ last' = last
          /\ err' \in BOOLEAN /\ misread' \in BOOLEAN
      BY <2>6 DEF Compare, Misread, PerformSync, Checks
    <3>3. staged # NoFile
      BY <2>6 DEF Compare
    <3> QED
      BY <2>6, <3>1, <3>2, <3>3 DEF Compare, Misread
  <2>7. CASE Check
    <3>1. faults' \in 0 .. MaxFaults
      BY <2>7, CountersBounded DEF Check
    <3>2. /\ pc' \in {"replace", "cleanup"} /\ last' = last
          /\ err' \in BOOLEAN
      BY <2>7 DEF Check
    <3> QED
      BY <2>7, <3>1, <3>2 DEF Check
  <2>8. CASE Rename
    BY <2>8, CountersBounded DEF Rename, AfterReplace, Reloads
  <2>9. CASE Truncate
    <3>1. [dest EXCEPT !.content = <<>>] \in Files
      BY <2>9, NothingIsAText DEF Truncate, Files
    <3>2. dest' \in Files /\ faults' \in 0 .. MaxFaults
      BY <2>9, <3>1, CountersBounded DEF Truncate
    <3>3. dest' # NoFile /\ staged' = staged /\ staged # NoFile
      BY <2>9, <3>2, ConstantsAssumption DEF Truncate
    <3>4. pc' \in {"write", "cleanup"} /\ err' \in BOOLEAN /\ last' = last
      BY <2>9 DEF Truncate
    <3> QED
      BY <2>9, <3>2, <3>3, <3>4 DEF Truncate
  <2>10. CASE Write
    <3>1. dest' \in Files
      <4>1. dest \in Files /\ staged.content \in Seq(Values)
        BY <2>10 DEF Write, Files
      <4>2. \A s \in Seq(Values) : [dest EXCEPT !.content = s] \in Files
        BY <4>1 DEF Files
      <4>3. \A n \in 0 .. Len(staged.content) - 1 :
              [dest EXCEPT !.content = SubSeq(staged.content, 1, n)] \in Files
        <5> TAKE n \in 0 .. Len(staged.content) - 1
        <5>1. SubSeq(staged.content, 1, n) \in Seq(Values)
          BY <4>1
        <5> QED
          BY <5>1, <4>2
      <4> QED
        BY <2>10, <4>1, <4>2, <4>3 DEF Write
    <3> QED
      BY <2>10, <3>1, CountersBounded, ConstantsAssumption DEF Write
  <2>11. CASE ChownDest
    <3>1. [dest EXCEPT !.owner = conf.uid] \in Files
      BY <2>11, OwnersKnown DEF ChownDest, Files
    <3>2. dest' \in Files
      BY <2>11, <3>1 DEF ChownDest
    <3> QED
      BY <2>11, <3>2, CountersBounded, ConstantsAssumption
      DEF ChownDest, AfterReplace
  <2>12. CASE Reload
    <3>1. dest.content \in Seq(Values)
      BY <2>12 DEF Reload, Files
    <3> QED
      BY <2>12, <3>1, CountersBounded DEF Reload
  <2>13. CASE Cleanup
    <3>1. staged' = NoFile /\ litter' \in BOOLEAN
      BY <2>13 DEF Cleanup, LeaveStage, RemoveStage
    <3>2. pc' = "idle" /\ err' \in BOOLEAN /\ last' \in {"ok", "err"}
      BY <2>13 DEF Cleanup
    <3> QED
      BY <2>13, <3>1, <3>2 DEF Cleanup
  <2>14. ASSUME NEW status \in Stopped, Stop(status)
         PROVE  TypeOK'
    <3>1. staged' = NoFile /\ litter' \in BOOLEAN /\ err' \in BOOLEAN
      BY <2>14 DEF Stop, LeaveStage
    <3>2. store' \in Seq(Values) /\ got' \in Seq(Values) /\ fileMode' \in Modes
      BY <2>14, NothingIsAText, ConstantsAssumption DEF Stop
    <3>3. crashes' \in 0 .. MaxCrashes
      BY <2>14, CountersBounded DEF Stop
    <3>4. tokens' \in 0 .. changes' + 1 /\ misread' = FALSE
      BY <2>14, ConstantsAssumption DEF Stop
    <3> QED
      BY <2>14, <3>1, <3>2, <3>3, <3>4 DEF Stop
  <2>15. CASE Start /\ pc \in Stopped
    <3>1. tokens' \in 0 .. changes' + 1
      BY <2>15, ConstantsAssumption DEF Start, FirstTokens
    <3> QED
      BY <2>15, <3>1 DEF Start, Stopped
  <2>16. ASSUME NEW k \in Keys, NEW v \in Values, Publish(k, v)
         PROVE  TypeOK'
    <3>1. backend' \in Contents /\ seen' \in [Keys -> SUBSET Values]
      BY <2>16 DEF Publish, Contents
    <3>2. tokens' \in 0 .. changes' + 1
      BY <2>16, ConstantsAssumption DEF Publish, Token
    <3> QED
      BY <2>16, <3>1, <3>2, CountersBounded DEF Publish
  <2>17. CASE UNCHANGED vars
    BY <2>17 DEF vars
  <2> QED
    BY <2>1, <2>2, <2>3, <2>4, <2>5, <2>6, <2>7, <2>8, <2>9, <2>10, <2>11,
       <2>12, <2>13, <2>14, <2>15, <2>16, <2>17
    DEF Next, Pass, Kill, Exit, Restart, StartAgain, Stopped
<1>3. QED
  BY <1>1, <1>2, PTL DEF Spec

(* Between passes and at every step of one, what has been read, rendered   *)
(* and installed shows the pass, and only a text that passed the check     *)
(* stands before a replacement.                                            *)
LEMMA PassInvInit == Init => PassInv
<1> SUFFICES ASSUME Init PROVE PassInv
  OBVIOUS
<1>1. ReadInv
  BY DEF Init, ReadInv
<1>2. RenderInv
  BY DEF Init, RenderInv
<1>3. ReplaceInv
  BY ContentsAreSequences DEF Init, ReplaceInv
<1>4. FreshWhenOk
  BY DEF Init, FreshWhenOk
<1> QED
  BY <1>1, <1>2, <1>3, <1>4 DEF PassInv

(* Every action keeps PassInv. *)
LEMMA PassInvStep == TypeOK /\ PassInv /\ [Next]_vars => PassInv'
<1> SUFFICES ASSUME TypeOK, PassInv, [Next]_vars PROVE PassInv'
  OBVIOUS
<1> USE DEF GoTo, Proceed, GiveUp, Return, nacosVars, Stopped
<1>1. CASE GetValue
  <2>1. ReadInv'
    <3>1. CASE FailGetValues
      BY <1>1, <3>1 DEF GetValue, FailGetValues, PassInv, ReadInv
    <3>2. CASE got' = Append(got, backend[Len(got) + 1]) /\ pc' = "vars"
      <4>1. got \in Seq(Values) /\ Len(got) + 1 \in Keys
        BY <1>1, ConstantsAssumption DEF GetValue, TypeOK, Keys
      <4>2. /\ Len(got') = Len(got) + 1 /\ got'[Len(got) + 1] \in seen[Len(got) + 1]
            /\ \A k \in 1 .. Len(got) : got'[k] = got[k]
        BY <3>2, <4>1 DEF PassInv, ReadInv
      <4>3. \A k \in 1 .. Len(got') : got'[k] \in seen[k]
        BY <1>1, <4>1, <4>2 DEF GetValue, PassInv, ReadInv
      <4> QED
        BY <1>1, <3>2, <4>1, <4>2, <4>3, ConstantsAssumption
        DEF GetValue, PassInv, ReadInv, Keys
    <3> QED
      BY <1>1, <3>1, <3>2 DEF GetValue
  <2>2. RenderInv'
    BY <1>1 DEF GetValue, FailGetValues, PassInv, RenderInv, Shows, Checks
  <2>3. ReplaceInv'
    BY <1>1 DEF GetValue, FailGetValues, PassInv, RenderInv, ReplaceInv, Shows
  <2>4. FreshWhenOk'
    BY <1>1
    DEF GetValue, FailGetValues, PassInv, ReplaceInv, FreshWhenOk, Shows
  <2> QED
    BY <2>1, <2>2, <2>3, <2>4 DEF PassInv
<1>2. CASE SetVars
  <2>1. ReadInv'
    BY <1>2 DEF SetVars, PassInv, ReadInv
  <2>2. RenderInv'
    <3>1. Shows(got)
      BY <1>2 DEF SetVars, PassInv, ReadInv, Shows, Keys
    <3> QED
      BY <1>2, <3>1 DEF SetVars, RenderInv, Shows
  <2>3. ReplaceInv'
    BY <1>2 DEF SetVars, PassInv, RenderInv, ReplaceInv, Shows
  <2>4. FreshWhenOk'
    BY <1>2 DEF SetVars, PassInv, ReplaceInv, FreshWhenOk, Shows
  <2> QED
    BY <2>1, <2>2, <2>3, <2>4 DEF PassInv
<1>3. CASE CreateStageFile
  <2>1. ReadInv'
    BY <1>3 DEF CreateStageFile, PassInv, ReadInv
  <2>2. RenderInv'
    BY <1>3 DEF CreateStageFile, PassInv, RenderInv, Shows, Checks
  <2>3. ReplaceInv'
    BY <1>3 DEF CreateStageFile, PassInv, RenderInv, ReplaceInv, Shows
  <2>4. FreshWhenOk'
    BY <1>3 DEF CreateStageFile, PassInv, ReplaceInv, FreshWhenOk, Shows
  <2> QED
    BY <2>1, <2>2, <2>3, <2>4 DEF PassInv
<1>4. CASE Render
  <2>1. ReadInv'
    BY <1>4 DEF Render, RemoveStage, PassInv, ReadInv
  <2>2. RenderInv'
    BY <1>4 DEF Render, RemoveStage, PassInv, RenderInv, Shows, Checks
  <2>3. ReplaceInv'
    BY <1>4 DEF Render, RemoveStage, PassInv, RenderInv, ReplaceInv, Shows
  <2>4. FreshWhenOk'
    BY <1>4 DEF Render, RemoveStage, PassInv, ReplaceInv, FreshWhenOk, Shows
  <2> QED
    BY <2>1, <2>2, <2>3, <2>4 DEF PassInv
<1>5. CASE Compare
  <2>1. ReadInv'
    BY <1>5
    DEF Compare, Misread, PerformSync, IsConfigChanged, PassInv, ReadInv
  <2>2. RenderInv'
    BY <1>5
    DEF Compare, Misread, PerformSync, IsConfigChanged, PassInv, RenderInv,
        Shows, Checks
  <2>3. ReplaceInv'
    BY <1>5
    DEF Compare, Misread, PerformSync, IsConfigChanged, TypeOK, PassInv,
        RenderInv, ReplaceInv, Shows
  <2>4. FreshWhenOk'
    BY <1>5
    DEF Compare, Misread, PerformSync, IsConfigChanged, PassInv, ReplaceInv,
        FreshWhenOk, Shows
  <2> QED
    BY <2>1, <2>2, <2>3, <2>4 DEF PassInv
<1>6. CASE Check
  <2>1. ReadInv'
    BY <1>6 DEF Check, PassInv, ReadInv
  <2>2. RenderInv'
    BY <1>6 DEF Check, PassInv, RenderInv, Shows, Checks
  <2>3. ReplaceInv'
    BY <1>6 DEF Check, PassInv, RenderInv, ReplaceInv, Shows
  <2>4. FreshWhenOk'
    BY <1>6 DEF Check, PassInv, ReplaceInv, FreshWhenOk, Shows
  <2> QED
    BY <2>1, <2>2, <2>3, <2>4 DEF PassInv
<1>7. CASE Rename
  <2>1. ReadInv'
    BY <1>7 DEF Rename, AfterReplace, Reloads, PassInv, ReadInv
  <2>2. RenderInv'
    BY <1>7
    DEF Rename, AfterReplace, Reloads, PassInv, RenderInv, Shows, Checks
  <2>3. ReplaceInv'
    BY <1>7
    DEF Rename, AfterReplace, Reloads, TypeOK, PassInv, RenderInv, ReplaceInv,
        Shows
  <2>4. FreshWhenOk'
    BY <1>7
    DEF Rename, AfterReplace, Reloads, PassInv, ReplaceInv, FreshWhenOk, Shows
  <2> QED
    BY <2>1, <2>2, <2>3, <2>4 DEF PassInv
<1>8. CASE Truncate
  <2>1. ReadInv'
    BY <1>8 DEF Truncate, PassInv, ReadInv
  <2>2. RenderInv'
    BY <1>8 DEF Truncate, PassInv, RenderInv, Shows, Checks
  <2>3. ReplaceInv'
    BY <1>8 DEF Truncate, PassInv, RenderInv, ReplaceInv, Shows
  <2>4. FreshWhenOk'
    BY <1>8 DEF Truncate, PassInv, ReplaceInv, FreshWhenOk, Shows
  <2> QED
    BY <2>1, <2>2, <2>3, <2>4 DEF PassInv
<1>9. CASE Write
  <2>1. ReadInv'
    BY <1>9 DEF Write, PassInv, ReadInv
  <2>2. RenderInv'
    BY <1>9 DEF Write, PassInv, RenderInv, Shows, Checks
  <2>3. ReplaceInv'
    <3>1. dest \in Files
      BY <1>9 DEF Write, TypeOK
    <3>2. pc' = "chown" => dest'.content = staged.content
      BY <1>9, <3>1 DEF Write, Files
    <3>3. pc' \in {"chown", "cleanup"} /\ (pc' = "cleanup" => err')
      BY <1>9 DEF Write
    <3>4. conf.mounted /\ UNCHANGED <<conf, staged>>
      BY <1>9 DEF Write, PassInv, ReplaceInv
    <3> QED
      BY <3>2, <3>3, <3>4 DEF ReplaceInv
  <2>4. FreshWhenOk'
    BY <1>9 DEF Write, PassInv, ReplaceInv, FreshWhenOk, Shows
  <2> QED
    BY <2>1, <2>2, <2>3, <2>4 DEF PassInv
<1>10. CASE ChownDest
  <2>1. ReadInv'
    BY <1>10 DEF ChownDest, AfterReplace, Reloads, PassInv, ReadInv
  <2>2. RenderInv'
    BY <1>10
    DEF ChownDest, AfterReplace, Reloads, PassInv, RenderInv, Shows, Checks
  <2>3. ReplaceInv'
    <3>1. dest \in Files /\ dest # NoFile
      BY <1>10, ConstantsAssumption DEF ChownDest, TypeOK
    <3>2. dest' \in Files /\ dest' # NoFile /\ dest'.content = staged.content
      BY <1>10, <3>1, OwnersKnown, ConstantsAssumption
      DEF ChownDest, PassInv, ReplaceInv, Files
    <3>3. Shows(dest'.content)
      BY <1>10, <3>2 DEF ChownDest, PassInv, RenderInv
    <3>4. Shows(dest'.content) => Shows(dest.content)'
      BY <1>10 DEF ChownDest, Shows
    <3>5. pc' \in {"reload", "cleanup"} /\ conf' = conf /\ conf.mounted
      BY <1>10 DEF ChownDest, AfterReplace, PassInv, ReplaceInv
    <3> QED
      BY <3>2, <3>3, <3>4, <3>5 DEF ReplaceInv
  <2>4. FreshWhenOk'
    BY <1>10
    DEF ChownDest, AfterReplace, Reloads, PassInv, ReplaceInv, FreshWhenOk,
        Shows
  <2> QED
    BY <2>1, <2>2, <2>3, <2>4 DEF PassInv
<1>11. CASE Reload
  <2>1. ReadInv'
    BY <1>11 DEF Reload, PassInv, ReadInv
  <2>2. RenderInv'
    BY <1>11 DEF Reload, PassInv, RenderInv, Shows, Checks
  <2>3. ReplaceInv'
    BY <1>11 DEF Reload, PassInv, RenderInv, ReplaceInv, Shows
  <2>4. FreshWhenOk'
    BY <1>11 DEF Reload, PassInv, ReplaceInv, FreshWhenOk, Shows
  <2> QED
    BY <2>1, <2>2, <2>3, <2>4 DEF PassInv
<1>12. CASE Cleanup
  <2>1. ReadInv'
    BY <1>12 DEF Cleanup, PassInv, ReadInv
  <2>2. RenderInv'
    BY <1>12 DEF Cleanup, PassInv, RenderInv, Shows, Checks
  <2>3. ReplaceInv'
    BY <1>12 DEF Cleanup, PassInv, RenderInv, ReplaceInv, Shows
  <2>4. FreshWhenOk'
    BY <1>12 DEF Cleanup, PassInv, ReplaceInv, FreshWhenOk, Shows
  <2> QED
    BY <2>1, <2>2, <2>3, <2>4 DEF PassInv
<1>13. ASSUME NEW status \in Stopped, Stop(status)
       PROVE  PassInv'
  <2>1. ReadInv'
    BY <1>13 DEF Stop, Stopped, PassInv, ReadInv
  <2>2. RenderInv'
    BY <1>13 DEF Stop, Stopped, PassInv, RenderInv, Shows, Checks
  <2>3. ReplaceInv'
    BY <1>13 DEF Stop, Stopped, PassInv, RenderInv, ReplaceInv, Shows
  <2>4. FreshWhenOk'
    BY <1>13 DEF Stop, Stopped, PassInv, ReplaceInv, FreshWhenOk, Shows
  <2> QED
    BY <2>1, <2>2, <2>3, <2>4 DEF PassInv
<1>14. CASE Start /\ pc \in Stopped
  <2>1. ReadInv'
    BY <1>14 DEF Start, Stopped, PassInv, ReadInv
  <2>2. RenderInv'
    BY <1>14 DEF Start, Stopped, PassInv, RenderInv, Shows, Checks
  <2>3. ReplaceInv'
    BY <1>14 DEF Start, Stopped, PassInv, RenderInv, ReplaceInv, Shows
  <2>4. FreshWhenOk'
    BY <1>14 DEF Start, Stopped, PassInv, ReplaceInv, FreshWhenOk, Shows
  <2> QED
    BY <2>1, <2>2, <2>3, <2>4 DEF PassInv
<1>15. CASE SetFileMode
  <2>1. ReadInv'
    BY <1>15, ConstantsAssumption DEF SetFileMode, ReadInv, Keys
  <2>2. RenderInv' /\ ReplaceInv'
    BY <1>15 DEF SetFileMode, PassInv, RenderInv, ReplaceInv, Stopped
  <2>3. FreshWhenOk'
    BY <1>15 DEF SetFileMode, FreshWhenOk
  <2> QED
    BY <2>1, <2>2, <2>3 DEF PassInv
<1>16. ASSUME NEW k \in Keys, NEW v \in Values, Publish(k, v)
       PROVE  PassInv'
  <2>1. \A i \in Keys : seen[i] \subseteq seen'[i]
    BY <1>16 DEF Publish, TypeOK
  <2>2. ReadInv'
    <3>1. \A i \in Keys : backend'[i] \in seen'[i]
      BY <1>16 DEF Publish, TypeOK, Contents, PassInv, ReadInv
    <3>2. \A i \in 1 .. Len(got) : Len(got) <= NumKeys => i \in Keys
      BY <1>16, ConstantsAssumption DEF TypeOK, Keys
    <3> QED
      BY <1>16, <2>1, <3>1, <3>2 DEF Publish, PassInv, ReadInv
  <2>3. RenderInv'
    BY <1>16, <2>1 DEF Publish, PassInv, RenderInv, Shows, Checks
  <2>4. ReplaceInv'
    BY <1>16, <2>1 DEF Publish, PassInv, ReplaceInv, Shows
  <2>5. FreshWhenOk'
    BY <1>16, <2>1 DEF Publish, PassInv, FreshWhenOk
  <2> QED
    BY <2>2, <2>3, <2>4, <2>5 DEF PassInv
<1>17. CASE UNCHANGED vars
  <2>1. ReadInv' /\ RenderInv' /\ ReplaceInv'
    BY <1>17
    DEF vars, PassInv, ReadInv, RenderInv, ReplaceInv, Shows, Checks
  <2>2. FreshWhenOk'
    BY <1>17 DEF vars, PassInv, FreshWhenOk
  <2> QED
    BY <2>1, <2>2 DEF PassInv
<1> QED
  BY <1>1, <1>2, <1>3, <1>4, <1>5, <1>6, <1>7, <1>8, <1>9, <1>10, <1>11,
     <1>12, <1>13, <1>14, <1>15, <1>16, <1>17
  DEF Next, Pass, Kill, Exit, Restart, StartAgain, Stopped
-----------------------------------------------------------------------------
(* The invariant from which the rest follows. *)
THEOREM PassInvariant == Spec => [](TypeOK /\ PassInv)
<1>1. TypeOK /\ PassInv /\ [Next]_vars => PassInv'
  BY PassInvStep
<1> QED
  BY <1>1, PassInvInit, TypeCorrect, PTL DEF Spec

(* A pass that reports success leaves the destination showing, for each    *)
(* key, a value Nacos held during that pass (setVars, resource.go:251).    *)
THEOREM Fresh == Spec => []FreshWhenOk
<1>1. PassInv => FreshWhenOk
  BY DEF PassInv
<1> QED
  BY <1>1, PassInvariant, PTL

(* Part of an accepted text, and no text, are accepted. *)
LEMMA AcceptsPrefix ==
  ASSUME NEW s \in Seq(Values), Accepts(s), NEW n \in 0 .. Len(s)
  PROVE  Accepts(SubSeq(s, 1, n)) /\ Accepts(<<>>)
BY DEF Accepts

(* The steps that write the destination, and what they write. *)
LEMMA DestWriters ==
  ASSUME TypeOK, PassInv, [Next]_vars, dest' # dest
  PROVE  /\ UNCHANGED conf /\ ~conf.noop /\ dest' # NoFile
         /\ Checks => Accepts(dest'.content)
         /\ ~conf.mounted => pc = "replace" /\ dest' = staged
         /\ ~conf.mounted => UNCHANGED loaded
<1> USE DEF PassInv, RenderInv, ReplaceInv
<1>1. CASE Rename
  BY <1>1 DEF Rename, TypeOK
<1>2. CASE Truncate
  <2>1. dest \in Files
    BY <1>2 DEF Truncate, TypeOK
  <2>2. dest' = [dest EXCEPT !.content = <<>>]
    BY <1>2 DEF Truncate
  <2>3. dest' \in Files /\ dest'.content = <<>>
    BY <2>1, <2>2, NothingIsAText DEF Files
  <2> QED
    BY <1>2, <2>3, ConstantsAssumption DEF Truncate, Accepts
<1>3. CASE Write
  <2>1. dest \in Files /\ staged \in Files
    BY <1>3 DEF Write, TypeOK
  <2>2. staged.content \in Seq(Values) /\ Len(staged.content) \in Nat
    BY <2>1 DEF Files
  <2>3. PICK c \in Seq(Values) :
          /\ dest' = [dest EXCEPT !.content = c]
          /\ Accepts(staged.content) => Accepts(c)
    <3>1. CASE dest' = [dest EXCEPT !.content = staged.content]
      BY <2>2, <3>1
    <3>2. CASE \E n \in 0 .. Len(staged.content) - 1 :
                 dest' = [dest EXCEPT !.content = SubSeq(staged.content, 1, n)]
      <4>1. PICK n \in 0 .. Len(staged.content) - 1 :
              dest' = [dest EXCEPT !.content = SubSeq(staged.content, 1, n)]
        BY <3>2
      <4>2. n \in 0 .. Len(staged.content)
        BY <2>2
      <4>3. SubSeq(staged.content, 1, n) \in Seq(Values)
        BY <2>2
      <4> QED
        BY <2>2, <4>1, <4>2, <4>3, AcceptsPrefix
    <3> QED
      BY <1>3, <3>1, <3>2 DEF Write
  <2>4. dest' \in Files /\ dest'.content = c
    BY <2>1, <2>3 DEF Files
  <2> QED
    BY <1>3, <2>3, <2>4, ConstantsAssumption DEF Write
<1>4. CASE ChownDest
  <2>1. dest \in Files
    BY <1>4 DEF ChownDest, TypeOK
  <2>2. dest' = [dest EXCEPT !.owner = conf.uid]
    BY <1>4 DEF ChownDest
  <2>3. dest' \in Files /\ dest'.content = staged.content
    BY <1>4, <2>1, <2>2, OwnersKnown DEF ChownDest, Files
  <2> QED
    BY <1>4, <2>3, ConstantsAssumption DEF ChownDest
<1> QED
  BY <1>1, <1>2, <1>3, <1>4
  DEF Next, Pass, vars, SetFileMode, GetValue, SetVars, CreateStageFile,
      Render, Compare, Check, Reload, Cleanup, Kill, Exit, Stop, Restart,
      StartAgain, Start, Publish

(* Whatever fails and wherever the program is killed, the destination      *)
(* changes only when noop is off, never to a text the check command would  *)
(* refuse, and, where it is not a mount point, never to part of a text     *)
(* (performSync, resource.go:359).                                         *)
THEOREM Vetted == Spec => VettedReplace
<1> DEFINE Step == dest' # dest =>
       /\ ~conf.noop
       /\ dest' # NoFile
       /\ conf.check /\ ~conf.syncOnly => Accepts(dest'.content)
       /\ ~conf.mounted => Len(dest'.content) = NumKeys
<1>1. TypeOK /\ PassInv /\ [Next]_vars => [Step]_vars
  <2> SUFFICES ASSUME TypeOK, PassInv, [Next]_vars, dest' # dest
               PROVE  Step
    OBVIOUS
  <2>1. ~conf.mounted => Len(dest'.content) = NumKeys
    BY DestWriters DEF PassInv, RenderInv, Shows
  <2> QED
    BY <2>1, DestWriters DEF Checks
<1> QED
  BY <1>1, PassInvariant, PTL DEF Spec, VettedReplace

(* Every error path removes the stage file: one is left behind only if     *)
(* keep-stage-file asks for it or the program was killed                   *)
(* (createStageFile, resource.go:298; sync, resource.go:322).              *)
THEOREM StageRemoved == Spec => []NoLitter
<1>1. Init => NoLitter
  BY DEF Init, NoLitter
<1>2. TypeOK /\ NoLitter /\ [Next]_vars => NoLitter'
  <2> SUFFICES ASSUME TypeOK, NoLitter, [Next]_vars PROVE NoLitter'
    OBVIOUS
  <2>1. CASE Cleanup
    BY <2>1 DEF Cleanup, LeaveStage, RemoveStage, NoLitter
  <2>2. CASE Kill \/ Exit
    BY <2>2 DEF Kill, Exit, Stop, NoLitter, TypeOK
  <2>3. CASE Render
    BY <2>3 DEF Render, RemoveStage, NoLitter
  <2> QED
    BY <2>1, <2>2, <2>3
    DEF Next, Pass, vars, SetFileMode, GetValue, SetVars, CreateStageFile,
        Compare, Check, Rename, Truncate, Write, ChownDest, Reload, Restart,
        StartAgain, Start, Publish, NoLitter
<1> QED
  BY <1>1, <1>2, TypeCorrect, PTL DEF Spec
-----------------------------------------------------------------------------
(* The texts the configuration lets through, as Promise has them. *)
Vets == {c \in Contents : conf.check /\ ~conf.syncOnly => Accepts(c)}

(* The configuration is chosen once. *)
LEMMA ConfChosenOnce == Spec => [](conf \in Configs)
<1>1. Init => conf \in Configs
  BY DEF Init
<1>2. conf \in Configs /\ [Next]_vars => (conf \in Configs)'
  BY DEF Next, Pass, vars, SetFileMode, GetValue, SetVars, CreateStageFile,
         Render, Compare, Check, Rename, Truncate, Write, ChownDest, Reload,
         Cleanup, Kill, Exit, Stop, Restart, StartAgain, Start, Publish
<1> QED
  BY <1>1, <1>2, PTL DEF Spec

(* A sequence of the right length is a complete text. *)
LEMMA WholeTexts ==
  ASSUME NEW s \in Seq(Values), Len(s) = NumKeys
  PROVE  s \in Contents /\ s # <<>>
BY ConstantsAssumption DEF Contents, Keys

(* Only the reload command makes the service load a text, the one that is  *)
(* there.                                                                  *)
LEMMA ServiceLoads ==
  ASSUME TypeOK, [Next]_vars
  PROVE  \/ UNCHANGED loaded
         \/ /\ pc = "reload" /\ dest # NoFile
            /\ loaded' = dest.content /\ UNCHANGED <<conf, dest>>
BY
DEF TypeOK, Next, Pass, vars, SetFileMode, GetValue, SetVars, CreateStageFile,
    Render, Compare, Check, Rename, Truncate, Write, ChownDest, Reload,
    Cleanup, Kill, Exit, Stop, Restart, StartAgain, Start, Publish

(* Where no configuration has a mount point for its destination, replacing *)
(* it by rename keeps the promise ConfigFile states, across failures and   *)
(* crashes (replaceConfig, resource.go:383).                               *)
THEOREM RenameKeepsPromise ==
  ASSUME \A c \in Configs : ~c.mounted
  PROVE  Spec => KeepsPromise
<1>1. Init => Promise!Init
  BY DEF Init, Promise!Init
<1>2. TypeOK /\ PassInv /\ conf \in Configs /\ [Next]_vars
        => [Promise!Next]_(Promise!vars)
  <2> SUFFICES ASSUME TypeOK, PassInv, conf \in Configs, [Next]_vars
               PROVE  [Promise!Next]_(Promise!vars)
    OBVIOUS
  <2>1. ~conf.mounted
    OBVIOUS
  <2>2. CASE UNCHANGED <<conf, dest>>
    <3>1. CASE UNCHANGED loaded
      BY <2>2, <3>1 DEF Promise!vars
    <3>2. CASE pc = "reload" /\ dest # NoFile /\ loaded' = dest.content
      <4>1. dest.content \in Seq(Values) /\ Len(dest.content) = NumKeys
        BY <2>1, <3>2 DEF TypeOK, Files, PassInv, ReplaceInv
      <4>2. dest.content # <<>>
        BY <4>1, WholeTexts
      <4>3. Promise!Load
        BY <2>2, <3>2, <4>2 DEF Promise!Load
      <4> QED
        BY <4>3 DEF Promise!Next
    <3> QED
      BY <2>2, <3>1, <3>2, ServiceLoads
  <2>3. CASE dest' # dest
    <3>1. /\ UNCHANGED <<conf, loaded>> /\ pc = "replace"
          /\ dest' = staged /\ dest' # NoFile
          /\ Checks => Accepts(dest'.content)
      BY <2>1, <2>3, DestWriters
    <3>2. staged.content \in Seq(Values) /\ Len(staged.content) = NumKeys
      BY <3>1 DEF TypeOK, Files, PassInv, RenderInv, Shows
    <3>3. dest'.content \in Vets
      BY <3>1, <3>2, WholeTexts DEF Vets, Checks
    <3>4. Promise!Install(dest'.content)
      BY <3>1, <3>3 DEF Promise!Install, Vets
    <3> QED
      BY <3>3, <3>4 DEF Promise!Next, Vets
  <2>4. UNCHANGED conf
    BY DEF Next, Pass, vars, SetFileMode, GetValue, SetVars, CreateStageFile,
           Render, Compare, Check, Rename, Truncate, Write, ChownDest, Reload,
           Cleanup, Kill, Exit, Stop, Restart, StartAgain, Start, Publish
  <2> QED
    BY <2>2, <2>3, <2>4
<1> QED
  BY <1>1, <1>2, PassInvariant, ConfChosenOnce, PTL
  DEF Spec, KeepsPromise, Promise!Spec
-----------------------------------------------------------------------------
(* What the attributes of the stage file are, and after a replacement      *)
(* those of the destination, as long as no call has failed.                *)
RightAttributes(f) ==
  /\ f.mode = fileMode
  /\ f.owner = IF MayChown(Euid) THEN conf.uid ELSE Euid

AttributesInv ==
  faults = 0 =>
    /\ pc \in {"compare", "check", "replace"} => RightAttributes(staged)
    /\ (pc = "reload" \/ (pc = "cleanup" /\ ~err)) /\ ~conf.noop /\ ~conf.mounted
         => RightAttributes(dest)
    /\ RenameInSync

(* The faults of a run are counted, each by the step that meets it.        *)
LEMMA FaultsCounted ==
  ASSUME [Next]_vars
  PROVE  UNCHANGED faults \/ Fault
<1>1. CASE SetFileMode \/ GetValue \/ SetVars \/ CreateStageFile \/ Render
  BY <1>1
  DEF SetFileMode, GetValue, FailGetValues, SetVars, CreateStageFile, Render
<1>2. CASE Compare \/ Check \/ Rename \/ Truncate \/ Write
  BY <1>2 DEF Compare, Misread, Check, Rename, Truncate, Write
<1>3. CASE ChownDest \/ Reload \/ Cleanup
  BY <1>3 DEF ChownDest, Reload, Cleanup
<1>4. CASE Kill \/ Exit \/ Restart \/ StartAgain
  BY <1>4 DEF Kill, Exit, Stop, Restart, StartAgain, Start
<1>5. CASE \E k \in Keys, v \in Values : Publish(k, v)
  BY <1>5 DEF Publish
<1>6. CASE UNCHANGED vars
  BY <1>6 DEF vars
<1> QED
  BY <1>1, <1>2, <1>3, <1>4, <1>5, <1>6 DEF Next, Pass

(* Every action keeps AttributesInv. *)
LEMMA AttributesStep ==
  TypeOK /\ PassInv /\ AttributesInv /\ [Next]_vars => AttributesInv'
<1> SUFFICES ASSUME TypeOK, PassInv, AttributesInv, [Next]_vars, faults' = 0
             PROVE  AttributesInv'
  BY DEF AttributesInv
<1> USE DEF GoTo, Proceed, GiveUp, Return, nacosVars, AttributesInv,
            RenameInSync, RightAttributes, MayChown
<1>1. faults = 0 /\ ~Fault
  BY FaultsCounted DEF Fault, TypeOK
<1>2. CASE SetFileMode
  BY <1>1, <1>2 DEF SetFileMode
<1>3. CASE GetValue
  BY <1>1, <1>3 DEF GetValue, FailGetValues
<1>4. CASE SetVars
  BY <1>1, <1>4 DEF SetVars
<1>5. CASE CreateStageFile
  BY <1>1, <1>5 DEF CreateStageFile
<1>6. CASE Render
  BY <1>1, <1>6 DEF Render
<1>7. CASE Compare
  BY <1>1, <1>7 DEF Compare, Misread, PerformSync, IsConfigChanged
<1>8. CASE Check
  BY <1>1, <1>8 DEF Check
<1>9. CASE Rename
  BY <1>1, <1>9 DEF Rename, AfterReplace
<1>10. CASE Truncate
  BY <1>1, <1>10 DEF Truncate
<1>11. CASE Write
  BY <1>1, <1>11 DEF Write
<1>12. CASE ChownDest
  BY <1>1, <1>12 DEF ChownDest, AfterReplace, PassInv, ReplaceInv
<1>13. CASE Reload
  BY <1>1, <1>13 DEF Reload
<1>14. CASE Cleanup
  BY <1>1, <1>14 DEF Cleanup
<1>15. CASE Kill \/ Exit
  BY <1>1, <1>15 DEF Kill, Exit, Stop, Stopped
<1>16. CASE Restart \/ StartAgain
  BY <1>1, <1>16 DEF Restart, StartAgain, Start, Stopped, PassInv, ReplaceInv
<1>17. ASSUME NEW k \in Keys, NEW v \in Values, Publish(k, v)
       PROVE  AttributesInv'
  BY <1>1, <1>17 DEF Publish
<1>18. CASE UNCHANGED vars
  BY <1>1, <1>18 DEF vars
<1> QED
  BY <1>2, <1>3, <1>4, <1>5, <1>6, <1>7, <1>8, <1>9, <1>10, <1>11, <1>12,
     <1>13, <1>14, <1>15, <1>16, <1>17, <1>18 DEF Next, Pass

(* After a pass that reports success, over a destination that is replaced  *)
(* by rename and without a failing call, the destination has the mode and  *)
(* the owner the pass chose (createStageFile, resource.go:311).            *)
THEOREM InSyncAfterRename == Spec => []RenameInSync
<1>1. Init => AttributesInv
  BY DEF Init, AttributesInv, RenameInSync
<1>2. TypeOK /\ AttributesInv => RenameInSync
  BY DEF AttributesInv, RenameInSync
<1> QED
  BY <1>1, <1>2, AttributesStep, PassInvariant, PTL DEF Spec
-----------------------------------------------------------------------------
(* Why the service runs with what is there, as long as nothing fails: its  *)
(* text is that of the destination, but between a replacement and the      *)
(* reload; or the destination's owner is one confd cannot change, and then *)
(* no pass over it reports success.                                        *)
Undisturbed ==
  /\ faults = 0 /\ crashes = 0 /\ (conf.root \/ conf.uid = Euid)
  /\ ~conf.noop /\ conf.reload /\ ~conf.syncOnly
Runs == dest # NoFile /\ loaded = dest.content

ServiceInv ==
  Undisturbed =>
    /\ pc \in {"compare", "check", "replace"} => staged.owner = conf.uid
    /\ pc \notin {"write", "chown", "reload"} /\ dest # NoFile
         => loaded = dest.content \/ dest.owner # conf.uid
    /\ pc = "cleanup" /\ ~err => Runs
    /\ pc = "idle" /\ last = "ok" => Runs

(* Every action keeps ServiceInv. *)
LEMMA ServiceStep ==
  TypeOK /\ PassInv /\ ServiceInv /\ [Next]_vars => ServiceInv'
<1> SUFFICES ASSUME TypeOK, PassInv, ServiceInv, [Next]_vars, Undisturbed'
             PROVE  ServiceInv'
  BY DEF ServiceInv
<1> USE
DEF GoTo, Proceed, GiveUp, Return, nacosVars, ServiceInv, Runs, MayChown
<1>1. Undisturbed /\ ~Fault /\ ~Kill /\ ~Exit
  <2>1. faults = 0 /\ ~Fault
    BY FaultsCounted DEF Undisturbed, Fault, TypeOK
  <2>2. ~Kill /\ ~Exit
    BY DEF Undisturbed, Kill, Exit, Stop, TypeOK
  <2>3. UNCHANGED <<conf, crashes>>
    BY <2>2
    DEF Next, Pass, vars, SetFileMode, GetValue, SetVars, CreateStageFile,
        Render, Compare, Check, Rename, Truncate, Write, ChownDest, Reload,
        Cleanup, Restart, StartAgain, Start, Publish
  <2> QED
    BY <2>1, <2>2, <2>3 DEF Undisturbed
<1>2. CASE SetFileMode
  BY <1>1, <1>2 DEF SetFileMode
<1>3. CASE GetValue
  BY <1>1, <1>3 DEF GetValue, FailGetValues
<1>4. CASE SetVars
  BY <1>1, <1>4 DEF SetVars
<1>5. CASE CreateStageFile
  BY <1>1, <1>5 DEF CreateStageFile
<1>6. CASE Render
  BY <1>1, <1>6 DEF Render, Undisturbed
<1>7. CASE Compare
  BY <1>1, <1>7
  DEF Compare, Misread, PerformSync, IsConfigChanged, Undisturbed, TypeOK
<1>8. CASE Check
  BY <1>1, <1>8 DEF Check
<1>9. CASE Rename
  BY <1>1, <1>9 DEF Rename, AfterReplace, Reloads, Undisturbed
<1>10. CASE Truncate
  BY <1>1, <1>10 DEF Truncate
<1>11. CASE Write
  BY <1>1, <1>11 DEF Write
<1>12. CASE ChownDest
  BY <1>1, <1>12 DEF ChownDest, AfterReplace, Reloads, Undisturbed
<1>13. CASE Reload
  BY <1>1, <1>13 DEF Reload, TypeOK
<1>14. CASE Cleanup
  BY <1>1, <1>14 DEF Cleanup
<1>15. CASE Restart \/ StartAgain
  BY <1>1, <1>15 DEF Restart, StartAgain, Start, Stopped, PassInv, ReplaceInv
<1>16. ASSUME NEW k \in Keys, NEW v \in Values, Publish(k, v)
       PROVE  ServiceInv'
  BY <1>1, <1>16 DEF Publish
<1>17. CASE UNCHANGED vars
  BY <1>1, <1>17 DEF vars
<1> QED
  BY <1>1, <1>2, <1>3, <1>4, <1>5, <1>6, <1>7, <1>8, <1>9, <1>10, <1>11,
     <1>12, <1>13, <1>14, <1>15, <1>16, <1>17 DEF Next, Pass

(* After a pass that reports success the service runs with the text in the *)
(* destination, on a mount point as well, as long as no call fails and the *)
(* program is not killed (performSync, resource.go:371).                   *)
THEOREM ServiceFollows == Spec => []ServiceRunsDestIfNoFault
<1>1. Init => ServiceInv
  BY DEF Init, ServiceInv
<1>2. ServiceInv => ServiceRunsDestIfNoFault
  BY DEF ServiceInv, Undisturbed, Runs, ServiceRunsDestIfNoFault,
         ServiceRunsDest
<1> QED
  BY <1>1, <1>2, ServiceStep, PassInvariant, PTL DEF Spec
=============================================================================
