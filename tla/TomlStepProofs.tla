--------------------------- MODULE TomlStepProofs ---------------------------
(***************************************************************************)
(* Theorems about the lexer and the parser together: for every text and    *)
(* every depth of nesting they are in step, and the parser panics on the   *)
(* known texts only.                                                       *)
(*                                                                         *)
(* The invariant relates the function the lexer is to run and the stack it *)
(* returns by to the calls the parser is in.  The lexer's stack holds, for *)
(* every level that is open, the whole text first, what that level goes on *)
(* with when the value inside it is read.                                  *)
(***************************************************************************)
EXTENDS TomlProofs

(* What level i of the calls f goes on with after a value; level 0 is the  *)
(* text itself.                                                            *)
Closing(f, i) ==
  IF i = 0 THEN "lexTopEnd"
  ELSE IF f[i] = "array" THEN "lexArrayValueEnd" ELSE "lexInlineTableValueEnd"

(* The functions that run while level i waits for a value, a key or its    *)
(* end, and that a comment returns to.                                     *)
Loops(f, i) ==
  IF i = 0 THEN {"lexTop"}
  ELSE IF f[i] = "array" THEN {"lexArrayValue", "lexArrayValueEnd"}
  ELSE {"lexInlineTableValue", "lexInlineTableValueEnd"}

(* The levels below m wait for a value, the first m returns are theirs.    *)
Levels(f, st, m) ==
  /\ \A i \in 1 .. m : st[i] = Closing(f, i - 1)
  /\ \A i \in 1 .. m - 1 : f[i] \in Containers

Within(f, st, m) == Levels(f, st, m) /\ (m = 0 \/ f[m] \in Containers)
InLoop(f, st, m, s) ==
  /\ m \in 1 .. Len(f) /\ Len(f) = m
  /\ Within(f, st, m) /\ s \in Loops(f, m)

(* Only the text and inline tables have keys. *)
Keyed(f, i) == i = 0 \/ f[i] = "inline"
BeforeKey(f, st, m) ==
  m >= 1 /\ Len(f) = m - 1 /\ Levels(f, st, m) /\ Keyed(f, m - 1)
InKey(f, st, m, x) ==
  m >= 1 /\ Len(f) = m /\ Levels(f, st, m) /\ Keyed(f, m - 1) /\ f[m] = x

BeforeComment(f, st, m) ==
  /\ m >= 1 /\ Len(f) = m - 1
  /\ Within(f, st, m - 1) /\ st[m] \in Loops(f, m - 1)
InComment(f, st, m) ==
  /\ m >= 1 /\ Len(f) = m /\ f[m] = "comment"
  /\ Within(f, st, m - 1) /\ st[m] \in Loops(f, m - 1)

(* A value is one of an array, or of a key. *)
InValue(f, st, m) ==
  \/ m >= 2 /\ Len(f) = m - 1 /\ Levels(f, st, m) /\ f[m - 1] = "array"
  \/ InKey(f, st, m, "value")

(* The name of a table is read with one return on the stack. *)
NameOf(f, st, frames1, frames2) ==
  /\ Len(f) = 1
  /\ \/ st[1] = "lexTableEnd" /\ f[1] \in frames1
     \/ st[1] = "lexArrayTableEnd" /\ f[1] \in frames2
InName(f, st) ==
  NameOf(f, st, {"tableStart", "table"}, {"arrayTableStart", "arrayTable"})
AfterName(f, st) == NameOf(f, st, {"table"}, {"arrayTable"})

(* A string is a value, a quoted key or a quoted piece of a name. *)
InString(f, st, m) ==
  \/ InValue(f, st, m)
  \/ m >= 2 /\ InKey(f, st, m - 1, "key") /\ st[m] = "lexKeyEnd"
  \/ m = 2 /\ InName(f, st) /\ st[2] = "lexTableNameEnd"

Strings == {"lexString", "lexRawString", "lexMultilineString",
            "lexMultilineRawString", "lexMultilineStringEscape"}
Scalars == {"lexNumberOrDateStart", "lexNumberOrDate", "lexDatetime",
            "lexNumberStart", "lexNumber", "lexFloat", "lexBool"}
StringEscapes ==
  {"lexStringEscape", "lexShortUnicodeEscape", "lexLongUnicodeEscape"}
Quoted(runes) == runes # <<>> /\ Head(runes) \in StringQuotes

(* The parser in the calls f may ask for an item of the lexer that is to   *)
(* run s with the stack st.                                                *)
Ready(f, st, s, runes) ==
  LET m == Len(st)
  IN  \/ s \in {"lexTop", "lexTopEnd", "lexTableStart"} /\ f = <<>> /\ m = 0
      \/ s = "lexTableEnd" /\ m = 0 /\ Len(f) = 1 /\ f[1] = "table"
      \/ s = "lexArrayTableEnd" /\ m = 0 /\ Len(f) = 1 /\ f[1] = "arrayTable"
      \/ s \in {"lexTableNameStart", "lexBareTableName"} /\ m = 1 /\ InName(f, st)
      \/ s = "lexTableNameEnd" /\ m = 1 /\ AfterName(f, st)
      \/ s = "lexKeyStart" /\ BeforeKey(f, st, m)
      \/ s = "lexBareKey" /\ InKey(f, st, m, "key")
      \/ s = "lexKeyEnd" /\ InKey(f, st, m, "value")
      \/ /\ s \in {"lexArrayValue", "lexArrayValueEnd",
                   "lexInlineTableValue", "lexInlineTableValueEnd"}
         /\ InLoop(f, st, m, s)
      \/ s = "lexCommentStart" /\ BeforeComment(f, st, m)
      \/ s = "lexComment" /\ InComment(f, st, m)
      \/ s = "lexValue" /\ InValue(f, st, m)
      \/ s = "lexValue" /\ InString(f, st, m) /\ Quoted(runes)
      \/ s \in Scalars /\ InValue(f, st, m)
      \/ s \in Strings /\ InString(f, st, m)
      \/ /\ s \in StringEscapes /\ m >= 2 /\ InString(f, st, m - 1)
         /\ st[m] \in {"lexString", "lexMultilineString"}

(* What the parser enters, becomes or leaves when its innermost call takes *)
(* an item.                                                                *)
InnerOf(f) == IF f = <<>> THEN "top" ELSE f[Len(f)]
OuterOf(f) == SubSeq(f, 1, Len(f) - 1)
Enters ==
  {<<"top", "CommentStart", "comment">>, <<"array", "CommentStart", "comment">>,
   <<"top", "TableStart", "tableStart">>,
   <<"top", "ArrayTableStart", "arrayTableStart">>,
   <<"top", "KeyStart", "key">>, <<"inline", "KeyStart", "key">>,
   <<"array", "Array", "array">>, <<"array", "InlineTableStart", "inline">>}
Becomes ==
  {<<"value", "Array", "array">>, <<"value", "InlineTableStart", "inline">>}
    \cup ({"tableStart", "table"} \X KeyStrings \X {"table"})
    \cup ({"arrayTableStart", "arrayTable"} \X KeyStrings \X {"arrayTable"})
    \cup ({"key"} \X KeyStrings \X {"value"})
Leaves ==
  {<<"comment", "Text">>, <<"table", "TableEnd">>,
   <<"arrayTable", "ArrayTableEnd">>, <<"array", "ArrayEnd">>,
   <<"inline", "InlineTableEnd">>} \cup ({"value"} \X Primitives)

(* The parser in the calls f is sent an item it ends with, or one after    *)
(* which it may ask for the next.                                          *)
Awaits(f, type, st, s, runes) ==
  \/ type \in Errors
  \/ type = "EOF" /\ f = <<>>
  \/ \E x \in Frames :
       <<InnerOf(f), type, x>> \in Enters /\ Ready(Append(f, x), st, s, runes)
  \/ \E x \in Frames :
       /\ <<InnerOf(f), type, x>> \in Becomes
       /\ Ready(Append(OuterOf(f), x), st, s, runes)
  \/ <<InnerOf(f), type>> \in Leaves /\ Ready(OuterOf(f), st, s, runes)
  \/ InnerOf(f) = "array" /\ type \in Primitives /\ Ready(f, st, s, runes)
  \/ InnerOf(f) = "inline" /\ type = "CommentStart" /\ s = "lexComment"

(* The inductive invariant. *)
StepInv ==
  outcome = "parsing" =>
    \/ items = <<>> /\ Ready(frames, stack, state, ahead)
    \/ \E type : items = <<type>> /\ Awaits(frames, type, stack, state, ahead)
-----------------------------------------------------------------------------
(* What a level is does not depend on what is above it. *)
LEMMA LevelsAgree ==
  ASSUME NEW f, NEW g, NEW st, NEW tt, NEW m \in Nat, Levels(f, st, m),
         \A i \in 1 .. m - 1 : g[i] = f[i],
         \A i \in 1 .. m : tt[i] = st[i]
  PROVE  Levels(g, tt, m)
  <1>1. ASSUME NEW i \in 1 .. m
        PROVE  Closing(g, i - 1) = Closing(f, i - 1)
    <2>1. i - 1 = 0 \/ i - 1 \in 1 .. m - 1
      OBVIOUS
    <2> QED
      BY <2>1 DEF Closing
  <1> QED
    BY <1>1 DEF Levels

LEMMA WithinAgree ==
  ASSUME NEW f, NEW g, NEW st, NEW tt, NEW m \in Nat, Within(f, st, m),
         \A i \in 1 .. m : g[i] = f[i],
         \A i \in 1 .. m : tt[i] = st[i]
  PROVE  Within(g, tt, m) /\ Loops(g, m) = Loops(f, m)
  <1>1. Levels(g, tt, m)
    <2>1. \A i \in 1 .. m - 1 : g[i] = f[i]
      OBVIOUS
    <2> QED
      BY <2>1, LevelsAgree DEF Within
  <1>2. m = 0 \/ g[m] = f[m]
    OBVIOUS
  <1> QED
    BY <1>1, <1>2 DEF Within, Loops

(* The levels below one, and one level more. *)
LEMMA LevelsBelow ==
  ASSUME NEW f, NEW st, NEW m \in Nat, m >= 1, Levels(f, st, m)
  PROVE  /\ Levels(f, st, m - 1) /\ st[m] = Closing(f, m - 1)
         /\ Within(f, st, m - 1)
  <1>1. m - 1 \in Nat /\ (m - 1 = 0 \/ m - 1 \in 1 .. m - 1)
    OBVIOUS
  <1>2. Levels(f, st, m - 1)
    BY DEF Levels
  <1>3. st[m] = Closing(f, m - 1)
    BY DEF Levels
  <1> QED
    BY <1>1, <1>2, <1>3 DEF Within, Levels

LEMMA LevelsAbove ==
  ASSUME NEW f, NEW st, NEW m \in Nat, Within(f, st, m),
         st[m + 1] = Closing(f, m)
  PROVE  Levels(f, st, m + 1)
  <1>1. ASSUME NEW i \in 1 .. m + 1
        PROVE  st[i] = Closing(f, i - 1)
    <2>1. i \in 1 .. m \/ i = m + 1
      OBVIOUS
    <2>2. CASE i \in 1 .. m
      BY <2>2 DEF Within, Levels
    <2>3. CASE i = m + 1
      BY <2>3
    <2> QED
      BY <2>1, <2>2, <2>3
  <1>2. ASSUME NEW i \in 1 .. m + 1 - 1
        PROVE  f[i] \in Containers
    <2>1. i \in 1 .. m - 1 \/ (i = m /\ m # 0)
      OBVIOUS
    <2> QED
      BY <2>1 DEF Within, Levels
  <1> QED
    BY <1>1, <1>2 DEF Levels

(* Where the lexer is after it has popped, and the parser in the level     *)
(* below, when what was above is read.                                     *)
LEMMA Landed ==
  ASSUME NEW f, NEW st, NEW m \in Nat, m >= 1, Levels(f, st, m),
         NEW g \in Seq(Frames), Len(g) = m - 1,
         \A i \in 1 .. m - 1 : g[i] = f[i],
         NEW tt, Len(tt) = m - 1, \A i \in 1 .. m - 1 : tt[i] = st[i],
         NEW runes
  PROVE  Ready(g, tt, st[m], runes)
  <1>1. Within(f, st, m - 1) /\ st[m] = Closing(f, m - 1) /\ m - 1 \in Nat
    BY LevelsBelow
  <1>2. Within(g, tt, m - 1) /\ Closing(g, m - 1) = Closing(f, m - 1)
    BY <1>1, WithinAgree DEF Closing
  <1>3. CASE m = 1
    <2>1. g = <<>> /\ st[m] = "lexTopEnd"
      BY <1>1, <1>3 DEF Closing
    <2> QED
      BY <1>3, <2>1 DEF Ready
  <1>4. CASE m > 1
    <2>1. m - 1 \in 1 .. Len(g) /\ m - 1 # 0
      BY <1>4
    <2>2. st[m] \in Loops(g, m - 1)
      BY <1>1, <1>2, <2>1 DEF Closing, Loops
    <2>3. InLoop(g, tt, m - 1, st[m])
      BY <1>2, <2>1, <2>2 DEF InLoop
    <2>4. st[m] \in {"lexArrayValue", "lexArrayValueEnd",
                     "lexInlineTableValue", "lexInlineTableValueEnd"}
      BY <1>1, <2>1 DEF Closing
    <2> QED
      BY <2>3, <2>4 DEF Ready
  <1> QED
    BY <1>3, <1>4

LEMMA LandedInLoop ==
  ASSUME NEW f, NEW st, NEW m \in Nat, m >= 1,
         Within(f, st, m - 1), st[m] \in Loops(f, m - 1),
         NEW g \in Seq(Frames), Len(g) = m - 1,
         \A i \in 1 .. m - 1 : g[i] = f[i],
         NEW tt, Len(tt) = m - 1, \A i \in 1 .. m - 1 : tt[i] = st[i],
         NEW runes
  PROVE  Ready(g, tt, st[m], runes)
  <1>1. m - 1 \in Nat
    OBVIOUS
  <1>2. Within(g, tt, m - 1) /\ Loops(g, m - 1) = Loops(f, m - 1)
    <2> DEFINE n == m - 1
    <2>1. /\ n \in Nat /\ Within(f, st, n)
          /\ \A i \in 1 .. n : g[i] = f[i]
          /\ \A i \in 1 .. n : tt[i] = st[i]
      BY <1>1
    <2> HIDE DEF n
    <2>2. Within(g, tt, n) /\ Loops(g, n) = Loops(f, n)
      BY <2>1, WithinAgree, SMTT(30)
    <2> QED
      BY <2>2 DEF n
  <1>3. CASE m = 1
    <2>1. g = <<>> /\ st[m] = "lexTop"
      BY <1>2, <1>3 DEF Loops
    <2> QED
      BY <1>3, <2>1 DEF Ready
  <1>4. CASE m > 1
    <2>1. m - 1 \in 1 .. Len(g) /\ m - 1 # 0
      BY <1>4
    <2>2. InLoop(g, tt, m - 1, st[m])
      BY <1>2, <2>1 DEF InLoop
    <2>3. st[m] \in {"lexArrayValue", "lexArrayValueEnd",
                     "lexInlineTableValue", "lexInlineTableValueEnd"}
      BY <1>2, <2>1 DEF Loops
    <2> QED
      BY <2>2, <2>3 DEF Ready
  <1> QED
    BY <1>3, <1>4
-----------------------------------------------------------------------------
(* The innermost call, when there is one. *)
LEMMA InnerFacts ==
  ASSUME NEW f \in Seq(Frames), NEW m \in Nat, m >= 1, Len(f) = m
  PROVE  f # <<>> /\ InnerOf(f) = f[m]
  BY DEF InnerOf

(* A value ends: the level it is in goes on. *)
LEMMA ValueEnds ==
  ASSUME NEW f \in Seq(Frames), NEW st \in Seq(States), NEW runes,
         InValue(f, st, Len(st)), NEW type \in Primitives
  PROVE  /\ st # <<>>
         /\ Awaits(f, type, SubSeq(st, 1, Len(st) - 1), st[Len(st)], runes)
  <1> DEFINE m == Len(st)
             tt == SubSeq(st, 1, m - 1)
  <1>1. m \in Nat /\ m >= 1 /\ st # <<>>
    BY DEF InValue, InKey
  <1>2. Len(tt) = m - 1 /\ \A i \in 1 .. m - 1 : tt[i] = st[i]
    BY <1>1, LeaveFacts
  <1> HIDE DEF m, tt
  <1>3. CASE m >= 2 /\ Len(f) = m - 1 /\ Levels(f, st, m) /\ f[m - 1] = "array"
    <2>1. InnerOf(f) = "array"
      BY <1>1, <1>3, InnerFacts
    <2>2. Ready(f, tt, st[m], runes)
      BY <1>1, <1>2, <1>3, Landed
    <2> QED
      BY <1>1, <2>1, <2>2 DEF Awaits, m, tt
  <1>4. CASE InKey(f, st, m, "value")
    <2>1. Len(f) = m /\ Levels(f, st, m) /\ f[m] = "value"
      BY <1>4 DEF InKey
    <2>2. InnerOf(f) = "value" /\ f # <<>>
      BY <1>1, <2>1, InnerFacts
    <2>3. /\ OuterOf(f) \in Seq(Frames) /\ Len(OuterOf(f)) = m - 1
          /\ \A i \in 1 .. m - 1 : OuterOf(f)[i] = f[i]
      BY <2>1, <2>2, LeaveFacts DEF OuterOf
    <2>4. Ready(OuterOf(f), tt, st[m], runes)
      BY <1>1, <1>2, <2>1, <2>3, Landed
    <2>5. <<InnerOf(f), type>> \in Leaves
      BY <2>2 DEF Leaves
    <2> QED
      BY <1>1, <2>4, <2>5 DEF Awaits, m, tt
  <1> QED
    BY <1>3, <1>4 DEF InValue, m

(* The name of a key is read, and its value is waited for. *)
LEMMA KeyNamed ==
  ASSUME NEW f \in Seq(Frames), NEW st, NEW tt, NEW m \in Nat,
         InKey(f, st, m, "key"), \A i \in 1 .. m : tt[i] = st[i]
  PROVE  /\ InnerOf(f) = "key"
         /\ InKey(Append(OuterOf(f), "value"), tt, m, "value")
  <1> DEFINE g == Append(OuterOf(f), "value")
  <1>1. /\ Len(f) = m /\ Levels(f, st, m) /\ Keyed(f, m - 1)
        /\ f[m] = "key" /\ m >= 1
    BY DEF InKey
  <1>2. InnerOf(f) = "key" /\ f # <<>>
    BY <1>1, InnerFacts
  <1>3. "value" \in Frames
    BY DEF Frames
  <1>4. Len(g) = m /\ g[m] = "value" /\ \A i \in 1 .. m - 1 : g[i] = f[i]
    BY <1>1, <1>2, <1>3, BecomeFacts DEF OuterOf
  <1> HIDE DEF g
  <1>5. Levels(g, tt, m)
    BY <1>1, <1>4, LevelsAgree
  <1>6. Keyed(g, m - 1)
    <2>1. m - 1 = 0 \/ m - 1 \in 1 .. m - 1
      BY <1>1
    <2> QED
      BY <1>1, <1>4, <2>1 DEF Keyed
  <1>7. InKey(g, tt, m, "value")
    BY <1>1, <1>4, <1>5, <1>6 DEF InKey
  <1> QED
    BY <1>2, <1>7 DEF g

(* A piece of the name of a table is read. *)
LEMMA PieceNamed ==
  ASSUME NEW f \in Seq(Frames), NEW st, NEW tt, tt[1] = st[1],
         InName(f, st), NEW type \in KeyStrings
  PROVE  \E x \in Frames : /\ <<InnerOf(f), type, x>> \in Becomes
                           /\ AfterName(Append(OuterOf(f), x), tt)
  <1>1. Len(f) = 1 /\ f # <<>> /\ InnerOf(f) = f[1]
    BY InnerFacts DEF InName, NameOf
  <1>2. {"table", "arrayTable"} \subseteq Frames
    BY DEF Frames
  <1>3. ASSUME NEW x \in {"table", "arrayTable"}
        PROVE  LET g == Append(OuterOf(f), x) IN Len(g) = 1 /\ g[1] = x
    BY <1>1, <1>2, BecomeFacts DEF OuterOf
  <1>4. \E x \in {"table", "arrayTable"} :
           /\ <<InnerOf(f), type, x>> \in Becomes
           /\ AfterName(Append(OuterOf(f), x), tt)
    BY <1>1, <1>3 DEF InName, AfterName, NameOf, Becomes
  <1> QED
    BY <1>2, <1>4

(* A string ends: it was a value, a key or a piece of a table's name. *)
LEMMA StringEnds ==
  ASSUME NEW f \in Seq(Frames), NEW st \in Seq(States), NEW runes,
         InString(f, st, Len(st)), NEW type \in StringItems
  PROVE  /\ st # <<>>
         /\ Awaits(f, type, SubSeq(st, 1, Len(st) - 1), st[Len(st)], runes)
  <1> DEFINE m == Len(st)
             tt == SubSeq(st, 1, m - 1)
  <1>1. type \in Primitives /\ type \in KeyStrings
    BY DEF Primitives, KeyStrings
  <1>2. CASE InValue(f, st, m)
    BY <1>1, <1>2, ValueEnds
  <1>3. ASSUME m >= 2
        PROVE  /\ m \in Nat /\ st # <<>> /\ Len(tt) = m - 1
               /\ \A i \in 1 .. m - 1 : tt[i] = st[i]
    BY <1>3, LeaveFacts
  <1>4. CASE m >= 2 /\ InKey(f, st, m - 1, "key") /\ st[m] = "lexKeyEnd"
    <2> DEFINE g == Append(OuterOf(f), "value")
    <2>1. m - 1 \in Nat
      BY <1>3, <1>4
    <2>2. InnerOf(f) = "key" /\ InKey(g, tt, m - 1, "value")
      BY <1>3, <1>4, <2>1, KeyNamed
    <2>3. "value" \in Frames
      BY DEF Frames
    <2> HIDE DEF g, m, tt
    <2>4. Ready(g, tt, "lexKeyEnd", runes)
      BY <1>3, <1>4, <2>2 DEF Ready
    <2>5. <<InnerOf(f), type, "value">> \in Becomes
      BY <1>1, <2>2 DEF Becomes
    <2> QED
      BY <1>3, <1>4, <2>3, <2>4, <2>5 DEF Awaits, g, m, tt
  <1>5. CASE m = 2 /\ InName(f, st) /\ st[2] = "lexTableNameEnd"
    <2>1. Len(tt) = 1 /\ tt[1] = st[1] /\ st # <<>>
      BY <1>3, <1>5
    <2> HIDE DEF m, tt
    <2>2. PICK x \in Frames :
             /\ <<InnerOf(f), type, x>> \in Becomes
             /\ AfterName(Append(OuterOf(f), x), tt)
      BY <1>1, <1>5, <2>1, PieceNamed
    <2>3. Ready(Append(OuterOf(f), x), tt, "lexTableNameEnd", runes)
      BY <2>1, <2>2 DEF Ready
    <2> QED
      BY <1>5, <2>1, <2>2, <2>3 DEF Awaits, m, tt
  <1> QED
    BY <1>2, <1>4, <1>5 DEF InString

(* An array or an inline table ends. *)
LEMMA LoopEnds ==
  ASSUME NEW f \in Seq(Frames), NEW st \in Seq(States), NEW runes,
         NEW s, InLoop(f, st, Len(st), s),
         NEW type, <<f[Len(st)], type>> \in Leaves
  PROVE  /\ st # <<>>
         /\ Awaits(f, type, SubSeq(st, 1, Len(st) - 1), st[Len(st)], runes)
  <1> DEFINE m == Len(st)
             tt == SubSeq(st, 1, m - 1)
  <1>1. m \in Nat /\ m >= 1 /\ st # <<>> /\ Len(f) = m /\ Levels(f, st, m)
    BY DEF InLoop, Within
  <1>2. Len(tt) = m - 1 /\ \A i \in 1 .. m - 1 : tt[i] = st[i]
    BY <1>1, LeaveFacts
  <1>3. f # <<>> /\ InnerOf(f) = f[m]
    BY <1>1, InnerFacts
  <1>4. /\ OuterOf(f) \in Seq(Frames) /\ Len(OuterOf(f)) = m - 1
        /\ \A i \in 1 .. m - 1 : OuterOf(f)[i] = f[i]
    BY <1>1, <1>3, LeaveFacts DEF OuterOf
  <1> HIDE DEF m, tt
  <1>5. Ready(OuterOf(f), tt, st[m], runes)
    BY <1>1, <1>2, <1>4, Landed
  <1> QED
    BY <1>1, <1>3, <1>5 DEF Awaits, m, tt

(* A comment ends. *)
LEMMA CommentEnds ==
  ASSUME NEW f \in Seq(Frames), NEW st \in Seq(States), NEW runes,
         InComment(f, st, Len(st))
  PROVE  /\ st # <<>>
         /\ Awaits(f, "Text", SubSeq(st, 1, Len(st) - 1), st[Len(st)], runes)
  <1> DEFINE m == Len(st)
             tt == SubSeq(st, 1, m - 1)
  <1>1. /\ m \in Nat /\ m >= 1 /\ st # <<>> /\ Len(f) = m /\ f[m] = "comment"
        /\ Within(f, st, m - 1) /\ st[m] \in Loops(f, m - 1)
    BY DEF InComment
  <1>2. Len(tt) = m - 1 /\ \A i \in 1 .. m - 1 : tt[i] = st[i]
    BY <1>1, LeaveFacts
  <1>3. f # <<>> /\ InnerOf(f) = "comment"
    BY <1>1, InnerFacts
  <1>4. /\ OuterOf(f) \in Seq(Frames) /\ Len(OuterOf(f)) = m - 1
        /\ \A i \in 1 .. m - 1 : OuterOf(f)[i] = f[i]
    BY <1>1, <1>3, LeaveFacts DEF OuterOf
  <1> HIDE DEF m, tt
  <1>5. Ready(OuterOf(f), tt, st[m], runes)
    BY <1>1, <1>2, <1>4, LandedInLoop
  <1>6. <<InnerOf(f), "Text">> \in Leaves
    BY <1>3 DEF Leaves
  <1> QED
    BY <1>1, <1>5, <1>6 DEF Awaits, m, tt
-----------------------------------------------------------------------------
(* What is pushed lies on top of what was there. *)
LEMMA PushFacts ==
  ASSUME NEW st \in Seq(States), NEW back \in States
  PROVE  /\ Len(Append(st, back)) = Len(st) + 1
         /\ \A i \in 1 .. Len(st) : Append(st, back)[i] = st[i]
         /\ Append(st, back)[Len(st) + 1] = back
  BY AppendProperties

(* A value, a key and a comment begin inside an open level. *)
LEMMA LoopOpens ==
  ASSUME NEW f \in Seq(Frames), NEW st \in Seq(States), NEW runes,
         NEW s \in States, InLoop(f, st, Len(st), s)
  PROVE  /\ s = "lexArrayValue" =>
              Ready(f, Append(st, "lexArrayValueEnd"), "lexValue", runes)
         /\ s = "lexInlineTableValue" =>
              Ready(f, Append(st, "lexInlineTableValueEnd"), "lexKeyStart", runes)
         /\ Ready(f, Append(st, s), "lexCommentStart", runes)
  <1> DEFINE m == Len(st)
  <1>1. /\ m \in Nat /\ m >= 1 /\ Len(f) = m /\ Within(f, st, m)
        /\ s \in Loops(f, m) /\ f[m] \in Containers
    BY DEF InLoop, Within
  <1>2. ASSUME NEW back \in States
        PROVE  /\ Len(Append(st, back)) = m + 1
               /\ Within(f, Append(st, back), m)
               /\ Append(st, back)[m + 1] = back
    BY <1>1, PushFacts, WithinAgree
  <1>3. ASSUME NEW back \in States, back = Closing(f, m)
        PROVE  Levels(f, Append(st, back), m + 1)
    BY <1>1, <1>2, <1>3, LevelsAbove
  <1> HIDE DEF m
  <1>4. m + 1 >= 2 /\ m + 1 - 1 = m /\ m # 0
    BY <1>1
  <1>5. ASSUME s = "lexArrayValue"
        PROVE  Ready(f, Append(st, "lexArrayValueEnd"), "lexValue", runes)
    <2>1. f[m] = "array" /\ "lexArrayValueEnd" \in States
      BY <1>1, <1>4, <1>5 DEF Loops, States
    <2>2. Levels(f, Append(st, "lexArrayValueEnd"), m + 1)
      BY <1>3, <1>4, <2>1 DEF Closing
    <2>3. InValue(f, Append(st, "lexArrayValueEnd"), m + 1)
      BY <1>1, <1>4, <2>1, <2>2 DEF InValue
    <2> QED
      BY <1>2, <1>5, <2>1, <2>3 DEF Ready
  <1>6. ASSUME s = "lexInlineTableValue"
        PROVE  Ready(f, Append(st, "lexInlineTableValueEnd"), "lexKeyStart", runes)
    <2>1. f[m] = "inline" /\ "lexInlineTableValueEnd" \in States
      BY <1>1, <1>4, <1>6 DEF Loops, States, Containers
    <2>2. Levels(f, Append(st, "lexInlineTableValueEnd"), m + 1)
      BY <1>3, <1>4, <2>1 DEF Closing
    <2>3. BeforeKey(f, Append(st, "lexInlineTableValueEnd"), m + 1)
      BY <1>1, <1>4, <2>1, <2>2 DEF BeforeKey, Keyed
    <2> QED
      BY <1>2, <1>6, <2>1, <2>3 DEF Ready
  <1>7. Ready(f, Append(st, s), "lexCommentStart", runes)
    <2>1. BeforeComment(f, Append(st, s), m + 1)
      BY <1>1, <1>2, <1>4 DEF BeforeComment
    <2> QED
      BY <1>2, <2>1 DEF Ready
  <1> QED
    BY <1>5, <1>6, <1>7

(* A comment, a key and the name of a table begin in the text itself. *)
LEMMA TextOpens ==
  ASSUME NEW f, f = <<>>, NEW st \in Seq(States), Len(st) = 0, NEW runes
  PROVE  /\ Ready(f, Append(st, "lexTop"), "lexCommentStart", runes)
         /\ Ready(f, Append(st, "lexTopEnd"), "lexKeyStart", runes)
         /\ Awaits(f, "TableStart", Append(st, "lexTableEnd"),
                   "lexTableNameStart", runes)
         /\ Awaits(f, "ArrayTableStart", Append(st, "lexArrayTableEnd"),
                   "lexTableNameStart", runes)
  <1>1. ASSUME NEW back \in States
        PROVE  Len(Append(st, back)) = 1 /\ Append(st, back)[1] = back
    BY PushFacts
  <1>2. {"lexTop", "lexTopEnd", "lexTableEnd", "lexArrayTableEnd"} \subseteq States
    BY DEF States
  <1>3. Len(f) = 0 /\ f \in Seq(Frames) /\ InnerOf(f) = "top"
    BY DEF InnerOf
  <1>4. \A tt : Levels(f, tt, 0) /\ Within(f, tt, 0)
    BY DEF Levels, Within
  <1>5. BeforeComment(f, Append(st, "lexTop"), 1)
    BY <1>1, <1>2, <1>3, <1>4 DEF BeforeComment, Loops
  <1>6. BeforeKey(f, Append(st, "lexTopEnd"), 1)
    <2>1. 0 \in Nat /\ 0 + 1 = 1 /\ 1 - 1 = 0
      OBVIOUS
    <2>2. Append(st, "lexTopEnd")[0 + 1] = Closing(f, 0)
      BY <1>1, <1>2, <2>1 DEF Closing
    <2>3. Levels(f, Append(st, "lexTopEnd"), 0 + 1)
      BY <1>4, <2>1, <2>2, LevelsAbove
    <2> QED
      BY <1>3, <2>1, <2>3 DEF BeforeKey, Keyed
  <1>7. {"tableStart", "arrayTableStart"} \subseteq Frames
    BY DEF Frames
  <1>8. ASSUME NEW x \in Frames
        PROVE  Len(Append(f, x)) = 1 /\ Append(f, x)[1] = x
    BY <1>3, EnterFacts
  <1>9. /\ InName(Append(f, "tableStart"), Append(st, "lexTableEnd"))
        /\ InName(Append(f, "arrayTableStart"), Append(st, "lexArrayTableEnd"))
    BY <1>1, <1>2, <1>7, <1>8 DEF InName, NameOf
  <1>10. /\ Ready(Append(f, "tableStart"), Append(st, "lexTableEnd"),
                  "lexTableNameStart", runes)
         /\ Ready(Append(f, "arrayTableStart"), Append(st, "lexArrayTableEnd"),
                  "lexTableNameStart", runes)
    BY <1>1, <1>2, <1>9 DEF Ready
  <1>11. /\ <<InnerOf(f), "TableStart", "tableStart">> \in Enters
         /\ <<InnerOf(f), "ArrayTableStart", "arrayTableStart">> \in Enters
    BY <1>3 DEF Enters
  <1>12. /\ Ready(f, Append(st, "lexTop"), "lexCommentStart", runes)
         /\ Ready(f, Append(st, "lexTopEnd"), "lexKeyStart", runes)
    BY <1>1, <1>2, <1>5, <1>6 DEF Ready
  <1> QED
    BY <1>7, <1>10, <1>11, <1>12 DEF Awaits

(* A key begins: a bare one, or a quoted one, which is a string that       *)
(* returns to the end of the key.                                          *)
LEMMA KeyOpens ==
  ASSUME NEW f \in Seq(Frames), NEW st \in Seq(States), NEW runes,
         BeforeKey(f, st, Len(st))
  PROVE  /\ Awaits(f, "KeyStart", st, "lexBareKey", runes)
         /\ Quoted(runes) =>
              Awaits(f, "KeyStart", Append(st, "lexKeyEnd"), "lexValue", runes)
  <1> DEFINE m == Len(st)
             g == Append(f, "key")
             tt == Append(st, "lexKeyEnd")
  <1>1. /\ m \in Nat /\ m >= 1 /\ Len(f) = m - 1 /\ Levels(f, st, m)
        /\ Keyed(f, m - 1) /\ m - 1 + 1 = m
    BY DEF BeforeKey
  <1>2. "key" \in Frames /\ "lexKeyEnd" \in States
    BY DEF Frames, States
  <1>3. Len(g) = m /\ g[m] = "key" /\ \A i \in 1 .. m - 1 : g[i] = f[i]
    BY <1>1, <1>2, EnterFacts
  <1>4. Len(tt) = m + 1 /\ tt[m + 1] = "lexKeyEnd"
        /\ \A i \in 1 .. m : tt[i] = st[i]
    BY <1>2, PushFacts
  <1> HIDE DEF m, g, tt
  <1>5. Levels(g, st, m) /\ Levels(g, tt, m)
    BY <1>1, <1>3, <1>4, LevelsAgree
  <1>6. Keyed(g, m - 1)
    <2>1. m - 1 = 0 \/ m - 1 \in 1 .. m - 1
      BY <1>1
    <2> QED
      BY <1>1, <1>3, <2>1 DEF Keyed
  <1>7. InKey(g, st, m, "key") /\ InKey(g, tt, m, "key")
    BY <1>1, <1>3, <1>5, <1>6 DEF InKey
  <1>8. InString(g, tt, m + 1)
    <2>1. PICK k \in Nat : k = m + 1 /\ k >= 2 /\ k - 1 = m
      BY <1>1
    <2>2. InKey(g, tt, k - 1, "key") /\ tt[k] = "lexKeyEnd"
      BY <1>4, <1>7, <2>1
    <2>3. InString(g, tt, k)
      BY <2>1, <2>2 DEF InString
    <2> QED
      BY <2>1, <2>3
  <1>9. /\ Ready(g, st, "lexBareKey", runes)
        /\ Quoted(runes) => Ready(g, tt, "lexValue", runes)
    BY <1>4, <1>7, <1>8 DEF Ready, m
  <1>10. <<InnerOf(f), "KeyStart", "key">> \in Enters
    <2>1. CASE m = 1
      BY <1>1, <2>1 DEF InnerOf, Enters
    <2>2. CASE m > 1
      <3>1. InnerOf(f) = "inline"
        BY <1>1, <2>2, InnerFacts DEF Keyed
      <3> QED
        BY <3>1 DEF Enters
    <2> QED
      BY <1>1, <2>1, <2>2
  <1> QED
    BY <1>2, <1>9, <1>10 DEF Awaits, g, tt

(* A bare key ends. *)
LEMMA BareKeyEnds ==
  ASSUME NEW f \in Seq(Frames), NEW st \in Seq(States), NEW runes,
         InKey(f, st, Len(st), "key")
  PROVE  Awaits(f, "Text", st, "lexKeyEnd", runes)
  <1>1. InnerOf(f) = "key" /\ InKey(Append(OuterOf(f), "value"), st, Len(st), "value")
    BY KeyNamed
  <1>2. Ready(Append(OuterOf(f), "value"), st, "lexKeyEnd", runes)
    BY <1>1 DEF Ready
  <1>3. <<InnerOf(f), "Text", "value">> \in Becomes /\ "value" \in Frames
    BY <1>1 DEF Becomes, KeyStrings, Frames
  <1> QED
    BY <1>2, <1>3 DEF Awaits

(* An array or an inline table begins, as a value of a key or inside an    *)
(* array.                                                                  *)
LEMMA ValueOpens ==
  ASSUME NEW f \in Seq(Frames), NEW st \in Seq(States), NEW runes,
         InValue(f, st, Len(st)), NEW x, NEW type, NEW s,
         \/ x = "array" /\ type = "Array" /\ s = "lexArrayValue"
         \/ /\ x = "inline" /\ type = "InlineTableStart"
            /\ s = "lexInlineTableValue"
  PROVE  Awaits(f, type, st, s, runes)
  <1> DEFINE m == Len(st)
  <1>1. m \in Nat /\ m >= 1 /\ Levels(f, st, m)
    BY DEF InValue, InKey
  <1>2. x \in Frames /\ x \in Containers
    BY DEF Frames, Containers
  <1>3. ASSUME NEW g, Len(g) = m, g[m] = x, \A i \in 1 .. m - 1 : g[i] = f[i]
        PROVE  Ready(g, st, s, runes)
    <2>1. Levels(g, st, m)
      BY <1>1, <1>3, LevelsAgree
    <2>2. s \in Loops(g, m)
      BY <1>1, <1>3 DEF Loops
    <2>3. InLoop(g, st, m, s)
      BY <1>1, <1>2, <1>3, <2>1, <2>2 DEF InLoop, Within
    <2> QED
      BY <2>3 DEF Ready
  <1> HIDE DEF m
  <1>4. CASE m >= 2 /\ Len(f) = m - 1 /\ f[m - 1] = "array"
    <2>1. InnerOf(f) = "array"
      BY <1>1, <1>4, InnerFacts
    <2>2. /\ Len(Append(f, x)) = m /\ Append(f, x)[m] = x
          /\ \A i \in 1 .. m - 1 : Append(f, x)[i] = f[i]
      BY <1>1, <1>2, <1>4, EnterFacts
    <2>3. Ready(Append(f, x), st, s, runes)
      BY <1>3, <2>2
    <2>4. <<InnerOf(f), type, x>> \in Enters
      BY <2>1 DEF Enters
    <2> QED
      BY <1>2, <2>3, <2>4 DEF Awaits
  <1>5. CASE InKey(f, st, m, "value")
    <2>1. Len(f) = m /\ f[m] = "value"
      BY <1>5 DEF InKey
    <2>2. InnerOf(f) = "value" /\ f # <<>>
      BY <1>1, <2>1, InnerFacts
    <2> DEFINE g == Append(OuterOf(f), x)
    <2>3. Len(g) = m /\ g[m] = x /\ \A i \in 1 .. m - 1 : g[i] = f[i]
      BY <1>2, <2>1, <2>2, BecomeFacts DEF OuterOf
    <2> HIDE DEF g
    <2>4. Ready(g, st, s, runes)
      BY <1>3, <2>3
    <2>5. <<InnerOf(f), type, x>> \in Becomes
      BY <2>2 DEF Becomes
    <2> QED
      BY <1>2, <2>4, <2>5 DEF Awaits, g
  <1> QED
    BY <1>4, <1>5 DEF InValue, m

(* A comment begins.  The parser has no place for one in an inline table.  *)
LEMMA CommentOpens ==
  ASSUME NEW f \in Seq(Frames), NEW st \in Seq(States), NEW runes,
         BeforeComment(f, st, Len(st))
  PROVE  Awaits(f, "CommentStart", st, "lexComment", runes)
  <1> DEFINE m == Len(st)
             g == Append(f, "comment")
  <1>1. /\ m \in Nat /\ m >= 1 /\ Len(f) = m - 1 /\ m - 1 \in Nat
        /\ Within(f, st, m - 1) /\ st[m] \in Loops(f, m - 1)
    BY DEF BeforeComment
  <1>2. "comment" \in Frames
    BY DEF Frames
  <1>3. Len(g) = m /\ g[m] = "comment" /\ \A i \in 1 .. m - 1 : g[i] = f[i]
    BY <1>1, <1>2, EnterFacts
  <1> HIDE DEF m, g
  <1>4. Within(g, st, m - 1) /\ Loops(g, m - 1) = Loops(f, m - 1)
    <2>1. \A i \in 1 .. m - 1 : g[i] = f[i] /\ st[i] = st[i]
      BY <1>3
    <2> QED
      BY <1>1, <2>1, WithinAgree
  <1>5. InComment(g, st, m)
    BY <1>1, <1>3, <1>4 DEF InComment
  <1>6. Ready(g, st, "lexComment", runes)
    BY <1>5 DEF Ready, m
  <1>7. \/ <<InnerOf(f), "CommentStart", "comment">> \in Enters
        \/ InnerOf(f) = "inline"
    <2>1. CASE m = 1
      BY <1>1, <2>1 DEF InnerOf, Enters
    <2>2. CASE m > 1
      <3>1. InnerOf(f) \in Containers
        BY <1>1, <2>2, InnerFacts DEF Within
      <3> QED
        BY <3>1 DEF Enters, Containers
    <2> QED
      BY <1>1, <2>1, <2>2
  <1> QED
    BY <1>2, <1>6, <1>7 DEF Awaits, g

(* What a string is does not depend on what is pushed above it. *)
LEMMA StringAgrees ==
  ASSUME NEW f, NEW st, NEW tt, NEW m \in Nat, InString(f, st, m),
         \A i \in 1 .. m : tt[i] = st[i]
  PROVE  InString(f, tt, m)
  <1>1. ASSUME NEW k \in Nat, k <= m, Levels(f, st, k)
        PROVE  Levels(f, tt, k)
    <2>1. \A i \in 1 .. k : tt[i] = st[i]
      BY <1>1
    <2> QED
      BY <1>1, <2>1, LevelsAgree
  <1>2. CASE InValue(f, st, m)
    BY <1>1, <1>2 DEF InValue, InKey, InString
  <1>3. CASE m >= 2 /\ InKey(f, st, m - 1, "key") /\ st[m] = "lexKeyEnd"
    <2>1. m - 1 \in Nat /\ m - 1 <= m /\ tt[m] = st[m]
      BY <1>3
    <2> QED
      BY <1>1, <1>3, <2>1 DEF InKey, InString
  <1>4. CASE m = 2 /\ InName(f, st) /\ st[2] = "lexTableNameEnd"
    <2>1. tt[1] = st[1] /\ tt[2] = st[2]
      BY <1>4
    <2> QED
      BY <1>4, <2>1 DEF InName, NameOf, InString
  <1> QED
    BY <1>2, <1>3, <1>4 DEF InString

(* An escape begins and ends. *)
LEMMA EscapeOpens ==
  ASSUME NEW f, NEW st \in Seq(States), NEW runes, InString(f, st, Len(st)),
         NEW back \in {"lexString", "lexMultilineString"}
  PROVE  Ready(f, Append(st, back), "lexStringEscape", runes)
  <1> DEFINE m == Len(st)
             tt == Append(st, back)
  <1>1. m \in Nat /\ m >= 1 /\ m + 1 - 1 = m /\ m + 1 >= 2
    BY DEF InString, InValue, InKey
  <1>2. back \in States
    BY DEF States
  <1>3. /\ Len(tt) = m + 1 /\ tt[m + 1] = back
        /\ \A i \in 1 .. m : tt[i] = st[i]
    BY <1>2, PushFacts
  <1>4. InString(f, tt, m)
    BY <1>1, <1>3, StringAgrees
  <1> HIDE DEF m, tt
  <1> QED
    BY <1>1, <1>3, <1>4 DEF Ready, StringEscapes, tt

LEMMA EscapeEnds ==
  ASSUME NEW f, NEW st \in Seq(States), NEW runes,
         NEW s \in StringEscapes, Ready(f, st, s, runes), NEW others
  PROVE  /\ st # <<>>
         /\ Ready(f, SubSeq(st, 1, Len(st) - 1), st[Len(st)], others)
  <1> DEFINE m == Len(st)
             tt == SubSeq(st, 1, m - 1)
  <1>1. /\ m \in Nat /\ m >= 2 /\ InString(f, st, m - 1)
        /\ st[m] \in {"lexString", "lexMultilineString"}
    BY DEF Ready, StringEscapes, Strings, Scalars
  <1>2. st # <<>> /\ m - 1 \in Nat
    BY <1>1
  <1>3. Len(tt) = m - 1 /\ \A i \in 1 .. m - 1 : tt[i] = st[i]
    BY <1>2, LeaveFacts
  <1>4. InString(f, tt, m - 1)
    BY <1>1, <1>2, <1>3, StringAgrees
  <1> HIDE DEF m, tt
  <1>5. Ready(f, tt, st[m], others)
    BY <1>1, <1>3, <1>4 DEF Ready, Strings
  <1> QED
    BY <1>2, <1>5 DEF m, tt

(* The name of a table: its pieces, the last of them, and the brackets. *)
LEMMA NameGoesOn ==
  ASSUME NEW f \in Seq(Frames), NEW st \in Seq(States), Len(st) = 1, NEW runes
  PROVE  /\ InName(f, st) => Awaits(f, "Text", st, "lexTableNameEnd", runes)
         /\ InName(f, st) /\ Quoted(runes) =>
              Ready(f, Append(st, "lexTableNameEnd"), "lexValue", runes)
         /\ AfterName(f, st) =>
              Ready(f, SubSeq(st, 1, Len(st) - 1), st[Len(st)], runes)
         /\ AfterName(f, st) => InName(f, st)
  <1>1. ASSUME InName(f, st)
        PROVE  Awaits(f, "Text", st, "lexTableNameEnd", runes)
    <2>1. "Text" \in KeyStrings
      BY DEF KeyStrings
    <2>2. PICK x \in Frames : /\ <<InnerOf(f), "Text", x>> \in Becomes
                              /\ AfterName(Append(OuterOf(f), x), st)
      BY <1>1, <2>1, PieceNamed
    <2>3. Ready(Append(OuterOf(f), x), st, "lexTableNameEnd", runes)
      BY <2>2 DEF Ready
    <2> QED
      BY <2>2, <2>3 DEF Awaits
  <1>2. ASSUME InName(f, st), Quoted(runes)
        PROVE  Ready(f, Append(st, "lexTableNameEnd"), "lexValue", runes)
    <2> DEFINE tt == Append(st, "lexTableNameEnd")
    <2>1. "lexTableNameEnd" \in States
      BY DEF States
    <2>2. 1 \in 1 .. Len(st) /\ Len(st) + 1 = 2
      OBVIOUS
    <2>3. /\ Len(tt) = Len(st) + 1 /\ tt[Len(st) + 1] = "lexTableNameEnd"
          /\ \A i \in 1 .. Len(st) : tt[i] = st[i]
      BY <2>1, PushFacts
    <2> HIDE DEF tt
    <2>4. Len(tt) = 2 /\ tt[1] = st[1] /\ tt[2] = "lexTableNameEnd"
      BY <2>2, <2>3
    <2>5. InString(f, tt, 2)
      BY <1>2, <2>4 DEF InString, InName, NameOf
    <2>6. Ready(f, tt, "lexValue", runes)
      BY <1>2, <2>4, <2>5 DEF Ready
    <2> QED
      BY <2>6 DEF tt
  <1>3. ASSUME AfterName(f, st)
        PROVE  Ready(f, SubSeq(st, 1, Len(st) - 1), st[Len(st)], runes)
    <2>1. Len(SubSeq(st, 1, Len(st) - 1)) = 0
      BY LeaveFacts
    <2> QED
      BY <1>3, <2>1 DEF AfterName, NameOf, Ready
  <1>4. AfterName(f, st) => InName(f, st)
    BY DEF AfterName, InName, NameOf
  <1> QED
    BY <1>1, <1>2, <1>3, <1>4

LEMMA NameEnds ==
  ASSUME NEW f \in Seq(Frames), NEW st, Len(st) = 0, Len(f) = 1, NEW runes
  PROVE  /\ f[1] = "table" => Awaits(f, "TableEnd", st, "lexTopEnd", runes)
         /\ f[1] = "arrayTable" =>
              Awaits(f, "ArrayTableEnd", st, "lexTopEnd", runes)
  <1>1. InnerOf(f) = f[1] /\ f # <<>>
    <2>1. 1 \in Nat /\ 1 >= 1
      OBVIOUS
    <2> QED
      BY <2>1, InnerFacts, SMTT(30)
  <1>2. OuterOf(f) = <<>>
    <2>1. OuterOf(f) \in Seq(Frames) /\ Len(OuterOf(f)) = 0
      BY <1>1, LeaveFacts DEF OuterOf
    <2> QED
      BY <2>1
  <1>3. Ready(OuterOf(f), st, "lexTopEnd", runes)
    BY <1>2 DEF Ready
  <1> QED
    BY <1>1, <1>3 DEF Awaits, Leaves
-----------------------------------------------------------------------------
(* The parser waits for an item and the lexer is about to run. *)
Asked ==
  /\ frames \in Seq(Frames) /\ stack \in Seq(States) /\ ahead \in Seq(Runes)
  /\ items = <<>> /\ Ready(frames, stack, state, ahead)

(* How a state function ends: it goes on, it sends an item, or both. *)
LEMMA DoReady ==
  ASSUME Asked, UNCHANGED frames, NEW next, NEW below
  PROVE  /\ /\ Do(next, below, <<>>) /\ Ready(frames, below, next, ahead')
            => StepInv'
         /\ \A type : /\ Do(next, below, <<type>>)
                      /\ Awaits(frames, type, below, next, ahead')
                      => StepInv'
  <1>1. <<>> \o <<>> = <<>> /\ \A type : <<>> \o <<type>> = <<type>>
    OBVIOUS
  <1> QED
    BY <1>1 DEF Asked, Do, StepInv

LEMMA GoReady ==
  ASSUME Asked, UNCHANGED frames, NEW next
  PROVE  /\ Go(next) /\ Ready(frames, stack, next, ahead') => StepInv'
         /\ \A type : /\ Emit(type, next)
                      /\ Awaits(frames, type, stack, next, ahead')
                      => StepInv'
  BY DoReady DEF Go, Emit

LEMMA FailReady ==
  ASSUME Asked, UNCHANGED frames, Fail
  PROVE  StepInv'
  BY GoReady DEF Fail, Awaits, Errors

LEMMA CallReady ==
  ASSUME Asked, UNCHANGED frames, NEW next, NEW back, Call(next, back),
         Ready(frames, Append(stack, back), next, ahead')
  PROVE  StepInv'
  BY DoReady DEF Call, Push

LEMMA ReturnReady ==
  ASSUME Asked, UNCHANGED frames, stack # <<>>
  PROVE  /\ /\ Return(<<>>)
            /\ Ready(frames, SubSeq(stack, 1, Len(stack) - 1),
                     stack[Len(stack)], ahead')
            => StepInv'
         /\ \A type : /\ Return(<<type>>)
                      /\ Awaits(frames, type, SubSeq(stack, 1, Len(stack) - 1),
                                stack[Len(stack)], ahead')
                      => StepInv'
  BY DoReady DEF Return

(* The rune that is looked at is the next one. *)
LEMMA PeekQuoted ==
  ASSUME Asked, Peek(StringQuotes)
  PROVE  Quoted(ahead')
  <1>1. PICK r \in StringQuotes : ahead' = <<r>> \o Rest
    BY DEF Peek
  <1>2. r \in Runes
    BY DEF Runes
  <1>3. Rest \in Seq(Runes)
    BY DEF Rest, Asked
  <1>4. <<r>> \o Rest # <<>> /\ Head(<<r>> \o Rest) = r
    BY <1>1, <1>2, <1>3
  <1> QED
    BY <1>1, <1>4 DEF Quoted

LEMMA QuotedIsRead ==
  ASSUME Quoted(ahead), NEW runes, Take(runes) \/ Peek(runes)
  PROVE  \E r \in runes : r \in StringQuotes
  BY DEF Quoted, Take, Peek, Reads

(* Where the lexer and the parser are, by the function to run. *)
LEMMA WhenAsked ==
  ASSUME NEW f, NEW st, NEW s, NEW runes, Ready(f, st, s, runes)
  PROVE  LET m == Len(st)
         IN  /\ s \in {"lexTop", "lexTopEnd", "lexTableStart"} =>
                  f = <<>> /\ m = 0
             /\ s = "lexTableEnd" => m = 0 /\ Len(f) = 1 /\ f[1] = "table"
             /\ s = "lexArrayTableEnd" =>
                  m = 0 /\ Len(f) = 1 /\ f[1] = "arrayTable"
             /\ s \in {"lexTableNameStart", "lexBareTableName"} =>
                  m = 1 /\ InName(f, st)
             /\ s = "lexTableNameEnd" => m = 1 /\ AfterName(f, st)
             /\ s = "lexKeyStart" => BeforeKey(f, st, m)
             /\ s = "lexBareKey" => InKey(f, st, m, "key")
             /\ s = "lexKeyEnd" => InKey(f, st, m, "value")
             /\ s \in {"lexArrayValue", "lexArrayValueEnd",
                       "lexInlineTableValue", "lexInlineTableValueEnd"} =>
                  InLoop(f, st, m, s)
             /\ s = "lexCommentStart" => BeforeComment(f, st, m)
             /\ s = "lexComment" => InComment(f, st, m)
             /\ s \in Scalars => InValue(f, st, m)
             /\ s \in Strings => InString(f, st, m)
             /\ s = "lexValue" =>
                  InValue(f, st, m) \/ (InString(f, st, m) /\ Quoted(runes))
  <1> DEFINE m == Len(st)
  <1> HIDE DEF m
  <1>1. s \in {"lexTop", "lexTopEnd", "lexTableStart"} => f = <<>> /\ m = 0
    BY DEF Ready, m, Scalars, Strings, StringEscapes
  <1>2. /\ s = "lexTableEnd" => m = 0 /\ Len(f) = 1 /\ f[1] = "table"
        /\ s = "lexArrayTableEnd" => m = 0 /\ Len(f) = 1 /\ f[1] = "arrayTable"
    BY DEF Ready, m, Scalars, Strings, StringEscapes
  <1>3. /\ s \in {"lexTableNameStart", "lexBareTableName"} =>
             m = 1 /\ InName(f, st)
        /\ s = "lexTableNameEnd" => m = 1 /\ AfterName(f, st)
    BY DEF Ready, m, Scalars, Strings, StringEscapes
  <1>4. /\ s = "lexKeyStart" => BeforeKey(f, st, m)
        /\ s = "lexBareKey" => InKey(f, st, m, "key")
        /\ s = "lexKeyEnd" => InKey(f, st, m, "value")
    BY DEF Ready, m, Scalars, Strings, StringEscapes
  <1>5. s \in {"lexArrayValue", "lexArrayValueEnd",
               "lexInlineTableValue", "lexInlineTableValueEnd"} =>
          InLoop(f, st, m, s)
    BY DEF Ready, m, Scalars, Strings, StringEscapes
  <1>6. /\ s = "lexCommentStart" => BeforeComment(f, st, m)
        /\ s = "lexComment" => InComment(f, st, m)
    BY DEF Ready, m, Scalars, Strings, StringEscapes
  <1>7. s \in Scalars => InValue(f, st, m)
    BY DEF Ready, m, Scalars, Strings, StringEscapes
  <1>8. s \in Strings => InString(f, st, m)
    BY DEF Ready, m, Scalars, Strings, StringEscapes
  <1>9. s = "lexValue" =>
          InValue(f, st, m) \/ (InString(f, st, m) /\ Quoted(runes))
    BY DEF Ready, m, Scalars, Strings, StringEscapes
  <1> QED
    BY <1>1, <1>2, <1>3, <1>4, <1>5, <1>6, <1>7, <1>8, <1>9 DEF m
-----------------------------------------------------------------------------
(* After every state function the parser has a place for what it sent, or *)
(* may ask for more.                                                       *)
LEMMA LexTopLevelReady ==
  ASSUME Asked, UNCHANGED frames, LexTopLevel
  PROVE  StepInv'
  <1> DEFINE m == Len(stack)
  <1>0. frames \in Seq(Frames) /\ stack \in Seq(States)
    BY DEF Asked
  <1>1. CASE LexTop
    <2>1. frames = <<>> /\ m = 0
      BY <1>1, WhenAsked DEF Asked, LexTop, In
    <2>2. \A s \in {"lexTop", "lexTableStart"} : Ready(frames, stack, s, ahead')
      BY <2>1 DEF Ready
    <2>3. Awaits(frames, "EOF", stack, "nil", ahead')
      BY <2>1 DEF Awaits
    <2>4. /\ Ready(frames, Append(stack, "lexTop"), "lexCommentStart", ahead')
          /\ Ready(frames, Append(stack, "lexTopEnd"), "lexKeyStart", ahead')
      BY <1>0, <2>1, TextOpens
    <2> QED
      BY <1>1, <2>2, <2>3, <2>4, GoReady, FailReady, CallReady
         DEF LexTop, KeyThenEnd
  <1>2. CASE LexTopEnd
    <2>1. frames = <<>> /\ m = 0
      BY <1>2, WhenAsked DEF Asked, LexTopEnd, In
    <2>2. \A s \in {"lexTop", "lexTopEnd"} : Ready(frames, stack, s, ahead')
      BY <2>1 DEF Ready
    <2>3. Awaits(frames, "EOF", stack, "nil", ahead')
      BY <2>1 DEF Awaits
    <2>4. Ready(frames, Append(stack, "lexTop"), "lexCommentStart", ahead')
      BY <1>0, <2>1, TextOpens
    <2> QED
      BY <1>2, <2>2, <2>3, <2>4, GoReady, FailReady, CallReady DEF LexTopEnd
  <1>3. CASE LexTableStart
    <2>1. frames = <<>> /\ m = 0
      BY <1>3, WhenAsked DEF Asked, LexTableStart, In
    <2> QED
      BY <1>0, <1>3, <2>1, TextOpens, DoReady DEF LexTableStart, TableNameThen
  <1>4. CASE LexTableEnd
    <2>1. m = 0 /\ Len(frames) = 1 /\ frames[1] = "table"
      BY <1>4, WhenAsked DEF Asked, LexTableEnd, In
    <2> QED
      BY <1>0, <1>4, <2>1, NameEnds, GoReady DEF LexTableEnd
  <1>5. CASE LexArrayTableEnd
    <2>1. m = 0 /\ Len(frames) = 1 /\ frames[1] = "arrayTable"
      BY <1>5, WhenAsked DEF Asked, LexArrayTableEnd, In
    <2> QED
      BY <1>0, <1>5, <2>1, NameEnds, GoReady, FailReady DEF LexArrayTableEnd
  <1>6. CASE LexTableNameStart
    <2>1. m = 1 /\ InName(frames, stack)
      BY <1>6, WhenAsked DEF Asked, LexTableNameStart, In
    <2>2. \A s \in {"lexTableNameStart", "lexBareTableName"} :
            Ready(frames, stack, s, ahead')
      BY <2>1 DEF Ready
    <2>3. Peek(StringQuotes) =>
            Ready(frames, Append(stack, "lexTableNameEnd"), "lexValue", ahead')
      BY <1>0, <2>1, PeekQuoted, NameGoesOn
    <2> QED
      BY <1>6, <2>2, <2>3, GoReady, FailReady, CallReady DEF LexTableNameStart
  <1>7. CASE LexBareTableName
    <2>1. m = 1 /\ InName(frames, stack)
      BY <1>7, WhenAsked DEF Asked, LexBareTableName, In
    <2>2. Ready(frames, stack, "lexBareTableName", ahead')
      BY <2>1 DEF Ready
    <2>3. Awaits(frames, "Text", stack, "lexTableNameEnd", ahead')
      BY <1>0, <2>1, NameGoesOn
    <2> QED
      BY <1>7, <2>2, <2>3, GoReady DEF LexBareTableName
  <1>8. CASE LexTableNameEnd
    <2>1. m = 1 /\ AfterName(frames, stack) /\ stack # <<>>
      BY <1>0, <1>8, WhenAsked DEF Asked, LexTableNameEnd, In
    <2>2. /\ InName(frames, stack)
          /\ Ready(frames, SubSeq(stack, 1, m - 1), stack[m], ahead')
      BY <1>0, <2>1, NameGoesOn
    <2>3. \A s \in {"lexTableNameStart", "lexTableNameEnd"} :
            Ready(frames, stack, s, ahead')
      BY <2>1, <2>2 DEF Ready
    <2> QED
      BY <1>8, <2>1, <2>2, <2>3, GoReady, FailReady, ReturnReady
         DEF LexTableNameEnd
  <1>9. CASE LexKeyStart
    <2>1. BeforeKey(frames, stack, m)
      BY <1>9, WhenAsked DEF Asked, LexKeyStart, In
    <2>2. Ready(frames, stack, "lexKeyStart", ahead')
      BY <2>1 DEF Ready
    <2>3. Awaits(frames, "KeyStart", stack, "lexBareKey", ahead')
      BY <1>0, <2>1, KeyOpens
    <2>4. Peek(StringQuotes) =>
            Awaits(frames, "KeyStart", Append(stack, "lexKeyEnd"), "lexValue",
                   ahead')
      BY <1>0, <2>1, PeekQuoted, KeyOpens
    <2> QED
      BY <1>9, <2>2, <2>3, <2>4, GoReady, FailReady, DoReady DEF LexKeyStart
  <1>10. CASE LexBareKey
    <2>1. InKey(frames, stack, m, "key")
      BY <1>10, WhenAsked DEF Asked, LexBareKey, In
    <2>2. Ready(frames, stack, "lexBareKey", ahead')
      BY <2>1 DEF Ready
    <2>3. Awaits(frames, "Text", stack, "lexKeyEnd", ahead')
      BY <1>0, <2>1, BareKeyEnds
    <2> QED
      BY <1>10, <2>2, <2>3, GoReady, FailReady DEF LexBareKey
  <1>11. CASE LexKeyEnd
    <2>1. InKey(frames, stack, m, "value")
      BY <1>11, WhenAsked DEF Asked, LexKeyEnd, In
    <2>2. \A s \in {"lexKeyEnd", "lexValue"} : Ready(frames, stack, s, ahead')
      BY <2>1 DEF Ready, InValue
    <2> QED
      BY <1>11, <2>2, GoReady, FailReady DEF LexKeyEnd
  <1> QED
    BY <1>1, <1>2, <1>3, <1>4, <1>5, <1>6, <1>7, <1>8, <1>9, <1>10, <1>11
       DEF LexTopLevel

LEMMA LexNestedReady ==
  ASSUME Asked, UNCHANGED frames, LexNested
  PROVE  StepInv'
  <1> DEFINE m == Len(stack)
  <1>0. frames \in Seq(Frames) /\ stack \in Seq(States)
    BY DEF Asked
  <1>1. CASE LexValue
    <2>1. InValue(frames, stack, m) \/ Quoted(ahead)
      BY <1>1, WhenAsked DEF Asked, LexValue, In
    <2>2. InString(frames, stack, m)
      BY <1>1, WhenAsked DEF Asked, LexValue, In, InString
    <2>3. ASSUME InValue(frames, stack, m)
          PROVE  /\ \A s \in Scalars \cup {"lexValue"} :
                      Ready(frames, stack, s, ahead')
                 /\ Awaits(frames, "Array", stack, "lexArrayValue", ahead')
                 /\ Awaits(frames, "InlineTableStart", stack,
                           "lexInlineTableValue", ahead')
      <3>1. \A s \in Scalars \cup {"lexValue"} : Ready(frames, stack, s, ahead')
        BY <2>3 DEF Ready
      <3> QED
        BY <1>0, <2>3, <3>1, ValueOpens
    <2>4. \A s \in Strings : Ready(frames, stack, s, ahead')
      BY <2>2 DEF Ready
    <2>5. ASSUME NEW runes, Take(runes) \/ Peek(runes),
                 "quote" \notin runes, "apostrophe" \notin runes
          PROVE  InValue(frames, stack, m)
      BY <2>1, <2>5, QuotedIsRead DEF StringQuotes
    <2>6. {"lexNumberOrDateStart", "lexNumberStart", "lexBool", "lexValue"}
            \subseteq Scalars \cup {"lexValue"}
      BY DEF Scalars
    <2>7. CASE OpenString("quote", "lexString", "lexMultilineString")
      BY <2>4, <2>7, GoReady DEF OpenString, Strings
    <2>8. CASE OpenString("apostrophe", "lexRawString", "lexMultilineRawString")
      BY <2>4, <2>8, GoReady DEF OpenString, Strings
    <2>9. CASE \/ Take(Space) /\ Go("lexValue")
               \/ Peek(Digit) /\ Go("lexNumberOrDateStart")
               \/ Take({"+", "-"}) /\ Go("lexNumberStart")
               \/ Peek(Letter) /\ Go("lexBool")
      BY <2>3, <2>5, <2>6, <2>9, GoReady DEF Space, Digit, Letter
    <2>10. CASE \/ Take({"["}) /\ Emit("Array", "lexArrayValue")
                \/ Take({"{"}) /\ Emit("InlineTableStart", "lexInlineTableValue")
      BY <2>3, <2>5, <2>10, GoReady
    <2> QED
      BY <1>1, <2>7, <2>8, <2>9, <2>10, FailReady DEF LexValue
  <1>2. ASSUME state \in {"lexArrayValue", "lexArrayValueEnd",
                          "lexInlineTableValue", "lexInlineTableValueEnd"}
        PROVE  /\ InLoop(frames, stack, m, state) /\ stack # <<>>
               /\ state \in States
               /\ Ready(frames, Append(stack, state), "lexCommentStart", ahead')
    <2>1. InLoop(frames, stack, m, state) /\ state \in States
      BY <1>2, WhenAsked DEF Asked, States
    <2>2. m >= 1
      BY <2>1 DEF InLoop
    <2> QED
      BY <1>0, <2>1, <2>2, LoopOpens
  <1>3. ASSUME state \in {"lexArrayValue", "lexArrayValueEnd"}
        PROVE  /\ \A s \in {"lexArrayValue", "lexArrayValueEnd"} :
                    Ready(frames, stack, s, ahead')
               /\ Awaits(frames, "ArrayEnd", SubSeq(stack, 1, m - 1), stack[m],
                         ahead')
    <2>1. InLoop(frames, stack, m, state) /\ frames[m] = "array" /\ m # 0
      BY <1>2, <1>3 DEF InLoop, Loops, Within
    <2>2. \A s \in {"lexArrayValue", "lexArrayValueEnd"} :
            InLoop(frames, stack, m, s)
      BY <2>1 DEF InLoop, Loops
    <2>3. \A s \in {"lexArrayValue", "lexArrayValueEnd"} :
            Ready(frames, stack, s, ahead')
      BY <2>2 DEF Ready
    <2> QED
      BY <1>0, <2>1, <2>3, LoopEnds DEF Leaves
  <1>4. ASSUME state \in {"lexInlineTableValue", "lexInlineTableValueEnd"}
        PROVE  /\ \A s \in {"lexInlineTableValue", "lexInlineTableValueEnd"} :
                    Ready(frames, stack, s, ahead')
               /\ Awaits(frames, "InlineTableEnd", SubSeq(stack, 1, m - 1),
                         stack[m], ahead')
    <2>1. InLoop(frames, stack, m, state) /\ frames[m] = "inline" /\ m # 0
      BY <1>2, <1>4 DEF InLoop, Loops, Within, Containers
    <2>2. \A s \in {"lexInlineTableValue", "lexInlineTableValueEnd"} :
            InLoop(frames, stack, m, s)
      BY <2>1 DEF InLoop, Loops
    <2>3. \A s \in {"lexInlineTableValue", "lexInlineTableValueEnd"} :
            Ready(frames, stack, s, ahead')
      BY <2>2 DEF Ready
    <2> QED
      BY <1>0, <2>1, <2>3, LoopEnds DEF Leaves
  <1>5. CASE LexArrayValue
    <2>1. state = "lexArrayValue"
      BY <1>5 DEF LexArrayValue, In
    <2>2. Ready(frames, Append(stack, "lexArrayValueEnd"), "lexValue", ahead')
      BY <1>0, <1>2, <2>1, LoopOpens
    <2> QED
      BY <1>2, <1>3, <1>5, <2>1, <2>2, GoReady, FailReady, CallReady, ReturnReady
         DEF LexArrayValue
  <1>6. CASE LexArrayValueEnd
    <2>1. state = "lexArrayValueEnd"
      BY <1>6 DEF LexArrayValueEnd, In
    <2> QED
      BY <1>2, <1>3, <1>6, <2>1, GoReady, FailReady, CallReady, ReturnReady
         DEF LexArrayValueEnd
  <1>7. CASE LexInlineTableValue
    <2>1. state = "lexInlineTableValue"
      BY <1>7 DEF LexInlineTableValue, In
    <2>2. Ready(frames, Append(stack, "lexInlineTableValueEnd"), "lexKeyStart",
                ahead')
      BY <1>0, <1>2, <2>1, LoopOpens
    <2> QED
      BY <1>2, <1>4, <1>7, <2>1, <2>2, GoReady, FailReady, CallReady, ReturnReady
         DEF LexInlineTableValue, KeyThenTableEnd
  <1>8. CASE LexInlineTableValueEnd
    <2>1. state = "lexInlineTableValueEnd"
      BY <1>8 DEF LexInlineTableValueEnd, In
    <2> QED
      BY <1>2, <1>4, <1>8, <2>1, GoReady, FailReady, CallReady, ReturnReady
         DEF LexInlineTableValueEnd
  <1> QED
    BY <1>1, <1>5, <1>6, <1>7, <1>8 DEF LexNested

LEMMA LexTextReady ==
  ASSUME Asked, UNCHANGED frames, LexText
  PROVE  StepInv'
  <1> DEFINE m == Len(stack)
  <1>0. frames \in Seq(Frames) /\ stack \in Seq(States)
    BY DEF Asked
  <1>1. ASSUME state \in Strings
        PROVE  /\ stack # <<>>
               /\ \A s \in Strings : Ready(frames, stack, s, ahead')
               /\ \A type \in StringItems :
                    Awaits(frames, type, SubSeq(stack, 1, m - 1), stack[m],
                           ahead')
               /\ \A back \in {"lexString", "lexMultilineString"} :
                    Ready(frames, Append(stack, back), "lexStringEscape", ahead')
    <2>1. InString(frames, stack, m)
      BY <1>1, WhenAsked DEF Asked
    <2>2. \A s \in Strings : Ready(frames, stack, s, ahead')
      BY <2>1 DEF Ready
    <2>3. "String" \in StringItems
      BY DEF StringItems
    <2>4. /\ stack # <<>>
          /\ \A type \in StringItems :
               Awaits(frames, type, SubSeq(stack, 1, m - 1), stack[m], ahead')
      BY <1>0, <2>1, <2>3, StringEnds
    <2>5. \A back \in {"lexString", "lexMultilineString"} :
            Ready(frames, Append(stack, back), "lexStringEscape", ahead')
      BY <1>0, <2>1, EscapeOpens
    <2> QED
      BY <2>2, <2>4, <2>5
  <1>2. CASE LexString
    BY <1>1, <1>2, GoReady, FailReady, CallReady, ReturnReady
       DEF LexString, In, Strings, StringItems
  <1>3. CASE LexRawString
    BY <1>1, <1>3, GoReady, FailReady, ReturnReady
       DEF LexRawString, In, Strings, StringItems
  <1>4. CASE LexMultilineString
    BY <1>1, <1>4, GoReady, FailReady, ReturnReady
       DEF LexMultilineString, CloseString, In, Strings, StringItems
  <1>5. CASE LexMultilineRawString
    BY <1>1, <1>5, GoReady, FailReady, ReturnReady
       DEF LexMultilineRawString, CloseString, In, Strings, StringItems
  <1>6. CASE LexMultilineStringEscape
    BY <1>1, <1>6, GoReady, CallReady
       DEF LexMultilineStringEscape, In, Strings
  <1>7. ASSUME state \in StringEscapes
        PROVE  /\ stack # <<>>
               /\ Ready(frames, SubSeq(stack, 1, m - 1), stack[m], ahead')
               /\ \A s \in StringEscapes : Ready(frames, stack, s, ahead')
    <2>1. \A s \in StringEscapes : Ready(frames, stack, s, ahead')
      BY <1>7 DEF Asked, Ready, Strings, Scalars, StringEscapes
    <2> QED
      BY <1>0, <1>7, <2>1, EscapeEnds DEF Asked
  <1>8. CASE LexStringEscape
    BY <1>7, <1>8, GoReady, FailReady, ReturnReady
       DEF LexStringEscape, In, StringEscapes
  <1>9. CASE LexUnicodeEscape
    BY <1>7, <1>9, FailReady, ReturnReady DEF LexUnicodeEscape, In, StringEscapes
  <1>10. CASE LexCommentStart
    <2>1. BeforeComment(frames, stack, m)
      BY <1>10, WhenAsked DEF Asked, LexCommentStart, In
    <2> QED
      BY <1>0, <1>10, <2>1, CommentOpens, GoReady DEF LexCommentStart
  <1>11. CASE LexComment
    <2>1. InComment(frames, stack, m)
      BY <1>11, WhenAsked DEF Asked, LexComment, In
    <2>2. Ready(frames, stack, "lexComment", ahead')
      BY <2>1 DEF Ready
    <2> QED
      BY <1>0, <1>11, <2>1, <2>2, CommentEnds, GoReady, ReturnReady
         DEF LexComment
  <1> QED
    BY <1>2, <1>3, <1>4, <1>5, <1>6, <1>8, <1>9, <1>10, <1>11 DEF LexText

LEMMA LexScalarReady ==
  ASSUME Asked, UNCHANGED frames, LexScalar
  PROVE  StepInv'
  <1> DEFINE m == Len(stack)
  <1>0. frames \in Seq(Frames) /\ stack \in Seq(States)
    BY DEF Asked
  <1>1. state \in Scalars
    BY DEF LexScalar, LexNumberOrDateStart, LexNumberOrDate, LexDatetime,
           LexNumberStart, LexNumber, LexFloat, LexBool, In, Scalars
  <1>2. InValue(frames, stack, m)
    BY <1>1, WhenAsked DEF Asked
  <1>3. \A s \in Scalars : Ready(frames, stack, s, ahead')
    BY <1>2 DEF Ready
  <1>4. "Bool" \in Primitives
    BY DEF Primitives
  <1>5. /\ stack # <<>>
        /\ \A type \in Primitives :
             Awaits(frames, type, SubSeq(stack, 1, m - 1), stack[m], ahead')
    BY <1>0, <1>2, <1>4, ValueEnds
  <1>6. CASE LexNumberOrDateStart
    BY <1>3, <1>6, GoReady, FailReady DEF LexNumberOrDateStart, Scalars
  <1>7. CASE LexNumberOrDate
    BY <1>3, <1>5, <1>7, GoReady, ReturnReady
       DEF LexNumberOrDate, Scalars, Primitives
  <1>8. CASE LexDatetime
    BY <1>3, <1>5, <1>8, GoReady, ReturnReady
       DEF LexDatetime, Scalars, Primitives
  <1>9. CASE LexNumberStart
    BY <1>3, <1>9, GoReady, FailReady DEF LexNumberStart, Scalars
  <1>10. CASE LexNumber
    BY <1>3, <1>5, <1>10, GoReady, ReturnReady
       DEF LexNumber, Scalars, Primitives
  <1>11. CASE LexFloat
    BY <1>3, <1>5, <1>11, GoReady, ReturnReady
       DEF LexFloat, Scalars, Primitives
  <1>12. CASE LexBool
    BY <1>4, <1>5, <1>12, FailReady, ReturnReady DEF LexBool
  <1> QED
    BY <1>6, <1>7, <1>8, <1>9, <1>10, <1>11, <1>12 DEF LexScalar
-----------------------------------------------------------------------------
(* What the lexer sends is what the parser's innermost call has a place    *)
(* for, a comment in an inline table excepted.                             *)
LEMMA LexReady ==
  ASSUME TypeOK, StepInv, RunLexer
  PROVE  StepInv'
  <1>1. outcome = "parsing" /\ UNCHANGED frames /\ Lex
    BY DEF RunLexer
  <1>2. items = <<>>
    BY <1>1 DEF Lex, LexTopLevel, LexNested, LexText, LexScalar, In,
       LexTop, LexTopEnd, LexTableStart, LexTableEnd, LexArrayTableEnd,
       LexTableNameStart, LexBareTableName, LexTableNameEnd, LexKeyStart,
       LexBareKey, LexKeyEnd, LexValue, LexArrayValue, LexArrayValueEnd,
       LexInlineTableValue, LexInlineTableValueEnd, LexString, LexRawString,
       LexMultilineString, LexMultilineRawString, LexMultilineStringEscape,
       LexStringEscape, LexUnicodeEscape, LexCommentStart, LexComment,
       LexNumberOrDateStart, LexNumberOrDate, LexDatetime, LexNumberStart,
       LexNumber, LexFloat, LexBool
  <1>3. \A type : <<type>> # <<>>
    OBVIOUS
  <1>4. Asked
    BY <1>1, <1>2, <1>3 DEF Asked, TypeOK, StepInv
  <1> QED
    BY <1>1, <1>4, LexTopLevelReady, LexNestedReady, LexTextReady,
       LexScalarReady DEF Lex

(* The parser takes the one item it was sent. *)
LEMMA ItemReceived ==
  ASSUME StepInv, \E types : Receives(types)
  PROVE  /\ outcome = "parsing" /\ items' = <<>>
         /\ UNCHANGED <<state, stack, ahead>>
         /\ \E type : /\ Awaits(frames, type, stack, state, ahead)
                      /\ \A types : Receives(types) => type \in types
  <1>1. /\ outcome = "parsing" /\ items # <<>> /\ items' = Tail(items)
        /\ UNCHANGED <<state, stack, ahead>>
    BY DEF Receives
  <1>2. PICK type : items = <<type>> /\ Awaits(frames, type, stack, state, ahead)
    BY <1>1 DEF StepInv
  <1>3. Head(<<type>>) = type /\ Tail(<<type>>) = <<>>
    OBVIOUS
  <1>4. items' = <<>> /\ \A types : Receives(types) => type \in types
    BY <1>1, <1>2, <1>3 DEF Receives
  <1> QED
    BY <1>1, <1>2, <1>4

(* The parser has a place for the item it takes, and may ask for the next, *)
(* or it stops in one of the ways it is known to.                          *)
StopsKnown ==
  /\ outcome # "crash"
  /\ outcome = "bug" => Inner = "inline" /\ state = "lexComment"
  /\ outcome = "no context" => Ready(<<>>, stack, state, ahead)

(* What the innermost call may be sent, call by call. *)
LEMMA AwaitsBy ==
  ASSUME NEW f, NEW type, NEW st, NEW s, NEW runes,
         Awaits(f, type, st, s, runes), type \notin Errors
  PROVE  LET Goes(g) == Ready(g, st, s, runes)
             Entered(x) == Goes(Append(f, x))
             Became(x) == Goes(Append(OuterOf(f), x))
             Left == Goes(OuterOf(f))
         IN  /\ InnerOf(f) = "top" =>
                  \/ type = "EOF"
                  \/ type = "CommentStart" /\ Entered("comment")
                  \/ type = "TableStart" /\ Entered("tableStart")
                  \/ type = "ArrayTableStart" /\ Entered("arrayTableStart")
                  \/ type = "KeyStart" /\ Entered("key")
             /\ InnerOf(f) = "comment" => type = "Text" /\ Left
             /\ InnerOf(f) = "tableStart" =>
                  type \in KeyStrings /\ Became("table")
             /\ InnerOf(f) = "table" =>
                  \/ type \in KeyStrings /\ Became("table")
                  \/ type = "TableEnd" /\ Left
             /\ InnerOf(f) = "arrayTableStart" =>
                  type \in KeyStrings /\ Became("arrayTable")
             /\ InnerOf(f) = "arrayTable" =>
                  \/ type \in KeyStrings /\ Became("arrayTable")
                  \/ type = "ArrayTableEnd" /\ Left
             /\ InnerOf(f) = "key" => type \in KeyStrings /\ Became("value")
             /\ InnerOf(f) = "value" =>
                  \/ type \in Primitives /\ Left
                  \/ type = "Array" /\ Became("array")
                  \/ type = "InlineTableStart" /\ Became("inline")
             /\ InnerOf(f) = "array" =>
                  \/ type = "CommentStart" /\ Entered("comment")
                  \/ type = "Array" /\ Entered("array")
                  \/ type = "InlineTableStart" /\ Entered("inline")
                  \/ type = "ArrayEnd" /\ Left
                  \/ type \in Primitives /\ Goes(f)
             /\ InnerOf(f) = "inline" =>
                  \/ type = "KeyStart" /\ Entered("key")
                  \/ type = "InlineTableEnd" /\ Left
                  \/ type = "CommentStart" /\ s = "lexComment"
  <1>1. f = <<>> => InnerOf(f) = "top"
    BY DEF InnerOf
  <1>2. CASE type = "EOF" /\ f = <<>>
    BY <1>1, <1>2
  <1>3. ASSUME NEW x \in Frames, <<InnerOf(f), type, x>> \in Enters
        PROVE  /\ InnerOf(f) \in {"top", "array", "inline"}
               /\ InnerOf(f) = "top" =>
                    \/ type = "CommentStart" /\ x = "comment"
                    \/ type = "TableStart" /\ x = "tableStart"
                    \/ type = "ArrayTableStart" /\ x = "arrayTableStart"
                    \/ type = "KeyStart" /\ x = "key"
               /\ InnerOf(f) = "array" =>
                    \/ type = "CommentStart" /\ x = "comment"
                    \/ type = "Array" /\ x = "array"
                    \/ type = "InlineTableStart" /\ x = "inline"
               /\ InnerOf(f) = "inline" => type = "KeyStart" /\ x = "key"
    BY <1>3 DEF Enters
  <1>4. ASSUME NEW x \in Frames, <<InnerOf(f), type, x>> \in Becomes
        PROVE  \/ /\ InnerOf(f) \in {"tableStart", "table"}
                  /\ type \in KeyStrings /\ x = "table"
               \/ /\ InnerOf(f) \in {"arrayTableStart", "arrayTable"}
                  /\ type \in KeyStrings /\ x = "arrayTable"
               \/ InnerOf(f) = "key" /\ type \in KeyStrings /\ x = "value"
               \/ InnerOf(f) = "value" /\ type = "Array" /\ x = "array"
               \/ /\ InnerOf(f) = "value" /\ type = "InlineTableStart"
                  /\ x = "inline"
    BY <1>4 DEF Becomes
  <1>5. ASSUME <<InnerOf(f), type>> \in Leaves
        PROVE  \/ InnerOf(f) = "comment" /\ type = "Text"
               \/ InnerOf(f) = "table" /\ type = "TableEnd"
               \/ InnerOf(f) = "arrayTable" /\ type = "ArrayTableEnd"
               \/ InnerOf(f) = "array" /\ type = "ArrayEnd"
               \/ InnerOf(f) = "inline" /\ type = "InlineTableEnd"
               \/ InnerOf(f) = "value" /\ type \in Primitives
    BY <1>5 DEF Leaves
  <1>6. CASE \E x \in Frames : /\ <<InnerOf(f), type, x>> \in Enters
                               /\ Ready(Append(f, x), st, s, runes)
    <2>1. PICK x \in Frames : /\ <<InnerOf(f), type, x>> \in Enters
                              /\ Ready(Append(f, x), st, s, runes)
      BY <1>6
    <2> QED
      BY <2>1, <1>3
  <1>7. CASE \E x \in Frames : /\ <<InnerOf(f), type, x>> \in Becomes
                               /\ Ready(Append(OuterOf(f), x), st, s, runes)
    <2>1. PICK x \in Frames : /\ <<InnerOf(f), type, x>> \in Becomes
                              /\ Ready(Append(OuterOf(f), x), st, s, runes)
      BY <1>7
    <2> QED
      BY <2>1, <1>4
  <1>8. CASE <<InnerOf(f), type>> \in Leaves /\ Ready(OuterOf(f), st, s, runes)
    BY <1>5, <1>8
  <1>9. CASE \/ /\ InnerOf(f) = "array" /\ type \in Primitives
                /\ Ready(f, st, s, runes)
             \/ InnerOf(f) = "inline" /\ type = "CommentStart" /\ s = "lexComment"
    BY <1>9
  <1> QED
    BY <1>2, <1>6, <1>7, <1>8, <1>9 DEF Awaits

(* The parser's calls after a step that does not stop it. *)
LEMMA MoveReady ==
  ASSUME outcome = "parsing", items' = <<>>, UNCHANGED <<state, stack, ahead>>
  PROVE  LET Goes(g) == Ready(g, stack, state, ahead)
         IN  /\ \A x : Enter(x) /\ Goes(Append(frames, x)) =>
                         StepInv' /\ StopsKnown'
             /\ \A x : Become(x) /\ Goes(Append(OuterOf(frames), x)) =>
                         StepInv' /\ StopsKnown'
             /\ Leave /\ Goes(OuterOf(frames)) => StepInv' /\ StopsKnown'
             /\ Stay /\ Goes(frames) => StepInv' /\ StopsKnown'
             /\ Stop("accepted") \/ Stop("refused") \/ Stop("bad escape") =>
                  StepInv' /\ StopsKnown'
             /\ Stop("bug") /\ Inner = "inline" /\ state = "lexComment" =>
                  StepInv' /\ StopsKnown'
             /\ Outer = OuterOf(frames)
             /\ Complete /\ Goes(OuterOf(frames)) => StepInv' /\ StopsKnown'
  <1>1. ASSUME outcome' = outcome, Ready(frames', stack, state, ahead)
        PROVE  StepInv' /\ StopsKnown'
    BY <1>1 DEF StepInv, StopsKnown
  <1>2. /\ \A x : Enter(x) /\ Ready(Append(frames, x), stack, state, ahead) =>
                    StepInv' /\ StopsKnown'
        /\ \A x : /\ Become(x)
                  /\ Ready(Append(OuterOf(frames), x), stack, state, ahead)
                  => StepInv' /\ StopsKnown'
        /\ Leave /\ Ready(OuterOf(frames), stack, state, ahead) =>
             StepInv' /\ StopsKnown'
        /\ Stay /\ Ready(frames, stack, state, ahead) => StepInv' /\ StopsKnown'
    BY <1>1 DEF Enter, Become, Leave, Stay, Outer, OuterOf
  <1>3. ASSUME outcome' # "parsing", outcome' # "crash", frames' = frames,
               outcome' = "bug" => Inner = "inline" /\ state = "lexComment",
               outcome' = "no context" => Ready(<<>>, stack, state, ahead)
        PROVE  StepInv' /\ StopsKnown'
    BY <1>3 DEF StepInv, StopsKnown, Inner
  <1>4. Outer = OuterOf(frames)
    BY DEF Outer, OuterOf
  <1>5. /\ Stop("accepted") \/ Stop("refused") \/ Stop("bad escape") =>
             StepInv' /\ StopsKnown'
        /\ Stop("bug") /\ Inner = "inline" /\ state = "lexComment" =>
             StepInv' /\ StopsKnown'
        /\ Stop("no context") /\ Ready(<<>>, stack, state, ahead) =>
             StepInv' /\ StopsKnown'
    BY <1>3 DEF Stop
  <1>6. ASSUME Complete, Ready(OuterOf(frames), stack, state, ahead)
        PROVE  StepInv' /\ StopsKnown'
    BY <1>2, <1>4, <1>5, <1>6 DEF Complete, SetValue
  <1> QED
    BY <1>2, <1>4, <1>5, <1>6

LEMMA ParseReady ==
  ASSUME StepInv, Parse
  PROVE  StepInv' /\ StopsKnown'
  <1>1. /\ outcome = "parsing" /\ items' = <<>>
        /\ UNCHANGED <<state, stack, ahead>>
    BY ParseReceives, ItemReceived
  <1>2. PICK type :
          /\ Awaits(frames, type, stack, state, ahead)
          /\ \A types : Receives(types) => type \in types
    BY ItemReceived, ParseReceives
  <1>3. InnerOf(frames) = Inner
    BY DEF InnerOf, Inner
  <1>4. CASE LexerError
    BY <1>1, <1>4, MoveReady DEF LexerError
  <1>5. CASE TopLevel
    BY <1>1, <1>2, <1>3, <1>5, AwaitsBy, MoveReady DEF TopLevel, Errors
  <1>6. CASE CommentText
    BY <1>1, <1>2, <1>3, <1>6, AwaitsBy, MoveReady DEF CommentText, Errors
  <1>7. ASSUME BadEscape
        PROVE  StepInv' /\ StopsKnown'
    BY <1>1, <1>7, MoveReady DEF BadEscape
  <1>8. CASE TableName
    BY <1>1, <1>2, <1>3, <1>7, <1>8, AwaitsBy, MoveReady
       DEF TableName, Errors, KeyStrings, StringItems
  <1>9. CASE KeyName
    BY <1>1, <1>2, <1>3, <1>7, <1>9, AwaitsBy, MoveReady
       DEF KeyName, Errors, KeyStrings, StringItems
  <1>10. CASE Value
    BY <1>1, <1>2, <1>3, <1>7, <1>10, AwaitsBy, MoveReady
       DEF Value, Errors, Primitives, StringItems
  <1>11. CASE ArrayValue
    BY <1>1, <1>2, <1>3, <1>7, <1>11, AwaitsBy, MoveReady
       DEF ArrayValue, ArrayComment, Errors, Primitives, StringItems
  <1>12. CASE InlineTable
    BY <1>1, <1>2, <1>3, <1>12, AwaitsBy, MoveReady DEF InlineTable, Errors
  <1> QED
    BY <1>4, <1>5, <1>6, <1>8, <1>9, <1>10, <1>11, <1>12 DEF Parse

-----------------------------------------------------------------------------
(* The property InStep for the calls f and the functions w. *)
Matched(f, w) ==
  /\ \A i \in 1 .. Len(f) : f[i] \in Containers =>
       i < Len(w) /\ Kind(w[i + 1]) = f[i]
  /\ \A i \in 1 .. Len(w) : Kind(w[i]) # "none" =>
       i - 1 \in 1 .. Len(f) /\ f[i - 1] = Kind(w[i])

(* It is enough that the levels match, and that nothing above them is a    *)
(* level.                                                                  *)
LEMMA LevelsMatch ==
  ASSUME NEW f \in Seq(Frames), NEW st \in Seq(States), NEW s \in States,
         NEW k \in Nat, Within(f, st, k), k <= Len(f), k <= Len(st),
         LET w == Append(st, s)
         IN  /\ w[k + 1] = Closing(f, k) \/ w[k + 1] \in Loops(f, k)
             /\ \A i \in k + 2 .. Len(w) : Kind(w[i]) = "none",
         \A i \in k + 1 .. Len(f) : f[i] \notin Containers
  PROVE  Matched(f, Append(st, s))
  <1> DEFINE w == Append(st, s)
             n == Len(f)
             m == Len(w)
  <1>1. /\ n \in Nat /\ m \in Nat /\ m = Len(st) + 1 /\ k <= n /\ k + 1 <= m
        /\ \A i \in 1 .. Len(st) : w[i] = st[i]
    BY PushFacts
  <1>2. Within(f, w, k)
    <2>1. \A i \in 1 .. k : w[i] = st[i] /\ f[i] = f[i]
      BY <1>1
    <2> HIDE DEF w
    <2> QED
      BY <2>1, WithinAgree
  <1>3. /\ w[k + 1] = Closing(f, k) \/ w[k + 1] \in Loops(f, k)
        /\ \A i \in k + 2 .. m : Kind(w[i]) = "none"
        /\ \A i \in k + 1 .. n : f[i] \notin Containers
    OBVIOUS
  <1> HIDE DEF w, n, m
  <1>4. \A i \in Nat : i # 0 /\ f[i] \in Containers =>
          /\ Kind(Closing(f, i)) = f[i]
          /\ \A x \in Loops(f, i) : Kind(x) = f[i]
    BY DEF Kind, Closing, Loops, Containers
  <1>5. Kind(Closing(f, 0)) = "none" /\ \A x \in Loops(f, 0) : Kind(x) = "none"
    BY DEF Kind, Closing, Loops
  <1>6. ASSUME NEW i \in 1 .. k
        PROVE  f[i] \in Containers /\ Kind(w[i + 1]) = f[i]
    <2>1. i # 0 /\ i \in Nat /\ (i = k \/ i \in 1 .. k - 1)
      OBVIOUS
    <2>2. f[i] \in Containers
      BY <1>2, <2>1 DEF Within, Levels
    <2>3. CASE i = k
      BY <1>3, <1>4, <2>1, <2>2, <2>3
    <2>4. CASE i \in 1 .. k - 1
      <3>1. i + 1 \in 1 .. k /\ i + 1 - 1 = i
        BY <2>4
      <3>2. w[i + 1] = Closing(f, i)
        BY <1>2, <3>1 DEF Within, Levels
      <3> QED
        BY <1>4, <2>1, <2>2, <3>2
    <2> QED
      BY <2>1, <2>3, <2>4
  <1>7. Kind(w[1]) = "none"
    <2>1. CASE k = 0
      BY <1>3, <1>5, <2>1
    <2>2. CASE k # 0
      <3>1. 1 \in 1 .. k /\ 1 - 1 = 0
        BY <2>2
      <3>2. w[1] = Closing(f, 0)
        BY <1>2, <3>1 DEF Within, Levels
      <3> QED
        BY <1>5, <3>2
    <2> QED
      BY <2>1, <2>2
  <1>8. ASSUME NEW i \in 1 .. n, f[i] \in Containers
        PROVE  i < m /\ Kind(w[i + 1]) = f[i]
    <2>1. i \in 1 .. k
      BY <1>1, <1>3, <1>8
    <2> QED
      BY <1>1, <1>6, <2>1
  <1>9. ASSUME NEW i \in 1 .. m, Kind(w[i]) # "none"
        PROVE  i - 1 \in 1 .. n /\ f[i - 1] = Kind(w[i])
    <2>1. i # 1 /\ i \notin k + 2 .. m
      BY <1>3, <1>7, <1>9
    <2>2. i - 1 \in 1 .. k /\ i - 1 + 1 = i
      BY <1>1, <2>1
    <2>3. Kind(w[i - 1 + 1]) = f[i - 1]
      BY <1>6, <2>2
    <2> QED
      BY <1>1, <2>2, <2>3
  <1> QED
    BY <1>8, <1>9 DEF Matched, n, m, w

(* Where nothing is a level, there is nothing to match. *)
LEMMA NoLevels ==
  ASSUME NEW f, NEW w, Len(f) \in Nat,
         \A i \in 1 .. Len(f) : f[i] \notin Containers,
         \A i \in 1 .. Len(w) : Kind(w[i]) = "none"
  PROVE  Matched(f, w)
  BY DEF Matched

(* While a value or a string is read, the levels below it match. *)
LEMMA StringMatches ==
  ASSUME NEW f \in Seq(Frames), NEW st \in Seq(States), NEW s \in States,
         NEW m \in 1 .. Len(st), InString(f, st, m), Kind(s) = "none",
         \A i \in m + 1 .. Len(st) : Kind(st[i]) = "none"
  PROVE  Matched(f, Append(st, s))
  <1> DEFINE w == Append(st, s)
  <1>1. /\ Len(w) = Len(st) + 1 /\ Len(st) \in Nat /\ m \in Nat /\ m >= 1
        /\ m <= Len(st)
        /\ \A i \in 1 .. Len(st) : w[i] = st[i]
        /\ w[Len(st) + 1] = s
    BY PushFacts
  <1> HIDE DEF w
  <1>2. ASSUME NEW i \in m + 1 .. Len(w)
        PROVE  Kind(w[i]) = "none"
    <2>1. i = Len(st) + 1 \/ i \in m + 1 .. Len(st)
      BY <1>1, <1>2
    <2>2. i \in m + 1 .. Len(st) => w[i] = st[i]
      BY <1>1
    <2> QED
      BY <1>1, <2>1, <2>2
  <1>3. Kind("lexKeyEnd") = "none" /\ Kind("lexTableNameEnd") = "none"
        /\ Kind("lexTableEnd") = "none" /\ Kind("lexArrayTableEnd") = "none"
    BY DEF Kind
  <1>4. ASSUME NEW k \in Nat, k + 1 <= m, k <= Len(f),
               Levels(f, st, k + 1),
               \A i \in k + 1 .. Len(f) : f[i] \notin Containers,
               \A i \in k + 2 .. m : Kind(w[i]) = "none"
        PROVE  Matched(f, w)
    <2>1. Within(f, st, k) /\ st[k + 1] = Closing(f, k)
      <3>1. PICK j \in Nat : j = k + 1 /\ j >= 1 /\ j - 1 = k
        OBVIOUS
      <3>2. Within(f, st, j - 1) /\ st[j] = Closing(f, j - 1)
        BY <1>4, <3>1, LevelsBelow
      <3> QED
        BY <3>1, <3>2
    <2>2. w[k + 1] = Closing(f, k)
      BY <1>1, <1>4, <2>1
    <2>3. \A i \in k + 2 .. Len(w) : Kind(w[i]) = "none"
      BY <1>1, <1>2, <1>4
    <2>4. k <= Len(st)
      BY <1>1, <1>4
    <2> QED
      BY <1>4, <2>1, <2>2, <2>3, <2>4, LevelsMatch DEF w
  <1>5. ASSUME InValue(f, st, m)
        PROVE  Matched(f, w)
    <2>1. PICK k \in Nat : k + 1 = m /\ k = m - 1
      BY <1>1
    <2>2. /\ k <= Len(f) /\ Levels(f, st, k + 1)
          /\ \A i \in k + 1 .. Len(f) : f[i] \notin Containers
      BY <1>5, <2>1 DEF InValue, InKey, Containers
    <2>3. k + 1 <= m /\ \A i \in k + 2 .. m : Kind(w[i]) = "none"
      BY <2>1
    <2> QED
      BY <1>4, <2>2, <2>3
  <1>6. ASSUME m >= 2, InKey(f, st, m - 1, "key"), st[m] = "lexKeyEnd"
        PROVE  Matched(f, w)
    <2>1. PICK k \in Nat : k + 1 = m - 1 /\ k + 2 = m
      BY <1>1, <1>6
    <2>2. /\ k <= Len(f) /\ Levels(f, st, k + 1)
          /\ \A i \in k + 1 .. Len(f) : f[i] \notin Containers
      BY <1>6, <2>1 DEF InKey, Containers
    <2>3. k + 1 <= m /\ \A i \in k + 2 .. m : Kind(w[i]) = "none"
      BY <1>1, <1>3, <1>6, <2>1
    <2> QED
      BY <1>4, <2>2, <2>3
  <1>7. ASSUME m = 2, InName(f, st), st[2] = "lexTableNameEnd"
        PROVE  Matched(f, w)
    <2>1. Len(f) = 1 /\ f[1] \notin Containers /\ Kind(st[1]) = "none"
      BY <1>3, <1>7 DEF InName, NameOf, Containers
    <2>2. w[1] = st[1] /\ w[2] = st[2]
      BY <1>1, <1>7
    <2>3. \A i \in 1 .. Len(w) : Kind(w[i]) = "none"
      <3>1. ASSUME NEW i \in 1 .. Len(w)
            PROVE  i = 1 \/ i = 2 \/ i \in m + 1 .. Len(w)
        BY <1>1, <1>7
      <3> QED
        BY <1>2, <1>3, <1>7, <2>1, <2>2, <3>1
    <2> QED
      BY <2>1, <2>3, NoLevels
  <1> QED
    BY <1>5, <1>6, <1>7 DEF InString, w

(* Wherever the parser asks for an item, its levels and the lexer's match. *)
LEMMA ReadyMatches ==
  ASSUME NEW f \in Seq(Frames), NEW st \in Seq(States), NEW s \in States,
         NEW runes, Ready(f, st, s, runes)
  PROVE  Matched(f, Append(st, s))
  <1> DEFINE w == Append(st, s)
             m == Len(st)
  <1>1. /\ Len(w) = m + 1 /\ m \in Nat /\ \A i \in 1 .. m : w[i] = st[i]
        /\ w[m + 1] = s /\ Len(f) \in Nat
    BY PushFacts
  <1>2. Kind("lexTableEnd") = "none" /\ Kind("lexArrayTableEnd") = "none"
        /\ Kind("lexTop") = "none"
    BY DEF Kind
  <1>3. ASSUME m = 0, Kind(s) = "none",
               \A i \in 1 .. Len(f) : f[i] \notin Containers
        PROVE  Matched(f, w)
    <2>1. \A i \in 1 .. Len(w) : i = m + 1
      BY <1>1, <1>3
    <2> HIDE DEF w, m
    <2>2. \A i \in 1 .. Len(w) : Kind(w[i]) = "none"
      BY <1>1, <1>3, <2>1
    <2> QED
      BY <1>1, <1>3, <2>2, NoLevels
  <1>4. ASSUME m = 1, InName(f, st), Kind(s) = "none"
        PROVE  Matched(f, w)
    <2>1. /\ Len(f) = 1 /\ f[1] \notin Containers /\ Kind(st[1]) = "none"
          /\ w[1] = st[1] /\ w[2] = s
      BY <1>1, <1>2, <1>4 DEF InName, NameOf, Containers
    <2>2. \A i \in 1 .. Len(w) : i = 1 \/ i = 2
      BY <1>1, <1>4
    <2> HIDE DEF w, m
    <2>3. \A i \in 1 .. Len(w) : Kind(w[i]) = "none"
      BY <1>4, <2>1, <2>2
    <2> QED
      BY <1>1, <2>1, <2>3, NoLevels
  <1>5. ASSUME m >= 1, Kind(s) = "none", Len(f) >= m - 1,
               \A i \in m .. Len(f) : f[i] \notin Containers,
               \/ Levels(f, st, m)
               \/ Within(f, st, m - 1) /\ st[m] \in Loops(f, m - 1)
        PROVE  Matched(f, w)
    <2>1. PICK k \in Nat : k + 1 = m /\ k = m - 1 /\ k <= Len(f) /\ k <= Len(st)
      BY <1>1, <1>5
    <2>2. Within(f, st, k) /\ (st[k + 1] = Closing(f, k) \/ st[k + 1] \in Loops(f, k))
      <3>1. CASE Levels(f, st, m)
        BY <1>1, <1>5, <2>1, <3>1, LevelsBelow
      <3>2. CASE Within(f, st, m - 1) /\ st[m] \in Loops(f, m - 1)
        BY <2>1, <3>2
      <3> QED
        BY <1>5, <3>1, <3>2
    <2>3. /\ w[k + 1] = st[k + 1]
          /\ \A i \in k + 2 .. Len(w) : i = m + 1
          /\ \A i \in k + 1 .. Len(f) : f[i] \notin Containers
      BY <1>1, <1>5, <2>1
    <2> HIDE DEF w, m
    <2>4. \A i \in k + 2 .. Len(w) : Kind(w[i]) = "none"
      BY <1>1, <1>5, <2>3
    <2> QED
      BY <2>1, <2>2, <2>3, <2>4, LevelsMatch DEF w
  <1>6. ASSUME InLoop(f, st, m, s)
        PROVE  Matched(f, w)
    <2>1. /\ Within(f, st, m) /\ Len(f) = m /\ w[m + 1] \in Loops(f, m)
          /\ \A i \in m + 2 .. Len(w) : FALSE
          /\ \A i \in m + 1 .. Len(f) : FALSE
      BY <1>1, <1>6 DEF InLoop
    <2> QED
      BY <1>1, <2>1, LevelsMatch
  <1>7. ASSUME InValue(f, st, m) \/ InString(f, st, m), Kind(s) = "none"
        PROVE  Matched(f, w)
    <2>1. InString(f, st, m) /\ m \in 1 .. Len(st)
      BY <1>1, <1>7 DEF InString, InValue, InKey
    <2>2. \A i \in m + 1 .. Len(st) : Kind(st[i]) = "none"
      BY <1>1
    <2> QED
      BY <1>7, <2>1, <2>2, StringMatches
  <1>8. ASSUME m >= 2, InString(f, st, m - 1), Kind(s) = "none",
               st[m] \in {"lexString", "lexMultilineString"}
        PROVE  Matched(f, w)
    <2>1. PICK k \in 1 .. Len(st) : k = m - 1
      BY <1>1, <1>8
    <2>2. \A i \in k + 1 .. Len(st) : i = m
      BY <1>1, <2>1
    <2>3. Kind(st[m]) = "none"
      BY <1>8 DEF Kind
    <2>4. \A i \in k + 1 .. Len(st) : Kind(st[i]) = "none"
      BY <2>2, <2>3
    <2> QED
      BY <1>8, <2>1, <2>4, StringMatches
  <1> HIDE DEF m, w
  <1>9. CASE Kind(s) = "none"
    <2>1. ASSUME s \in {"lexTop", "lexTopEnd", "lexTableStart", "lexTableEnd",
                        "lexArrayTableEnd"}
          PROVE  m = 0 /\ \A i \in 1 .. Len(f) : f[i] \notin Containers
      <3>1. m = 0 /\ (f = <<>> \/ (Len(f) = 1 /\ f[1] \in {"table", "arrayTable"}))
        BY <2>1, WhenAsked DEF m
      <3> QED
        BY <3>1 DEF Containers
    <2>2. ASSUME s \in {"lexTableNameStart", "lexBareTableName", "lexTableNameEnd"}
          PROVE  m = 1 /\ InName(f, st)
      BY <2>2, WhenAsked DEF m, AfterName, InName, NameOf
    <2>3. ASSUME s \in {"lexKeyStart", "lexBareKey", "lexKeyEnd",
                        "lexCommentStart", "lexComment"}
          PROVE  /\ m >= 1 /\ Len(f) >= m - 1
                 /\ \A i \in m .. Len(f) : f[i] \notin Containers
                 /\ \/ Levels(f, st, m)
                    \/ Within(f, st, m - 1) /\ st[m] \in Loops(f, m - 1)
      <3>1. \/ BeforeKey(f, st, m) \/ InKey(f, st, m, "key")
            \/ InKey(f, st, m, "value")
            \/ BeforeComment(f, st, m) \/ InComment(f, st, m)
        BY <2>3, WhenAsked DEF m
      <3> QED
        BY <1>1, <3>1
           DEF BeforeKey, InKey, BeforeComment, InComment, Containers
    <2>4. ASSUME s \in StringEscapes
          PROVE  /\ m >= 2 /\ InString(f, st, m - 1)
                 /\ st[m] \in {"lexString", "lexMultilineString"}
      BY <2>4 DEF Ready, StringEscapes, Strings, Scalars, m
    <2>5. ASSUME s \in Scalars \cup Strings \cup {"lexValue"}
          PROVE  InValue(f, st, m) \/ InString(f, st, m)
      BY <2>5, WhenAsked DEF m
    <2>6. s \notin {"lexArrayValue", "lexArrayValueEnd", "lexInlineTableValue",
                    "lexInlineTableValueEnd"}
      BY <1>9 DEF Kind
    <2>7. \/ s \in {"lexTop", "lexTopEnd", "lexTableStart", "lexTableEnd",
                    "lexArrayTableEnd"}
          \/ s \in {"lexTableNameStart", "lexBareTableName", "lexTableNameEnd"}
          \/ s \in {"lexKeyStart", "lexBareKey", "lexKeyEnd", "lexCommentStart",
                    "lexComment"}
          \/ s \in StringEscapes
          \/ s \in Scalars \cup Strings \cup {"lexValue"}
      BY <2>6 DEF Ready
    <2> QED
      BY <1>3, <1>4, <1>5, <1>7, <1>8, <1>9, <2>1, <2>2, <2>3, <2>4, <2>5, <2>7
         DEF w
  <1>10. CASE Kind(s) # "none"
    <2>1. s \in {"lexArrayValue", "lexArrayValueEnd", "lexInlineTableValue",
                 "lexInlineTableValueEnd"}
      BY <1>10 DEF Kind
    <2>2. InLoop(f, st, m, s)
      BY <2>1, WhenAsked DEF m
    <2> QED
      BY <1>6, <2>2 DEF w
  <1> QED
    BY <1>9, <1>10
-----------------------------------------------------------------------------
(* The invariant holds of every text. *)
THEOREM StepInvariant == Spec => [](TypeOK /\ StepInv /\ StopsKnown)
  <1>1. Init => StepInv /\ StopsKnown
    <2>1. Len(<<>>) = 0
      OBVIOUS
    <2> QED
      BY <2>1 DEF Init, LexInit, StepInv, StopsKnown, Ready
  <1>2. TypeOK /\ StepInv /\ StopsKnown /\ [Next]_vars => StepInv' /\ StopsKnown'
    <2> SUFFICES ASSUME TypeOK, StepInv, StopsKnown, [Next]_vars
                 PROVE  StepInv' /\ StopsKnown'
      OBVIOUS
    <2>1. CASE RunLexer
      <3>1. outcome = "parsing" /\ UNCHANGED outcome
        BY <2>1 DEF RunLexer
      <3>2. StopsKnown'
        BY <3>1 DEF StopsKnown
      <3> QED
        BY <2>1, <3>2, LexReady
    <2>2. CASE Parse
      BY <2>2, ParseReady
    <2>3. CASE UNCHANGED vars
      BY <2>3 DEF vars, lexVars, StepInv, StopsKnown, Inner
    <2> QED
      BY <2>1, <2>2, <2>3 DEF Next
  <1> QED
    BY <1>1, <1>2, TypeCorrect, PTL DEF Spec

(* Whatever the text, the arrays and inline tables that the parser is in   *)
(* are those that the lexer returns to, at the same depth and of the same  *)
(* kind (valueItem and keyValue of parse.go, lexArrayValue and             *)
(* lexInlineTableValue of lex.go).                                         *)
THEOREM ParserInStep == Spec => []InStep
  <1>1. TypeOK /\ StepInv => InStep
    <2> SUFFICES ASSUME TypeOK, StepInv, outcome = "parsing", items = <<>>
                 PROVE  Matched(frames, LexerCalls)
      BY DEF InStep, Matched
    <2>1. \A type : <<type>> # <<>>
      OBVIOUS
    <2>2. Ready(frames, stack, state, ahead)
      BY <2>1 DEF StepInv
    <2> QED
      BY <2>2, ReadyMatches DEF TypeOK, LexerCalls
  <1> QED
    BY <1>1, StepInvariant, PTL

(* No text makes the parser panic, but for a comment in an inline table,   *)
(* a backslash it cannot replace, and a key whose context setValue does    *)
(* not find when it has come back to the level of the text, as the lexer   *)
(* has: every table has a name, the lexer is not asked for an item after   *)
(* it has stopped (nextItem, lex.go:89), and no call is sent an item it    *)
(* takes for a bug (parse.go).                                             *)
THEOREM PanicsKnown == Spec => []OnlyKnownPanics
  <1>1. TypeOK /\ StepInv /\ StopsKnown => OnlyKnownPanics
    <2> SUFFICES ASSUME TypeOK, StepInv, StopsKnown
                 PROVE  OnlyKnownPanics
      OBVIOUS
    <2>1. ASSUME outcome = "parsing", items = <<>>, state = "nil"
          PROVE  FALSE
      <3>1. \A type : <<type>> # <<>>
        OBVIOUS
      <3>2. Ready(frames, stack, "nil", ahead)
        BY <2>1, <3>1 DEF StepInv
      <3> QED
        BY <3>2 DEF Ready, Scalars, Strings, StringEscapes
    <2>2. ASSUME outcome = "no context"
          PROVE  \A i \in 1 .. Len(LexerCalls) : Kind(LexerCalls[i]) = "none"
      <3>0. <<>> \in Seq(Frames)
        OBVIOUS
      <3>1. /\ stack \in Seq(States) /\ state \in States
            /\ Ready(<<>>, stack, state, ahead)
        BY <2>2 DEF TypeOK, StopsKnown
      <3>2. Matched(<<>>, LexerCalls)
        BY <3>0, <3>1, ReadyMatches, Zenon DEF LexerCalls
      <3>3. \A i : i - 1 \notin 1 .. Len(<<>>)
        OBVIOUS
      <3> QED
        BY <3>2, <3>3 DEF Matched
    <2> QED
      BY <2>1, <2>2 DEF OnlyKnownPanics, StopsKnown
  <1> QED
    BY <1>1, StepInvariant, PTL
=============================================================================
