----------------------------- MODULE TomlParser -----------------------------
(***************************************************************************)
(* The parser (depends/toml/parse.go) on top of the lexer: a recursive     *)
(* descent that asks for one item after the other.  What it has called and *)
(* not returned from is the sequence `frames`.  It ends with a value, with *)
(* an error for the caller (panicf, which parse recovers), or with a panic *)
(* nobody recovers: a bug it reports of itself (p.bug, from one of three   *)
(* places), or a slice of no elements.                                     *)
(*                                                                         *)
(* Which tables and keys the document defines is TomlTables; here the      *)
(* definition of one may be refused or not, and the context of a key may   *)
(* be there or not.                                                        *)
(***************************************************************************)
EXTENDS TomlLexer

VARIABLES
  frames,   \* the calls in progress, the innermost last
  outcome   \* "parsing", then one of Outcomes

vars == <<lexVars, frames, outcome>>

Frames == {"comment", "tableStart", "table", "arrayTableStart", "arrayTable",
           "key", "value", "array", "inline"}

(* The last four are panics. *)
Outcomes ==
  {"accepted", "refused", "bad escape", "no context", "bug", "crash"}

Init == LexInit /\ frames = <<>> /\ outcome = "parsing"
-----------------------------------------------------------------------------
Inner == IF frames = <<>> THEN "top" ELSE frames[Len(frames)]
Outer == SubSeq(frames, 1, Len(frames) - 1)

(* p.next() returns an item of one of these types. *)
Receives(types) ==
  /\ outcome = "parsing"
  /\ items # <<>> /\ Head(items) \in types /\ items' = Tail(items)
  /\ UNCHANGED <<state, stack, ahead, atEOF>>

Enter(frame) == frames' = Append(frames, frame) /\ UNCHANGED outcome
Become(frame) == frames' = Append(Outer, frame) /\ UNCHANGED outcome
Leave == frames' = Outer /\ UNCHANGED outcome
Stay == UNCHANGED <<frames, outcome>>
Stop(how) == outcome' = how /\ UNCHANGED frames

(* p.next() turns an error of the lexer into an error of the parser. *)
Errors == {"Error", "NoStates"}
LexerError == Receives(Errors) /\ Stop("refused")

(* topLevel *)
TopLevel ==
  /\ Inner = "top"
  /\ \/ Receives({"EOF"}) /\ Stop("accepted")
     \/ Receives({"CommentStart"}) /\ Enter("comment")
     \/ Receives({"TableStart"}) /\ Enter("tableStart")
     \/ Receives({"ArrayTableStart"}) /\ Enter("arrayTableStart")
     \/ Receives({"KeyStart"}) /\ Enter("key")
     \/ /\ Receives(ItemTypes \ (Errors \cup
              {"EOF", "CommentStart", "TableStart", "ArrayTableStart",
               "KeyStart"}))
        /\ Stop("bug")

(* p.expect(itemText) *)
CommentText ==
  /\ Inner = "comment"
  /\ \/ Receives({"Text"}) /\ Leave
     \/ Receives(ItemTypes \ (Errors \cup {"Text"})) /\ Stop("bug")

(* replaceEscapes refuses an escape that is no rune.  It takes a backslash *)
(* it cannot replace for a bug, and a multi-line string may have one: the  *)
(* lexer lets one stand before \r, and stripEscapedWhitespace takes the    *)
(* second of two before \n for one that ends the line.                     *)
Escaped == {"String", "MultilineString"}
BadEscape ==
  \/ Receives(Escaped) /\ Stop("refused")
  \/ Receives({"MultilineString"}) /\ Stop("bad escape")

(* The pieces of a table's name, and then establishContext, which may      *)
(* refuse it, and whose setValue walks the way that it has just gone       *)
(* itself.  Without a piece its slice expression panics.                   *)
KeyStrings == StringItems \cup {"Text"}
TableName ==
  \E kind \in {"table", "arrayTable"} :
    LET end   == IF kind = "table" THEN "TableEnd" ELSE "ArrayTableEnd"
        start == IF kind = "table" THEN "tableStart" ELSE "arrayTableStart"
    IN  /\ Inner \in {start, kind}
        /\ \/ Receives(KeyStrings) /\ Become(kind)
           \/ BadEscape
           \/ Receives({end}) /\ Inner = kind /\ (Leave \/ Stop("refused"))
           \/ Receives({end}) /\ Inner = start /\ Stop("crash")
           \/ /\ Receives(ItemTypes \ (Errors \cup KeyStrings \cup {end}))
              /\ Stop("bug")

(* The name of a key, and then its value is asked for. *)
KeyName ==
  /\ Inner = "key"
  /\ \/ Receives(KeyStrings) /\ Become("value")
     \/ BadEscape
     \/ Receives(ItemTypes \ (Errors \cup KeyStrings)) /\ Stop("bug")

(* A value is complete.  A number out of range, a date that is none, an    *)
(* array of mixed types, or a key that is there already is refused.  Only  *)
(* a key that stands outside all values is given its value by setValue,    *)
(* which takes it for a bug if the walk along p.context does not find a    *)
(* table.                                                                  *)
SetValue == Outer = <<>> /\ Stop("no context")
Complete == Leave \/ Stop("refused") \/ SetValue

(* p.value of the item asked for.                                          *)
Value ==
  /\ Inner = "value"
  /\ \/ Receives(Primitives) /\ Complete
     \/ BadEscape
     \/ Receives({"Array"}) /\ Become("array")
     \/ Receives({"InlineTableStart"}) /\ Become("inline")
     \/ /\ Receives(ItemTypes
                      \ (Errors \cup Primitives \cup {"Array", "InlineTableStart"}))
        /\ Stop("bug")

(* The loop over an array's values.                                        *)
ArrayCommentNotSkipped == Receives({"CommentStart"}) /\ Stop("bug") \* mutant
ArrayComment == Receives({"CommentStart"}) /\ Enter("comment")
ArrayValue ==
  /\ Inner = "array"
  /\ \/ Receives({"ArrayEnd"}) /\ Complete
     \/ ArrayComment
     \/ Receives(Primitives) /\ (Stay \/ Stop("refused"))
     \/ BadEscape
     \/ Receives({"Array"}) /\ Enter("array")
     \/ Receives({"InlineTableStart"}) /\ Enter("inline")
     \/ /\ Receives(ItemTypes
              \ (Errors \cup Primitives \cup
                 {"ArrayEnd", "CommentStart", "Array", "InlineTableStart"}))
        /\ Stop("bug")

(* The loop over an inline table's keys.  The test for a comment comes     *)
(* after the test for anything but a key, which has taken it for a bug.    *)
InlineTable ==
  /\ Inner = "inline"
  /\ \/ Receives({"InlineTableEnd"}) /\ Complete
     \/ Receives({"KeyStart"}) /\ Enter("key")
     \/ /\ Receives(ItemTypes \ (Errors \cup {"InlineTableEnd", "KeyStart"}))
        /\ Stop("bug")

Parse ==
  \/ LexerError \/ TopLevel \/ CommentText \/ TableName \/ KeyName \/ Value
  \/ ArrayValue \/ InlineTable

(* nextItem runs the lexer only while the parser waits for an item. *)
RunLexer == outcome = "parsing" /\ Lex /\ UNCHANGED <<frames, outcome>>

Next == RunLexer \/ Parse

(* The parser runs on.  The text may be endless, for all it knows. *)
Spec == Init /\ [][Next]_vars /\ WF_vars(Next)
-----------------------------------------------------------------------------
States ==
  {"lexTop", "lexTopEnd", "lexTableStart", "lexTableEnd", "lexArrayTableEnd",
   "lexTableNameStart", "lexBareTableName", "lexTableNameEnd", "lexKeyStart",
   "lexBareKey", "lexKeyEnd", "lexValue", "lexArrayValue", "lexArrayValueEnd",
   "lexInlineTableValue", "lexInlineTableValueEnd", "lexString",
   "lexRawString", "lexMultilineString", "lexMultilineRawString",
   "lexMultilineStringEscape", "lexStringEscape", "lexShortUnicodeEscape",
   "lexLongUnicodeEscape", "lexNumberOrDateStart", "lexNumberOrDate",
   "lexDatetime", "lexNumberStart", "lexNumber", "lexFloat", "lexBool",
   "lexCommentStart", "lexComment", "nil"}

(* Every variable keeps its kind; no more than two runes are backed up     *)
(* over at a time.                                                         *)
TypeOK ==
  /\ state \in States /\ stack \in Seq(States) /\ Len(stack) <= MaxDepth
  /\ ahead \in Seq(Runes) /\ Len(ahead) <= 2 /\ atEOF \in BOOLEAN
  /\ items \in Seq(ItemTypes)
  /\ frames \in Seq(Frames)
  /\ outcome \in Outcomes \cup {"parsing"}

(* The lexer never pops an empty stack, which it would report as a bug of  *)
(* its own (lex.go:117): every state function that pops is entered with    *)
(* what to go back to pushed by whoever called it.                         *)
NoEmptyPop == \A i \in 1 .. Len(items) : items[i] # "NoStates"

(* next() is not called after the end of the text, which panics            *)
(* (lex.go:140).                                                           *)
StopsAtEOF == atEOF => state = "nil"

(* While the parser waits for the lexer, every array or inline table that  *)
(* it is in, and no other call, is one for the lexer too, of the same kind *)
(* and at the same depth: the bottom of the lexer's stack is for the level *)
(* of the whole text, so that each lies one further up there.              *)
Containers == {"array", "inline"}
Kind(s) ==
  IF s \in {"lexArrayValue", "lexArrayValueEnd"} THEN "array"
  ELSE IF s \in {"lexInlineTableValue", "lexInlineTableValueEnd"} THEN "inline"
  ELSE "none"
LexerCalls == Append(stack, state)
InStep ==
  outcome = "parsing" /\ items = <<>> /\ state # "nil" =>
    /\ \A i \in 1 .. Len(frames) : frames[i] \in Containers =>
         i < Len(LexerCalls) /\ Kind(LexerCalls[i + 1]) = frames[i]
    /\ \A i \in 1 .. Len(LexerCalls) : Kind(LexerCalls[i]) # "none" =>
         i - 1 \in 1 .. Len(frames) /\ frames[i - 1] = Kind(LexerCalls[i])

(* The parser panics on three kinds of text only: one with a comment in an *)
(* inline table, which the lexer lets through (parse.go:283), one with a   *)
(* backslash in a multi-line string that it cannot replace (parse.go:534), *)
(* and one with a key, outside all values for the lexer too, whose context *)
(* setValue does not find (parse.go:415, 425; TomlTables says which keys   *)
(* may be such).  It never asks a lexer that has stopped for more, which   *)
(* is to call a nil function, nor defines a table without a name.          *)
OnlyKnownPanics ==
  /\ outcome # "crash"
  /\ outcome = "parsing" /\ items = <<>> => state # "nil"
  /\ outcome = "bug" => Inner = "inline" /\ state = "lexComment"
  /\ outcome = "no context" =>
       \A i \in 1 .. Len(LexerCalls) : Kind(LexerCalls[i]) = "none"

(* Once the lexer has seen the end of the text, the parser comes to an end *)
(* (nextItem, lex.go:89).                                                  *)
SeenEnd == atEOF \/ \E i \in 1 .. Len(ahead) : ahead[i] \in Ends
ComesToAnEnd == SeenEnd ~> outcome # "parsing"
=============================================================================
