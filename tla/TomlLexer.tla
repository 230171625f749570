----------------------------- MODULE TomlLexer -----------------------------
(***************************************************************************)
(* The lexer of confd.toml and of the resource files in conf.d             *)
(* (depends/toml/lex.go): state functions that read runes, keep a stack of *)
(* the functions to return to, and send items on a channel that the parser *)
(* drains before it runs the next function (nextItem).                     *)
(*                                                                         *)
(* The text is not fixed: the next rune is chosen when it is read, one of  *)
(* each class the lexer tells apart, so that every text is lexed, however  *)
(* long.  Runes that a function backs up over are kept in `ahead`; the     *)
(* text and the line of an item are left out.  lexSkip only drops pending  *)
(* text, so that a function that returns it goes straight on.              *)
(***************************************************************************)
EXTENDS Naturals, Sequences

CONSTANT
  MaxDepth    \* bound of a run: the length of the stack

ASSUME DepthAssumption == MaxDepth \in Nat \ {0}

VARIABLES
  state,   \* lx.state; "nil" when lexing has stopped
  stack,   \* lx.stack
  ahead,   \* the runes that were read and backed up over
  atEOF,   \* lx.atEOF
  items    \* what is in lx.items

lexVars == <<state, stack, ahead, atEOF, items>>

Nul == "nul"         \* a zero byte, which next() returns at the end as well
Eof == "eof"         \* the end of the text
Ends == {Nul, Eof}   \* what the code compares equal to its constant eof
\* "n" also stands for b, r and t, "f" for b, "e" for E, "newline" for \r.
Space == {" "}
NL == {"newline"}
Digit == {"0"}
Hexadecimal == {"0", "a", "e", "f"}
Letter == {"a", "e", "f", "n", "u", "U", "T", "x", "non-ascii"}
BareKeyChar == (Letter \ {"non-ascii"}) \cup Digit \cup {"_", "-"}
Escapes == {"f", "n", "quote", "backslash"}
StringQuotes == {"quote", "apostrophe"}
Runes ==
  Ends \cup Space \cup NL \cup Letter \cup BareKeyChar \cup Escapes
    \cup StringQuotes
    \cup {"#", "[", "]", "{", "}", ".", ",", "=", "+", ":", "other"}

StringItems == {"String", "RawString", "MultilineString", "RawMultilineString"}
Primitives == StringItems \cup {"Bool", "Integer", "Float", "Datetime"}
ItemTypes ==
  Primitives \cup
  {"EOF", "Error", "NoStates", "Text", "KeyStart", "CommentStart",
   "TableStart", "TableEnd", "ArrayTableStart", "ArrayTableEnd",
   "Array", "ArrayEnd", "InlineTableStart", "InlineTableEnd"}

LexInit ==
  /\ state = "lexTop" /\ stack = <<>> /\ ahead = <<>>
  /\ atEOF = FALSE /\ items = <<>>
-----------------------------------------------------------------------------
(* next() can return these runes, one after the other. *)
Upcoming(runes) ==
  /\ ~atEOF
  /\ Len(runes) >= Len(ahead)
  /\ \A i \in 1 .. Len(ahead) : runes[i] = ahead[i]

Reads(r) == ~atEOF /\ (ahead # <<>> => r = Head(ahead))
Rest == IF ahead = <<>> THEN <<>> ELSE Tail(ahead)

(* next(), and next() followed by backup(), which is also peek(). *)
Take(runes) ==
  \E r \in runes : Reads(r) /\ ahead' = Rest /\ atEOF' = (r = Eof)
Peek(runes) ==
  \E r \in runes : Reads(r) /\ ahead' = <<r>> \o Rest /\ UNCHANGED atEOF

Do(next, stack_, sent) ==
  state' = next /\ stack' = stack_ /\ items' = items \o sent
Go(next) == Do(next, stack, <<>>)
Emit(type, next) == Do(next, stack, <<type>>)
Fail == Emit("Error", "nil")

(* push(back), and go on with next. *)
Push(back, next) == Do(next, Append(stack, back), <<>>)
Call(next, back) == Len(stack) < MaxDepth /\ Push(back, next)

(* emit, and pop(). *)
Return(sent) ==
  IF stack = <<>> THEN Do("nil", stack, sent \o <<"NoStates">>)
  ELSE Do(stack[Len(stack)], SubSeq(stack, 1, Len(stack) - 1), sent)

(* The parser has drained the channel and calls the state function. *)
In(function) == items = <<>> /\ state = function
-----------------------------------------------------------------------------
KeyWithoutEnd == Go("lexKeyStart")                                \* mutant
KeyThenEnd == Call("lexKeyStart", "lexTopEnd")
LexTop ==
  /\ In("lexTop")
  /\ \/ Take(Space \cup NL) /\ Go("lexTop")
     \/ Take({"#"}) /\ Call("lexCommentStart", "lexTop")
     \/ Take({"["}) /\ Go("lexTableStart")
     \/ Take({Eof}) /\ Emit("EOF", "nil")
     \/ Take({Nul}) /\ Fail
     \/ Peek(Runes \ (Space \cup NL \cup Ends \cup {"#", "["})) /\ KeyThenEnd

LexTopEnd ==
  /\ In("lexTopEnd")
  /\ \/ Take({"#"}) /\ Call("lexCommentStart", "lexTop")
     \/ Take(Space) /\ Go("lexTopEnd")
     \/ Take(NL) /\ Go("lexTop")
     \/ Take(Ends) /\ Emit("EOF", "nil")
     \/ Take(Runes \ (Space \cup NL \cup Ends \cup {"#"})) /\ Fail

TableNameThen(end, start) ==
  /\ Len(stack) < MaxDepth
  /\ Do("lexTableNameStart", Append(stack, end), <<start>>)
LexTableStart ==
  /\ In("lexTableStart")
  /\ \/ Take({"["}) /\ TableNameThen("lexArrayTableEnd", "ArrayTableStart")
     \/ Peek(Runes \ {"["}) /\ TableNameThen("lexTableEnd", "TableStart")

LexTableEnd ==
  /\ In("lexTableEnd")
  /\ Emit("TableEnd", "lexTopEnd") /\ UNCHANGED <<ahead, atEOF>>

LexArrayTableEnd ==
  /\ In("lexArrayTableEnd")
  /\ \/ Take({"]"}) /\ Emit("ArrayTableEnd", "lexTopEnd")
     \/ Take(Runes \ {"]"}) /\ Fail

LexTableNameStart ==
  /\ In("lexTableNameStart")
  /\ \/ Take(Space) /\ Go("lexTableNameStart")
     \/ Peek(Ends \cup {"]", "."}) /\ Fail
     \/ Peek(StringQuotes) /\ Call("lexValue", "lexTableNameEnd")
     \/ /\ Peek(Runes \ (Space \cup Ends \cup StringQuotes \cup {"]", "."}))
        /\ Go("lexBareTableName")

LexBareTableName ==
  /\ In("lexBareTableName")
  /\ \/ Take(BareKeyChar) /\ Go("lexBareTableName")
     \/ Peek(Runes \ BareKeyChar) /\ Emit("Text", "lexTableNameEnd")

LexTableNameEnd ==
  /\ In("lexTableNameEnd")
  /\ \/ Take(Space) /\ Go("lexTableNameEnd")
     \/ Take({"."}) /\ Go("lexTableNameStart")
     \/ Take({"]"}) /\ Return(<<>>)
     \/ Take(Runes \ (Space \cup {".", "]"})) /\ Fail

LexKeyStart ==
  /\ In("lexKeyStart")
  /\ \/ Peek({"="}) /\ Fail
     \/ Take(Space \cup NL) /\ Go("lexKeyStart")
     \/ /\ Peek(StringQuotes) /\ Len(stack) < MaxDepth
        /\ Do("lexValue", Append(stack, "lexKeyEnd"), <<"KeyStart">>)
     \/ /\ Peek(Runes \ (Space \cup NL \cup StringQuotes \cup {"="}))
        /\ Emit("KeyStart", "lexBareKey")

LexBareKey ==
  /\ In("lexBareKey")
  /\ \/ Take(BareKeyChar) /\ Go("lexBareKey")
     \/ Peek(Space \cup {"="}) /\ Emit("Text", "lexKeyEnd")
     \/ Take(Runes \ (BareKeyChar \cup Space \cup {"="})) /\ Fail

LexKeyEnd ==
  /\ In("lexKeyEnd")
  /\ \/ Take({"="}) /\ Go("lexValue")
     \/ Take(Space) /\ Go("lexKeyEnd")
     \/ Take(Runes \ (Space \cup {"="})) /\ Fail
-----------------------------------------------------------------------------
(* A quote opens a string; three of them open a multi-line one, and two    *)
(* are an empty string, the second of which is backed up over.             *)
BackedUpTooFar(quote, r) == <<quote, quote, r>>                   \* mutant
BackedUp(quote, r) == <<quote, r>>
OpenString(quote, string, multiline) ==
  \/ /\ Upcoming(<<quote, quote, quote>>)
     /\ ahead' = <<>> /\ UNCHANGED atEOF /\ Go(multiline)
  \/ \E r \in Runes \ {quote} :
       /\ \/ Upcoming(<<quote, quote, r>>) /\ ahead' = BackedUp(quote, r)
          \/ Upcoming(<<quote, r>>) /\ ahead' = <<r>>
       /\ UNCHANGED atEOF /\ Go(string)

LexValue ==
  /\ In("lexValue")
  /\ \/ Take(Space) /\ Go("lexValue")
     \/ Peek(Digit) /\ Go("lexNumberOrDateStart")
     \/ Take({"["}) /\ Emit("Array", "lexArrayValue")
     \/ Take({"{"}) /\ Emit("InlineTableStart", "lexInlineTableValue")
     \/ OpenString("quote", "lexString", "lexMultilineString")
     \/ OpenString("apostrophe", "lexRawString", "lexMultilineRawString")
     \/ Take({"+", "-"}) /\ Go("lexNumberStart")
     \/ Peek(Letter) /\ Go("lexBool")
     \/ /\ Take(Runes \ (Space \cup Digit \cup Letter \cup StringQuotes
                           \cup {"[", "{", "+", "-"}))
        /\ Fail

LexArrayValue ==
  /\ In("lexArrayValue")
  /\ \/ Take(Space \cup NL) /\ Go("lexArrayValue")
     \/ Take({"#"}) /\ Call("lexCommentStart", "lexArrayValue")
     \/ Take({","}) /\ Fail
     \/ Take({"]"}) /\ Return(<<"ArrayEnd">>)
     \/ /\ Peek(Runes \ (Space \cup NL \cup {"#", ",", "]"}))
        /\ Call("lexValue", "lexArrayValueEnd")

LexArrayValueEnd ==
  /\ In("lexArrayValueEnd")
  /\ \/ Take(Space \cup NL) /\ Go("lexArrayValueEnd")
     \/ Take({"#"}) /\ Call("lexCommentStart", "lexArrayValueEnd")
     \/ Take({","}) /\ Go("lexArrayValue")
     \/ Take({"]"}) /\ Return(<<"ArrayEnd">>)
     \/ Take(Runes \ (Space \cup NL \cup {"#", ",", "]"})) /\ Fail

KeyThenArrayEnd == Call("lexKeyStart", "lexArrayValueEnd")        \* mutant
KeyThenTableEnd == Call("lexKeyStart", "lexInlineTableValueEnd")
LexInlineTableValue ==
  /\ In("lexInlineTableValue")
  /\ \/ Take(Space) /\ Go("lexInlineTableValue")
     \/ Take(NL \cup {","}) /\ Fail
     \/ Take({"#"}) /\ Call("lexCommentStart", "lexInlineTableValue")
     \/ Take({"}"}) /\ Return(<<"InlineTableEnd">>)
     \/ /\ Peek(Runes \ (Space \cup NL \cup {"#", ",", "}"}))
        /\ KeyThenTableEnd

LexInlineTableValueEnd ==
  /\ In("lexInlineTableValueEnd")
  /\ \/ Take(Space) /\ Go("lexInlineTableValueEnd")
     \/ Take({"#"}) /\ Call("lexCommentStart", "lexInlineTableValueEnd")
     \/ Take({","}) /\ Go("lexInlineTableValue")
     \/ Take({"}"}) /\ Return(<<"InlineTableEnd">>)
     \/ Take(Runes \ (Space \cup {"#", ",", "}"})) /\ Fail
-----------------------------------------------------------------------------
LexString ==
  /\ In("lexString")
  /\ \/ Take(Ends \cup NL) /\ Fail
     \/ Take({"backslash"}) /\ Call("lexStringEscape", "lexString")
     \/ Take({"quote"}) /\ Return(<<"String">>)
     \/ Take(Runes \ (Ends \cup NL \cup {"backslash", "quote"}))
          /\ Go("lexString")

LexRawString ==
  /\ In("lexRawString")
  /\ \/ Take(Ends \cup NL) /\ Fail
     \/ Take({"apostrophe"}) /\ Return(<<"RawString">>)
     \/ Take(Runes \ (Ends \cup NL \cup {"apostrophe"})) /\ Go("lexRawString")

(* Three quotes close a multi-line string; after one or two, the next rune *)
(* is backed up over and the second quote is read again.                   *)
CloseString(quote, type, string) ==
  \/ /\ Upcoming(<<quote, quote, quote>>)
     /\ ahead' = <<>> /\ UNCHANGED atEOF /\ Return(<<type>>)
  \/ \E r \in Runes \ {quote} :
       /\ \/ Upcoming(<<quote, quote, r>>) /\ ahead' = BackedUp(quote, r)
          \/ Upcoming(<<quote, r>>) /\ ahead' = <<r>>
       /\ UNCHANGED atEOF /\ Go(string)

LexMultilineString ==
  /\ In("lexMultilineString")
  /\ \/ Take(Ends) /\ Fail
     \/ Take({"backslash"}) /\ Go("lexMultilineStringEscape")
     \/ CloseString("quote", "MultilineString", "lexMultilineString")
     \/ Take(Runes \ (Ends \cup {"backslash", "quote"}))
          /\ Go("lexMultilineString")

LexMultilineRawString ==
  /\ In("lexMultilineRawString")
  /\ \/ Take(Ends) /\ Fail
     \/ CloseString("apostrophe", "RawMultilineString", "lexMultilineRawString")
     \/ Take(Runes \ (Ends \cup {"apostrophe"})) /\ Go("lexMultilineRawString")

LexMultilineStringEscape ==
  /\ In("lexMultilineStringEscape")
  /\ \/ Take(NL) /\ Go("lexMultilineString")
     \/ Peek(Runes \ NL) /\ Call("lexStringEscape", "lexMultilineString")

LexStringEscape ==
  /\ In("lexStringEscape")
  /\ \/ Take(Escapes) /\ Return(<<>>)
     \/ Take({"u"}) /\ Go("lexShortUnicodeEscape")
     \/ Take({"U"}) /\ Go("lexLongUnicodeEscape")
     \/ Take(Runes \ (Escapes \cup {"u", "U"})) /\ Fail

(* Four or eight hexadecimal digits, or fewer and a rune that is not one. *)
LexUnicodeEscape ==
  /\ In("lexShortUnicodeEscape") \/ In("lexLongUnicodeEscape")
  /\ \/ Take(Hexadecimal) /\ Return(<<>>)
     \/ Take(Runes \ Hexadecimal) /\ Fail

LexNumberOrDateStart ==
  /\ In("lexNumberOrDateStart")
  /\ \/ Take(Digit) /\ Go("lexNumberOrDate")
     \/ Take({"_"}) /\ Go("lexNumber")
     \/ Take({"e"}) /\ Go("lexFloat")
     \/ Take(Runes \ (Digit \cup {"_", "e"})) /\ Fail

LexNumberOrDate ==
  /\ In("lexNumberOrDate")
  /\ \/ Take(Digit) /\ Go("lexNumberOrDate")
     \/ Take({"-"}) /\ Go("lexDatetime")
     \/ Take({"_"}) /\ Go("lexNumber")
     \/ Take({".", "e"}) /\ Go("lexFloat")
     \/ Peek(Runes \ (Digit \cup {"-", "_", ".", "e"})) /\ Return(<<"Integer">>)

LexDatetime ==
  LET parts == Digit \cup {"-", "T", ":", "."}
  IN  /\ In("lexDatetime")
      /\ \/ Take(parts) /\ Go("lexDatetime")
         \/ Peek(Runes \ parts) /\ Return(<<"Datetime">>)

LexNumberStart ==
  /\ In("lexNumberStart")
  /\ \/ Take(Digit) /\ Go("lexNumber")
     \/ Take(Runes \ Digit) /\ Fail

LexNumber ==
  /\ In("lexNumber")
  /\ \/ Take(Digit \cup {"_"}) /\ Go("lexNumber")
     \/ Take({".", "e"}) /\ Go("lexFloat")
     \/ Peek(Runes \ (Digit \cup {"_", ".", "e"})) /\ Return(<<"Integer">>)

LexFloat ==
  LET parts == Digit \cup {"_", ".", "-", "+", "e"}
  IN  /\ In("lexFloat")
      /\ \/ Take(parts) /\ Go("lexFloat")
         \/ Peek(Runes \ parts) /\ Return(<<"Float">>)

(* The letters that follow are read in a loop; they are the word true, or  *)
(* false, or they are not.                                                 *)
LexBool ==
  /\ In("lexBool")
  /\ \E r \in Runes \ Letter : ahead' = <<r>>
  /\ Fail \/ (Head(ahead) \in {"f", "n"} /\ Return(<<"Bool">>))
  /\ UNCHANGED atEOF

LexCommentStart ==
  /\ In("lexCommentStart")
  /\ Emit("CommentStart", "lexComment") /\ UNCHANGED <<ahead, atEOF>>

EndOfLine == NL                                                   \* mutant
EndOfComment == NL \cup Ends
LexComment ==
  /\ In("lexComment")
  /\ \/ Peek(EndOfComment) /\ Return(<<"Text">>)
     \/ Take(Runes \ EndOfComment) /\ Go("lexComment")
-----------------------------------------------------------------------------
LexTopLevel ==
  \/ LexTop \/ LexTopEnd \/ LexTableStart \/ LexTableEnd \/ LexArrayTableEnd
  \/ LexTableNameStart \/ LexBareTableName \/ LexTableNameEnd
  \/ LexKeyStart \/ LexBareKey \/ LexKeyEnd
LexNested ==
  \/ LexValue \/ LexArrayValue \/ LexArrayValueEnd
  \/ LexInlineTableValue \/ LexInlineTableValueEnd
LexText ==
  \/ LexString \/ LexRawString \/ LexMultilineString \/ LexMultilineRawString
  \/ LexMultilineStringEscape \/ LexStringEscape \/ LexUnicodeEscape
  \/ LexCommentStart \/ LexComment
LexScalar ==
  \/ LexNumberOrDateStart \/ LexNumberOrDate \/ LexDatetime
  \/ LexNumberStart \/ LexNumber \/ LexFloat \/ LexBool

Lex == LexTopLevel \/ LexNested \/ LexText \/ LexScalar
=============================================================================
