----------------------------- MODULE HtmlLexer -----------------------------
(***************************************************************************)
(* The tokenizer of gumbo (tokenizer.c): its state, the helpers that its   *)
(* handlers share, and character references (char_ref.c).  The input is a  *)
(* sequence of symbols; a word that the code compares as a whole is one    *)
(* symbol, and blanks of all kinds are one.  What an operator of a lexer   *)
(* returns is the lexer after the call.                                    *)
(***************************************************************************)
EXTENDS Integers, Sequences, FiniteSets, SequencesExt, TLC

VARIABLES
    input,     \* the document
    lexer,     \* GumboTokenizerState with its iterator
    tokens,    \* the tokens handed over so far
    turn       \* who is at work: the lexer, or the parser with the last token

vars == <<input, lexer, tokens, turn>>

EOF         == "eof"
NUL         == "nul"
Replacement == "fffd"
NoChar      == "none"

\* Words are letters too: one symbol for the run of them.
Letters ==
    {"a", "A", "b", "x", "lt", "acE", "script", "title", "TITLE", "style", "plaintext",
     "svg", "doctype", "public", "system"}
Lower(s) == CASE s = "A" -> "a" [] s = "TITLE" -> "title" [] OTHER -> s
Digits   == {"0", "1"}
Quotes   == {"\"", "'"}
Unnulled(s) == IF s = NUL THEN Replacement ELSE s

-----------------------------------------------------------------------------
(* The iterator over the input. *)
CharAt(p) == IF p <= Len(input) THEN input[p] ELSE EOF
c         == CharAt(lexer.pos)

Advance(l) == [l EXCEPT !.pos = IF @ <= Len(input) THEN @ + 1 ELSE @]
Matches(p, word) == \A i \in DOMAIN word : CharAt(p + i - 1) = word[i]
Match(word)      == Matches(lexer.pos, word)
Past(l, word)    == [l EXCEPT !.pos = @ + Len(word), !.again = TRUE]

\* Where the run of symbols of a set that starts at p ends.
EndOf(p, set) == CHOOSE q \in p .. Len(input) + 1 :
    /\ CharAt(q) \notin set
    /\ \A r \in p .. q - 1 : CharAt(r) \in set

-----------------------------------------------------------------------------
(* Character references. *)
NoReference(p) == [first |-> NoChar, second |-> NoChar, pos |-> p]

Hexadecimal(p) == CharAt(p + 2) = "x"
NumberAt(p)    == IF Hexadecimal(p) THEN p + 3 ELSE p + 2
DigitsAt(p)    == IF Hexadecimal(p) THEN Digits \cup {"a", "A", "b"} ELSE Digits

\* The code point of the number 0 is replaced; the others stand for themselves.
CodePoint(from, to) ==
    IF \A p \in from .. to - 1 : input[p] = "0" THEN Replacement ELSE "u"

NumericReference(p) ==
    LET from == NumberAt(p)
        to   == EndOf(from, DigitsAt(p))
    IN  IF to = from
        THEN NoReference(p)
        ELSE [first |-> CodePoint(from, to), second |-> NoChar,
              pos |-> IF CharAt(to) = ";" THEN to + 1 ELSE to]

\* acE stands for a name that needs its semicolon and means two code points.
NamedReference(p, inAttribute) ==
    IF CharAt(p + 1) = "acE" /\ CharAt(p + 2) = ";"
    THEN [first |-> "u", second |-> "v", pos |-> p + 3]
    ELSE IF CharAt(p + 1) # "lt"
    THEN NoReference(p)
    ELSE IF CharAt(p + 2) = ";"
    THEN [first |-> "<", second |-> NoChar, pos |-> p + 3]
    ELSE IF inAttribute /\ CharAt(p + 2) \in Letters \cup Digits \cup {"="}
    THEN NoReference(p)
    ELSE [first |-> "<", second |-> NoChar, pos |-> p + 2]

ConsumeCharRef(p, allowed, inAttribute) ==
    IF CharAt(p + 1) \in {allowed, " ", "<", "&", EOF}
    THEN NoReference(p)
    ELSE IF CharAt(p + 1) = "#"
    THEN NumericReference(p)
    ELSE NamedReference(p, inAttribute)

-----------------------------------------------------------------------------
(* The temporary buffer, and the tag that is being read. *)
ClearTemporary(l) == [l EXCEPT !.mark = l.pos, !.temp = <<>>, !.script = <<>>]
AppendTemporary(l, ss) == [l EXCEPT !.temp = @ \o ss]

ReinitializeTagBuffer(l) == [l EXCEPT !.tag.buffer = <<>>, !.tag.from = l.pos]

AppendTag(l, s, fromHere) ==
    [l EXCEPT !.tag.buffer = Append(@, s),
              !.tag.from   = IF l.tag.buffer = <<>> /\ fromHere THEN l.pos ELSE @]

StartNewTag(l, isStart) ==
    [l EXCEPT !.tag.open = TRUE, !.tag.attributes = <<>>, !.tag.drop = FALSE,
              !.tag.isStart = isStart, !.tag.selfClosing = FALSE,
              !.tag.buffer = <<Lower(c)>>, !.tag.from = l.pos]

FinishTagName(l) == ReinitializeTagBuffer([l EXCEPT !.tag.name = l.tag.buffer])

AbandonTag(l) ==
    [l EXCEPT !.tag.open = FALSE, !.tag.attributes = <<>>, !.tag.buffer = <<>>]

HasAttribute(l, name) ==
    \E i \in DOMAIN l.tag.attributes : l.tag.attributes[i].name = name

\* A second attribute of the same name is left out, and its value will be.
FinishAttributeName(l) ==
    ReinitializeTagBuffer(
        IF HasAttribute(l, l.tag.buffer)
        THEN [l EXCEPT !.tag.drop = TRUE]
        ELSE [l EXCEPT !.tag.drop = FALSE,
                       !.tag.attributes = Append(@,
                          [name |-> l.tag.buffer, from |-> l.tag.from,
                           value |-> <<>>, valueFrom |-> l.tag.from])])

\* Mutant of FinishAttributeValue: the value of a dropped attribute is kept.
FinishValueUndropped(l) ==
    ReinitializeTagBuffer(
        [l EXCEPT !.tag.drop = FALSE,
                  !.tag.attributes[Len(l.tag.attributes)] =
                      [@ EXCEPT !.value = l.tag.buffer, !.valueFrom = l.tag.from]])

FinishAttributeValue(l) ==
    ReinitializeTagBuffer(
        IF l.tag.drop
        THEN [l EXCEPT !.tag.drop = FALSE]
        ELSE [l EXCEPT !.tag.attributes[Len(l.tag.attributes)] =
                  [@ EXCEPT !.value = l.tag.buffer, !.valueFrom = l.tag.from]])

IsAppropriateEndTag(l) == l.tag.buffer = l.last

-----------------------------------------------------------------------------
(* The doctype: its identifiers are sets of at most one text. *)
NoDoctype  == [open |-> FALSE, name |-> <<>>, public |-> {}, system |-> {}, quirks |-> FALSE]
Quirks(l)  == [l EXCEPT !.doctype.quirks = TRUE]

FinishDoctypeName(l) == ClearTemporary([l EXCEPT !.doctype.name = l.temp])

\* Mutant of FinishPublicId: the identifier stays in the buffer.
FinishPublicIdKept(l) == [l EXCEPT !.doctype.public = {l.temp}]

FinishPublicId(l) == ClearTemporary([l EXCEPT !.doctype.public = {l.temp}])
FinishSystemId(l) == ClearTemporary([l EXCEPT !.doctype.system = {l.temp}])

-----------------------------------------------------------------------------
(* Going on to the next character, and handing a token over. *)
To(state)  == [lexer EXCEPT !.state = state]
Again(l)   == [l EXCEPT !.again = TRUE]

\* Mutant of Settled: the mark to look at the character again stays.
SettledAgain(l) == IF l.again THEN l ELSE Advance(l)

Settled(l) == IF l.again THEN [l EXCEPT !.again = FALSE] ELSE Advance(l)

NextChar(l) ==
    /\ lexer' = Settled(l)
    /\ UNCHANGED <<input, tokens, turn>>

\* A token with the text it stands for, from one place of the input to another.
Located(token, from, to) ==
    LET place == [from |-> from, to |-> to, then |-> "data"]
    IN  [field \in DOMAIN token \cup DOMAIN place |->
            IF field \in DOMAIN place THEN place[field] ELSE token[field]]

\* Mutant of Emit: the next token starts where the iterator was.
EmitEarly(l, token) ==
    /\ lexer'  = [Settled(l) EXCEPT !.start = l.pos]
    /\ tokens' = Append(tokens, Located(token, l.start, Settled(l).pos))
    /\ turn'   = "parser"
    /\ UNCHANGED input

\* The token's text goes up to where the iterator stands afterwards.
Emit(l, token) ==
    /\ lexer'  = [Settled(l) EXCEPT !.start = Settled(l).pos]
    /\ tokens' = Append(tokens, Located(token, l.start, Settled(l).pos))
    /\ turn'   = "parser"
    /\ UNCHANGED input

CharType(s) ==
    CASE s = " " -> "whitespace" [] s = NUL -> "null" [] s = EOF -> "eof"
      [] OTHER -> "character"
EmitChar(l, s) == Emit(l, [type |-> CharType(s), char |-> s])

\* The input goes back to the mark, and the buffer goes out symbol by symbol.
FlushFrom(l, i) ==
    EmitChar([l EXCEPT !.again = FALSE, !.flush = IF i < Len(l.temp) THEN i + 1 ELSE 0],
             l.temp[i])
EmitTemporary(l) == FlushFrom([l EXCEPT !.pos = l.mark], 1)

EmitTag(l) ==
    Emit([AbandonTag(l) EXCEPT !.last = IF l.tag.isStart THEN l.tag.name ELSE @],
         [type |-> IF l.tag.isStart THEN "start" ELSE "end", name |-> l.tag.name,
          attributes |-> IF l.tag.isStart THEN l.tag.attributes ELSE <<>>,
          selfClosing |-> l.tag.isStart /\ l.tag.selfClosing])

EmitComment(l) == Emit(ClearTemporary(l), [type |-> "comment", text |-> l.temp])
EmitDoctype(l) ==
    Emit([l EXCEPT !.doctype = NoDoctype], [type |-> "doctype", doctype |-> l.doctype])

EmitCharRef(l) ==
    LET ref == ConsumeCharRef(l.pos, " ", FALSE)
        at  == [l EXCEPT !.mark = l.pos]
    IN  IF ref.first = NoChar
        THEN EmitChar(at, "&")
        ELSE EmitChar(Again([at EXCEPT !.pos = ref.pos, !.extra = ref.second]), ref.first)

-----------------------------------------------------------------------------
(* gumbo_lex: what was kept back comes first. *)
InitialLexer ==
    [state |-> "data", pos |-> 1, again |-> FALSE, mark |-> 1, start |-> 1,
     temp |-> <<>>, flush |-> 0, extra |-> NoChar, script |-> <<>>,
     tag |-> [open |-> FALSE, name |-> <<>>, attributes |-> <<>>, buffer |-> <<>>,
              from |-> 1, drop |-> FALSE, isStart |-> FALSE, selfClosing |-> FALSE,
              valueState |-> "data"],
     last |-> <<>>, doctype |-> NoDoctype, foreign |-> FALSE]

Lexing    == turn = "lexer"
At(state) == Lexing /\ lexer.extra = NoChar /\ lexer.flush = 0 /\ lexer.state = state

BufferedChar ==
    /\ Lexing /\ lexer.extra # NoChar
    /\ EmitChar(Again([lexer EXCEPT !.extra = NoChar]), lexer.extra)

FlushTemporary ==
    /\ Lexing /\ lexer.extra = NoChar /\ lexer.flush # 0
    /\ FlushFrom(lexer, lexer.flush)
=============================================================================
