--------------------------- MODULE HtmlTokenizer ---------------------------
(***************************************************************************)
(* The tokenizer of gumbo as a whole: gumbo_lex with the loop of the       *)
(* parser around it, which acts on a token before the next one is read and *)
(* may then set the tokenizer's state (gumbo_parse_with_options).  What    *)
(* the tokens must be is stated in terms of the document.                  *)
(***************************************************************************)
EXTENDS HtmlLexMarkup

CONSTANT Documents     \* families of documents: a start, and up to len symbols
                       \* of a set in any order

\* The end of the input is not a symbol of it.
ASSUME DocumentsAssumption ==
    \A family \in Documents :
        /\ family.start \in Seq(STRING \ {EOF})
        /\ family.then \subseteq STRING \ {EOF}
        /\ family.len \in Nat

Finished == tokens # <<>> /\ Last(tokens).type = "eof"

\* The states in which the text of an element is read.
TextOf == [name \in {<<"title">>, <<"style">>, <<"script">>, <<"plaintext">>} |->
    CASE name = <<"title">>     -> "rcdata"
      [] name = <<"style">>     -> "rawtext"
      [] name = <<"script">>    -> "script"
      [] name = <<"plaintext">> -> "plaintext"]

\* The parser may drop a tag, so a switch of the state is its choice here; in
\* foreign content it makes none.
Switches(token) ==
    {lexer.state} \cup
        (IF token.type = "start" /\ ~lexer.foreign /\ token.name \in DOMAIN TextOf
         THEN {TextOf[token.name]} ELSE {})

Foreigns(token) ==
    {lexer.foreign} \cup
        (IF token.type \notin {"start", "end"} \/ token.name # <<"svg">>
         THEN {} ELSE {token.type = "start"})

React ==
    /\ turn = "parser" /\ ~Finished
    /\ \E state \in Switches(Last(tokens)), foreign \in Foreigns(Last(tokens)) :
        /\ lexer'  = [lexer EXCEPT !.state = state, !.foreign = foreign]
        /\ tokens' = [tokens EXCEPT ![Len(tokens)].then = state]
    /\ turn' = "lexer"
    /\ UNCHANGED input

Init ==
    /\ \E family \in Documents : \E rest \in BoundedSeq(family.then, family.len) :
            input = family.start \o rest
    /\ lexer = InitialLexer
    /\ tokens = <<>>
    /\ turn = "lexer"

Next ==
    \/ BufferedChar \/ FlushTemporary
    \/ TextState \/ TagState \/ MarkupState
    \/ React

Spec == Init /\ [][Next]_vars /\ WF_vars(Next)

-----------------------------------------------------------------------------
(* Asserts of tokenizer.c. *)
OpenStates       == {"tag open", "rcdata lt", "rawtext lt", "script lt", "script escaped lt"}
EndTagOpenStates == {"end tag open"} \cup {EndTagOpen[state] : state \in RawStates}
EndTagNameStates == {EndTagName[state] : state \in RawStates}
AttributeStates ==
    {"tag name", "before attr name", "attr name", "after attr name", "before attr value",
     "attr value unquoted", "char ref in attr value", "after attr value quoted", "self closing",
     ValueStates["\""], ValueStates["'"]}
IdStates ==
    {"doctype", "after doctype public keyword", "before doctype public id",
     "after doctype public id", "between doctype ids", "after doctype system keyword",
     "before doctype system id"}

DoctypeStates ==
    IdStates \cup {"before doctype name", "doctype name", "after doctype name",
                   "before doctype system id", "after doctype system id", "bogus doctype"}
        \cup Range(PublicIdQuoted) \cup Range(SystemIdQuoted)

\* The buffers are as each state expects them, though states far apart fill
\* and empty them: what was kept back since "<" for the states after it, no
\* leftover where an identifier of a doctype begins, a tag under way exactly
\* where its parts are read, a doctype's texts only until it is handed over,
\* and a flushed symbol that is the current one (asserts of tokenizer.c at 623,
\* 691, 781, 835, 870, 1012-1455, 2245-2678).  The texts stay, against 870,
\* where the document ends after a public identifier.
LexerAsserts ==
    /\ lexer.flush # 0 => lexer.temp[lexer.flush] = c
    /\ Lexing /\ lexer.flush = 0 /\ lexer.extra = NoChar =>
        /\ lexer.state \in OpenStates => lexer.temp = <<"<">>
        /\ lexer.state \in EndTagOpenStates => lexer.temp = <<"<", "/">>
        /\ lexer.state \in EndTagNameStates => Len(lexer.temp) >= 2 /\ ~lexer.tag.isStart
        /\ lexer.state = "script escaped lt" => lexer.script = <<>>
        /\ lexer.state \in IdStates => lexer.temp = <<>>
        /\ lexer.doctype.open => lexer.state \in DoctypeStates \/ c = EOF
        /\ lexer.tag.open <=> lexer.state \in AttributeStates \cup EndTagNameStates

-----------------------------------------------------------------------------
(* Tokens and the text they stand for. *)
IsChar(token)  == token.type \in {"character", "whitespace", "null"}
TextOfToken(token) == SubSeq(input, token.from, token.to - 1)

\* What is passed over without a token of its own: "</>", the marks of CDATA.
PassedOver == {<<"<", "/", ">">>, <<"<", "!", "[CDATA[">>, <<"]", "]", ">">>}
IsPassedOver(from, to) ==
    \A p \in from .. to - 1 : \E mark \in PassedOver, q \in p - 2 .. p :
        /\ from <= q /\ p < q + Len(mark) /\ q + Len(mark) <= to
        /\ Matches(q, mark)

\* What a character token's own text can be.
StandsFor(text, s) ==
    \/ text = <<s>>
    \/ text = <<NUL>> /\ s = Replacement
    \/ text # <<>> /\ Head(text) = "&" /\ Len(text) > 1 /\ s \in {"<", "u", Replacement}

CharIsFound(token) ==
    \/ token.char = "v" /\ token.from = token.to
    \/ \E p \in token.from .. token.to - 1 :
        /\ IsPassedOver(token.from, p)
        /\ StandsFor(SubSeq(input, p, token.to - 1), token.char)

TagIsFound(token) ==
    LET text == TextOfToken(token)
    IN  Len(text) >= 2 /\ text[1] = "<" /\ Last(text) = ">"

\* Nothing of the document is lost or read twice, however often the iterator
\* went back to its mark: each token starts where the one before it ended, but
\* for marks of CDATA; a character token is the text it stands for, after marks
\* that have no token; a tag goes from "<" to ">"; and the end of the input
\* comes last (finish_token, emit_temporary_buffer; asserts at 554-556).
TextIsCovered ==
    \A i \in DOMAIN tokens :
        /\ IsPassedOver(IF i = 1 THEN 1 ELSE tokens[i - 1].to, tokens[i].from)
        /\ IsChar(tokens[i]) => CharIsFound(tokens[i])
        /\ tokens[i].type \in {"start", "end"} => TagIsFound(tokens[i])
        /\ tokens[i].type = "eof" => i = Len(tokens) /\ tokens[i].to = Len(input) + 1

-----------------------------------------------------------------------------
(* Attributes. *)
\* The first "=" after the attribute's name.
EqualsSigns(from, to) == {p \in from + 1 .. to - 1 : input[p] = "="}

\* No two attributes of a tag have one name, and each has the value that
\* follows its own name in the document, never that of a second attribute of
\* its name, whose value is passed over (finish_attribute_name, and
\* finish_attribute_value with _drop_next_attr_value).
AttributesAreOwn ==
    \A i \in DOMAIN tokens : tokens[i].type = "start" =>
        LET attributes == tokens[i].attributes
        IN  \A j \in DOMAIN attributes :
                /\ \A k \in DOMAIN attributes :
                        attributes[j].name = attributes[k].name => j = k
                /\ attributes[j].value # <<>> =>
                        Cardinality(EqualsSigns(attributes[j].from, attributes[j].valueFrom)) = 1

-----------------------------------------------------------------------------
(* Text that only its own end tag ends. *)
TagNameAt(p, name) == Lower(CharAt(p)) = Head(name) /\ CharAt(p + 1) \in NameEnds
EndTagAt(p, name)  == Matches(p, <<"<", "/">>) /\ TagNameAt(p + 2, name)
ScriptAt(p)        == CharAt(p) = "<" /\ TagNameAt(p + 1, <<"script">>)
EscapeAt(p)        == Matches(p, <<"<", "!", "-", "-">>)
EscapeEndAt(p)     == Matches(p, <<"-", "-", ">">>)

\* <!-- and then <script>, in the text from one place to another.
DoubleEscapes(from, to) ==
    {qr \in (from .. to - 1) \X (from .. to - 1) :
        qr[1] < qr[2] /\ EscapeAt(qr[1]) /\ ScriptAt(qr[2])}
StillOpen(qr, to) ==
    /\ \A p \in qr[1] + 2 .. to - 1 : ~EscapeEndAt(p)
    /\ \A p \in qr[2] .. to - 1 : ~EndTagAt(p, <<"script">>)

\* The text of an element that was switched to runs from its start tag to the
\* first tag, which is an end tag of its name: no other tag comes out of the
\* text, no such end tag is passed over in it unless it follows <!-- <script>,
\* and none ends a script while such a pair is open
\* (handle_rcdata_end_tag_name_state and the script states, with
\* is_appropriate_end_tag).
RawTextEnds ==
    \A i, j \in DOMAIN tokens :
        /\ i < j /\ tokens[i].type = "start" /\ tokens[i].then # "data"
        /\ ~IsChar(tokens[j]) /\ \A k \in i + 1 .. j - 1 : IsChar(tokens[k])
        =>
        LET name == tokens[i].name
            from == tokens[i].to
            to   == tokens[j].from
        IN  \/ tokens[j].type = "eof"
            \/ /\ tokens[i].then # "plaintext"
               /\ tokens[j].type = "end" /\ tokens[j].name = name
               /\ \A p \in from .. to - 1 :
                    EndTagAt(p, name) =>
                        tokens[i].then = "script" /\ DoubleEscapes(from, p) # {}
               /\ tokens[i].then = "script" =>
                    \A qr \in DoubleEscapes(from, to) : ~StillOpen(qr, to)

-----------------------------------------------------------------------------
\* Every document is read to its end: no state looks at a character again and
\* again (the comment at the end of gumbo_lex).
DocumentEnds == <>Finished
=============================================================================
