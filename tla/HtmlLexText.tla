---------------------------- MODULE HtmlLexText ----------------------------
(***************************************************************************)
(* The handlers of the tokenizer for text: data, RCDATA (title), RAWTEXT   *)
(* (style), script data with its escapes, and the tags that end them.      *)
(***************************************************************************)
EXTENDS HtmlLexer

\* The kinds of text whose end only their own end tag marks, and the states
\* that look for it.
RawStates == {"rcdata", "rawtext", "script", "script escaped"}
LessThan == [state \in RawStates |->
    CASE state = "rcdata"         -> "rcdata lt"
      [] state = "rawtext"        -> "rawtext lt"
      [] state = "script"         -> "script lt"
      [] state = "script escaped" -> "script escaped lt"]
EndTagOpen == [state \in RawStates |->
    CASE state = "rcdata"         -> "rcdata end tag open"
      [] state = "rawtext"        -> "rawtext end tag open"
      [] state = "script"         -> "script end tag open"
      [] state = "script escaped" -> "script escaped end tag open"]
EndTagName == [state \in RawStates |->
    CASE state = "rcdata"         -> "rcdata end tag name"
      [] state = "rawtext"        -> "rawtext end tag name"
      [] state = "script"         -> "script end tag name"
      [] state = "script escaped" -> "script escaped end tag name"]

NameEnds == {" ", "/", ">"}

\* To a state that looks at what follows "<", which is kept back.
Opened(state) == AppendTemporary(ClearTemporary(To(state)), <<"<">>)

-----------------------------------------------------------------------------
DataState ==
    /\ At("data")
    /\ \/ c = "&" /\ NextChar(Again(To("char ref in data")))
       \/ c = "<" /\ NextChar(Opened("tag open"))
       \/ c \notin {"&", "<"} /\ EmitChar(lexer, c)

CharRefInData   == At("char ref in data") /\ EmitCharRef(To("data"))
CharRefInRcdata == At("char ref in rcdata") /\ EmitCharRef(To("rcdata"))

Rcdata ==
    /\ At("rcdata")
    /\ \/ c = "&" /\ NextChar(Again(To("char ref in rcdata")))
       \/ c = "<" /\ NextChar(Opened("rcdata lt"))
       \/ c \notin {"&", "<"} /\ EmitChar(lexer, Unnulled(c))

RawText(state) ==
    /\ At(state)
    /\ \/ c = "<" /\ NextChar(Opened(LessThan[state]))
       \/ c # "<" /\ EmitChar(lexer, Unnulled(c))

Plaintext == At("plaintext") /\ EmitChar(lexer, Unnulled(c))

-----------------------------------------------------------------------------
(* An end tag in raw text: it counts if its name is that of the start tag, *)
(* otherwise all that was kept back is text.                               *)
ToEndTag(state) ==
    /\ c = "/"
    /\ NextChar(AppendTemporary(To(EndTagOpen[state]), <<"/">>))

RawLessThan(state) ==
    /\ At(LessThan[state])
    /\ \/ ToEndTag(state)
       \/ c # "/" /\ EmitTemporary(Again(To(state)))

ScriptLessThan ==
    /\ At("script lt")
    /\ \/ ToEndTag("script")
       \/ c = "!" /\ EmitTemporary(AppendTemporary(To("script escaped start"), <<"!">>))
       \/ c \notin {"/", "!"} /\ EmitTemporary(Again(To("script")))

EscapedLessThan ==
    /\ At("script escaped lt")
    /\ \/ ToEndTag("script escaped")
       \/ c \in Letters
          /\ EmitTemporary([AppendTemporary(To("script double escaped start"), <<c>>)
                                EXCEPT !.script = <<Lower(c)>>])
       \/ c \notin Letters \cup {"/"} /\ EmitTemporary(To("script escaped"))

RawEndTagOpen(state) ==
    /\ At(EndTagOpen[state])
    /\ \/ c \in Letters
          /\ NextChar(AppendTemporary(StartNewTag(To(EndTagName[state]), FALSE), <<c>>))
       \/ c \notin Letters /\ EmitTemporary(To(state))

NameEnded ==
    \/ c = " " /\ NextChar(FinishTagName(To("before attr name")))
    \/ c = "/" /\ NextChar(FinishTagName(To("self closing")))
    \/ c = ">" /\ EmitTag(FinishTagName(To("data")))

RawEndTagName(state) ==
    /\ At(EndTagName[state])
    /\ \/ c \in Letters
          /\ NextChar(AppendTemporary(AppendTag(lexer, Lower(c), TRUE), <<c>>))
       \/ IsAppropriateEndTag(lexer) /\ NameEnded
       \/ /\ c \notin Letters
          /\ ~IsAppropriateEndTag(lexer) \/ c \notin NameEnds
          /\ EmitTemporary(AbandonTag(To(state)))

-----------------------------------------------------------------------------
(* Script data between <!-- and -->, once more between <script> and        *)
(* </script> in there.                                                     *)
EscapedStart ==
    /\ At("script escaped start")
    /\ \/ c = "-" /\ EmitChar(To("script escaped start dash"), c)
       \/ c # "-" /\ NextChar(Again(To("script")))

EscapedStartDash ==
    /\ At("script escaped start dash")
    /\ \/ c = "-" /\ EmitChar(To("script escaped dash dash"), c)
       \/ c # "-" /\ NextChar(Again(To("script")))

\* The "<" of escaped data is kept back, that of doubly escaped data is text.
EscapedOpens ==
    /\ c = "<"
    /\ NextChar(Opened("script escaped lt"))
DoubleOpens ==
    /\ c = "<"
    /\ EmitChar(To("script double escaped lt"), c)

Escaped ==
    /\ At("script escaped")
    /\ \/ c = "-" /\ EmitChar(To("script escaped dash"), c)
       \/ EscapedOpens
       \/ c \notin {"-", "<"} /\ EmitChar(lexer, Unnulled(c))

DoubleEscaped ==
    /\ At("script double escaped")
    /\ \/ c = "-" /\ EmitChar(To("script double escaped dash"), c)
       \/ DoubleOpens
       \/ c = EOF /\ NextChar(To("data"))
       \/ c \notin {"-", "<", EOF} /\ EmitChar(lexer, Unnulled(c))

AfterDash(state, dashDash, opens) ==
    \/ c = "-" /\ EmitChar(To(dashDash), c)
    \/ opens
    \/ c = EOF /\ NextChar(To("data"))
    \/ c \notin {"-", "<", ">", EOF} /\ EmitChar(To(state), Unnulled(c))

EscapedDash ==
    /\ At("script escaped dash")
    /\ \/ AfterDash("script escaped", "script escaped dash dash", EscapedOpens)
       \/ c = ">" /\ EmitChar(To("script escaped"), c)

EscapedDashDash ==
    /\ At("script escaped dash dash")
    /\ \/ AfterDash("script escaped", "script escaped dash dash", EscapedOpens)
       \/ c = ">" /\ EmitChar(To("script"), c)

DoubleEscapedDash ==
    /\ At("script double escaped dash")
    /\ \/ AfterDash("script double escaped", "script double escaped dash dash", DoubleOpens)
       \/ c = ">" /\ EmitChar(To("script double escaped"), c)

DoubleEscapedDashDash ==
    /\ At("script double escaped dash dash")
    /\ \/ AfterDash("script double escaped", "script double escaped dash dash", DoubleOpens)
       \/ c = ">" /\ EmitChar(To("script"), c)

DoubleEscapedLessThan ==
    /\ At("script double escaped lt")
    /\ \/ c = "/" /\ EmitChar([To("script double escaped end") EXCEPT !.script = <<>>], c)
       \/ c # "/" /\ NextChar(Again(To("script double escaped")))

\* The name of a tag in escaped data goes out as text and is kept in a buffer.
NameOfScript(whenScript, otherwise) ==
    \/ /\ c \in NameEnds
       /\ EmitChar(To(IF lexer.script = <<"script">> THEN whenScript ELSE otherwise), c)
    \/ c \in Letters /\ EmitChar([lexer EXCEPT !.script = Append(@, Lower(c))], c)
    \/ c \notin NameEnds \cup Letters /\ NextChar(Again(To(otherwise)))

DoubleEscapedStart ==
    /\ At("script double escaped start")
    /\ NameOfScript("script double escaped", "script escaped")

\* Mutant of DoubleEscapedEnd: doubly escaped data ends at any end tag.
DoubleEscapedEndAny ==
    /\ At("script double escaped end")
    /\ NameOfScript("script escaped", "script escaped")

DoubleEscapedEnd ==
    /\ At("script double escaped end")
    /\ NameOfScript("script escaped", "script double escaped")

TextState ==
    \/ DataState \/ CharRefInData
    \/ Rcdata \/ CharRefInRcdata \/ RawText("rawtext") \/ RawText("script") \/ Plaintext
    \/ RawLessThan("rcdata") \/ RawLessThan("rawtext") \/ ScriptLessThan \/ EscapedLessThan
    \/ \E state \in RawStates : RawEndTagOpen(state) \/ RawEndTagName(state)
    \/ EscapedStart \/ EscapedStartDash \/ Escaped \/ EscapedDash \/ EscapedDashDash
    \/ DoubleEscapedStart \/ DoubleEscaped \/ DoubleEscapedDash \/ DoubleEscapedDashDash
    \/ DoubleEscapedLessThan \/ DoubleEscapedEnd
=============================================================================
