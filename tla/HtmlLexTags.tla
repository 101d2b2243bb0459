---------------------------- MODULE HtmlLexTags ----------------------------
(***************************************************************************)
(* The handlers of the tokenizer for tags and their attributes.            *)
(***************************************************************************)
EXTENDS HtmlLexText

TagOpen ==
    /\ At("tag open")
    /\ \/ c = "!" /\ NextChar(ClearTemporary(To("markup declaration")))
       \/ c = "/" /\ NextChar(AppendTemporary(To("end tag open"), <<"/">>))
       \/ c = "?" /\ NextChar(AppendTemporary(ClearTemporary(To("bogus comment")), <<"?">>))
       \/ c \in Letters /\ NextChar(StartNewTag(To("tag name"), TRUE))
       \/ c \notin Letters \cup {"!", "/", "?"} /\ EmitTemporary(To("data"))

\* "</>" is passed over.
EndTagOpenState ==
    /\ At("end tag open")
    /\ \/ c = ">" /\ NextChar(To("data"))
       \/ c = EOF /\ EmitTemporary(To("data"))
       \/ c \in Letters /\ NextChar(StartNewTag(To("tag name"), FALSE))
       \/ /\ c \notin Letters \cup {">", EOF}
          /\ NextChar(AppendTemporary(ClearTemporary(To("bogus comment")), <<c>>))

\* The end of the input inside a tag: the tag is dropped.
TagCutOff == c = EOF /\ NextChar(AbandonTag(To("data")))

TagName ==
    /\ At("tag name")
    /\ \/ NameEnded
       \/ TagCutOff
       \/ c \notin NameEnds \cup {EOF} /\ NextChar(AppendTag(lexer, Lower(Unnulled(c)), TRUE))

-----------------------------------------------------------------------------
(* Names of attributes. *)
AttributeFollows ==
    \/ c = "/" /\ NextChar(To("self closing"))
    \/ c = ">" /\ EmitTag(To("data"))

\* A null goes to the wrong buffer: the name stays empty.
AttributeBegins(none) ==
    \/ c = NUL /\ NextChar(AppendTemporary(To("attr name"), <<Replacement>>))
    \/ c \notin none \cup {NUL} /\ NextChar(AppendTag(To("attr name"), Lower(c), TRUE))

BeforeAttrName ==
    /\ At("before attr name")
    /\ \/ c = " " /\ NextChar(lexer)
       \/ AttributeFollows
       \/ TagCutOff
       \/ AttributeBegins(NameEnds \cup {EOF})

AttrName ==
    /\ At("attr name")
    /\ \/ c = " " /\ NextChar(FinishAttributeName(To("after attr name")))
       \/ c = "/" /\ NextChar(FinishAttributeName(To("self closing")))
       \/ c = "=" /\ NextChar(FinishAttributeName(To("before attr value")))
       \/ c = ">" /\ EmitTag(FinishAttributeName(To("data")))
       \/ TagCutOff
       \/ c \notin NameEnds \cup {"=", EOF}
          /\ NextChar(AppendTag(lexer, Lower(Unnulled(c)), TRUE))

AfterAttrName ==
    /\ At("after attr name")
    /\ \/ c = " " /\ NextChar(lexer)
       \/ AttributeFollows
       \/ c = "=" /\ NextChar(To("before attr value"))
       \/ TagCutOff
       \/ AttributeBegins(NameEnds \cup {"=", EOF})

-----------------------------------------------------------------------------
(* Values of attributes. *)
ValueStates == [quote \in Quotes |->
    IF quote = "\"" THEN "attr value double quoted" ELSE "attr value single quoted"]
QuoteOf == [state \in Range(ValueStates) \cup {"attr value unquoted"} |->
    CASE state = "attr value double quoted" -> "\""
      [] state = "attr value single quoted" -> "'"
      [] state = "attr value unquoted"      -> ">"]

ValueCutOff == c = EOF /\ NextChar(Again(AbandonTag(To("data"))))

BeforeAttrValue ==
    /\ At("before attr value")
    /\ \/ c = " " /\ NextChar(lexer)
       \/ c \in Quotes /\ NextChar([To(ValueStates[c]) EXCEPT !.tag.from = lexer.pos])
       \/ c = "&" /\ NextChar(Again(To("attr value unquoted")))
       \/ ValueCutOff
       \/ c = ">" /\ EmitTag(To("data"))
       \/ c \notin {" ", "&", ">", EOF} \cup Quotes
          /\ NextChar(AppendTag(To("attr value unquoted"), Unnulled(c), TRUE))

ToCharRef ==
    /\ c = "&"
    /\ NextChar(Again([To("char ref in attr value") EXCEPT !.tag.valueState = lexer.state]))

AttrValueQuoted(quote) ==
    /\ At(ValueStates[quote])
    /\ \/ c = quote /\ NextChar(To("after attr value quoted"))
       \/ ToCharRef
       \/ ValueCutOff
       \/ c \notin {quote, "&", EOF} /\ NextChar(AppendTag(lexer, Unnulled(c), FALSE))

AttrValueUnquoted ==
    /\ At("attr value unquoted")
    /\ \/ c = " " /\ NextChar(FinishAttributeValue(To("before attr name")))
       \/ ToCharRef
       \/ c = ">" /\ EmitTag(FinishAttributeValue(To("data")))
       \/ ValueCutOff
       \/ c \notin {" ", "&", ">", EOF} /\ NextChar(AppendTag(lexer, Unnulled(c), TRUE))

AppendSecond(l, s, fromHere) == IF s = NoChar THEN l ELSE AppendTag(l, s, fromHere)

CharRefInAttrValue ==
    LET unquoted == lexer.tag.valueState = "attr value unquoted"
        ref  == ConsumeCharRef(lexer.pos, QuoteOf[lexer.tag.valueState], TRUE)
        back == [To(lexer.tag.valueState) EXCEPT !.mark = lexer.pos, !.pos = ref.pos]
    IN  /\ At("char ref in attr value")
        /\ \/ ref.first = NoChar /\ NextChar(AppendTag(back, "&", unquoted))
           \/ /\ ref.first # NoChar
              /\ NextChar(Again(AppendSecond(
                    AppendTag(back, ref.first, unquoted), ref.second, unquoted)))

AfterAttrValueQuoted ==
    /\ At("after attr value quoted")
    /\ LET finished(state) == FinishAttributeValue(To(state))
       IN  \/ c = " " /\ NextChar(finished("before attr name"))
           \/ c = "/" /\ NextChar(finished("self closing"))
           \/ c = ">" /\ EmitTag(finished("data"))
           \/ c = EOF /\ NextChar(Again(AbandonTag(finished("data"))))
           \/ c \notin NameEnds \cup {EOF} /\ NextChar(Again(finished("before attr name")))

SelfClosing ==
    /\ At("self closing")
    /\ \/ c = ">" /\ EmitTag([To("data") EXCEPT !.tag.selfClosing = TRUE])
       \/ TagCutOff
       \/ c \notin {">", EOF} /\ NextChar(Again(To("before attr name")))

TagState ==
    \/ TagOpen \/ EndTagOpenState \/ TagName
    \/ BeforeAttrName \/ AttrName \/ AfterAttrName
    \/ BeforeAttrValue \/ AttrValueUnquoted \/ CharRefInAttrValue
    \/ (\E quote \in Quotes : AttrValueQuoted(quote))
    \/ AfterAttrValueQuoted \/ SelfClosing
=============================================================================
