--------------------------- MODULE HtmlLexMarkup ---------------------------
(***************************************************************************)
(* The handlers of the tokenizer for what begins with <!: comments,        *)
(* doctypes and CDATA sections.                                            *)
(***************************************************************************)
EXTENDS HtmlLexTags

\* Everything up to ">" is the comment.
BogusComment ==
    /\ At("bogus comment")
    /\ \E end \in lexer.pos .. Len(input) + 1 :
        /\ CharAt(end) \in {">", EOF}
        /\ \A p \in lexer.pos .. end - 1 : CharAt(p) # ">"
        /\ LET rest == [i \in 1 .. end - lexer.pos |-> Unnulled(CharAt(lexer.pos + i - 1))]
           IN  EmitComment(AppendTemporary([To("data") EXCEPT !.pos = end], rest))

MarkupDeclaration ==
    /\ At("markup declaration")
    /\ \/ Match(<<"-", "-">>) /\ NextChar(Past(To("comment start"), <<"-", "-">>))
       \/ /\ Match(<<"doctype">>)
          /\ NextChar([Past(To("doctype"), <<"doctype">>) EXCEPT !.doctype.open = TRUE])
       \/ /\ lexer.foreign /\ Match(<<"[CDATA[">>)
          /\ NextChar(Past(To("cdata"), <<"[CDATA[">>))
       \/ /\ ~Match(<<"-", "-">>) /\ ~Match(<<"doctype">>)
          /\ ~(lexer.foreign /\ Match(<<"[CDATA[">>))
          /\ NextChar(Again(ClearTemporary(To("bogus comment"))))

-----------------------------------------------------------------------------
(* Comments. *)
CommentOver(ends) == c \in ends /\ EmitComment(To("data"))
InComment(ss)     == NextChar(AppendTemporary(To("comment"), Append(ss, Unnulled(c))))

CommentStart ==
    /\ At("comment start")
    /\ \/ c = "-" /\ NextChar(To("comment start dash"))
       \/ CommentOver({">", EOF})
       \/ c \notin {"-", ">", EOF} /\ InComment(<<>>)

CommentStartDash ==
    /\ At("comment start dash")
    /\ \/ c = "-" /\ NextChar(To("comment end"))
       \/ CommentOver({">", EOF})
       \/ c \notin {"-", ">", EOF} /\ InComment(<<"-">>)

Comment ==
    /\ At("comment")
    /\ \/ c = "-" /\ NextChar(To("comment end dash"))
       \/ CommentOver({EOF})
       \/ c \notin {"-", EOF} /\ InComment(<<>>)

CommentEndDash ==
    /\ At("comment end dash")
    /\ \/ c = "-" /\ NextChar(To("comment end"))
       \/ CommentOver({EOF})
       \/ c \notin {"-", EOF} /\ InComment(<<"-">>)

CommentEnd ==
    /\ At("comment end")
    /\ \/ c = "!" /\ NextChar(To("comment end bang"))
       \/ c = "-" /\ NextChar(AppendTemporary(lexer, <<"-">>))
       \/ CommentOver({">", EOF})
       \/ c \notin {"-", "!", ">", EOF} /\ InComment(<<"-", "-">>)

CommentEndBang ==
    /\ At("comment end bang")
    /\ \/ c = "-" /\ NextChar(AppendTemporary(To("comment end dash"), <<"-", "-", "!">>))
       \/ CommentOver({">", EOF})
       \/ c \notin {"-", ">", EOF} /\ InComment(<<"-", "-", "!">>)

-----------------------------------------------------------------------------
(* Doctypes.  Three of the states hand the token over and then go on to    *)
(* pass over the rest, at whose end they hand over a second one.           *)
DoctypeOver        == c = ">" /\ EmitDoctype(To("data"))
DoctypeCutOff(ends) == c \in ends /\ EmitDoctype(Quirks(To("data")))
DoctypeBlank       == c = " " /\ NextChar(lexer)

DoctypeState ==
    /\ At("doctype")
    /\ \/ c = " " /\ NextChar(To("before doctype name"))
       \/ DoctypeCutOff({EOF})
       \/ c \notin {" ", EOF} /\ NextChar(Again(Quirks(To("before doctype name"))))

BeforeDoctypeName ==
    /\ At("before doctype name")
    /\ \/ DoctypeBlank
       \/ DoctypeCutOff({">", EOF})
       \/ c = NUL /\ NextChar(AppendTemporary(Quirks(To("doctype name")), <<Replacement>>))
       \/ /\ c \notin {" ", ">", NUL, EOF}
          /\ NextChar(AppendTemporary([To("doctype name") EXCEPT !.doctype.quirks = FALSE],
                                      <<Lower(c)>>))

DoctypeName ==
    /\ At("doctype name")
    /\ \/ c = " " /\ NextChar(FinishDoctypeName(To("after doctype name")))
       \/ c = ">" /\ EmitDoctype(FinishDoctypeName(To("data")))
       \/ c = EOF /\ EmitDoctype(FinishDoctypeName(Quirks(To("data"))))
       \/ c = NUL /\ NextChar(AppendTemporary(lexer, <<Replacement>>))
       \/ /\ c \notin {" ", ">", NUL, EOF}
          /\ NextChar(AppendTemporary([lexer EXCEPT !.doctype.quirks = FALSE], <<Lower(c)>>))

AfterDoctypeName ==
    /\ At("after doctype name")
    /\ \/ DoctypeBlank
       \/ DoctypeOver
       \/ DoctypeCutOff({EOF})
       \/ c = "public" /\ NextChar(Past(To("after doctype public keyword"), <<"public">>))
       \/ c = "system" /\ NextChar(Past(To("after doctype system keyword"), <<"system">>))
       \/ /\ c \notin {" ", ">", EOF, "public", "system"}
          /\ NextChar(Quirks(To("bogus doctype")))

-----------------------------------------------------------------------------
(* Its identifiers. *)
PublicIdQuoted == [quote \in Quotes |->
    IF quote = "\"" THEN "public id double quoted" ELSE "public id single quoted"]
SystemIdQuoted == [quote \in Quotes |->
    IF quote = "\"" THEN "system id double quoted" ELSE "system id single quoted"]
IdBegins(quoted) == c \in Quotes /\ NextChar(To(quoted[c]))
NoId             == {" ", ">", EOF} \cup Quotes

AfterDoctypePublicKeyword ==
    /\ At("after doctype public keyword")
    /\ \/ c = " " /\ NextChar(To("before doctype public id"))
       \/ IdBegins(PublicIdQuoted)
       \/ DoctypeCutOff({">", EOF})
       \/ c \notin NoId /\ EmitDoctype(Quirks(To("bogus doctype")))

BeforeDoctypePublicId ==
    /\ At("before doctype public id")
    /\ \/ DoctypeBlank
       \/ IdBegins(PublicIdQuoted)
       \/ DoctypeCutOff({">", EOF})
       \/ c \notin NoId /\ EmitDoctype(Quirks(To("bogus doctype")))

DoctypeId(quoted, quote, after) ==
    LET finished(l) == IF quoted = PublicIdQuoted THEN FinishPublicId(l) ELSE FinishSystemId(l)
    IN  /\ At(quoted[quote])
        /\ \/ c = quote /\ NextChar(finished(To(after)))
           \/ c \in {">", EOF} /\ EmitDoctype(finished(Quirks(To("data"))))
           \/ c \notin {quote, ">", EOF} /\ NextChar(AppendTemporary(lexer, <<Unnulled(c)>>))

\* At the end of the input the token is not handed over.
AfterDoctypePublicId ==
    /\ At("after doctype public id")
    /\ \/ c = " " /\ NextChar(To("between doctype ids"))
       \/ DoctypeOver
       \/ IdBegins(SystemIdQuoted)
       \/ c = EOF /\ NextChar(Again(Quirks(To("data"))))
       \/ c \notin NoId /\ NextChar(Quirks(To("bogus doctype")))

BetweenDoctypeIds ==
    /\ At("between doctype ids")
    /\ \/ DoctypeBlank
       \/ DoctypeOver
       \/ IdBegins(SystemIdQuoted)
       \/ DoctypeCutOff({EOF})
       \/ c \notin NoId /\ EmitDoctype(Quirks(To("bogus doctype")))

AfterDoctypeSystemKeyword ==
    /\ At("after doctype system keyword")
    /\ \/ c = " " /\ NextChar(To("before doctype system id"))
       \/ IdBegins(SystemIdQuoted)
       \/ DoctypeCutOff({">", EOF})
       \/ c \notin NoId /\ NextChar(Quirks(To("bogus doctype")))

BeforeDoctypeSystemId ==
    /\ At("before doctype system id")
    /\ \/ DoctypeBlank
       \/ IdBegins(SystemIdQuoted)
       \/ DoctypeCutOff({">", EOF})
       \/ c \notin NoId /\ NextChar(Quirks(To("bogus doctype")))

AfterDoctypeSystemId ==
    /\ At("after doctype system id")
    /\ \/ DoctypeBlank
       \/ DoctypeOver
       \/ DoctypeCutOff({EOF})
       \/ c \notin {" ", ">", EOF} /\ NextChar(To("bogus doctype"))

BogusDoctype ==
    /\ At("bogus doctype")
    /\ \/ c \in {">", EOF} /\ EmitDoctype(To("data"))
       \/ c \notin {">", EOF} /\ NextChar(lexer)

-----------------------------------------------------------------------------
(* CDATA sections: "]]>" is in no token. *)
CdataEnd == c = EOF \/ Match(<<"]", "]", ">">>)
Cdata ==
    /\ At("cdata")
    /\ \/ /\ CdataEnd
          /\ LET end == IF c = EOF THEN lexer.pos ELSE lexer.pos + 3
             IN  NextChar([Again(To("data")) EXCEPT !.pos = end, !.start = end])
       \/ ~CdataEnd /\ EmitChar(lexer, c)

MarkupState ==
    \/ BogusComment \/ MarkupDeclaration
    \/ CommentStart \/ CommentStartDash \/ Comment
    \/ CommentEndDash \/ CommentEnd \/ CommentEndBang
    \/ DoctypeState \/ BeforeDoctypeName \/ DoctypeName \/ AfterDoctypeName
    \/ AfterDoctypePublicKeyword \/ BeforeDoctypePublicId
    \/ (\E quote \in Quotes :
            \/ DoctypeId(PublicIdQuoted, quote, "after doctype public id")
            \/ DoctypeId(SystemIdQuoted, quote, "after doctype system id"))
    \/ AfterDoctypePublicId \/ BetweenDoctypeIds
    \/ AfterDoctypeSystemKeyword \/ BeforeDoctypeSystemId \/ AfterDoctypeSystemId
    \/ BogusDoctype \/ Cdata
=============================================================================
