------------------------------ MODULE HtmlHead ------------------------------
(***************************************************************************)
(* The clauses of the insertion modes up to the body: handle_initial,      *)
(* handle_before_html, handle_before_head, handle_in_head,                 *)
(* handle_in_head_noscript, handle_after_head, and handle_text.            *)
(***************************************************************************)
EXTENDS HtmlTree

AnyStart == TokenIs({"start"})
AnyEnd == TokenIs({"end"})

(* End tags that stand for the element they close where it is implied.     *)
Closers == BodyHtml \cup {"br"}

-----------------------------------------------------------------------------
InitialSpace == At("initial") /\ TokenIs({"space"}) /\ Ignore

InitialComment ==
    /\ At("initial") /\ TokenIs({"comment"})
    /\ Handled(AppendComment(Begun, Doc))

InitialDoctype ==
    /\ At("initial") /\ TokenIs({"doctype"})
    /\ Handled([Begun EXCEPT !.quirks = parser.token.quirks, !.mode = "before html"])

InitialOther ==
    /\ At("initial") /\ ~TokenIs({"space", "comment", "doctype"})
    /\ Handled(Again([Begun EXCEPT !.quirks = TRUE, !.mode = "before html"]))

-----------------------------------------------------------------------------
Rooted(p) == To([p EXCEPT !.root = Current(p)], "before head")

BeforeHtmlIgnored ==
    /\ At("before html")
    /\ TokenIs({"doctype", "space"}) \/ (AnyEnd /\ ~EndTag(Closers \cup {"head"}))
    /\ Ignore

BeforeHtmlComment ==
    /\ At("before html") /\ TokenIs({"comment"})
    /\ Handled(AppendComment(Begun, Doc))

BeforeHtmlRoot == At("before html") /\ StartTag({"html"}) /\ Handled(Rooted(Insert(Begun)))

BeforeHtmlImplied ==
    /\ At("before html")
    /\ \/ TokenIs({"char", "null", "eof"})
       \/ AnyStart /\ ~StartTag({"html"})
       \/ EndTag(Closers \cup {"head"})
    /\ Handled(Again(Rooted(InsertOfTagType(Begun, "html"))))

-----------------------------------------------------------------------------
Headed(p) == To([p EXCEPT !.head = Current(p)], "in head")

BeforeHeadIgnored ==
    /\ At("before head")
    /\ TokenIs({"doctype", "space"}) \/ (AnyEnd /\ ~EndTag(Closers \cup {"head"}))
    /\ Ignore

BeforeHeadComment ==
    /\ At("before head") /\ TokenIs({"comment"})
    /\ Handled(AppendComment(Begun, Current(parser)))

BeforeHeadHead == At("before head") /\ StartTag({"head"}) /\ Handled(Headed(Insert(Begun)))

(* An html tag comes here too: only the head makes it find its clause.     *)
BeforeHeadImplied ==
    /\ At("before head")
    /\ \/ TokenIs({"char", "null", "eof"})
       \/ AnyStart /\ ~StartTag({"head"})
       \/ EndTag(Closers \cup {"head"})
    /\ Handled(Again(Headed(InsertOfTagType(Begun, "head"))))

-----------------------------------------------------------------------------
InHeadSpace == At("in head") /\ TokenIs({"space"}) /\ Handled(AddText(Begun))

InHeadIgnored ==
    /\ At("in head")
    /\ \/ TokenIs({"doctype"})
       \/ StartTag({"head"})
       \/ StartTag({"unknown"}) /\ parser.token.selfClosing
       \/ AnyEnd /\ ~EndTag(Closers \cup {"head"})
    /\ Ignore

InHeadComment ==
    /\ At("in head") /\ TokenIs({"comment"})
    /\ LET p == Begun IN Handled(AppendComment(p, Current(p)))

InHeadVoid ==
    /\ At("in head")
    /\ StartTag({"base", "basefont", "bgsound", "menuitem", "link", "meta"})
    /\ Handled(Pop(Insert(Begun)))

InHeadTitle == At("in head") /\ StartTag({"title"}) /\ Handled(GenericText(Begun, "rcdata"))

InHeadRaw ==
    /\ At("in head") /\ StartTag({"noframes", "style"})
    /\ Handled(GenericText(Begun, "rawtext"))

InHeadNoscript ==
    /\ At("in head") /\ StartTag({"noscript"})
    /\ Handled(To(Insert(Begun), "in head noscript"))

InHeadScript == At("in head") /\ StartTag({"script"}) /\ Handled(GenericText(Begun, "script"))

PopHead(p) == To(Check(Pop(p), Is(p, Current(p), {"head"}), "head"), "after head")

InHeadEnd == At("in head") /\ EndTag({"head"}) /\ Handled(PopHead(Begun))

InHeadOther ==
    /\ At("in head")
    /\ \/ TokenIs({"char", "null", "eof"})
       \/ EndTag(Closers)
       \/ StartTag({"unknown"}) /\ ~parser.token.selfClosing
       \/ AnyStart /\ ~StartTag(HeadTags \cup {"menuitem", "title", "script", "noscript",
                                               "head", "html", "unknown"})
    /\ Handled(Again(PopHead(Begun)))

-----------------------------------------------------------------------------
PopNoscript(p) == To(Check(Pop(p), Is(p, Current(p), {"noscript"}), "noscript"), "in head")

InNoscriptIgnored ==
    /\ At("in head noscript")
    /\ \/ TokenIs({"doctype"})
       \/ StartTag({"head", "noscript"})
       \/ AnyEnd /\ ~EndTag({"noscript", "br"})
    /\ Ignore

InNoscriptEnd ==
    At("in head noscript") /\ EndTag({"noscript"}) /\ Handled(PopNoscript(Begun))

InNoscriptOther ==
    /\ At("in head noscript")
    /\ \/ TokenIs({"char", "null", "eof"})
       \/ EndTag({"br"})
       \/ AnyStart /\ ~StartTag({"head", "noscript"})
    /\ Handled(Again(PopNoscript(Begun)))

-----------------------------------------------------------------------------
AfterHeadSpace == At("after head") /\ TokenIs({"space"}) /\ Handled(AddText(Begun))

AfterHeadIgnored ==
    /\ At("after head")
    /\ \/ TokenIs({"doctype"})
       \/ StartTag({"head"})
       \/ AnyEnd /\ ~EndTag(Closers)
    /\ Ignore

AfterHeadComment ==
    /\ At("after head") /\ TokenIs({"comment"})
    /\ Handled(AppendComment(Begun, Current(parser)))

AfterHeadBody ==
    /\ At("after head") /\ StartTag({"body"})
    /\ Handled(To(NoFrameset(Insert(Begun)), "in body"))

AfterHeadFrameset ==
    /\ At("after head") /\ StartTag({"frameset"})
    /\ Handled(To(Insert(Begun), "in frameset"))

AfterHeadImplied ==
    /\ At("after head")
    /\ \/ TokenIs({"char", "null", "eof"})
       \/ EndTag(Closers)
       \/ AnyStart /\ ~StartTag({"body", "frameset", "head"})
    /\ Handled(Again(To(InsertOfTagType(Begun, "body"), "in body")))

-----------------------------------------------------------------------------
(* A mutant: every character becomes a node of its own. *)
TextCharAlone == At("text") /\ TokenIs({"char", "space"}) /\ Handled(Flush(AddText(Begun)))

TextChar == At("text") /\ TokenIs({"char", "space"}) /\ Handled(AddText(Begun))

(* The end tag, or the end of the file, which is then read again.          *)
TextEnd ==
    /\ At("text") /\ ~TokenIs({"char", "space"})
    /\ LET p == To(Pop(Begun), parser.orig)
       IN  Handled(IF TokenIs({"eof"}) THEN Again(p) ELSE p)

-----------------------------------------------------------------------------
HandleInitial == InitialSpace \/ InitialComment \/ InitialDoctype \/ InitialOther

HandleBeforeHtml ==
    BeforeHtmlIgnored \/ BeforeHtmlComment \/ BeforeHtmlRoot \/ BeforeHtmlImplied

HandleBeforeHead ==
    BeforeHeadIgnored \/ BeforeHeadComment \/ BeforeHeadHead \/ BeforeHeadImplied

HandleInHead ==
    \/ InHeadSpace \/ InHeadIgnored \/ InHeadComment \/ InHeadVoid \/ InHeadTitle
    \/ InHeadRaw \/ InHeadNoscript \/ InHeadScript \/ InHeadEnd \/ InHeadOther

HandleInNoscript == InNoscriptIgnored \/ InNoscriptEnd \/ InNoscriptOther

HandleAfterHead ==
    \/ AfterHeadSpace \/ AfterHeadIgnored \/ AfterHeadComment
    \/ AfterHeadBody \/ AfterHeadFrameset \/ AfterHeadImplied

HandleText == TextChar \/ TextEnd
=============================================================================
