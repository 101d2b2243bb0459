------------------------------ MODULE HtmlRest ------------------------------
(***************************************************************************)
(* The remaining handlers: handle_in_select, handle_in_select_in_table,    *)
(* handle_after_body, handle_in_frameset, handle_after_frameset, the two   *)
(* handle_after_after ones, and handle_in_foreign_content.                 *)
(***************************************************************************)
EXTENDS HtmlTables

PopIf(p, tags) == IF Is(p, Current(p), tags) THEN Pop(p) ELSE p

SelectText == At("in select") /\ TokenIs({"char", "space"}) /\ Handled(AddText(Begun))

SelectComment ==
    /\ At("in select") /\ TokenIs({"comment"})
    /\ Handled(AppendComment(Begun, Current(parser)))

SelectOption ==
    /\ At("in select") /\ StartTag({"option"})
    /\ Handled(Insert(PopIf(Begun, {"option"})))

SelectOptgroup ==
    /\ At("in select") /\ StartTag({"optgroup"})
    /\ Handled(Insert(PopIf(PopIf(Begun, {"option"}), {"optgroup"})))

SelectOptgroupEnd ==
    /\ At("in select") /\ EndTag({"optgroup"})
    /\ LET below == parser.open[Len(parser.open) - 1]
       IN  Handled(PopIf(IF Is(parser, below, {"optgroup"}) THEN PopIf(Begun, {"option"})
                         ELSE Begun, {"optgroup"}))

SelectOptionEnd ==
    At("in select") /\ EndTag({"option"}) /\ Handled(PopIf(Begun, {"option"}))

SelectEnd ==
    /\ At("in select") /\ EndTag({"select"})
    /\ Handled(IF HasInSelectScope(parser, "select") THEN CloseSelect(Begun) ELSE Begun)

(* A select in a select ends it, in scope or not. *)
SelectSelect ==
    At("in select") /\ StartTag({"select"}) /\ Handled(Destroyed(CloseSelect(Begun)))

SelectInput ==
    /\ At("in select") /\ StartTag({"input", "keygen", "textarea"})
    /\ Handled(IF HasInSelectScope(parser, "select") THEN Again(CloseSelect(Begun))
               ELSE Destroyed(Begun))

SelectEof == At("in select") /\ TokenIs({"eof"}) /\ Handled(Begun)

SelectIgnored ==
    /\ At("in select")
    /\ \/ TokenIs({"null", "doctype"})
       \/ AnyStart /\ ~StartTag({"option", "optgroup", "select", "input", "keygen", "textarea"})
       \/ AnyEnd /\ ~EndTag({"option", "optgroup", "select"})
    /\ Ignore

SelectTableStart ==
    At("in select in table") /\ AnyStart /\ Handled(Again(CloseSelect(Begun)))

SelectTableEnd ==
    /\ At("in select in table") /\ AnyEnd
    /\ Handled(IF HasInTableScope(parser, Tag) THEN Again(ResetMode(CloseSelect(Begun)))
               ELSE Begun)

-----------------------------------------------------------------------------
(* Comments after the body belong to the root, those after it to the       *)
(* document.                                                               *)
AfterBodyComment ==
    /\ At("after body") /\ TokenIs({"comment"})
    /\ Handled(AppendComment(Begun, parser.root))

AfterBodyIgnored == At("after body") /\ TokenIs({"doctype"}) /\ Ignore

AfterBodyEnd ==
    /\ At("after body") /\ EndTag({"html"})
    /\ Handled(To(Check(Begun, Is(parser, parser.open[1], {"html"}), "after_body"),
                  "after after body"))

AfterBodyEof ==
    /\ At("after body") \/ At("after after body")
    /\ TokenIs({"eof"})
    /\ Handled(Begun)

(* A mutant: the token is read again in the same mode. *)
AfterBodyAgain ==
    /\ \/ At("after body") /\ ~TokenIs({"comment", "doctype", "eof"}) /\ ~EndTag({"html"})
       \/ At("after after body") /\ ~TokenIs({"comment", "eof"})
    /\ Handled(Again(Begun))

AfterBodyOther ==
    /\ \/ /\ At("after body")
          /\ ~TokenIs({"comment", "doctype", "eof"}) /\ ~EndTag({"html"})
       \/ /\ At("after after body")
          /\ ~TokenIs({"comment", "eof"})
    /\ Handled(Again(To(Begun, "in body")))

AfterAfterComment ==
    /\ At("after after body") \/ At("after after frameset")
    /\ TokenIs({"comment"})
    /\ Handled(AppendComment(Begun, Doc))

-----------------------------------------------------------------------------
FramesetModes == {"in frameset", "after frameset"}
AtFrames == \E m \in FramesetModes : At(m)

FramesSpace == AtFrames /\ TokenIs({"space"}) /\ Handled(AddText(Begun))

FramesComment ==
    AtFrames /\ TokenIs({"comment"}) /\ Handled(AppendComment(Begun, Current(parser)))

FramesetStart == At("in frameset") /\ StartTag({"frameset"}) /\ Handled(Insert(Begun))

FramesetEnd ==
    /\ At("in frameset") /\ EndTag({"frameset"})
    /\ LET p == Pop(Begun)
       IN  Handled(IF Is(parser, Current(parser), {"html"}) THEN Begun
                   ELSE IF Is(p, Current(p), {"frameset"}) THEN p
                   ELSE To(p, "after frameset"))

FramesetFrame == At("in frameset") /\ StartTag({"frame"}) /\ Handled(Pop(Insert(Begun)))

AfterFramesetEnd ==
    /\ At("after frameset") /\ EndTag({"html"})
    /\ Handled(To(Check(Begun, Is(parser, parser.open[1], {"html"}), "after_frameset"),
                  "after after frameset"))

FramesEof ==
    /\ AtFrames \/ At("after after frameset")
    /\ TokenIs({"eof"})
    /\ Handled(Begun)

FramesIgnored ==
    /\ \/ /\ At("in frameset")
          /\ ~StartTag({"frameset", "frame"}) /\ ~EndTag({"frameset"})
       \/ /\ At("after frameset")
          /\ ~EndTag({"html"})
       \/ At("after after frameset")
    /\ ~TokenIs({"space", "comment", "eof"})
    /\ Ignore

-----------------------------------------------------------------------------
(* handle_in_foreign_content *)
ForeignText ==
    /\ At("in foreign content") /\ TokenIs({"space", "char"})
    /\ Handled(IF TokenIs({"char"}) THEN NoFrameset(AddText(Begun)) ELSE AddText(Begun))

(* NULL becomes a replacement character and leaves the frameset flag.      *)
ForeignNull ==
    /\ At("in foreign content") /\ TokenIs({"null"})
    /\ Handled(AddText([Begun EXCEPT !.token.type = "char"]))

ForeignComment ==
    /\ At("in foreign content") /\ TokenIs({"comment"})
    /\ Handled(AppendComment(Begun, Current(parser)))

ForeignDoctype == At("in foreign content") /\ TokenIs({"doctype"}) /\ Ignore

Breakout ==
    \/ StartTag({"b", "big", "blockquote", "body", "br", "center", "code", "dd", "div", "dl",
                 "dt", "em", "embed", "h1", "h2", "h3", "h4", "h5", "h6", "head", "hr", "i",
                 "img", "li", "listing", "menu", "meta", "nobr", "ol", "p", "pre", "ruby",
                 "s", "small", "span", "strong", "strike", "sub", "sup", "table", "tt", "u",
                 "ul", "var"})
    \/ StartTag({"font"}) /\ HasAttr("color")

(* At least one pop, down to html or an integration point. *)
ForeignBreakout ==
    /\ At("in foreign content") /\ Breakout
    /\ LET i == SelectLastInSeq(Front(parser.open), LAMBDA n :
                    \/ parser.nodes[n].ns = "html"
                    \/ IsMathMLIntegrationPoint(parser, n)
                    \/ IsHtmlIntegrationPoint(parser, n))
       IN  Handled(Again(Cut(Begun, i)))

ForeignStart ==
    /\ At("in foreign content") /\ AnyStart /\ ~Breakout
    /\ LET p == InsertFromToken(Begun, parser.nodes[Current(parser)].ns)
       IN  Handled(IF parser.token.selfClosing THEN Pop(p) ELSE p)

ForeignEnd ==
    At("in foreign content") /\ AnyEnd /\ Handled(PopThrough(Begun, {Tag}))

-----------------------------------------------------------------------------
HandleInSelect ==
    \/ SelectText \/ SelectComment \/ SelectOption \/ SelectOptgroup \/ SelectOptgroupEnd
    \/ SelectOptionEnd \/ SelectEnd \/ SelectSelect \/ SelectInput \/ SelectEof \/ SelectIgnored

HandleInSelectInTable == SelectTableStart \/ SelectTableEnd

HandleAfterBody ==
    \/ AfterBodyComment \/ AfterBodyIgnored \/ AfterBodyEnd \/ AfterBodyEof
    \/ AfterBodyOther \/ AfterAfterComment

HandleFrames ==
    \/ FramesSpace \/ FramesComment \/ FramesetStart \/ FramesetEnd \/ FramesetFrame
    \/ AfterFramesetEnd \/ FramesEof \/ FramesIgnored

HandleForeign ==
    \/ ForeignText \/ ForeignNull \/ ForeignComment \/ ForeignDoctype
    \/ ForeignBreakout \/ ForeignStart \/ ForeignEnd
=============================================================================
