------------------------------ MODULE HtmlBody ------------------------------
(***************************************************************************)
(* handle_in_body: one action for each of its clauses.                     *)
(***************************************************************************)
EXTENDS HtmlHead

Formatting == {"b", "big", "code", "em", "font", "i", "s", "small", "strike",
               "strong", "tt", "u"}
Blocks == {"address", "article", "aside", "blockquote", "center", "details", "dir", "div",
           "dl", "fieldset", "figcaption", "figure", "footer", "header", "hgroup", "menu",
           "nav", "ol", "section", "summary", "ul"}
Markers == {"applet", "marquee", "object"}
Empty == {"area", "br", "embed", "img", "image", "keygen", "wbr"}
Misplaced == TableParts \cup {"frame", "head"}

(* The tags with a clause of their own. *)
StartClauses ==
    Formatting \cup Blocks \cup Markers \cup Empty \cup Misplaced \cup Headings \cup
    {"html", "body", "frameset", "p", "pre", "listing", "form", "li", "dd", "dt",
     "plaintext", "button", "a", "nobr", "table", "input", "param", "source", "track", "hr",
     "isindex", "textarea", "xmp", "iframe", "noembed", "select", "option", "optgroup",
     "rp", "rt", "math", "svg"}
EndClauses ==
    Formatting \cup Blocks \cup Markers \cup Headings \cup
    {"html", "body", "button", "listing", "pre", "form", "p", "li", "dd", "dt", "a",
     "nobr", "br"}

-----------------------------------------------------------------------------
(* ignore_token for NULL and doctypes, and the start tags that make no     *)
(* sense here                                                              *)
BodyIgnored ==
    /\ At("in body")
    /\ TokenIs({"null", "doctype"}) \/ StartTag(Misplaced)
    /\ Ignore

BodySpace == At("in body") /\ TokenIs({"space"}) /\ Handled(AddText(Reconstruct(Begun)))

BodyChar ==
    /\ At("in body") /\ TokenIs({"char"})
    /\ Handled(NoFrameset(AddText(Reconstruct(Begun))))

BodyComment ==
    /\ At("in body") /\ TokenIs({"comment"})
    /\ Handled(AppendComment(Begun, Current(parser)))

(* merge_attributes: those the element lacks, the others go with the token *)
Merge(p, n) ==
    Destroyed([p EXCEPT !.nodes[n].attrs = @ \cup p.token.attrs])

BodyHtmlStart ==
    /\ At("in body") /\ StartTag({"html"})
    /\ Handled(Merge(Check(Begun, parser.root # 0, "html_start"), parser.root))

BodyIsSecond == Len(parser.open) >= 2 /\ Is(parser, parser.open[2], {"body"})

BodyBodyStart ==
    /\ At("in body") /\ StartTag({"body"})
    /\ Handled(IF BodyIsSecond THEN Merge(NoFrameset(Begun), parser.open[2])
               ELSE Destroyed(Begun))

(* Mutants: the formatting elements that die with the body stay listed;    *)
(* the root keeps the body.                                                *)
DropBodyOnly(p, body) ==
    LET q == Cut(p, 1)
    IN  Destroy([q EXCEPT !.nodes[q.root].children = Remove(@, body)], body)

DropBodyKept(p, body) == Destroy(ClearFormatting(Cut(p, 1)), body)

(* The body leaves the root's children; the index_within_parent of those   *)
(* after it is not touched.                                                *)
DropBody(p, body) ==
    LET at == IndexOf(p.nodes[p.root].children, body)
        q  == ClearFormatting(Cut(p, 1))
    IN  Destroy([q EXCEPT !.nodes[q.root].children = RemoveAt(@, at)], body)

BodyFramesetStart ==
    /\ At("in body") /\ StartTag({"frameset"})
    /\ Handled(IF BodyIsSecond /\ parser.framesetOk
               THEN To(Insert(DropBody(Begun, parser.open[2])), "in frameset")
               ELSE Destroyed(Begun))

BodyEof == At("in body") /\ TokenIs({"eof"}) /\ Handled(Begun)

(* The elements stay open: the tags only change the mode. *)
BodyEnd ==
    /\ At("in body") /\ EndTag(BodyHtml)
    /\ LET p == To(Begun, "after body")
       IN  IF ~HasInScope(parser, "body") THEN Ignore
           ELSE IF EndTag({"html"}) THEN Handled(Again(p))
           ELSE Handled(Check(p, BodyIsSecond, "body_end"))

-----------------------------------------------------------------------------
BodyBlock ==
    /\ At("in body") /\ StartTag(Blocks \cup {"p"})
    /\ Handled(Insert(CloseP(Begun)))

BodyHeading ==
    /\ At("in body") /\ StartTag(Headings)
    /\ LET p == CloseP(Begun)
       IN  Handled(Insert(IF Is(p, Current(p), Headings) THEN Pop(p) ELSE p))

BodyPre ==
    /\ At("in body") /\ StartTag({"pre", "listing"})
    /\ Handled([NoFrameset(Insert(CloseP(Begun))) EXCEPT !.ignoreLf = TRUE])

BodyForm ==
    /\ At("in body") /\ StartTag({"form"})
    /\ LET p == Insert(CloseP(Begun))
       IN  Handled(IF parser.form # 0 THEN Destroyed(Begun)
                   ELSE [p EXCEPT !.form = Current(p)])

BodyListItem ==
    /\ At("in body") /\ StartTag({"li", "dd", "dt"})
    /\ Handled(Insert(CloseP(CloseListTag(Begun, IF Tag = "li" THEN {"li"} ELSE {"dd", "dt"}))))

BodyPlaintext ==
    /\ At("in body") /\ StartTag({"plaintext"})
    /\ Handled([Insert(CloseP(Begun)) EXCEPT !.lexer = "plaintext"])

BodyButton ==
    /\ At("in body") /\ StartTag({"button"})
    /\ Handled(IF HasInScope(parser, "button") THEN Again(CloseTags(Begun, "button"))
               ELSE NoFrameset(Insert(Reconstruct(Begun))))

-----------------------------------------------------------------------------
BodyBlockEnd ==
    /\ At("in body") /\ EndTag(Blocks \cup {"button", "listing", "pre", "dd", "dt"})
    /\ Handled(IF HasInScope(parser, Tag) THEN CloseTags(Begun, Tag) ELSE Begun)

(* Only the form leaves the stack; what is open in it stays. *)
BodyFormEnd ==
    /\ At("in body") /\ EndTag({"form"})
    /\ LET p == [Begun EXCEPT !.form = 0]
           q == GenerateImpliedEndTags(p, "")
       IN  Handled(IF parser.form = 0 THEN p
                   ELSE IF ~HasNodeInScope(p, parser.form) THEN p
                   ELSE [Check(q, IndexOf(q.open, parser.form) # 0, "form_end")
                           EXCEPT !.open = Remove(@, parser.form)])

BodyPEnd ==
    /\ At("in body") /\ EndTag({"p"})
    /\ Handled(IF HasInButtonScope(parser, "p") THEN CloseTags(Begun, "p")
               ELSE Again(InsertOfTagType(Reconstruct(Begun), "p")))

BodyLiEnd ==
    /\ At("in body") /\ EndTag({"li"})
    /\ Handled(IF HasInListScope(parser, "li") THEN CloseTags(Begun, "li") ELSE Begun)

(* Any heading's end tag closes the last heading. *)
BodyHeadingEnd ==
    /\ At("in body") /\ EndTag(Headings)
    /\ Handled(IF HasHeadingInScope(parser)
               THEN PopThrough(GenerateImpliedEndTags(Begun, ""), Headings) ELSE Begun)

-----------------------------------------------------------------------------
AddCurrent(p) == AddFormatting(p, Current(p))

(* An anchor in an anchor: the adoption agency does not always remove it.  *)
ForgetAnchor(p, i) ==
    IF i = 0 THEN p ELSE [p EXCEPT !.fmt = RemoveAt(@, i), !.open = Remove(@, p.fmt[i])]

ForgetLastAnchor(p) == ForgetAnchor(p, LastAnchor(p))

WithoutAnchor(p) ==
    IF LastAnchor(p) = 0 THEN p ELSE ForgetLastAnchor(AdoptionAgency(p, "a"))

BodyAnchor ==
    /\ At("in body") /\ StartTag({"a"})
    /\ Handled(AddCurrent(Insert(Reconstruct(WithoutAnchor(Begun)))))

BodyFormatting ==
    /\ At("in body") /\ StartTag(Formatting)
    /\ Handled(AddCurrent(Insert(Reconstruct(Begun))))

BodyNobr ==
    /\ At("in body") /\ StartTag({"nobr"})
    /\ LET p == Reconstruct(Begun)
       IN  Handled(AddCurrent(Insert(IF HasInScope(p, "nobr")
                                     THEN Reconstruct(AdoptionAgency(p, "nobr")) ELSE p)))

BodyFormattingEnd ==
    /\ At("in body") /\ EndTag(Formatting \cup {"a", "nobr"})
    /\ Handled(AdoptionAgency(Begun, Tag))

BodyMarker ==
    /\ At("in body") /\ StartTag(Markers)
    /\ Handled(NoFrameset(AddMarker(Insert(Reconstruct(Begun)))))

BodyMarkerEnd ==
    /\ At("in body") /\ EndTag(Markers)
    /\ Handled(IF HasInTableScope(parser, Tag) THEN ClearFormatting(CloseTags(Begun, Tag))
               ELSE Begun)

-----------------------------------------------------------------------------
BodyTable ==
    /\ At("in body") /\ StartTag({"table"})
    /\ LET p == IF parser.quirks THEN Begun ELSE CloseP(Begun)
       IN  Handled(To(NoFrameset(Insert(p)), "in table"))

(* image becomes img before its element is made. *)
BodyEmpty ==
    /\ At("in body") /\ StartTag(Empty)
    /\ LET p == [Begun EXCEPT !.token.tag = IF @ = "image" THEN "img" ELSE @]
       IN  Handled(NoFrameset(Pop(Insert(Reconstruct(p)))))

BodyInput ==
    /\ At("in body") /\ StartTag({"input"})
    /\ LET p == Pop(Insert(Reconstruct(Begun)))
       IN  Handled(IF HasAttr("hidden") THEN p ELSE NoFrameset(p))

BodyParam ==
    At("in body") /\ StartTag({"param", "source", "track"}) /\ Handled(Pop(Insert(Begun)))

BodyHr ==
    At("in body") /\ StartTag({"hr"}) /\ Handled(NoFrameset(Pop(Insert(CloseP(Begun)))))

(* isindex: a form with a rule, a label with the prompt's text and an      *)
(* input in it, and another rule.  The name attribute goes nowhere.        *)
IsindexForm(p) ==
    LET form  == InsertOfTagType(p, "form")
        acted == [form EXCEPT !.nodes[Current(form)].attrs = p.token.attrs \cap {"action"}]
        label == InsertOfTagType(Pop(InsertOfTagType(acted, "hr")), "label")
        input == InsertOfTagType([label EXCEPT !.text = "text"], "input")
        named == [input EXCEPT !.nodes[Current(input)].attrs =
                    (p.token.attrs \ {"prompt", "action", "name"}) \cup {"name"}]
    IN  Pop(Pop(InsertOfTagType(Pop(Pop(named)), "hr")))

BodyIsindex ==
    /\ At("in body") /\ StartTag({"isindex"})
    /\ Handled(IF parser.form # 0 THEN Destroyed(Begun)
               ELSE Destroyed(IsindexForm(NoFrameset(CloseP(Begun)))))

-----------------------------------------------------------------------------
BodyTextarea ==
    /\ At("in body") /\ StartTag({"textarea"})
    /\ Handled([NoFrameset(GenericText(Begun, "rcdata")) EXCEPT !.ignoreLf = TRUE])

BodyXmp ==
    /\ At("in body") /\ StartTag({"xmp"})
    /\ Handled(GenericText(NoFrameset(Reconstruct(CloseP(Begun))), "rawtext"))

BodyIframe ==
    At("in body") /\ StartTag({"iframe"}) /\ Handled(GenericText(NoFrameset(Begun), "rawtext"))

BodyNoembed ==
    At("in body") /\ StartTag({"noembed"}) /\ Handled(GenericText(Begun, "rawtext"))

BodySelect ==
    /\ At("in body") /\ StartTag({"select"})
    /\ LET inTable == parser.mode \in {"in table", "in caption", "in table body",
                                       "in row", "in cell"}
       IN  Handled(To(NoFrameset(Insert(Reconstruct(Begun))),
                      IF inTable THEN "in select in table" ELSE "in select"))

BodyOption ==
    /\ At("in body") /\ StartTag({"option", "optgroup"})
    /\ LET p == Begun
       IN  Handled(Insert(Reconstruct(IF Is(p, Current(p), {"option"}) THEN Pop(p) ELSE p)))

BodyRuby ==
    /\ At("in body") /\ StartTag({"rp", "rt"})
    /\ Handled(Insert(IF HasInScope(parser, "ruby") THEN GenerateImpliedEndTags(Begun, "")
                      ELSE Begun))

BodyBrEnd ==
    /\ At("in body") /\ EndTag({"br"})
    /\ Handled(Pop(InsertOfTagType(Reconstruct(Begun), "br")))

BodyForeign ==
    /\ At("in body") /\ StartTag({"math", "svg"})
    /\ LET p == InsertFromToken(Reconstruct(Begun), IF Tag = "svg" THEN "svg" ELSE "mathml")
       IN  Handled(IF parser.token.selfClosing THEN Pop(p) ELSE p)

BodyOtherStart ==
    /\ At("in body") /\ AnyStart /\ ~StartTag(StartClauses)
    /\ Handled(Insert(Reconstruct(Begun)))

(* The element of that name is closed, unless a special one is above it.   *)
BodyOtherEnd ==
    /\ At("in body") /\ AnyEnd /\ ~EndTag(EndClauses)
    /\ LET p == Begun
           Found(n) == Is(p, n, {Tag}) /\ p.nodes[n].ns = "html"
           i == SelectLastInSeq(p.open, LAMBDA n : Found(n) \/ Special(p, n))
       IN  Handled(IF Found(p.open[i]) THEN Cut(p, i - 1) ELSE p)

-----------------------------------------------------------------------------
HandleInBody ==
    \/ BodyIgnored \/ BodySpace \/ BodyChar \/ BodyComment \/ BodyHtmlStart
    \/ BodyBodyStart \/ BodyFramesetStart \/ BodyEof \/ BodyEnd
    \/ BodyBlock \/ BodyHeading \/ BodyPre \/ BodyForm \/ BodyListItem \/ BodyPlaintext
    \/ BodyButton \/ BodyBlockEnd \/ BodyFormEnd \/ BodyPEnd \/ BodyLiEnd \/ BodyHeadingEnd
    \/ BodyAnchor \/ BodyFormatting \/ BodyNobr \/ BodyFormattingEnd
    \/ BodyMarker \/ BodyMarkerEnd \/ BodyTable \/ BodyEmpty \/ BodyInput \/ BodyParam
    \/ BodyHr \/ BodyIsindex \/ BodyTextarea \/ BodyXmp \/ BodyIframe \/ BodyNoembed
    \/ BodySelect \/ BodyOption \/ BodyRuby \/ BodyBrEnd \/ BodyForeign
    \/ BodyOtherStart \/ BodyOtherEnd
=============================================================================
