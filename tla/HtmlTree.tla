----------------------------- MODULE HtmlTree -----------------------------
(***************************************************************************)
(* Gumbo's tree construction: the parser between two tokens, the tokens it *)
(* can get from the tokenizer, and the way a token takes from handle_token *)
(* to the handler whose clauses treat it.  HtmlHead, HtmlBody, HtmlTables  *)
(* and HtmlRest have the clauses, HtmlParser the specification.            *)
(*                                                                         *)
(* Documents is a sequence of families d: the tokens d.start, then up to   *)
(* d.len tokens out of d.then, in any order, then the end of the file.     *)
(***************************************************************************)
EXTENDS HtmlStack

CONSTANT Documents

VARIABLES
    parser,    \* GumboParser with its state and output, a record
    handler,   \* the handler whose clause is next to treat the token, or "none"
    doc,       \* the document's family, its place in Documents
    read,      \* number of tokens read
    turns      \* of the main loop, for the current token (the code counts all)

vars == <<parser, handler, doc, read, turns>>

-----------------------------------------------------------------------------
(* Tokens.  A start tag owns its attributes until an element takes them or *)
(* the token is destroyed; lf marks the space that is a line feed.         *)
Token(type) ==
    [type |-> type, tag |-> "", attrs |-> {}, owned |-> FALSE,
     selfClosing |-> FALSE, lf |-> FALSE, quirks |-> FALSE]

Start(tag) == [Token("start") EXCEPT !.tag = tag, !.owned = TRUE]
StartWith(tag, attrs) == [Start(tag) EXCEPT !.attrs = attrs]
SelfClosing(tag) == [Start(tag) EXCEPT !.selfClosing = TRUE]
End(tag) == [Token("end") EXCEPT !.tag = tag]
Char == Token("char")
Space == Token("space")
LineFeed == [Token("space") EXCEPT !.lf = TRUE]
Null == Token("null")
Comment == Token("comment")
Doctype == Token("doctype")
QuirksDoctype == [Token("doctype") EXCEPT !.quirks = TRUE]
Eof == Token("eof")

StartTags(S) == {Start(t) : t \in S}
EndTags(S) == {End(t) : t \in S}

(* What gumbo_lex can return in the state the parser has put it into: in   *)
(* rcdata, rawtext and script only text, the matching end tag and the end. *)
Lexable(t) ==
    \/ parser.lexer = "data"
    \/ t.type \in {"char", "space", "eof"}
    \/ parser.lexer \in {"rcdata", "rawtext", "script"} /\ t = End(parser.nodes[Current(parser)].tag)

-----------------------------------------------------------------------------
(* output_init and parser_state_init *)
NewParser ==
    [nodes |-> <<Fresh("document", "", "html", {})>>, root |-> 0,
     mode |-> "initial", orig |-> "initial", open |-> <<>>, fmt |-> <<>>,
     head |-> 0, form |-> 0, reprocess |-> FALSE, framesetOk |-> TRUE,
     ignoreLf |-> FALSE, foster |-> FALSE, text |-> "none", quirks |-> FALSE,
     lexer |-> "data", token |-> Doctype, failed |-> {}]

Init ==
    /\ parser = NewParser
    /\ handler = "none"
    /\ doc \in DOMAIN Documents
    /\ read = 0
    /\ turns = 0

Upcoming ==
    LET d == Documents[doc]
    IN  IF read < Len(d.start) THEN {d.start[read + 1]}
        ELSE IF read < Len(d.start) + d.len THEN d.then \cup {Eof}
        ELSE {Eof}

-----------------------------------------------------------------------------
(* The current token *)
IsStart(t, tags) == t.type = "start" /\ t.tag \in tags
IsEnd(t, tags) == t.type = "end" /\ t.tag \in tags
StartTag(tags) == IsStart(parser.token, tags)
EndTag(tags) == IsEnd(parser.token, tags)
TokenIs(types) == parser.token.type \in types
Tag == parser.token.tag
HasAttr(a) == a \in parser.token.attrs

-----------------------------------------------------------------------------
(* handle_token: html or foreign content; p has the token. *)
IsMathMLIntegrationPoint(p, n) == Is(p, n, MathText) /\ p.nodes[n].ns = "mathml"

(* An annotation-xml counts with an encoding of html, whatever namespace.  *)
IsHtmlIntegrationPoint(p, n) ==
    \/ Is(p, n, {"foreignobject", "desc", "title"}) /\ p.nodes[n].ns = "svg"
    \/ Is(p, n, {"annotation-xml"}) /\ "encoding" \in p.nodes[n].attrs

UseHtmlIn(p, t, n) ==
    \/ p.nodes[n].ns = "html"
    \/ /\ IsMathMLIntegrationPoint(p, n)
       /\ \/ t.type \in {"char", "space", "null"}
          \/ t.type = "start" /\ t.tag \notin {"mglyph", "malignmark"}
    \/ /\ p.nodes[n].ns = "mathml"
       /\ Is(p, n, {"annotation-xml"})
       /\ IsStart(t, {"svg"})
    \/ /\ IsHtmlIntegrationPoint(p, n)
       /\ t.type \in {"start", "char", "null", "space"}

UseHtml(p) ==
    \/ p.open = <<>>
    \/ p.token.type = "eof"
    \/ UseHtmlIn(p, p.token, Current(p))

(* The end tag of handle_in_foreign_content names an open element above    *)
(* all html ones; otherwise the html handler gets it.                      *)
ForeignMatch(p) ==
    \E i \in 2 .. Len(p.open) :
        /\ p.nodes[p.open[i]].tag = p.token.tag
        /\ \A j \in i .. Len(p.open) : p.nodes[p.open[j]].ns # "html"

-----------------------------------------------------------------------------
(* Handlers that call another one for tokens without a clause of their own *)
HeadTags == {"base", "basefont", "bgsound", "link", "meta", "noframes", "style"}
TableParts == {"caption", "col", "colgroup", "tbody", "td", "tfoot", "th", "thead", "tr"}
BodyHtml == {"body", "html"}

OwnTable(t) ==
    \/ t.type \in {"char", "space", "doctype", "comment", "eof"}
    \/ IsStart(t, TableParts \cup {"table", "form"})
    \/ IsStart(t, {"input"}) /\ "hidden" \in t.attrs
    \/ IsEnd(t, TableParts \cup BodyHtml \cup {"table"})

(* in cell, in caption, in table body; in row has no clause for col *)
OwnPart(t) == IsStart(t, TableParts) \/ IsEnd(t, TableParts \cup BodyHtml \cup {"table"})
OwnRow(t) == OwnPart(t) /\ ~IsStart(t, {"col"})

OwnSelectInTable(t) ==
    t.type \in {"start", "end"} /\ t.tag \in (TableParts \ {"col", "colgroup"}) \cup {"table"}

(* The handler that the one of mode m calls for token t, or m itself.      *)
Passes(m, t) ==
    CASE m \in {"in cell", "in caption"} /\ ~OwnPart(t) -> "in body"
      [] m = "in row" /\ ~OwnRow(t)              -> "in table"
      [] m = "in table body" /\ ~OwnPart(t)      -> "in table"
      [] m = "in table" /\ IsStart(t, {"style", "script"}) -> "in head"
      [] m = "in table" /\ ~OwnTable(t)          -> "in body"
      [] m = "in select in table" /\ ~OwnSelectInTable(t) -> "in select"
      [] m = "in select" /\ IsStart(t, {"script"}) -> "in head"
      [] m = "in head noscript" /\ (t.type \in {"space", "comment"}
                                      \/ IsStart(t, HeadTags \ {"base"})) -> "in head"
      [] m = "after head" /\ IsStart(t, HeadTags \cup {"script", "title"}) -> "in head"
      [] m = "in body" /\ IsStart(t, HeadTags \cup {"menuitem", "script", "title"}) -> "in head"
      [] m \in {"in frameset", "after frameset", "after after frameset"}
            /\ IsStart(t, {"noframes"})         -> "in head"
      [] m \in {"in select", "in head", "in head noscript", "after head", "in column group",
                "after body", "in frameset", "after frameset", "after after body",
                "after after frameset"} /\ IsStart(t, {"html"}) -> "in body"
      [] m = "after body" /\ t.type = "space"   -> "in body"
      [] m \in {"after after body", "after after frameset"} /\ t.type \in {"doctype", "space"}
                                                -> "in body"
      [] OTHER                                  -> m

(* The longest way is in row, in table, in body, in head. *)
PassesThrice(m, t) == FoldLeft(LAMBDA n, i : Passes(n, t), m, <<1, 2, 3>>)

(* The line feed right after pre, listing or textarea is not handled.      *)
Handler(p) ==
    IF p.ignoreLf /\ p.token.lf THEN "skip"
    ELSE IF UseHtml(p) \/ (p.token.type = "end" /\ ~ForeignMatch(p))
    THEN PassesThrice(p.mode, p.token)
    ELSE "in foreign content"

Handles(p) == parser' = p /\ handler' = Handler(p)

(* gumbo_lex: an end tag puts the tokenizer back into the data state. *)
Lex ==
    /\ handler = "none"
    /\ parser.token.type # "eof"
    /\ \E t \in Upcoming :
          /\ Lexable(t)
          /\ Handles([parser EXCEPT !.token = t,
                                    !.lexer = IF t.type = "end" THEN "data" ELSE @])
    /\ read' = read + 1
    /\ turns' = 0
    /\ UNCHANGED doc

-----------------------------------------------------------------------------
At(h) == handler = h

(* The last clause of handle_in_table calls handle_in_body with foster     *)
(* parenting on.                                                           *)
Fostered ==
    /\ parser.mode \in {"in table", "in table body", "in row"}
    /\ handler \in {"in body", "in head"}
    /\ ~StartTag({"style", "script"})

(* handle_after_head calls handle_in_head with the head back on the stack. *)
HeadReopened == parser.mode = "after head" /\ handler = "in head"

(* The parser as a clause finds it. *)
Reopened(p) == [Flush(Check(p, p.head # 0, "after_head")) EXCEPT !.open = Append(@, p.head)]

Begun ==
    LET p == [parser EXCEPT !.reprocess = FALSE, !.ignoreLf = FALSE, !.foster = Fostered]
    IN  IF HeadReopened THEN Reopened(p) ELSE p

(* The clause is done with p: back through the callers into the main loop, *)
(* with its assert about tokens that still own their attributes.           *)
Returned(p) ==
    [Check(p, \/ p.reprocess
              \/ p.token.type # "start"
              \/ ~p.token.owned, "attributes")
        EXCEPT !.foster = FALSE,
               !.open = IF HeadReopened THEN Remove(@, p.head) ELSE @]

NextTurn(p) ==
    /\ IF p.reprocess THEN Handles(p) ELSE parser' = p /\ handler' = "none"
    /\ turns' = turns + 1
    /\ UNCHANGED <<doc, read>>

Handled(p) == NextTurn(Returned(p))

(* ignore_token, with which most clauses for misplaced tokens end.         *)
Destroyed(p) == [p EXCEPT !.token.owned = FALSE]

Ignore == Handled(Destroyed(Begun))

Again(p) == [p EXCEPT !.reprocess = TRUE]
To(p, mode) == [p EXCEPT !.mode = mode]
NoFrameset(p) == [p EXCEPT !.framesetOk = FALSE]

AddText(p) == InsertText(p, IF p.token.type = "char" THEN "text" ELSE "whitespace")

(* run_generic_parsing_algorithm *)
GenericText(p, lexer) ==
    [Insert(p) EXCEPT !.lexer = lexer, !.orig = p.mode, !.mode = "text"]

SkipLineFeed ==
    At("skip") /\ Handled(Destroyed([parser EXCEPT !.ignoreLf = FALSE, !.reprocess = FALSE]))

=============================================================================
