----------------------------- MODULE HtmlStack -----------------------------
(***************************************************************************)
(* The stack of open elements, the list of active formatting elements and  *)
(* the algorithms of gumbo's parser.c that work on both: scopes, implied   *)
(* end tags, reconstruction, Noah's ark and the adoption agency.           *)
(* p.open and p.fmt are sequences of nodes, a Marker in p.fmt is the       *)
(* address of kActiveFormattingScopeMarker.                                *)
(***************************************************************************)
EXTENDS HtmlDom

Marker == 0

Headings == {"h1", "h2", "h3", "h4", "h5", "h6"}
MathText == {"mi", "mo", "mn", "ms", "mtext"}

-----------------------------------------------------------------------------
(* Popping.  pop_current_node flushes the text into the node it pops; a    *)
(* loop of pops finds an empty buffer from its second turn on.             *)
(* A mutant: it does not flush.                                            *)
CutUnflushed(p, i) == [p EXCEPT !.open = SubSeq(@, 1, i)]

Cut(p, i) == [Flush(p) EXCEPT !.open = SubSeq(@, 1, i)]

LastOpen(p, tags) == SelectLastInSeq(p.open, LAMBDA n : Is(p, n, tags))

Pop(p) == Cut(Check(p, Is(p, p.open[1], {"html"}), "pop_current_node"), Len(p.open) - 1)

(* do { pop } while the popped node is not one of tags: without one of     *)
(* them the code would read the NULL that the empty stack returns.         *)
PopThrough(p, tags) ==
    Cut(Check(p, LastOpen(p, tags) # 0, "pop_null"), LastOpen(p, tags) - 1)

(* clear_stack_to_table_context and its like *)
PopTo(p, tags) == IF Is(p, Current(p), tags) THEN p ELSE Cut(p, LastOpen(p, tags))

-----------------------------------------------------------------------------
(* Scopes: they look at tags, never at namespaces. *)
Scope == {"applet", "caption", "html", "table", "td", "th", "marquee", "object",
          "annotation-xml", "foreignobject", "desc", "title"} \cup MathText

HasInSpecificScope(p, want, stop) ==
    \E i \in DOMAIN p.open :
        /\ Is(p, p.open[i], want)
        /\ \A j \in i + 1 .. Len(p.open) : ~Is(p, p.open[j], stop)

HasInScope(p, tag) == HasInSpecificScope(p, {tag}, Scope)
HasInListScope(p, tag) == HasInSpecificScope(p, {tag}, Scope \cup {"ol", "ul"})
HasInButtonScope(p, tag) == HasInSpecificScope(p, {tag}, Scope \cup {"button"})
HasInTableScope(p, tag) == HasInSpecificScope(p, {tag}, {"html", "table"})
HasHeadingInScope(p) == HasInSpecificScope(p, Headings, Scope)

HasInSelectScope(p, tag) ==
    \E i \in DOMAIN p.open :
        /\ Is(p, p.open[i], {tag})
        /\ \A j \in i + 1 .. Len(p.open) : Is(p, p.open[j], {"optgroup", "option"})

HasNodeInScope(p, n) ==
    \E i \in DOMAIN p.open :
        /\ p.open[i] = n
        /\ \A j \in i + 1 .. Len(p.open) : ~Is(p, p.open[j], Scope)

-----------------------------------------------------------------------------
(* Implied end tags *)
Implied == {"dd", "dt", "li", "option", "optgroup", "p", "rp", "rt"}

GenerateImpliedEndTags(p, exception) ==
    LET stay == SelectLastInSeq(p.open, LAMBDA n : ~Is(p, n, Implied \ {exception}))
    IN  IF stay = Len(p.open) THEN p ELSE Cut(p, stay)

(* implicitly_close_tags: the implied ones and the others end alike, at    *)
(* the target.                                                             *)
CloseTags(p, target) == PopThrough(p, {target})

CloseP(p) == IF HasInButtonScope(p, "p") THEN CloseTags(p, "p") ELSE p

(* is_special_node *)
SpecialHtml ==
    Headings \cup
    {"address", "applet", "area", "article", "aside", "base", "basefont", "bgsound",
     "blockquote", "body", "br", "button", "caption", "center", "col", "colgroup",
     "menuitem", "dd", "details", "dir", "div", "dl", "dt", "embed", "fieldset",
     "figcaption", "figure", "footer", "form", "frame", "frameset", "head", "header",
     "hgroup", "hr", "html", "iframe", "img", "input", "isindex", "li", "link",
     "listing", "marquee", "menu", "meta", "nav", "noembed", "noframes", "noscript",
     "object", "ol", "p", "param", "plaintext", "pre", "script", "section", "select",
     "style", "summary", "table", "tbody", "td", "textarea", "tfoot", "th", "thead",
     "title", "tr", "ul", "wbr", "xmp"}

Special(p, n) ==
    \/ p.nodes[n].ns = "html" /\ Is(p, n, SpecialHtml)
    \/ p.nodes[n].ns = "mathml" /\ Is(p, n, MathText \cup {"annotation-xml"})
    \/ p.nodes[n].ns = "svg" /\ Is(p, n, {"foreignobject", "desc"})

(* maybe_implicitly_close_list_tag *)
CloseListTag(p, tags) ==
    LET q == [p EXCEPT !.framesetOk = FALSE]
        i == SelectLastInSeq(p.open, LAMBDA n :
                \/ Is(p, n, tags)
                \/ Special(p, n) /\ ~Is(p, n, {"address", "div", "p"}))
    IN  IF Is(p, p.open[i], tags) THEN CloseTags(q, p.nodes[p.open[i]].tag) ELSE q

-----------------------------------------------------------------------------
(* Insertion of elements.  The new element is the current one afterwards.  *)
InsertElement(p, n, reconstructing) ==
    [Place(IF reconstructing THEN p ELSE Flush(p), n) EXCEPT !.open = Append(@, n)]

(* create_element_from_token takes the token's attributes. *)
InsertNewest(p, reconstructing) == InsertElement(p, Newest(p), reconstructing)

InsertFromToken(p, ns) ==
    InsertNewest([Create(p, Fresh("element", p.token.tag, ns, p.token.attrs))
                    EXCEPT !.token.owned = FALSE, !.token.attrs = {}], FALSE)

Insert(p) == InsertFromToken(p, "html")

InsertOfTagType(p, tag) == InsertNewest(Create(p, Fresh("element", tag, "html", {})), FALSE)

-----------------------------------------------------------------------------
(* The list of active formatting elements *)
LastMarker(p) == SelectLastInSeq(p.fmt, LAMBDA n : n = Marker)

Identical(p, n) ==
    {i \in LastMarker(p) + 1 .. Len(p.fmt) :
        /\ p.nodes[p.fmt[i]].tag = p.nodes[n].tag
        /\ p.nodes[p.fmt[i]].ns = p.nodes[n].ns
        /\ p.nodes[p.fmt[i]].attrs = p.nodes[n].attrs}

(* A mutant: the ark takes a fourth one. *)
AddFourth(p, n) ==
    [p EXCEPT !.fmt =
        Append(IF Cardinality(Identical(p, n)) > 3
               THEN RemoveAt(@, Min(Identical(p, n))) ELSE @, n)]

(* add_formatting_element with Noah's ark: the earliest of three leaves. *)
AddFormatting(p, n) ==
    [p EXCEPT !.fmt =
        Append(IF Cardinality(Identical(p, n)) >= 3
               THEN RemoveAt(@, Min(Identical(p, n))) ELSE @, n)]

AddMarker(p) == [p EXCEPT !.fmt = Append(@, Marker)]

ClearFormatting(p) == [p EXCEPT !.fmt = SubSeq(@, 1, LastMarker(p) - 1)]

(* find_last_anchor_index, 0 for false *)
LastAnchor(p) ==
    LET i == SelectLastInSeq(p.fmt, LAMBDA n : n = Marker \/ Is(p, n, {"a"}))
    IN  IF i # 0 /\ p.fmt[i] = Marker THEN 0 ELSE i

(* clone_node *)
Clone(p, n) ==
    Create(p, Fresh("element", p.nodes[n].tag, p.nodes[n].ns, p.nodes[n].attrs))

ReconstructOne(p, i) ==
    [InsertNewest(Clone(p, p.fmt[i]), TRUE) EXCEPT !.fmt[i] = Newest(p) + 1]

(* reconstruct_active_formatting_elements: all entries after the last one  *)
(* that is a marker or open.                                               *)
Reconstruct(p) ==
    LET last == SelectLastInSeq(p.fmt, LAMBDA n : n = Marker \/ n \in Range(p.open))
    IN  FoldLeft(ReconstructOne, p, [k \in 1 .. Len(p.fmt) - last |-> last + k])

-----------------------------------------------------------------------------
(* adoption_agency_algorithm *)
(* Steps 9.4 to 9.10, for the node under the one of the turn before.  s is *)
(* the loop's state: the parser p, the places at (of the node in the open  *)
(* elements) and mark (the bookmark), last_node and whether it goes on.    *)
AdoptionClone(s, p, at, f, block) ==
    LET new == Newest(p)
        q   == [p EXCEPT !.fmt[f] = new, !.open[at] = new]
    IN  [p    |-> AppendNode(RemoveFromParent(q, s.last), new, s.last),
         at   |-> at,
         mark |-> IF s.last = block THEN f + 1 ELSE s.mark,
         last |-> new,
         on   |-> TRUE]

AdoptionNode(s, p, at, f, block, formatting) ==
    IF f = 0 THEN [s EXCEPT !.p = [p EXCEPT !.open = RemoveAt(@, at)], !.at = at]
    ELSE IF p.open[at] = formatting THEN [s EXCEPT !.p = p, !.on = FALSE]
    ELSE AdoptionClone(s, Clone(p, p.open[at]), at, f, block)

AdoptionInner(s, block, formatting) ==
    LET at   == s.at - 1
        node == s.p.open[at]
    IN  IF ~s.on THEN s
        ELSE AdoptionNode(s, Check(s.p, at > 1 /\ s.p.nodes[node].parent # 0, "adoption_inner"),
                          at, IndexOf(s.p.fmt, node), block, formatting)

(* Step 10: the last node goes under the common ancestor. *)
AdoptionPlace(p, ancestor, n) ==
    IF Is(p, ancestor, TableContext) THEN FosterParent(p, n) ELSE AppendNode(p, ancestor, n)

(* Steps 11 to 13: a clone of the formatting element takes the children of *)
(* the furthest block and becomes its only child.                          *)
Adopt(p, block) ==
    LET kids  == p.nodes[block].children
        moved == [p.nodes EXCEPT ![Newest(p)].children = kids, ![block].children = <<>>]
    IN  AppendNewest([p EXCEPT !.nodes =
            FoldLeft(LAMBDA ns, k : [ns EXCEPT ![k].parent = Newest(p)], moved, kids)], block)

(* Steps 14 and 15: the clone replaces the formatting element, in the list *)
(* at the bookmark, on the stack above the furthest block.                 *)
AdoptionReplace(p, mark, formatting, block) ==
    LET before == IndexOf(p.fmt, formatting) < mark
        open   == Remove(p.open, formatting)
    IN  [p EXCEPT !.fmt = InsertAt(Remove(@, formatting), IF before THEN mark - 1 ELSE mark,
                                   Newest(p)),
                  !.open = InsertAt(open, IndexOf(open, block) + 1, Newest(p))]

(* A mutant: the last node is not taken out of its old place. *)
AdoptionStays(s, ancestor, formatting, block) ==
    AdoptionReplace(
        Adopt(Clone(AdoptionPlace(s.p, ancestor, s.last), formatting), block),
        s.mark, formatting, block)

(* Steps 7 to 15, s as the inner loop leaves it.                            *)
AdoptionOuter(s, ancestor, formatting, block) ==
    AdoptionReplace(
        Adopt(Clone(AdoptionPlace(RemoveFromParent(s.p, s.last), ancestor, s.last), formatting),
              block),
        s.mark, formatting, block)

AdoptionRearrange(p, formatting, block) ==
    LET s == [p |-> p, at |-> IndexOf(p.open, block), last |-> block, on |-> TRUE,
              mark |-> IndexOf(p.fmt, formatting)]
    IN  AdoptionOuter(FoldLeft(LAMBDA t, i : AdoptionInner(t, block, formatting), s, <<1, 2, 3>>),
                      p.open[IndexOf(p.open, formatting) - 1], formatting, block)

(* One turn of the outer loop: x.p is the parser, x.on whether the loop    *)
(* goes on.                                                                *)
AdoptionOf(p, node, at) ==
    LET block == SelectInSubSeq(p.open, at, Len(p.open), LAMBDA n : Special(p, n))
        Ends(q) == [p |-> q, on |-> FALSE]
        forgot == [p EXCEPT !.fmt = Remove(@, node)]
    IN  IF at = 0 THEN Ends(forgot)
        ELSE IF ~HasInScope(p, p.nodes[node].tag) THEN Ends(p)
        ELSE IF block = 0 THEN Ends(Cut(forgot, at - 1))
        ELSE [p |-> AdoptionRearrange(p, node, p.open[block]), on |-> TRUE]

AdoptionRound(x, tag) ==
    LET i == SelectLastInSeq(x.p.fmt, LAMBDA n : n = Marker \/ Is(x.p, n, {tag}))
    IN  IF ~x.on THEN x
        ELSE IF i = 0 THEN [x EXCEPT !.on = FALSE]
        ELSE IF x.p.fmt[i] = Marker THEN [x EXCEPT !.on = FALSE]
        ELSE AdoptionOf(x.p, x.p.fmt[i], IndexOf(x.p.open, x.p.fmt[i]))

AdoptionAgency(p, tag) ==
    FoldLeft(LAMBDA x, i : AdoptionRound(x, tag), [p |-> p, on |-> TRUE],
             [i \in 1 .. 8 |-> i]).p

-----------------------------------------------------------------------------
(* The insertion mode that the stack calls for *)
AppropriateMode(tag) ==
    CASE tag = "select"                     -> "in select"
      [] tag \in {"td", "th"}               -> "in cell"
      [] tag = "tr"                         -> "in row"
      [] tag \in {"tbody", "thead", "tfoot"} -> "in table body"
      [] tag = "caption"                    -> "in caption"
      [] tag = "colgroup"                   -> "in column group"
      [] tag = "table"                      -> "in table"
      [] tag \in {"head", "body"}           -> "in body"
      [] tag = "frameset"                   -> "in frameset"
      [] tag = "html"                       -> "before head"
      [] OTHER                              -> "initial"

(* reset_insertion_mode_appropriately; the last node is always html, which *)
(* has a mode of its own.                                                  *)
ResetMode(p) ==
    LET Mode(n) == AppropriateMode(p.nodes[n].tag)
        i == SelectLastInSeq(p.open, LAMBDA n : Mode(n) # "initial")
    IN  [Check(p, i # 0, "reset_insertion_mode") EXCEPT !.mode = Mode(p.open[i])]

CloseTable(p) == ResetMode(PopThrough(p, {"table"}))

CloseSelect(p) == ResetMode(PopThrough(p, {"select"}))

CloseTableCell(p, cell) ==
    [ClearFormatting(PopThrough(GenerateImpliedEndTags(p, ""), {cell}))
        EXCEPT !.mode = "in row"]

CloseCurrentCell(p) ==
    LET td == HasInTableScope(p, "td")
    IN  CloseTableCell(Check(p, td # HasInTableScope(p, "th"), "close_current_cell"),
                       IF td THEN "td" ELSE "th")
=============================================================================
