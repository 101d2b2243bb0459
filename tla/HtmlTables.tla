----------------------------- MODULE HtmlTables -----------------------------
(***************************************************************************)
(* The insertion modes of tables: handle_in_table, handle_in_table_text,   *)
(* handle_in_caption, handle_in_column_group, handle_in_table_body,        *)
(* handle_in_row, handle_in_cell.                                          *)
(***************************************************************************)
EXTENDS HtmlBody

Sections == {"tbody", "tfoot", "thead"}
Cells == {"td", "th"}

ToTable(p) == PopTo(p, {"html", "table"})
ToTableBody(p) == PopTo(p, Sections \cup {"html"})
ToRow(p) == PopTo(p, {"html", "tr"})

-----------------------------------------------------------------------------
(* The first character: the text is gathered apart. *)
TableText ==
    /\ At("in table") /\ TokenIs({"char", "space"})
    /\ LET p == Check(Begun, parser.text = "none", "in_table_text")
       IN  Handled(Again([p EXCEPT !.orig = p.mode, !.mode = "in table text"]))

TableIgnored ==
    /\ At("in table")
    /\ TokenIs({"doctype"}) \/ EndTag(TableParts \cup BodyHtml)
    /\ Ignore

TableComment ==
    /\ At("in table") /\ TokenIs({"comment"})
    /\ Handled(AppendComment(Begun, Current(parser)))

TableCaption ==
    /\ At("in table") /\ StartTag({"caption"})
    /\ Handled(To(Insert(AddMarker(ToTable(Begun))), "in caption"))

TableColgroup ==
    /\ At("in table") /\ StartTag({"colgroup"})
    /\ Handled(To(Insert(ToTable(Begun)), "in column group"))

TableCol ==
    /\ At("in table") /\ StartTag({"col"})
    /\ Handled(Again(To(InsertOfTagType(ToTable(Begun), "colgroup"), "in column group")))

TableSection ==
    /\ At("in table") /\ StartTag(Sections)
    /\ Handled(Insert(To(ToTable(Begun), "in table body")))

TableImpliedBody ==
    /\ At("in table") /\ StartTag(Cells \cup {"tr"})
    /\ Handled(Again(InsertOfTagType(To(ToTable(Begun), "in table body"), "tbody")))

TableTable ==
    /\ At("in table") /\ StartTag({"table"})
    /\ Handled(IF HasInTableScope(parser, "table") THEN Again(CloseTable(Begun))
               ELSE Destroyed(Begun))

TableEnd ==
    /\ At("in table") /\ EndTag({"table"})
    /\ Handled(IF HasInTableScope(parser, "table") THEN CloseTable(Begun) ELSE Begun)

TableHidden ==
    At("in table") /\ StartTag({"input"}) /\ HasAttr("hidden") /\ Handled(Pop(Insert(Begun)))

TableForm ==
    /\ At("in table") /\ StartTag({"form"})
    /\ LET p == Insert(Begun)
       IN  Handled(IF parser.form # 0 THEN Destroyed(Begun)
                   ELSE Pop([p EXCEPT !.form = Current(p)]))

TableEof == At("in table") /\ TokenIs({"eof"}) /\ Handled(Begun)

-----------------------------------------------------------------------------
TableTextNull == At("in table text") /\ TokenIs({"null"}) /\ Ignore

TableTextChar ==
    At("in table text") /\ TokenIs({"char", "space"}) /\ Handled(AddText(Begun))

(* A mutant: the text is flushed without foster parenting. *)
TableTextUnfostered ==
    /\ At("in table text") /\ ~TokenIs({"null", "char", "space"})
    /\ Handled(Again(To(Flush(Begun), parser.orig)))

(* The text goes into the table when it is all space, else in front of it. *)
TableTextEnd ==
    /\ At("in table text") /\ ~TokenIs({"null", "char", "space"})
    /\ LET p == IF parser.text = "text" THEN Reconstruct([Begun EXCEPT !.foster = TRUE])
                ELSE Begun
       IN  Handled(Again(To(Flush(p), parser.orig)))

-----------------------------------------------------------------------------
CaptionEnd ==
    /\ At("in caption")
    /\ StartTag(TableParts) \/ EndTag({"caption", "table"})
    /\ LET p == To(ClearFormatting(PopThrough(GenerateImpliedEndTags(Begun, ""), {"caption"})),
                   "in table")
       IN  Handled(IF ~HasInTableScope(parser, "caption") THEN Destroyed(Begun)
                   ELSE IF EndTag({"caption"}) THEN p ELSE Again(p))

CaptionIgnored ==
    At("in caption") /\ EndTag((TableParts \ {"caption"}) \cup BodyHtml) /\ Ignore

-----------------------------------------------------------------------------
ColgroupSpace == At("in column group") /\ TokenIs({"space"}) /\ Handled(AddText(Begun))

ColgroupIgnored ==
    /\ At("in column group")
    /\ TokenIs({"doctype"}) \/ EndTag({"col"})
    /\ Ignore

ColgroupComment ==
    /\ At("in column group") /\ TokenIs({"comment"})
    /\ Handled(AppendComment(Begun, Current(parser)))

ColgroupCol == At("in column group") /\ StartTag({"col"}) /\ Handled(Pop(Insert(Begun)))

ColgroupOther ==
    /\ At("in column group")
    /\ \/ TokenIs({"char", "null", "eof"})
       \/ AnyStart /\ ~StartTag({"col"})
       \/ AnyEnd /\ ~EndTag({"col"})
    /\ LET p == Check(Begun, Is(parser, Current(parser), {"colgroup"}), "colgroup")
           q == To(Pop(p), "in table")
       IN  Handled(IF Current(parser) = parser.root THEN Begun
                   ELSE IF EndTag({"colgroup"}) THEN q ELSE Again(q))

-----------------------------------------------------------------------------
SectionRow ==
    /\ At("in table body") /\ StartTag({"tr"})
    /\ Handled(To(Insert(ToTableBody(Begun)), "in row"))

SectionImpliedRow ==
    /\ At("in table body") /\ StartTag(Cells)
    /\ Handled(Again(To(InsertOfTagType(ToTableBody(Begun), "tr"), "in row")))

CloseSection(p) == To(Pop(ToTableBody(p)), "in table")

SectionEnd ==
    /\ At("in table body") /\ EndTag(Sections)
    /\ Handled(IF HasInTableScope(parser, Tag) THEN CloseSection(Begun) ELSE Begun)

SectionOther ==
    /\ At("in table body")
    /\ StartTag({"caption", "col", "colgroup"} \cup Sections) \/ EndTag({"table"})
    /\ Handled(IF \E s \in Sections : HasInTableScope(parser, s)
               THEN Again(CloseSection(Begun)) ELSE Destroyed(Begun))

SectionIgnored ==
    At("in table body") /\ EndTag((TableParts \ Sections) \cup BodyHtml) /\ Ignore

-----------------------------------------------------------------------------
RowCell ==
    /\ At("in row") /\ StartTag(Cells)
    /\ Handled(AddMarker(To(Insert(ToRow(Begun)), "in cell")))

(* As if the row's end tag had been seen. *)
RowEnd ==
    /\ At("in row")
    /\ \/ StartTag({"caption", "colgroup", "tr"} \cup Sections)
       \/ EndTag({"tr", "table"} \cup Sections)
    /\ LET desired == IF EndTag(Sections) THEN Tag ELSE "tr"
           p == ToRow(Begun)
           q == To(Check(Pop(p), Is(p, Current(p), {"tr"}), "row"), "in table body")
       IN  Handled(IF ~HasInTableScope(parser, desired) THEN Destroyed(Begun)
                   ELSE IF EndTag({"tr"}) THEN q ELSE Again(q))

RowIgnored ==
    At("in row") /\ EndTag({"caption", "col", "colgroup", "td", "th"} \cup BodyHtml) /\ Ignore

-----------------------------------------------------------------------------
CellEnd ==
    /\ At("in cell") /\ EndTag(Cells)
    /\ Handled(IF HasInTableScope(parser, Tag) THEN CloseTableCell(Begun, Tag) ELSE Begun)

CellStart ==
    /\ At("in cell") /\ StartTag(TableParts)
    /\ Handled(IF \E c \in Cells : HasInTableScope(parser, c)
               THEN Again(CloseCurrentCell(Begun)) ELSE Destroyed(Begun))

CellIgnored ==
    At("in cell") /\ EndTag({"caption", "col", "colgroup"} \cup BodyHtml) /\ Ignore

CellOther ==
    /\ At("in cell") /\ EndTag({"table", "tr"} \cup Sections)
    /\ Handled(IF HasInTableScope(parser, Tag) THEN Again(CloseCurrentCell(Begun)) ELSE Begun)

-----------------------------------------------------------------------------
HandleInTable ==
    \/ TableText \/ TableIgnored \/ TableComment \/ TableCaption \/ TableColgroup
    \/ TableCol \/ TableSection \/ TableImpliedBody \/ TableTable \/ TableEnd
    \/ TableHidden \/ TableForm \/ TableEof

HandleInTableText == TableTextNull \/ TableTextChar \/ TableTextEnd

HandleInCaption == CaptionEnd \/ CaptionIgnored

HandleInColumnGroup ==
    ColgroupSpace \/ ColgroupIgnored \/ ColgroupComment \/ ColgroupCol \/ ColgroupOther

HandleInTableBody ==
    SectionRow \/ SectionImpliedRow \/ SectionEnd \/ SectionOther \/ SectionIgnored

HandleInRow == RowCell \/ RowEnd \/ RowIgnored

HandleInCell == CellEnd \/ CellStart \/ CellIgnored \/ CellOther
=============================================================================
