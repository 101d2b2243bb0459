----------------------------- MODULE HtmlParser -----------------------------
(***************************************************************************)
(* gumbo_parse_with_options: tokens are read and handled until the end of  *)
(* the file has been handled; finish_parsing empties the stack.  And what  *)
(* find_title of htmltitle.c and the users of the tree rely on.            *)
(***************************************************************************)
EXTENDS HtmlRest

Finish ==
    /\ handler = "none"
    /\ parser.token.type = "eof"
    /\ parser.open # <<>>
    /\ parser' = Cut(parser, 0)
    /\ UNCHANGED <<handler, doc, read, turns>>

Finished == handler = "none" /\ parser.token.type = "eof" /\ parser.open = <<>>

Stop == Finished /\ UNCHANGED vars

Next ==
    \/ Lex \/ SkipLineFeed \/ HandleInitial \/ HandleBeforeHtml \/ HandleBeforeHead
    \/ HandleInHead \/ HandleInNoscript \/ HandleAfterHead \/ HandleText \/ HandleInBody
    \/ HandleInTable \/ HandleInTableText \/ HandleInCaption \/ HandleInColumnGroup
    \/ HandleInTableBody \/ HandleInRow \/ HandleInCell \/ HandleInSelect
    \/ HandleInSelectInTable \/ HandleAfterBody \/ HandleFrames \/ HandleForeign
    \/ Finish \/ Stop

Spec == Init /\ [][Next]_vars

-----------------------------------------------------------------------------
Nodes == DOMAIN parser.nodes
Live == {n \in Nodes : parser.nodes[n].type # "freed"}
Children(n) == parser.nodes[n].children
Entries == {parser.fmt[i] : i \in DOMAIN parser.fmt} \ {Marker}

(* None of the asserts of parser.c fails: the ones of append_node,         *)
(* insert_node, foster_parent_element, pop_current_node, the adoption      *)
(* agency, the handlers and the main loop's about leaked attributes.       *)
AssertsHold == parser.failed = {}

BodyDropped == \E n \in Nodes \ Live : parser.nodes[n].tag = "body"

(* A tree at every moment: what moves nodes (foster parents, the adoption  *)
(* agency, the frameset that replaces the body) loses none, frees none     *)
(* that is still in use and makes no cycle; parents and children agree,    *)
(* also on index_within_parent, which foster parenting inserts by.  Only   *)
(* in the root does that go wrong once its body has been dropped: nobody   *)
(* renumbers what came behind it.                                          *)
TreeIsSound ==
    /\ Live = Below(parser, Doc)
    /\ \A n \in Live : \A i \in DOMAIN Children(n) :
          LET child == parser.nodes[Children(n)[i]]
          IN  /\ child.parent = n
              /\ child.index = i \/ (n = parser.root /\ BodyDropped)
              /\ \A j \in DOMAIN Children(n) : Children(n)[i] = Children(n)[j] => i = j

(* What the stack, the formatting list and the form pointer point to has   *)
(* not been destroyed, and is in no list twice, however often it was       *)
(* cloned and moved; the root stays at the bottom.  A frameset destroys    *)
(* the form it replaces, but its modes never look at the pointer.          *)
FormIsLooked ==
    LET mode == IF parser.mode = "text" THEN parser.orig ELSE parser.mode
    IN  mode \notin {"in frameset", "after frameset", "after after frameset"}

StackIsLive ==
    /\ Range(parser.open) \cup Entries \subseteq Live
    /\ FormIsLooked => parser.form \in Live \cup {0}
    /\ \A i, j \in DOMAIN parser.open : parser.open[i] = parser.open[j] => i = j
    /\ \A i, j \in DOMAIN parser.fmt :
          parser.fmt[i] = parser.fmt[j] => i = j \/ parser.fmt[i] = Marker
    /\ parser.open # <<>> => parser.open[1] = parser.root

(* Noah's ark: no four identical elements after the last marker, whatever  *)
(* reconstruction and adoption put into the list.                          *)
NoahsArk ==
    \A n \in Entries : Cardinality(Identical(parser, n)) <= 3

(* Foster parenting keeps text out of tables: under table, its sections    *)
(* and rows there is only white space.                                     *)
NoTextInTables ==
    \A n \in Live : Is(parser, n, TableContext) /\ parser.nodes[n].ns = "html" =>
        \A i \in DOMAIN Children(n) : parser.nodes[Children(n)[i]].type # "text"

(* Under html first a head, then a body, or a frameset with only noframes  *)
(* after it.                                                               *)
RootShape ==
    LET elements == SelectSeq(Children(parser.root),
                              LAMBDA n : parser.nodes[n].type = "element")
    IN  /\ Len(elements) >= 2
        /\ elements[1] = parser.head
        /\ Is(parser, elements[2], {"body", "frameset"})
        /\ \A i \in 3 .. Len(elements) :
              /\ Is(parser, elements[i], {"noframes"})
              /\ Is(parser, elements[2], {"frameset"})
        /\ parser.nodes[Doc].children # <<>>

(* What find_title looks for is there in every document that has been      *)
(* read.  It gives up for a root with one child and for a title with two,  *)
(* and still finds every text that the first title of a head has.          *)
TitleIsFound ==
    LET title == FirstChild(parser, parser.head, "title")
    IN  Finished =>
            /\ RootShape
            /\ title # 0 =>
                    \A n \in Range(Children(title)) :
                        parser.nodes[n].type = "text" => FindTitle(parser) = n

(* Text stays in the element it was read in: when that leaves the stack,   *)
(* the text buffer has become a text node below it (tables foster theirs). *)
(* Not so for the end tag of a form, which takes the form off the stack    *)
(* and leaves its text in the buffer, to be put behind the form.           *)
Closes(n) == n \notin Range(parser'.open) /\ parser'.nodes[n].type # "freed"

TextGoesInside ==
    /\ parser.text # "none"
    /\ parser.open # <<>>
    /\ Closes(Current(parser))
    /\ ~Is(parser, Current(parser), TableContext)
    =>
        \E n \in Below(parser', Current(parser)) :
            n > Newest(parser) /\ parser'.nodes[n].type = parser.text

TextIsKept == [][~EndTag({"form"}) => TextGoesInside]_vars

(* No token goes round and round: each is done with after at most MaxTurns *)
(* turns of the main loop (an assert of the code says a thousand million). *)
(* As no state is without a step, every document comes to its end.         *)
MaxTurns == 8
TokensAreDone == turns <= MaxTurns
=============================================================================
