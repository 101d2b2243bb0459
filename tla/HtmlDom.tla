------------------------------ MODULE HtmlDom ------------------------------
(***************************************************************************)
(* The document tree that gumbo's parser builds, and the parser's record   *)
(* (GumboParser with its GumboParserState and output, parser.c of          *)
(* tclgumbo/generic).  The operators take the record p before a call and   *)
(* return the one after it; the caller's module has it in a variable.      *)
(*                                                                         *)
(* A node is a number, its place in p.nodes; Doc is the document, 0 stands *)
(* for NULL.  Positions count from 1 where the code counts from 0.  An     *)
(* assert of the code that fails puts its name into p.failed.              *)
(*                                                                         *)
(* Left out: source positions, the text itself, parse errors and flags.    *)
(***************************************************************************)
EXTENDS Naturals, Sequences, SequencesExt, FiniteSets

Doc == 1

Check(p, cond, name) ==
    IF cond THEN p ELSE [p EXCEPT !.failed = @ \cup {name}]

(* node_tag_is and node_tag_in: the namespace is not looked at. *)
Is(p, n, tags) == p.nodes[n].type = "element" /\ p.nodes[n].tag \in tags

Current(p) == Last(p.open)

(* gumbo_vector_index_of, 0 for none *)
IndexOf(seq, e) == SelectInSeq(seq, LAMBDA x : x = e)

Fresh(type, tag, ns, attrs) ==
    [type |-> type, tag |-> tag, ns |-> ns, attrs |-> attrs,
     parent |-> 0, index |-> 0, children |-> <<>>]

(* create_node and its callers: the new node is the last one of p.nodes. *)
Create(p, node) == [p EXCEPT !.nodes = Append(@, node)]

Newest(p) == Len(p.nodes)

(* append_node and, below, insert_node, which gives the later children     *)
(* their new index.                                                        *)
AppendNode(p, parent, n) ==
    [Check(p, p.nodes[n].parent = 0 /\ p.nodes[n].index = 0, "append_node")
        EXCEPT !.nodes[parent].children = Append(@, n),
               !.nodes[n].parent = parent,
               !.nodes[n].index = Len(p.nodes[parent].children) + 1]

(* The loop that sets the index of the children of par from the i-th on.   *)
Renumbered(nodes, par, i) ==
    FoldLeft(LAMBDA ns, k : [ns EXCEPT ![ns[par].children[k]].index = k],
             nodes, [k \in 1 .. Len(nodes[par].children) + 1 - i |-> i + k - 1])

InsertNode(p, parent, i, n) ==
    [Check(p, /\ p.nodes[n].parent = 0
              /\ p.nodes[n].index = 0
              /\ i \in DOMAIN p.nodes[parent].children, "insert_node")
        EXCEPT !.nodes = Renumbered([@ EXCEPT ![parent].children = InsertAt(@, i, n),
                                              ![n].parent = parent], parent, i)]

RemoveFromParent(p, n) ==
    LET par == p.nodes[n].parent
        at  == IndexOf(p.nodes[par].children, n)
    IN  IF par = 0 THEN p
        ELSE [p EXCEPT !.nodes =
                 Renumbered([@ EXCEPT ![par].children = RemoveAt(@, at),
                                      ![n].parent = 0, ![n].index = 0], par, at)]

TableContext == {"table", "tbody", "tfoot", "thead", "tr"}

(* foster_parent_element: in front of the last table, the i-th on the      *)
(* stack, or, when that has no element for a parent, into the element      *)
(* below it; an element that is appended so goes on the stack here too.    *)
FosterInto(p, par, n) ==
    AppendNode(IF p.nodes[n].type = "element" THEN [p EXCEPT !.open = Append(@, n)] ELSE p,
               par, n)

FosterBefore(p, table, n) ==
    InsertNode(Check(p, IndexOf(p.nodes[p.nodes[table].parent].children, table)
                          = p.nodes[table].index, "foster_index"),
               p.nodes[table].parent, p.nodes[table].index, n)

FosterAt(p, i, n) ==
    IF i < 3 THEN FosterInto(p, p.open[1], n)
    ELSE IF /\ p.nodes[p.open[i]].parent # 0
            /\ p.nodes[p.nodes[p.open[i]].parent].type = "element"
         THEN FosterBefore(p, p.open[i], n)
         ELSE FosterInto(p, p.open[i - 1], n)

FosterParent(p, n) ==
    FosterAt(Check(p, Len(p.open) > 2 /\ Is(p, p.open[1], {"html"}), "foster_parent"),
             SelectLastInSeq(p.open, LAMBDA m : Is(p, m, {"table"})), n)

Fosters(p) == p.foster /\ Is(p, Current(p), TableContext)

(* Where append_node puts a node that belongs to the current one. *)
Place(p, n) ==
    IF Fosters(p) THEN FosterParent(p, n)
    ELSE AppendNode(p, IF p.root # 0 THEN Current(p) ELSE Doc, n)

(* maybe_flush_text_node_buffer *)
FlushInto(p) == [Place(p, Newest(p)) EXCEPT !.text = "none"]

Flush(p) ==
    IF p.text = "none" THEN p ELSE FlushInto(Create(p, Fresh(p.text, "", "html", {})))

(* insert_text_token: one character that is no space makes it a text.      *)
InsertText(p, kind) ==
    [p EXCEPT !.text = IF kind = "text" \/ @ = "none" THEN kind ELSE @]

(* append_comment_node *)
AppendNewest(p, parent) == AppendNode(p, parent, Newest(p))

AppendComment(p, parent) ==
    AppendNewest(Create(Flush(p), Fresh("comment", "", "html", {})), parent)

(* The nodes below n, n among them. *)
Below(p, n) ==
    FoldLeft(LAMBDA S, m : S \cup UNION {Range(p.nodes[k].children) : k \in S},
             {n}, p.nodes)

(* destroy_node *)
Destroy(p, n) ==
    [p EXCEPT !.nodes =
        FoldSet(LAMBDA m, ns : [ns EXCEPT ![m].type = "freed"], @, Below(p, n))]

(***************************************************************************)
(* find_title of htmltitle.c: the text of the first title in the first     *)
(* head, or 0 for the empty string that is returned otherwise.             *)
(***************************************************************************)
FirstChild(p, n, tag) ==
    LET i == SelectInSeq(p.nodes[n].children, LAMBDA m : Is(p, m, {tag}))
    IN  IF i = 0 THEN 0 ELSE p.nodes[n].children[i]

FindTitle(p) ==
    LET head  == FirstChild(p, p.root, "head")
        title == FirstChild(p, head, "title")
    IN  IF \/ Len(p.nodes[p.root].children) < 2
           \/ head = 0
           \/ title = 0
           \/ Len(p.nodes[title].children) # 1
           \/ p.nodes[p.nodes[title].children[1]].type # "text"
        THEN 0 ELSE p.nodes[title].children[1]
=============================================================================
