------------------------------- MODULE MCHtml -------------------------------
(***************************************************************************)
(* HtmlParser for TLC.  Each family of documents is about one part of the  *)
(* parser: a start that leads there and a few tokens in any order.         *)
(***************************************************************************)
EXTENDS HtmlParser

Family(start, then, len) == [start |-> start, then |-> then, len |-> len]

Marks == {Char, Space, Comment, Null, Doctype}

-----------------------------------------------------------------------------
(* Misnested formatting elements and blocks: the adoption agency. *)
Misnested == Family(<<Start("a"), Start("b")>>,
    StartTags({"p", "a"}) \cup EndTags({"a", "b", "p"}) \cup {Char}, 5)

(* More formatting elements between the two than the inner loop clones.    *)
Deep == Family(<<Start("a"), Start("b"), Start("i"), Start("em"), Start("u"), Start("p")>>,
    StartTags({"a", "p"}) \cup EndTags({"a", "b", "i"}) \cup {Char}, 4)

(* Equal formatting elements, their reconstruction, and markers. *)
Crowded == Family(<<Start("b"), Start("b"), Start("p"), Start("b")>>,
    StartTags({"b", "p", "object"}) \cup EndTags({"b", "p", "object"})
        \cup {StartWith("b", {"class"})}, 4)

(* Formatting elements and text where only table parts belong. *)
Fostering == Family(<<Start("table"), Start("a")>>,
    StartTags({"tr", "a", "p", "td"}) \cup EndTags({"a", "table"}) \cup {Char, Space}, 5)

Nesting == Family(<<Start("table"), Start("tr"), Start("td")>>,
    StartTags({"tr", "td", "table", "b", "caption"}) \cup EndTags({"td", "tr", "table", "tbody"})
        \cup {Char}, 4)

Nobrs == Family(<<Start("nobr"), Start("div")>>,
    StartTags({"nobr", "marquee", "p"}) \cup EndTags({"nobr", "marquee", "div"}) \cup {Char}, 3)

-----------------------------------------------------------------------------
(* The body that gives way to a frameset. *)
Framesets == Family(<<Start("form"), Start("p")>>,
    StartTags({"frameset", "frame", "noframes", "b"})
        \cup EndTags({"frameset", "body", "html", "noframes"}) \cup {Comment, Space}, 4)

Selects == Family(<<Start("table"), Start("tr"), Start("td"), Start("select")>>,
    StartTags({"option", "optgroup", "td", "select", "input", "table"})
        \cup EndTags({"option", "optgroup", "select", "tr", "td", "table"}), 3)

Svg == Family(<<Start("p"), Start("svg")>>,
    StartTags({"desc", "p", "title", "table", "b"}) \cup EndTags({"svg", "p", "desc", "b"})
        \cup {Char, Null, SelfClosing("circle")}, 3)

MathMl == Family(<<Start("b"), Start("math")>>,
    StartTags({"mi", "annotation-xml", "svg", "malignmark", "p"}) \cup EndTags({"mi", "math", "p", "b"})
        \cup {StartWith("annotation-xml", {"encoding"}), StartWith("font", {"color"}), Char}, 3)

Titles == Family(<<>>,
    StartTags({"head", "title", "meta", "body", "svg"}) \cup EndTags({"title", "head"})
        \cup {Comment, Space, Char, QuirksDoctype}, 4)

Lists == Family(<<Start("ul"), Start("li")>>,
    StartTags({"li", "ul", "p", "dd", "dt", "b"}) \cup EndTags({"li", "ul", "dd", "p"}), 3)

Forms == Family(<<Start("form"), Start("button")>>,
    StartTags({"form", "button", "table", "p", "textarea"}) \cup EndTags({"form", "button", "p", "textarea"})
        \cup {StartWith("isindex", {"action", "name", "prompt", "size"}), LineFeed}, 3)

-----------------------------------------------------------------------------
(* Every kind of token in every insertion mode. *)
Tags ==
    {"a", "address", "annotation-xml", "applet", "b", "base", "body", "br", "button", "caption",
     "col", "colgroup", "dd", "form", "frame", "frameset", "h1", "h2", "head", "hr", "html",
     "iframe", "image", "input", "isindex", "li", "listing", "math", "menuitem", "meta", "nobr",
     "noembed", "noframes", "noscript", "object", "optgroup", "option", "p", "param",
     "plaintext", "pre", "rt", "ruby", "script", "select", "span", "style", "svg", "table", "tbody",
     "td", "textarea", "title", "tr", "ul", "unknown", "xmp"}

Tokens ==
    StartTags(Tags) \cup EndTags(Tags) \cup Marks
        \cup {QuirksDoctype, LineFeed, SelfClosing("unknown"), SelfClosing("math"),
              StartWith("input", {"hidden"}), StartWith("body", {"class"})}

Contexts ==
    <<<<>>, <<Doctype>>, <<Start("html")>>, <<Start("head")>>,
      <<Start("head"), Start("noscript")>>, <<Start("head"), End("head")>>,
      <<Start("p")>>, <<Start("p"), Start("button")>>, <<Start("ruby"), Start("rt")>>,
      <<Start("pre")>>, <<Start("h1"), Start("object")>>, <<Start("span"), Start("form")>>,
      <<Doctype, Start("p"), Start("table")>>, <<Start("table"), Char>>,
      <<Start("table"), Start("caption")>>, <<Start("table"), Start("col")>>,
      <<Start("table"), Start("tbody")>>, <<Start("table"), Start("tr")>>,
      <<Start("table"), Start("td")>>, <<Start("select"), Start("optgroup"), Start("option")>>,
      <<Start("p"), End("body")>>, <<Start("p"), End("body"), End("html")>>,
      <<Start("frameset"), Start("frameset")>>, <<Start("frameset"), End("frameset")>>,
      <<Start("frameset"), End("frameset"), End("html")>>,
      <<Start("svg")>>, <<Start("math"), Start("mi")>>>>

Everywhere == [i \in DOMAIN Contexts |-> Family(Contexts[i], Tokens, 1)]

MCDocuments ==
    <<Misnested, Deep, Crowded, Fostering, Nesting, Nobrs, Framesets, Selects, Svg, MathMl,
      Titles, Lists, Forms>> \o Everywhere
=============================================================================
