-------------------------- MODULE MCHtmlTokenizer --------------------------
(***************************************************************************)
(* HtmlTokenizer for TLC.  Each family of documents is about one part of   *)
(* the tokenizer: a start that leads there and a few symbols in any order. *)
(***************************************************************************)
EXTENDS HtmlTokenizer

Family(start, then, len) == {[start |-> start, then |-> then, len |-> len]}

-----------------------------------------------------------------------------
(* Tags, comments and text in any order. *)
Tags == Family(<<"a", "<">>, {"<", "/", ">", "!", "?", "a", " ", NUL}, 3)

(* Attributes, given once and twice. *)
Attributes == Family(<<"<", "a", " ", "b">>, {" ", "=", "b", "\"", ">", "/"}, 4)
Values     == Family(<<"<", "a", " ", "b", "=", "a", " ", "b", "=">>, {"'", "\"", "a", "&", ">", NUL}, 4)
NamesLeft  == Family(<<"<", "/", "a">>, {" ", "A", "=", NUL, ">", "\""}, 3)

(* References in text, in RCDATA and in values. *)
References    == Family(<<"&">>, {"lt", "acE", ";", "#", "x", "0", "1"}, 4)
InRcdata      == Family(<<"<", "title", ">", "&">>, {"lt", "acE", ";", "<", "#", "&"}, 3)
InQuotes      == Family(<<"<", "a", " ", "b", "=", "\"", "&">>, {"lt", "acE", ";", "=", "\"", ">", "#", "1"}, 3)
InSingle      == Family(<<"<", "a", " ", "b", "=", "'", "&">>, {"lt", "\"", "'", ">", "=", "#"}, 3)
Unquoted      == Family(<<"<", "a", " ", "b", "=", "&">>, {"lt", "acE", ";", "a", ">", " ", "#"}, 3)

-----------------------------------------------------------------------------
(* Text that its own end tag ends. *)
RawTexts == UNION
    {Family(<<"<", name, ">">>, {"<", "/", name, ">", " ", "a", NUL}, 3) :
        name \in {"style", "plaintext"}}
Titles == Family(<<"<", "title", ">">>, {"<", "/", "TITLE", ">", "a", "&"}, 4)
TagsIn == UNION
    {Family(<<"<", name, ">", "<", "/", name>>, {"<", "/", name, ">", " ", "a"}, 3) :
        name \in {"style", "title", "script"}}

Scripts == Family(<<"<", "script", ">">>, {"<", "/", "script", ">", "!", "-"}, 4)
Escapes == Family(<<"<", "script", ">", "<", "!", "-", "-">>,
    {"<", "/", "script", ">", "-", NUL}, 4)
TwiceEscaped == Family(<<"<", "script", ">", "<", "!", "-", "-", "<", "script", ">">>,
    {"<", "/", "script", ">", "-", "a"}, 4)
EndsIn == UNION
    {Family(<<"<", "script", ">", "<", "!", "-", "-", "<", "script", ">">>
                \o <<"<", "/", "script">> \o ends, {"<", "/", "script", ">", "-"}, 4) :
        ends \in {<<">">>, <<" ", NUL>>, <<"a", ">">>}}

-----------------------------------------------------------------------------
(* Comments, doctypes and CDATA sections. *)
Comments == Family(<<"<", "!", "-", "-">>, {"-", ">", "!", "a", NUL}, 5)
Doctypes == Family(<<"<", "!", "doctype">>, {" ", "a", "A", ">", NUL, "public", "system"}, 4)
Identifiers == UNION
    {Family(<<"<", "!", "doctype", " ", "a", " ", keyword>>, {" ", "\"", "'", "a", NUL, ">"}, 4) :
        keyword \in {"public", "system"}}
SystemIds == Family(<<"<", "!", "doctype", " ", "a", " ", "public", "\"", "\"">>,
    {" ", "\"", "'", "b", ">"}, 4)

Sections == Family(<<"<", "svg", ">", "<", "!">>, {"[CDATA[", "]", ">", "a", NUL}, 5)
TwoSections == Family(<<"<", "svg", ">", "<", "/", ">", "<", "!", "[CDATA[", "]", "]", ">">>,
    {"<", "/", "!", "[CDATA[", "svg", ">"}, 3)
AfterSvg == Family(<<"<", "svg", ">", "<", "title", ">", "<", "/">>,
    {"svg", "title", ">", "<", "!", "[CDATA["}, 3)

MCDocuments ==
    Tags \cup Attributes \cup Values \cup NamesLeft
        \cup References \cup InRcdata \cup InQuotes \cup InSingle \cup Unquoted
        \cup RawTexts \cup Titles \cup TagsIn
        \cup Scripts \cup Escapes \cup TwiceEscaped \cup EndsIn
        \cup Comments \cup Doctypes \cup Identifiers \cup SystemIds
        \cup Sections \cup TwoSections \cup AfterSvg
=============================================================================
