------------------------- MODULE HtmlRawTextProofs -------------------------
(***************************************************************************)
(* The text of a title, a style or a script ends at its own end tag and    *)
(* nowhere else (RawTextEnds).                                             *)
(*                                                                         *)
(* The invariant says of every start tag after which nothing but           *)
(* characters has come how far its text has been read and, by the state,   *)
(* what is in it: for a script whether <!-- is still open there and        *)
(* whether <script> has followed it.  While something is kept back the     *)
(* text goes up to the mark, while the buffer goes out up to its end.      *)
(***************************************************************************)
EXTENDS HtmlTokenizerProofs

-----------------------------------------------------------------------------
(* What a script holds up to a place.                                      *)
ScriptEndAt(p) == EndTagAt(p, <<"script">>)

EscapedBy(from, x) == \E q \in from .. x - 1 : EscapeAt(q)
DoubledBy(from, x) == \E q, r \in from .. x - 1 : q < r /\ EscapeAt(q) /\ ScriptAt(r)

(* Every <!-- is over, and every pair of <!-- and <script>. *)
AllOver(from, x)  ==
    \A q \in from .. x - 1 : EscapeAt(q) => \E p \in q + 2 .. x - 1 : EscapeEndAt(p)
NoneOpen(from, x) ==
    \A q, r \in from .. x - 1 :
        q < r /\ EscapeAt(q) /\ ScriptAt(r) =>
            (\E p \in q + 2 .. x - 1 : EscapeEndAt(p)) \/ (\E p \in r .. x - 1 : ScriptEndAt(p))

(* No end tag has been passed over that ends the text of start tag t. *)
NoEnd(t, x) ==
    \A p \in t.to .. x - 1 : EndTagAt(p, t.name) => t.then = "script" /\ DoubledBy(t.to, p)

Ends(t, x) == NoEnd(t, x) /\ (t.then = "script" => NoneOpen(t.to, x))

(* A tag's name, as it is read. *)
NameFrom(a, x, name) ==
    /\ name \in Seq(Symbols) /\ x = a + Len(name)
    /\ \A q \in a .. x - 1 : CharAt(q) \in Letters
    /\ Len(name) = 1 => name = <<Lower(CharAt(a))>>

(* By the state of script data. *)
StartMarked(from, x) ==
    from <= x - 2 /\ AllOver(from, x - 2) /\ CharAt(x - 2) = "<" /\ CharAt(x - 1) = "!"
StartDashed(from, x) ==
    /\ from <= x - 3 /\ AllOver(from, x - 3)
    /\ CharAt(x - 3) = "<" /\ CharAt(x - 2) = "!" /\ CharAt(x - 1) = "-"
Escaping(from, x)   == EscapedBy(from, x) /\ NoneOpen(from, x)
Dashed(from, x)     == from <= x - 1 /\ CharAt(x - 1) = "-"
DashDashed(from, x) == from <= x - 2 /\ CharAt(x - 2) = "-" /\ CharAt(x - 1) = "-"
StartNamed(from, x, name) ==
    \E a \in from + 1 .. x - 1 :
        NameFrom(a, x, name) /\ CharAt(a - 1) = "<" /\ Escaping(from, a - 1)
EndOpened(from, x)  == from <= x - 1 /\ CharAt(x - 1) = "<"
EndNamed(from, x, name) ==
    \E a \in from + 2 .. x : NameFrom(a, x, name) /\ CharAt(a - 1) = "/" /\ CharAt(a - 2) = "<"

ScriptStates  == {"script", "script lt", "script end tag open", "script end tag name"}
EscapedStates ==
    {"script escaped", "script escaped lt", "script escaped end tag open",
     "script escaped end tag name"}
InScript(s, from, x, name) ==
    /\ s \in ScriptStates => AllOver(from, x)
    /\ s = "script escaped start" => StartMarked(from, x)
    /\ s = "script escaped start dash" => StartDashed(from, x)
    /\ s \in EscapedStates => Escaping(from, x)
    /\ s = "script escaped dash" => Escaping(from, x) /\ Dashed(from, x)
    /\ s = "script escaped dash dash" => Escaping(from, x) /\ DashDashed(from, x)
    /\ s = "script double escaped start" => StartNamed(from, x, name)
    /\ s = "script double escaped" => DoubledBy(from, x)
    /\ s = "script double escaped dash" => DoubledBy(from, x) /\ Dashed(from, x)
    /\ s = "script double escaped dash dash" => DoubledBy(from, x) /\ DashDashed(from, x)
    /\ s = "script double escaped lt" => DoubledBy(from, x) /\ EndOpened(from, x)
    /\ s = "script double escaped end" => DoubledBy(from, x) /\ EndNamed(from, x, name)

(* The states that read an element's text, by the one it began in. *)
TextStatesOf(then) ==
    CASE then = "rcdata" ->
            {"rcdata", "char ref in rcdata", "rcdata lt", "rcdata end tag open",
             "rcdata end tag name"}
      [] then = "rawtext" ->
            {"rawtext", "rawtext lt", "rawtext end tag open", "rawtext end tag name"}
      [] then = "script" ->
            ScriptStates \cup EscapedStates \cup
            {"script escaped start", "script escaped start dash", "script escaped dash",
             "script escaped dash dash", "script double escaped start",
             "script double escaped", "script double escaped dash",
             "script double escaped dash dash", "script double escaped lt",
             "script double escaped end"}
      [] then = "plaintext" -> {"plaintext"}
      [] OTHER -> {}

(* The text of start tag t has been read up to x. *)
IsText(t) == t.to \in Nat \ {0} /\ t.name \in DOMAIN TextOf /\ t.then = TextOf[t.name]
TextTo(s, x, name, t) ==
    /\ s \in TextStatesOf(t.then) /\ t.to <= x
    /\ t.then # "plaintext" => NoEnd(t, x)
    /\ t.then = "script" => InScript(s, t.to, x, name)

-----------------------------------------------------------------------------
(* What is at a place. *)

\* Texts begin in their own states.
LEMMA TextIs ==
    ASSUME NEW t, IsText(t)
    PROVE  /\ \/ t.then = "rcdata" /\ t.name = <<"title">>
              \/ t.then = "rawtext" /\ t.name = <<"style">>
              \/ t.then = "script" /\ t.name = <<"script">>
              \/ t.then = "plaintext" /\ t.name = <<"plaintext">>
           /\ Head(t.name) \in Letters /\ t.name = <<Head(t.name)>>
<1>1. t.name \in {<<"title">>, <<"style">>, <<"script">>, <<"plaintext">>}
    BY DEF IsText, TextOf
<1>2. CASE t.name = <<"title">>
    BY <1>2 DEF IsText, TextOf, Letters
<1>3. CASE t.name = <<"style">>
    BY <1>3 DEF IsText, TextOf, Letters
<1>4. CASE t.name = <<"script">>
    BY <1>4 DEF IsText, TextOf, Letters
<1>5. CASE t.name = <<"plaintext">>
    BY <1>5 DEF IsText, TextOf, Letters
<1> QED BY <1>1, <1>2, <1>3, <1>4, <1>5

\* Places next to one another, from one on,
LEMMA PlacesOn ==
    ASSUME NEW p \in Nat
    PROVE  /\ p + 1 - 1 = p /\ p + 2 - 1 = p + 1 /\ p + 3 - 1 = p + 2 /\ p + 4 - 1 = p + 3
           /\ p + 2 + 1 = p + 3 /\ p + 1 + 1 = p + 2
OBVIOUS

\* and the words that are looked for there.
LEMMA WordsAt ==
    ASSUME NEW p \in Nat
    PROVE  /\ \A name : EndTagAt(p, name) <=>
                /\ CharAt(p) = "<" /\ CharAt(p + 1) = "/"
                /\ Lower(CharAt(p + 2)) = Head(name) /\ CharAt(p + 3) \in NameEnds
           /\ ScriptAt(p) <=>
                /\ CharAt(p) = "<" /\ Lower(CharAt(p + 1)) = "script"
                /\ CharAt(p + 2) \in NameEnds
           /\ EscapeAt(p) <=>
                /\ CharAt(p) = "<" /\ CharAt(p + 1) = "!" /\ CharAt(p + 2) = "-"
                /\ CharAt(p + 3) = "-"
           /\ EscapeEndAt(p) <=>
                CharAt(p) = "-" /\ CharAt(p + 1) = "-" /\ CharAt(p + 2) = ">"
<1>1. /\ p + 1 - 1 = p /\ p + 2 - 1 = p + 1 /\ p + 3 - 1 = p + 2 /\ p + 4 - 1 = p + 3
      /\ p + 2 + 1 = p + 3 /\ p + 1 + 1 = p + 2
    BY PlacesOn
<1>2. Matches(p, <<"<", "/">>) <=> CharAt(p) = "<" /\ CharAt(p + 1) = "/"
  <2> DEFINE w == <<"<", "/">>
  <2>1. DOMAIN w = {1, 2} /\ w[1] = "<" /\ w[2] = "/"
      OBVIOUS
  <2> HIDE DEF w
  <2>2. Matches(p, w) <=> CharAt(p + 1 - 1) = w[1] /\ CharAt(p + 2 - 1) = w[2]
      BY <2>1 DEF Matches
  <2> QED BY <1>1, <2>1, <2>2, Zenon DEF w
<1>3. EscapeAt(p) <=>
        CharAt(p) = "<" /\ CharAt(p + 1) = "!" /\ CharAt(p + 2) = "-" /\ CharAt(p + 3) = "-"
  <2> DEFINE w == <<"<", "!", "-", "-">>
  <2>1. DOMAIN w = {1, 2, 3, 4} /\ w[1] = "<" /\ w[2] = "!" /\ w[3] = "-" /\ w[4] = "-"
      OBVIOUS
  <2> HIDE DEF w
  <2>2. Matches(p, w) <=> /\ CharAt(p + 1 - 1) = w[1] /\ CharAt(p + 2 - 1) = w[2]
                          /\ CharAt(p + 3 - 1) = w[3] /\ CharAt(p + 4 - 1) = w[4]
      BY <2>1 DEF Matches
  <2> QED BY <1>1, <2>1, <2>2, Zenon DEF w, EscapeAt
<1>4. EscapeEndAt(p) <=> CharAt(p) = "-" /\ CharAt(p + 1) = "-" /\ CharAt(p + 2) = ">"
  <2> DEFINE w == <<"-", "-", ">">>
  <2>1. DOMAIN w = {1, 2, 3} /\ w[1] = "-" /\ w[2] = "-" /\ w[3] = ">"
      OBVIOUS
  <2> HIDE DEF w
  <2>2. Matches(p, w) <=> /\ CharAt(p + 1 - 1) = w[1] /\ CharAt(p + 2 - 1) = w[2]
                          /\ CharAt(p + 3 - 1) = w[3]
      BY <2>1 DEF Matches
  <2> QED BY <1>1, <2>1, <2>2, Zenon DEF w, EscapeEndAt
<1>5. \A name : EndTagAt(p, name) <=>
                /\ CharAt(p) = "<" /\ CharAt(p + 1) = "/"
                /\ Lower(CharAt(p + 2)) = Head(name) /\ CharAt(p + 3) \in NameEnds
    BY <1>1, <1>2, Zenon DEF EndTagAt, TagNameAt
<1>6. Head(<<"script">>) = "script"
    OBVIOUS
<1>7. ScriptAt(p) <=>
        CharAt(p) = "<" /\ Lower(CharAt(p + 1)) = "script" /\ CharAt(p + 2) \in NameEnds
    BY <1>1, <1>6, Zenon DEF ScriptAt, TagNameAt
<1> QED BY <1>3, <1>4, <1>5, <1>7

\* What lower case makes a letter of is a letter.
LEMMA LetterLowered ==
    \A s : Lower(s) \in Letters => s \in Letters
BY DEF Lower, Letters

\* None of the words begins but with "<",
LEMMA NoneHere ==
    ASSUME NEW p \in Nat, CharAt(p) # "<"
    PROVE  ~EscapeAt(p) /\ ~ScriptAt(p) /\ \A name : ~EndTagAt(p, name)
BY WordsAt, Zenon

\* and what follows "<" decides which it is.
LEMMA WordsApart ==
    ASSUME NEW p \in Nat
    PROVE  /\ CharAt(p + 1) # "/" => \A name : ~EndTagAt(p, name)
           /\ CharAt(p + 1) # "!" => ~EscapeAt(p)
           /\ CharAt(p + 2) # "-" => ~EscapeAt(p)
           /\ CharAt(p + 3) # "-" => ~EscapeAt(p)
           /\ CharAt(p + 1) \notin Letters => ~ScriptAt(p)
           /\ CharAt(p + 2) \notin Letters => \A t : IsText(t) => ~EndTagAt(p, t.name)
           /\ CharAt(p + 2) \notin NameEnds => ~ScriptAt(p)
           /\ CharAt(p + 3) \notin NameEnds => \A name : ~EndTagAt(p, name)
<1>1. "script" \in Letters
    BY DEF Letters
<1>2. /\ CharAt(p + 1) # "/" => \A name : ~EndTagAt(p, name)
      /\ CharAt(p + 3) \notin NameEnds => \A name : ~EndTagAt(p, name)
    BY WordsAt, Zenon
<1>3. /\ CharAt(p + 1) # "!" => ~EscapeAt(p)
      /\ CharAt(p + 2) # "-" => ~EscapeAt(p)
      /\ CharAt(p + 3) # "-" => ~EscapeAt(p)
    BY WordsAt, Zenon
<1>4. /\ CharAt(p + 1) \notin Letters => ~ScriptAt(p)
      /\ CharAt(p + 2) \notin NameEnds => ~ScriptAt(p)
    BY <1>1, WordsAt, LetterLowered, Zenon
<1>5. ASSUME CharAt(p + 2) \notin Letters, NEW t, IsText(t)
      PROVE  ~EndTagAt(p, t.name)
  <2> SUFFICES ASSUME EndTagAt(p, t.name) PROVE FALSE
      OBVIOUS
  <2>1. Lower(CharAt(p + 2)) = Head(t.name)
      BY WordsAt
  <2>2. Head(t.name) \in Letters
      BY <1>5, TextIs
  <2> QED BY <1>5, <2>1, <2>2, LetterLowered
<1> QED BY <1>2, <1>3, <1>4, <1>5

-----------------------------------------------------------------------------
(* Further on in the text. *)

\* Past places where none begins, every <!-- is still over,
LEMMA AllOverOn ==
    ASSUME NEW from \in Nat, NEW x \in Nat, NEW y \in Nat, x <= y, AllOver(from, x),
           \A p \in x .. y - 1 : ~EscapeAt(p)
    PROVE  AllOver(from, y)
<1> SUFFICES ASSUME NEW q \in from .. y - 1, EscapeAt(q)
             PROVE  \E p \in q + 2 .. y - 1 : EscapeEndAt(p)
    BY DEF AllOver
<1>1. q \in from .. x - 1
    OBVIOUS
<1>2. PICK p \in q + 2 .. x - 1 : EscapeEndAt(p)
    BY <1>1 DEF AllOver
<1> QED BY <1>2

\* and every pair.
LEMMA NoneOpenOn ==
    ASSUME NEW from \in Nat, NEW x \in Nat, NEW y \in Nat, x <= y, NoneOpen(from, x),
           \A p \in x .. y - 1 : ~ScriptAt(p)
    PROVE  NoneOpen(from, y)
<1> SUFFICES ASSUME NEW q \in from .. y - 1, NEW r \in from .. y - 1,
                    q < r, EscapeAt(q), ScriptAt(r)
             PROVE  \/ \E p \in q + 2 .. y - 1 : EscapeEndAt(p)
                    \/ \E p \in r .. y - 1 : ScriptEndAt(p)
    BY DEF NoneOpen
<1>1. q \in from .. x - 1 /\ r \in from .. x - 1
    OBVIOUS
<1>2. \/ \E p \in q + 2 .. x - 1 : EscapeEndAt(p)
      \/ \E p \in r .. x - 1 : ScriptEndAt(p)
    BY <1>1 DEF NoneOpen
<1> QED BY <1>2

\* Where every <!-- is over, so is every pair.
LEMMA AllOverNone ==
    ASSUME NEW from \in Nat, NEW x \in Nat, AllOver(from, x)
    PROVE  NoneOpen(from, x)
BY DEF AllOver, NoneOpen

\* What has been passed stays passed.
LEMMA PassedStays ==
    ASSUME NEW from \in Nat, NEW x \in Nat, NEW y \in Nat, x <= y
    PROVE  /\ EscapedBy(from, x) => EscapedBy(from, y)
           /\ DoubledBy(from, x) => DoubledBy(from, y) /\ EscapedBy(from, y)
BY DEF EscapedBy, DoubledBy

\* "-->" is the end of every <!-- before it,
LEMMA EscapeOver ==
    ASSUME NEW from \in Nat, NEW x \in Nat, from <= x - 2, EscapeEndAt(x - 2),
           from <= x - 3 => ~EscapeAt(x - 3),
           ~EscapeAt(x - 2), ~EscapeAt(x - 1), ~EscapeAt(x)
    PROVE  AllOver(from, x + 1)
<1> SUFFICES ASSUME NEW q \in from .. (x + 1) - 1, EscapeAt(q)
             PROVE  \E p \in q + 2 .. (x + 1) - 1 : EscapeEndAt(p)
    BY DEF AllOver
<1>1. q + 2 <= x - 2
  <2>1. q # x /\ q # x - 1 /\ q # x - 2 /\ q # x - 3
      OBVIOUS
  <2> QED BY <2>1
<1>2. x - 2 \in q + 2 .. (x + 1) - 1
    BY <1>1
<1> QED BY <1>2

\* </script> that of every pair,
LEMMA PairOver ==
    ASSUME NEW from \in Nat, NEW m \in Nat, NEW y \in Nat, m < y, ScriptEndAt(m),
           \A r \in m .. y - 1 : ~ScriptAt(r)
    PROVE  NoneOpen(from, y)
<1> SUFFICES ASSUME NEW q \in from .. y - 1, NEW r \in from .. y - 1, ScriptAt(r)
             PROVE  \E p \in r .. y - 1 : ScriptEndAt(p)
    BY DEF NoneOpen
<1>1. r < m
    OBVIOUS
<1> QED BY <1>1

\* and <script> after <!-- makes one.
LEMMA PairHere ==
    ASSUME NEW from \in Nat, NEW m \in Nat, NEW y \in Nat, from <= m, m < y,
           EscapedBy(from, m), ScriptAt(m)
    PROVE  DoubledBy(from, y)
<1>1. PICK q \in from .. m - 1 : EscapeAt(q)
    BY DEF EscapedBy
<1>2. q \in from .. y - 1 /\ m \in from .. y - 1 /\ q < m
    BY <1>1
<1> QED BY <1>1, <1>2 DEF DoubledBy

\* No end tag that counts is passed over.
LEMMA NoEndOn ==
    ASSUME NEW t, t.to \in Nat, NEW x \in Nat, NEW y \in Nat, x <= y, NoEnd(t, x),
           \A p \in x .. y - 1 :
             EndTagAt(p, t.name) => t.then = "script" /\ DoubledBy(t.to, p)
    PROVE  NoEnd(t, y)
<1> SUFFICES ASSUME NEW p \in t.to .. y - 1, EndTagAt(p, t.name)
             PROVE  t.then = "script" /\ DoubledBy(t.to, p)
    BY DEF NoEnd
<1>1. CASE p \in x .. y - 1
    BY <1>1
<1>2. CASE p \notin x .. y - 1
  <2>1. p \in t.to .. x - 1
      BY <1>2
  <2> QED BY <2>1 DEF NoEnd
<1> QED BY <1>1, <1>2

-----------------------------------------------------------------------------
(* The texts by their states. *)

(* States that say the same of a text. *)
Families ==
    {TextStatesOf("rcdata"), TextStatesOf("rawtext"), TextStatesOf("plaintext"), ScriptStates,
     EscapedStates}

(* Up to x the text of a script, in which no end tag counts. *)
IsScript(t, x) == t.then = "script" /\ t.to <= x /\ NoEnd(t, x)

\* What is said of a script, by the state.
LEMMA InScriptIs ==
    ASSUME NEW from, NEW x, NEW n
    PROVE  /\ \A s \in ScriptStates : InScript(s, from, x, n) <=> AllOver(from, x)
           /\ InScript("script escaped start", from, x, n) <=> StartMarked(from, x)
           /\ InScript("script escaped start dash", from, x, n) <=> StartDashed(from, x)
           /\ \A s \in EscapedStates : InScript(s, from, x, n) <=> Escaping(from, x)
           /\ InScript("script escaped dash", from, x, n) <=>
                Escaping(from, x) /\ Dashed(from, x)
           /\ InScript("script escaped dash dash", from, x, n) <=>
                Escaping(from, x) /\ DashDashed(from, x)
           /\ InScript("script double escaped start", from, x, n) <=> StartNamed(from, x, n)
           /\ InScript("script double escaped", from, x, n) <=> DoubledBy(from, x)
           /\ InScript("script double escaped dash", from, x, n) <=>
                DoubledBy(from, x) /\ Dashed(from, x)
           /\ InScript("script double escaped dash dash", from, x, n) <=>
                DoubledBy(from, x) /\ DashDashed(from, x)
           /\ InScript("script double escaped lt", from, x, n) <=>
                DoubledBy(from, x) /\ EndOpened(from, x)
           /\ InScript("script double escaped end", from, x, n) <=>
                DoubledBy(from, x) /\ EndNamed(from, x, n)
BY DEF InScript, ScriptStates, EscapedStates

\* What is said of a text, by the state.
LEMMA TextToIs ==
    ASSUME NEW t, IsText(t), NEW x, NEW n
    PROVE  /\ \A s \in TextStatesOf("rcdata") :
                TextTo(s, x, n, t) <=> t.then = "rcdata" /\ t.to <= x /\ NoEnd(t, x)
           /\ \A s \in TextStatesOf("rawtext") :
                TextTo(s, x, n, t) <=> t.then = "rawtext" /\ t.to <= x /\ NoEnd(t, x)
           /\ \A s \in TextStatesOf("plaintext") :
                TextTo(s, x, n, t) <=> t.then = "plaintext" /\ t.to <= x
           /\ \A s \in TextStatesOf("script") :
                TextTo(s, x, n, t) <=> IsScript(t, x) /\ InScript(s, t.to, x, n)
<1>1. t.then \in {"rcdata", "rawtext", "script", "plaintext"}
    BY TextIs
<1>2. \A s : \A a, b \in {"rcdata", "rawtext", "script", "plaintext"} :
        s \in TextStatesOf(a) /\ s \in TextStatesOf(b) => a = b
  <2>1. \A s \in TextStatesOf("rcdata") :
            s \notin TextStatesOf("rawtext") \cup TextStatesOf("plaintext")
                        \cup TextStatesOf("script")
      BY DEF TextStatesOf, ScriptStates, EscapedStates
  <2>2. \A s \in TextStatesOf("rawtext") :
            s \notin TextStatesOf("plaintext") \cup TextStatesOf("script")
      BY DEF TextStatesOf, ScriptStates, EscapedStates
  <2>3. \A s \in TextStatesOf("plaintext") : s \notin TextStatesOf("script")
      BY DEF TextStatesOf, ScriptStates, EscapedStates
  <2> QED BY <2>1, <2>2, <2>3
<1> QED BY <1>1, <1>2 DEF TextTo, IsScript

\* The states of scripts.
LEMMA ScriptSets ==
    /\ ScriptStates \cup EscapedStates \subseteq TextStatesOf("script")
    /\ {"script escaped start", "script escaped start dash", "script escaped dash",
        "script escaped dash dash", "script double escaped start", "script double escaped",
        "script double escaped dash", "script double escaped dash dash",
        "script double escaped lt", "script double escaped end"} \subseteq TextStatesOf("script")
    /\ "script" \in ScriptStates /\ "script escaped" \in EscapedStates
    /\ "script lt" \in ScriptStates /\ "script escaped lt" \in EscapedStates
BY DEF TextStatesOf, ScriptStates, EscapedStates

\* The text goes on past what is no end tag, no <!-- in a script and no <script> after <!--.
LEMMA TextOn ==
    ASSUME NEW t, IsText(t), NEW F \in Families, NEW s \in F, NEW s2 \in F,
           NEW x \in Nat, NEW y \in Nat, x <= y, NEW n, NEW m, TextTo(s, x, n, t),
           \A p \in x .. y - 1 : ~EndTagAt(p, t.name),
           F = ScriptStates => \A p \in x .. y - 1 : ~EscapeAt(p),
           F = EscapedStates => \A p \in x .. y - 1 : ~ScriptAt(p)
    PROVE  TextTo(s2, y, m, t)
<1>1. t.to \in Nat /\ (t.to <= x => t.to <= y)
    BY DEF IsText
<1>2. NoEnd(t, x) => NoEnd(t, y)
    BY <1>1, NoEndOn
<1>3. CASE F \in {TextStatesOf("rcdata"), TextStatesOf("rawtext"), TextStatesOf("plaintext")}
    BY <1>1, <1>2, <1>3, TextToIs
<1>4. CASE F = EscapedStates
  <2>1. IsScript(t, x) /\ Escaping(t.to, x)
      BY <1>4, TextToIs, ScriptSets, InScriptIs
  <2>2. Escaping(t.to, y)
      BY <1>1, <1>4, <2>1, NoneOpenOn, PassedStays DEF Escaping
  <2>3. IsScript(t, y)
      BY <1>1, <1>2, <2>1 DEF IsScript
  <2> QED BY <1>4, <2>2, <2>3, TextToIs, ScriptSets, InScriptIs
<1>5. CASE F = ScriptStates
  <2>1. IsScript(t, x) /\ AllOver(t.to, x)
      BY <1>5, TextToIs, ScriptSets, InScriptIs
  <2>2. AllOver(t.to, y)
      BY <1>1, <1>5, <2>1, AllOverOn
  <2>3. IsScript(t, y)
      BY <1>1, <1>2, <2>1 DEF IsScript
  <2> QED BY <1>5, <2>2, <2>3, TextToIs, ScriptSets, InScriptIs
<1> QED BY <1>3, <1>4, <1>5 DEF Families

-----------------------------------------------------------------------------
(* Places next to one another. *)

\* One symbol on,
LEMMA OneOn ==
    ASSUME NEW x \in Nat
    PROVE  /\ x + 1 \in Nat /\ x <= x + 1 /\ x < x + 1
           /\ (x + 1) - 1 = x /\ (x + 1) - 2 = x - 1 /\ (x + 1) - 3 = x - 2
           /\ \A p \in x .. (x + 1) - 1 : p = x
OBVIOUS

\* two symbols on,
LEMMA TwoOn ==
    ASSUME NEW x \in Nat
    PROVE  /\ x + 1 \in Nat /\ x + 2 \in Nat /\ x <= x + 2 /\ x < x + 2
           /\ (x + 2) - 2 = x /\ (x + 2) - 1 = x + 1
           /\ \A p \in x .. (x + 2) - 1 : p = x \/ p = x + 1
           /\ \A from \in Nat : from <= x => from <= x + 2
OBVIOUS

\* one after the other,
LEMMA OneMoreIs ==
    ASSUME NEW x \in Nat
    PROVE  /\ x + 1 \in Nat \ {0} /\ x + 2 = (x + 1) + 1 /\ (x + 1) - 1 = x
           /\ \A q \in x + 1 .. (x + 2) - 1 : q = x + 1
           /\ \A from \in Nat : from <= x => x + 1 \in from + 1 .. (x + 2) - 1
OBVIOUS

\* from one place to another,
LEMMA NameRange ==
    ASSUME NEW a \in Nat, NEW x \in Nat
    PROVE  /\ \A q \in a .. (x + 1) - 1 : q = x \/ q \in a .. x - 1
           /\ a < x => a \in a .. x - 1
           /\ a < x /\ x # a + 1 => a + 1 \in a .. x - 1
           /\ \A k \in Nat : x = a + k => a <= x /\ (k > 0 => a < x) /\ (x = a + 1 => k = 1)
OBVIOUS

\* before a name and "<",
LEMMA BeforeName ==
    ASSUME NEW from \in Nat, NEW x \in Nat, NEW a \in from + 1 .. x - 1
    PROVE  /\ a \in Nat \ {0} /\ a - 1 \in Nat /\ from <= a - 1 /\ a < x /\ a - 1 < x
           /\ (a - 1) + 1 = a /\ (a - 1) + 2 = a + 1 /\ a - 1 <= x /\ a - 1 <= x + 1
           /\ a - 1 < x + 1 /\ a \in from + 1 .. (x + 1) - 1
           /\ \A p \in a - 1 .. x - 1 : p = a - 1 \/ p \in a .. x - 1
           /\ \A p \in a - 1 .. (x + 1) - 1 : p = a - 1 \/ p = x \/ p \in a .. x - 1
OBVIOUS

\* before a name and "</".
LEMMA BeforeEndName ==
    ASSUME NEW from \in Nat, NEW x \in Nat, NEW a \in from + 2 .. x
    PROVE  /\ a \in Nat \ {0} /\ a - 2 \in Nat /\ from <= a - 2 /\ a - 2 < x + 1
           /\ (a - 2) + 1 = a - 1 /\ (a - 2) + 2 = a /\ (a - 2) + 3 = a + 1 /\ a - 1 \in Nat
           /\ a \in from + 2 .. x + 1
           /\ \A p \in a - 2 .. (x + 1) - 1 :
                p = a - 2 \/ p = a - 1 \/ p = x \/ p \in a .. x - 1
OBVIOUS

\* Places are numbers,
LEMMA RangeNat ==
    ASSUME NEW a \in Nat, NEW x \in Nat
    PROVE  \A p \in a .. x - 1 : p \in Nat
OBVIOUS

\* those of an end tag too.
LEMMA EndPlaces ==
    ASSUME NEW from \in Nat, NEW x \in Nat, from <= x - 1
    PROVE  /\ x + 1 \in from + 2 .. x + 1 /\ (x + 1) - 1 = x /\ (x + 1) - 2 = x - 1
           /\ (x + 1) .. (x + 1) - 1 = {} /\ x + 1 = (x + 1) + 0
OBVIOUS

\* A sequence of one.
LEMMA OneIs ==
    ASSUME NEW S, NEW n \in Seq(S), Len(n) = 1
    PROVE  n = <<n[1]>>
<1>1. n[1] \in S
    OBVIOUS
<1>2. <<n[1]>> \in Seq(S) /\ Len(<<n[1]>>) = 1 /\ <<n[1]>>[1] = n[1]
    BY <1>1
<1> QED BY <1>2, SeqEqual

\* two symbols back,
LEMMA TwoBack ==
    ASSUME NEW from \in Nat, NEW x \in Nat, from <= x - 2
    PROVE  /\ x - 2 \in Nat /\ x - 1 \in Nat /\ x - 2 <= x
           /\ (x - 2) + 2 = x /\ (x - 2) + 1 = x - 1
           /\ \A p \in x - 2 .. x - 1 : p = x - 2 \/ p = x - 1
           /\ \A p \in x - 3 .. x : p = x - 3 \/ p = x - 2 \/ p = x - 1 \/ p = x
           /\ x - 3 \in Nat \/ x = 2
           /\ from <= (x + 1) - 3
OBVIOUS

\* three symbols back.
LEMMA ThreeBack ==
    ASSUME NEW from \in Nat, NEW x \in Nat, from <= x - 3
    PROVE  /\ x - 3 \in Nat /\ x - 2 \in Nat /\ x - 1 \in Nat /\ x - 3 <= x /\ x - 3 <= x + 1
           /\ (x - 3) + 3 = x /\ (x - 3) + 2 = x - 1 /\ (x - 3) + 1 = x - 2
           /\ x - 3 \in from .. (x + 1) - 1 /\ from <= (x + 1) - 2
           /\ \A p \in x - 3 .. (x + 1) - 1 : p = x - 3 \/ p = x - 2 \/ p = x - 1 \/ p = x
           /\ \A p \in x - 3 .. x - 1 : p = x - 3 \/ p = x - 2 \/ p = x - 1
OBVIOUS

-----------------------------------------------------------------------------
(* The start of escaped script data.                                       *)

\* "<!" in a script may be the start of it,
LEMMA StartOpens ==
    ASSUME NEW t, IsText(t), NEW x \in Nat, NEW n, NEW m, TextTo("script lt", x, n, t),
           CharAt(x) = "<", CharAt(x + 1) = "!"
    PROVE  TextTo("script escaped start", x + 2, m, t)
<1>1. IsScript(t, x) /\ AllOver(t.to, x)
    BY TextToIs, ScriptSets, InScriptIs
<1>2. t.to \in Nat /\ t.to <= x
    BY <1>1 DEF IsText, IsScript
<1>3. ~EndTagAt(x, t.name) /\ ~EndTagAt(x + 1, t.name)
  <2>1. CharAt(x + 1) # "/" /\ CharAt(x + 1) # "<"
      OBVIOUS
  <2> QED BY <2>1, TwoOn, NoneHere, WordsApart
<1>4. NoEnd(t, x + 2)
  <2>1. \A p \in x .. (x + 2) - 1 : ~EndTagAt(p, t.name)
    <3>1. \A p \in x .. (x + 2) - 1 : p = x \/ p = x + 1
        BY TwoOn
    <3> QED BY <1>3, <3>1
  <2>2. x + 2 \in Nat /\ x <= x + 2
      BY TwoOn
  <2> QED BY <1>1, <1>2, <2>1, <2>2, NoEndOn DEF IsScript
<1>5. (x + 2) - 2 = x /\ (x + 2) - 1 = x + 1 /\ t.to <= x + 2
    BY <1>2, TwoOn
<1>6. StartMarked(t.to, x + 2)
    BY <1>1, <1>2, <1>5, Zenon DEF StartMarked
<1>7. IsScript(t, x + 2)
    BY <1>1, <1>4, <1>5 DEF IsScript
<1> QED BY <1>6, <1>7, TextToIs, ScriptSets, InScriptIs

\* Where no tag begins the text is passed over.
LEMMA ScriptOn ==
    ASSUME NEW t, IsText(t), NEW x \in Nat, IsScript(t, x),
           CharAt(x) # "<" \/ DoubledBy(t.to, x)
    PROVE  IsScript(t, x + 1)
<1>1. t.to \in Nat /\ t.to <= x /\ t.to <= x + 1 /\ x + 1 \in Nat /\ x <= x + 1
    BY DEF IsText, IsScript
<1>2. \A p \in x .. (x + 1) - 1 : p = x
    OBVIOUS
<1>3. EndTagAt(x, t.name) => t.then = "script" /\ DoubledBy(t.to, x)
    BY NoneHere DEF IsScript
<1>4. NoEnd(t, x + 1)
    BY <1>1, <1>2, <1>3, NoEndOn DEF IsScript
<1> QED BY <1>1, <1>4 DEF IsScript

\* and is over with another symbol than "-";
LEMMA StartGoesOn ==
    ASSUME NEW t, IsText(t), NEW x \in Nat, NEW n, NEW m, TextTo("script escaped start", x, n, t)
    PROVE  /\ CharAt(x) = "-" => TextTo("script escaped start dash", x + 1, m, t)
           /\ CharAt(x) # "-" => TextTo("script", x, m, t)
<1>1. IsScript(t, x) /\ StartMarked(t.to, x)
    BY TextToIs, ScriptSets, InScriptIs
<1>2. t.to \in Nat /\ t.to <= x - 2
    BY <1>1 DEF IsText, StartMarked
<1>3. x - 2 \in Nat /\ x - 1 \in Nat /\ (x - 2) + 2 = x /\ (x - 2) + 1 = x - 1 /\ x - 2 <= x
    BY <1>2, TwoBack
<1>4. ASSUME CharAt(x) = "-" PROVE TextTo("script escaped start dash", x + 1, m, t)
  <2>1. (x + 1) - 3 = x - 2 /\ (x + 1) - 2 = x - 1 /\ (x + 1) - 1 = x
      BY OneOn
  <2>2. StartDashed(t.to, x + 1)
      BY <1>1, <1>2, <1>4, <2>1, Zenon DEF StartMarked, StartDashed
  <2>3. IsScript(t, x + 1)
      BY <1>1, <1>4, ScriptOn
  <2> QED BY <2>2, <2>3, TextToIs, ScriptSets, InScriptIs
<1>5. ASSUME CharAt(x) # "-" PROVE TextTo("script", x, m, t)
  <2>1. ~EscapeAt(x - 2)
      BY <1>3, <1>5, WordsApart
  <2>2. ~EscapeAt(x - 1)
    <3>1. CharAt(x - 1) # "<"
        BY <1>1 DEF StartMarked
    <3> QED BY <1>3, <3>1, NoneHere
  <2>3. \A p \in x - 2 .. x - 1 : ~EscapeAt(p)
    <3>1. \A p \in x - 2 .. x - 1 : p = x - 2 \/ p = x - 1
        BY <1>2, TwoBack
    <3> QED BY <2>1, <2>2, <3>1
  <2>4. AllOver(t.to, x)
      BY <1>1, <1>2, <1>3, <2>3, AllOverOn DEF StartMarked
  <2> QED BY <1>1, <2>4, TextToIs, ScriptSets, InScriptIs
<1> QED BY <1>4, <1>5

\* with a second "-" it is one.
LEMMA StartEnds ==
    ASSUME NEW t, IsText(t), NEW x \in Nat, NEW n, NEW m,
           TextTo("script escaped start dash", x, n, t)
    PROVE  /\ CharAt(x) = "-" => TextTo("script escaped dash dash", x + 1, m, t)
           /\ CharAt(x) # "-" => TextTo("script", x, m, t)
<1>1. IsScript(t, x) /\ StartDashed(t.to, x)
    BY TextToIs, ScriptSets, InScriptIs
<1>2. t.to \in Nat /\ t.to <= x - 3
    BY <1>1 DEF IsText, StartDashed
<1>3. /\ x - 3 \in Nat /\ x - 2 \in Nat /\ x - 1 \in Nat /\ (x - 3) + 3 = x
      /\ (x - 3) + 2 = x - 1 /\ (x - 3) + 1 = x - 2 /\ x - 3 <= x
    BY <1>2, ThreeBack
<1>4. /\ CharAt(x - 3) = "<" /\ CharAt(x - 2) = "!" /\ CharAt(x - 1) = "-"
      /\ AllOver(t.to, x - 3)
    BY <1>1 DEF StartDashed
<1>5. ASSUME CharAt(x) = "-" PROVE TextTo("script escaped dash dash", x + 1, m, t)
  <2>1. EscapeAt(x - 3)
    <3>1. /\ CharAt((x - 3) + 1) = "!" /\ CharAt((x - 3) + 2) = "-"
          /\ CharAt((x - 3) + 3) = "-"
        BY <1>3, <1>4, <1>5
    <3> QED BY <1>3, <1>4, <3>1, WordsAt, Zenon
  <2>2. EscapedBy(t.to, x + 1)
    <3>1. x - 3 \in t.to .. (x + 1) - 1
        BY <1>2, ThreeBack
    <3> QED BY <2>1, <3>1 DEF EscapedBy
  <2>3. ~ScriptAt(x - 3) /\ ~ScriptAt(x - 2) /\ ~ScriptAt(x - 1) /\ ~ScriptAt(x)
    <3>1. "!" \notin Letters
        BY DEF Letters
    <3>2. CharAt(x - 2) # "<" /\ CharAt(x - 1) # "<" /\ CharAt(x) # "<"
        BY <1>4, <1>5
    <3> QED BY <1>3, <1>4, <3>1, <3>2, WordsApart, NoneHere
  <2>4. \A p \in x - 3 .. (x + 1) - 1 : ~ScriptAt(p)
    <3>1. \A p \in x - 3 .. (x + 1) - 1 : p = x - 3 \/ p = x - 2 \/ p = x - 1 \/ p = x
        BY <1>2, ThreeBack
    <3> QED BY <2>3, <3>1
  <2>5. NoneOpen(t.to, x + 1)
    <3>1. NoneOpen(t.to, x - 3)
        BY <1>2, <1>3, <1>4, AllOverNone
    <3>2. x + 1 \in Nat /\ x - 3 <= x + 1
          BY <1>2, OneOn, ThreeBack
    <3> QED BY <1>2, <1>3, <2>4, <3>1, <3>2, NoneOpenOn
  <2>6. DashDashed(t.to, x + 1)
    <3>1. t.to <= (x + 1) - 2 /\ (x + 1) - 2 = x - 1 /\ (x + 1) - 1 = x
        BY <1>2, OneOn, ThreeBack
    <3> QED BY <1>4, <1>5, <3>1, Zenon DEF DashDashed
  <2>7. IsScript(t, x + 1)
      BY <1>1, <1>5, ScriptOn
  <2> QED BY <2>2, <2>5, <2>6, <2>7, TextToIs, ScriptSets, InScriptIs DEF Escaping
<1>6. ASSUME CharAt(x) # "-" PROVE TextTo("script", x, m, t)
  <2>1. ~EscapeAt(x - 3)
      BY <1>3, <1>6, WordsApart
  <2>2. ~EscapeAt(x - 2) /\ ~EscapeAt(x - 1)
    <3>1. CharAt(x - 2) # "<" /\ CharAt(x - 1) # "<"
        BY <1>4
    <3> QED BY <1>3, <3>1, NoneHere
  <2>3. \A p \in x - 3 .. x - 1 : ~EscapeAt(p)
    <3>1. \A p \in x - 3 .. x - 1 : p = x - 3 \/ p = x - 2 \/ p = x - 1
        BY <1>2, ThreeBack
    <3> QED BY <2>1, <2>2, <3>1
  <2>4. AllOver(t.to, x)
      BY <1>2, <1>3, <1>4, <2>3, AllOverOn
  <2> QED BY <1>1, <2>4, TextToIs, ScriptSets, InScriptIs
<1> QED BY <1>5, <1>6

-----------------------------------------------------------------------------
(* Escaped script data. *)

\* The states after "-" in it are such states,
LEMMA StillEscaped ==
    ASSUME NEW t, IsText(t), NEW x \in Nat, NEW n,
           NEW s \in EscapedStates \cup {"script escaped dash", "script escaped dash dash"},
           TextTo(s, x, n, t)
    PROVE  IsScript(t, x) /\ Escaping(t.to, x)
<1>1. s \in TextStatesOf("script")
    BY ScriptSets
<1>2. IsScript(t, x) /\ InScript(s, t.to, x, n)
    BY <1>1, TextToIs
<1>3. CASE s \in EscapedStates
    BY <1>2, <1>3, InScriptIs
<1>4. CASE s = "script escaped dash"
    BY <1>2, <1>4, InScriptIs
<1>5. CASE s = "script escaped dash dash"
    BY <1>2, <1>5, InScriptIs
<1> QED BY <1>2, <1>3, <1>4, <1>5

\* in which "<" may begin an end tag.
LEMMA EscapedHere ==
    ASSUME NEW t, IsText(t), NEW x \in Nat, NEW n, NEW m, NEW s2 \in EscapedStates,
           NEW s \in EscapedStates \cup {"script escaped dash", "script escaped dash dash"},
           TextTo(s, x, n, t)
    PROVE  TextTo(s2, x, m, t)
BY StillEscaped, TextToIs, ScriptSets, InScriptIs

\* After "-" there is one,
LEMMA DashesOn ==
    ASSUME NEW from \in Nat, NEW x \in Nat, from <= x, CharAt(x) = "-"
    PROVE  /\ Dashed(from, x + 1)
           /\ Dashed(from, x) => DashDashed(from, x + 1)
           /\ DashDashed(from, x) => Dashed(from, x)
<1>1. /\ (x + 1) - 1 = x /\ (x + 1) - 2 = x - 1 /\ from <= x
      /\ from <= x - 2 => from <= x - 1
    BY OneOn
<1> QED BY <1>1, Zenon DEF Dashed, DashDashed

\* and after two of them ">" is the end of <!--.
LEMMA DashesOver ==
    ASSUME NEW from \in Nat, NEW x \in Nat, DashDashed(from, x), CharAt(x) = ">"
    PROVE  AllOver(from, x + 1)
<1>1. from <= x - 2 /\ CharAt(x - 2) = "-" /\ CharAt(x - 1) = "-"
    BY DEF DashDashed
<1>2. x - 2 \in Nat /\ (x - 2) + 1 = x - 1 /\ (x - 2) + 2 = x
    BY <1>1, TwoBack
<1>3. EscapeEndAt(x - 2)
  <2>1. CharAt((x - 2) + 1) = "-" /\ CharAt((x - 2) + 2) = ">"
      BY <1>1, <1>2
  <2> QED BY <1>1, <1>2, <2>1, WordsAt, Zenon
<1>4. ~EscapeAt(x - 2) /\ ~EscapeAt(x - 1) /\ ~EscapeAt(x)
  <2>1. CharAt(x - 2) # "<" /\ CharAt(x - 1) # "<" /\ CharAt(x) # "<"
      BY <1>1
  <2>2. x - 1 \in Nat
      BY <1>1, TwoBack
  <2> QED BY <1>2, <2>1, <2>2, NoneHere
<1>5. from <= x - 3 => ~EscapeAt(x - 3)
  <2> SUFFICES ASSUME from <= x - 3 PROVE ~EscapeAt(x - 3)
      OBVIOUS
  <2>1. x - 3 \in Nat /\ (x - 3) + 3 = x
      BY ThreeBack
  <2>2. CharAt((x - 3) + 3) # "-"
      BY <2>1
  <2> QED BY <2>1, <2>2, WordsApart
<1> HIDE DEF AllOver
<1> QED BY <1>1, <1>3, <1>4, <1>5, EscapeOver

\* Another symbol than "<" goes out.
LEMMA EscapedOn ==
    ASSUME NEW t, IsText(t), NEW x \in Nat, NEW n, NEW m, CharAt(x) # "<",
           NEW s \in {"script escaped", "script escaped dash", "script escaped dash dash"},
           TextTo(s, x, n, t)
    PROVE  /\ TextTo("script escaped", x + 1, m, t)
           /\ CharAt(x) = "-" => TextTo("script escaped dash", x + 1, m, t)
           /\ CharAt(x) = "-" /\ s # "script escaped" =>
                TextTo("script escaped dash dash", x + 1, m, t)
           /\ CharAt(x) = ">" /\ s = "script escaped dash dash" => TextTo("script", x + 1, m, t)
<1>1. s \in EscapedStates \cup {"script escaped dash", "script escaped dash dash"}
    BY ScriptSets
<1>2. IsScript(t, x) /\ Escaping(t.to, x)
    BY <1>1, StillEscaped
<1>3. s \in TextStatesOf("script") /\ InScript(s, t.to, x, n)
    BY ScriptSets, TextToIs
<1>4. t.to \in Nat /\ t.to <= x /\ x + 1 \in Nat /\ x <= x + 1
    BY <1>2, OneOn DEF IsText, IsScript
<1>5. IsScript(t, x + 1)
    BY <1>2, ScriptOn
<1>6. Escaping(t.to, x + 1)
  <2>1. \A p \in x .. (x + 1) - 1 : ~ScriptAt(p)
      BY OneOn, NoneHere
  <2> QED BY <1>2, <1>4, <2>1, NoneOpenOn, PassedStays DEF Escaping
<1>7. TextTo("script escaped", x + 1, m, t)
    BY <1>5, <1>6, TextToIs, ScriptSets, InScriptIs
<1>8. ASSUME CharAt(x) = "-" PROVE TextTo("script escaped dash", x + 1, m, t)
    BY <1>4, <1>5, <1>6, <1>8, DashesOn, TextToIs, ScriptSets, InScriptIs
<1>9. ASSUME CharAt(x) = "-", s # "script escaped"
      PROVE  TextTo("script escaped dash dash", x + 1, m, t)
  <2>1. Dashed(t.to, x)
    <3>1. CASE s = "script escaped dash"
        BY <1>3, <3>1, InScriptIs
    <3>2. CASE s = "script escaped dash dash"
      <4>1. DashDashed(t.to, x)
          BY <1>3, <3>2, InScriptIs
      <4> QED BY <1>4, <1>9, <4>1, DashesOn
    <3> QED BY <1>9, <3>1, <3>2
  <2>2. DashDashed(t.to, x + 1)
      BY <1>4, <1>9, <2>1, DashesOn
  <2> QED BY <1>5, <1>6, <2>2, TextToIs, ScriptSets, InScriptIs
<1>10. ASSUME CharAt(x) = ">", s = "script escaped dash dash"
       PROVE  TextTo("script", x + 1, m, t)
  <2>1. DashDashed(t.to, x)
      BY <1>3, <1>10, InScriptIs
  <2>2. AllOver(t.to, x + 1)
      BY <1>4, <1>10, <2>1, DashesOver
  <2> QED BY <1>5, <2>2, TextToIs, ScriptSets, InScriptIs
<1> QED BY <1>7, <1>8, <1>9, <1>10

\* A name after "<" in it may be that of a script:
LEMMA NameStarts ==
    ASSUME NEW t, IsText(t), NEW x \in Nat, NEW n, IsInput, TextTo("script escaped lt", x, n, t),
           CharAt(x) = "<", CharAt(x + 1) \in Letters
    PROVE  TextTo("script double escaped start", x + 2, <<Lower(CharAt(x + 1))>>, t)
<1> DEFINE m == <<Lower(CharAt(x + 1))>>
<1>1. IsScript(t, x) /\ Escaping(t.to, x)
    BY StillEscaped, ScriptSets
<1>2. /\ t.to \in Nat /\ t.to <= x /\ x + 1 \in Nat /\ x + 2 \in Nat /\ x <= x + 2
      /\ t.to <= x + 2 /\ (x + 2) - 1 = x + 1
    BY <1>1, TwoOn DEF IsText, IsScript
<1>3. CharAt(x + 1) # "/" /\ CharAt(x + 1) # "<"
    BY DEF Letters
<1>4. \A p \in x .. (x + 2) - 1 : ~EndTagAt(p, t.name)
  <2>1. ~EndTagAt(x, t.name) /\ ~EndTagAt(x + 1, t.name)
      BY <1>2, <1>3, NoneHere, WordsApart
  <2> QED BY <2>1, TwoOn
<1>5. IsScript(t, x + 2)
    BY <1>1, <1>2, <1>4, NoEndOn DEF IsScript
<1>6. NameFrom(x + 1, x + 2, m)
  <2>1. m \in Seq(Symbols) /\ Len(m) = 1
    <3>1. x + 1 \in Nat \ {0}
        BY <1>2, OneMoreIs
    <3>2. Lower(CharAt(x + 1)) \in Symbols
        BY <3>1, CharIsSymbol
    <3> QED BY <3>2, OneSymbol
  <2>2. x + 2 = (x + 1) + 1
      BY OneMoreIs
  <2>3. \A q \in x + 1 .. (x + 2) - 1 : CharAt(q) \in Letters
    <3>1. \A q \in x + 1 .. (x + 2) - 1 : q = x + 1
        BY OneMoreIs
    <3> QED BY <3>1
  <2> HIDE DEF m
  <2>4. m = <<Lower(CharAt(x + 1))>>
      BY DEF m
  <2> QED BY <2>1, <2>2, <2>3, <2>4 DEF NameFrom
<1>7. StartNamed(t.to, x + 2, m)
  <2>1. x + 1 \in t.to + 1 .. (x + 2) - 1 /\ (x + 1) - 1 = x
      BY <1>2, OneMoreIs
  <2> HIDE DEF m
  <2> QED BY <1>1, <1>6, <2>1 DEF StartNamed
<1> HIDE DEF m
<1>8. InScript("script double escaped start", t.to, x + 2, m)
    BY <1>7, InScriptIs
<1>9. TextTo("script double escaped start", x + 2, m, t)
    BY <1>5, <1>8, TextToIs, ScriptSets
<1> QED BY <1>9 DEF m

\* One more letter of a name,
LEMMA NameOn ==
    ASSUME NEW a \in Nat \ {0}, NEW x \in Nat, NEW n, IsInput, NameFrom(a, x, n),
           CharAt(x) \in Letters
    PROVE  NameFrom(a, x + 1, Append(n, Lower(CharAt(x))))
<1> DEFINE s == Lower(CharAt(x))
           m == Append(n, s)
<1>1. n \in Seq(Symbols) /\ x = a + Len(n) /\ Len(n) \in Nat
    BY DEF NameFrom
<1>2. x \in Nat \ {0}
    BY <1>1
<1>3. s \in Symbols
    BY <1>2, CharIsSymbol
<1>4. m \in Seq(Symbols) /\ Len(m) = Len(n) + 1 /\ m[Len(n) + 1] = s
  <2> HIDE DEF s
  <2> QED BY <1>1, <1>3, AppendProperties
<1>5. \A q \in a .. (x + 1) - 1 : CharAt(q) \in Letters
  <2>1. \A q \in a .. (x + 1) - 1 : q = x \/ q \in a .. x - 1
      BY <1>2, NameRange
  <2> QED BY <2>1 DEF NameFrom
<1>6. ASSUME Len(m) = 1 PROVE m = <<Lower(CharAt(a))>>
  <2> HIDE DEF s, m
  <2>1. Len(n) = 0
      BY <1>1, <1>4, <1>6
  <2>2. a = x /\ m[1] = s
      BY <1>1, <1>4, <2>1
  <2>3. m = <<s>>
      BY <1>4, <1>6, <2>2, OneIs
  <2> QED BY <2>2, <2>3 DEF s
<1>7. x + 1 = a + Len(m)
  <2> HIDE DEF m
  <2> QED BY <1>1, <1>4
<1> HIDE DEF m
<1>8. NameFrom(a, x + 1, m)
    BY <1>4, <1>5, <1>6, <1>7 DEF NameFrom
<1> QED BY <1>8 DEF m

\* and what is in the text where a name is over.
LEMMA NameIs ==
    ASSUME NEW a \in Nat, NEW x \in Nat, NEW n, NameFrom(a, x, n)
    PROVE  /\ a <= x /\ \A q \in a .. x - 1 : CharAt(q) # "<" /\ CharAt(q) # "/"
           /\ a < x => CharAt(a) \in Letters
           /\ n # <<>> => a < x
           /\ CharAt(x) \notin Letters =>
                /\ \A w : n = <<w>> => Lower(CharAt(a)) = w /\ x = a + 1
                /\ \A w : a < x /\ Lower(CharAt(a)) = w /\ CharAt(a + 1) \in NameEnds => n = <<w>>
                /\ a < x /\ CharAt(a + 1) \in NameEnds => x = a + 1
<1>1. n \in Seq(Symbols) /\ x = a + Len(n) /\ Len(n) \in Nat
    BY DEF NameFrom
<1>2. /\ "<" \notin Letters /\ "/" \notin Letters
      /\ \A e \in NameEnds : e \notin Letters
    BY DEF Letters, NameEnds
<1>3. \A q \in a .. x - 1 : CharAt(q) \in Letters
    BY DEF NameFrom
<1>4. \A q \in a .. x - 1 : CharAt(q) # "<" /\ CharAt(q) # "/"
    BY <1>2, <1>3
<1>5. a <= x /\ (a < x => a \in a .. x - 1) /\ (a < x /\ x # a + 1 => a + 1 \in a .. x - 1)
    BY <1>1, NameRange
<1>6. n # <<>> => a < x
  <2>1. n # <<>> => Len(n) > 0
      BY <1>1, EmptySeq
  <2> QED BY <1>1, <2>1, NameRange
<1>7. a < x /\ CharAt(a + 1) \in NameEnds => x = a + 1
    BY <1>2, <1>3, <1>5
<1>8. ASSUME NEW w, n = <<w>> PROVE Lower(CharAt(a)) = w /\ x = a + 1
  <2>1. Len(n) = 1
      BY <1>8
  <2>2. n = <<Lower(CharAt(a))>>
      BY <2>1 DEF NameFrom
  <2>3. Lower(CharAt(a)) = w
      BY <1>8, <2>2
  <2> QED BY <1>1, <2>1, <2>3
<1>9. x = a + 1 => Len(n) = 1
    BY <1>1, NameRange
<1>10. ASSUME NEW w, a < x, Lower(CharAt(a)) = w, CharAt(a + 1) \in NameEnds PROVE n = <<w>>
    BY <1>7, <1>9, <1>10 DEF NameFrom
<1> QED BY <1>3, <1>4, <1>5, <1>6, <1>7, <1>8, <1>10

\* The name of a script.
LEMMA ScriptHead == Head(<<"script">>) = "script"
OBVIOUS

\* A name of which nothing has come yet.
LEMMA NoName == \A S : <<>> \in Seq(S) /\ Len(<<>>) = 0 /\ Len(<<>>) # 1
OBVIOUS

\* </script> is at a place,
LEMMA ScriptEndIs ==
    ASSUME NEW p \in Nat, CharAt(p) = "<", CharAt(p + 1) = "/",
           Lower(CharAt(p + 2)) = "script", CharAt(p + 3) \in NameEnds
    PROVE  ScriptEndAt(p)
<1>1. EndTagAt(p, <<"script">>) <=>
        /\ CharAt(p) = "<" /\ CharAt(p + 1) = "/"
        /\ Lower(CharAt(p + 2)) = Head(<<"script">>) /\ CharAt(p + 3) \in NameEnds
    BY WordsAt, ZenonT(40)
<1> QED BY <1>1, ScriptHead, Zenon DEF ScriptEndAt

\* A name that may be that of a script goes on, or decides what the text is.
LEMMA StartNameOn ==
    ASSUME NEW t, IsText(t), NEW x \in Nat, NEW n, NEW m, IsInput,
           TextTo("script double escaped start", x, n, t)
    PROVE  /\ CharAt(x) \in Letters =>
                TextTo("script double escaped start", x + 1, Append(n, Lower(CharAt(x))), t)
           /\ CharAt(x) \in NameEnds =>
                TextTo(IF n = <<"script">> THEN "script double escaped" ELSE "script escaped",
                       x + 1, m, t)
           /\ CharAt(x) \notin Letters \cup NameEnds => TextTo("script escaped", x, m, t)
<1>1. IsScript(t, x) /\ StartNamed(t.to, x, n)
    BY TextToIs, ScriptSets, InScriptIs
<1>2. /\ t.to \in Nat /\ t.to <= x /\ x + 1 \in Nat /\ x <= x + 1 /\ x < x + 1
    BY <1>1, OneOn DEF IsText, IsScript
<1>3. PICK a \in t.to + 1 .. x - 1 :
        NameFrom(a, x, n) /\ CharAt(a - 1) = "<" /\ Escaping(t.to, a - 1)
    BY <1>1 DEF StartNamed
<1>4. /\ a \in Nat \ {0} /\ a - 1 \in Nat /\ t.to <= a - 1 /\ a < x /\ a - 1 < x
      /\ (a - 1) + 1 = a /\ (a - 1) + 2 = a + 1 /\ a - 1 <= x /\ a - 1 <= x + 1 /\ a - 1 < x + 1
      /\ a \in t.to + 1 .. (x + 1) - 1
      /\ \A p \in a - 1 .. x - 1 : p = a - 1 \/ p \in a .. x - 1
      /\ \A p \in a - 1 .. (x + 1) - 1 : p = a - 1 \/ p = x \/ p \in a .. x - 1
    BY <1>2, <1>3, BeforeName, ZenonT(40)
<1>5. \A q \in a .. x - 1 : CharAt(q) # "<"
    BY <1>3, <1>4, NameIs
<1>6. CharAt(x) # "<" => ~ScriptAt(x) /\ IsScript(t, x + 1)
    BY <1>1, NoneHere, ScriptOn
<1>7. /\ "<" \notin NameEnds /\ "<" \notin Letters
      /\ \A e \in NameEnds : e \notin Letters
    BY DEF NameEnds, Letters
<1>8. ASSUME CharAt(x) \in Letters
      PROVE  TextTo("script double escaped start", x + 1, Append(n, Lower(CharAt(x))), t)
  <2> DEFINE m2 == Append(n, Lower(CharAt(x)))
  <2>1. NameFrom(a, x + 1, m2)
      BY <1>3, <1>4, <1>8, NameOn
  <2>2. IsScript(t, x + 1)
      BY <1>6, <1>7, <1>8
  <2> HIDE DEF m2
  <2>3. StartNamed(t.to, x + 1, m2)
      BY <1>3, <1>4, <2>1 DEF StartNamed
  <2>4. InScript("script double escaped start", t.to, x + 1, m2)
      BY <2>3, InScriptIs
  <2>5. TextTo("script double escaped start", x + 1, m2, t)
      BY <2>2, <2>4, TextToIs, ScriptSets
  <2> QED BY <2>5 DEF m2
<1>9. ASSUME CharAt(x) \in NameEnds, n = <<"script">>
      PROVE  TextTo("script double escaped", x + 1, m, t)
  <2>1. Lower(CharAt(a)) = "script" /\ x = a + 1
      BY <1>3, <1>4, <1>7, <1>9, NameIs
  <2>2. ScriptAt(a - 1)
    <3>1. CharAt((a - 1) + 1) = CharAt(a) /\ CharAt((a - 1) + 2) = CharAt(x)
        BY <1>4, <2>1
    <3> QED BY <1>3, <1>4, <1>9, <2>1, <3>1, WordsAt, ZenonT(40)
  <2>3. DoubledBy(t.to, x + 1)
      BY <1>2, <1>3, <1>4, <2>2, PairHere DEF Escaping
  <2>4. IsScript(t, x + 1)
      BY <1>6, <1>7, <1>9
  <2> QED BY <2>3, <2>4, TextToIs, ScriptSets, InScriptIs
<1>10. ASSUME ~ScriptAt(a - 1) PROVE Escaping(t.to, x)
  <2>1. \A p \in a - 1 .. x - 1 : ~ScriptAt(p)
    <3>1. \A p \in a .. x - 1 : p \in Nat
        BY <1>4, RangeNat
    <3>2. \A p \in a .. x - 1 : ~ScriptAt(p)
        BY <1>5, <3>1, NoneHere
    <3> QED BY <1>4, <1>10, <3>2
  <2> QED BY <1>2, <1>3, <1>4, <2>1, NoneOpenOn, PassedStays DEF Escaping
<1>11. ASSUME CharAt(x) \in NameEnds, n # <<"script">>
       PROVE  TextTo("script escaped", x + 1, m, t)
  <2>1. ~ScriptAt(a - 1)
    <3> SUFFICES ASSUME ScriptAt(a - 1) PROVE FALSE
        OBVIOUS
    <3>1. Lower(CharAt((a - 1) + 1)) = "script" /\ CharAt((a - 1) + 2) \in NameEnds
        BY <1>4, WordsAt, Zenon
    <3>2. Lower(CharAt(a)) = "script" /\ CharAt(a + 1) \in NameEnds
        BY <1>4, <3>1
    <3> QED BY <1>3, <1>4, <1>7, <1>11, <3>2, NameIs
  <2>2. Escaping(t.to, x)
      BY <1>10, <2>1
  <2>3. ~ScriptAt(x) /\ IsScript(t, x + 1)
      BY <1>6, <1>7, <1>11
  <2>4. \A p \in x .. (x + 1) - 1 : ~ScriptAt(p)
      BY <2>3, OneOn
  <2>5. Escaping(t.to, x + 1)
      BY <1>2, <2>2, <2>4, NoneOpenOn, PassedStays DEF Escaping
  <2> QED BY <2>3, <2>5, TextToIs, ScriptSets, InScriptIs
<1>12. ASSUME CharAt(x) \notin Letters \cup NameEnds PROVE TextTo("script escaped", x, m, t)
  <2>1. ~ScriptAt(a - 1)
    <3> SUFFICES ASSUME ScriptAt(a - 1) PROVE FALSE
        OBVIOUS
    <3>1. CharAt((a - 1) + 2) \in NameEnds
        BY <1>4, WordsAt, Zenon
    <3>2. CharAt(a + 1) \in NameEnds
        BY <1>4, <3>1
    <3>3. x = a + 1
        BY <1>3, <1>4, <1>12, <3>2, NameIs
    <3> QED BY <1>12, <3>2, <3>3
  <2>2. Escaping(t.to, x)
      BY <1>10, <2>1
  <2> QED BY <1>1, <2>2, TextToIs, ScriptSets, InScriptIs
<1> QED BY <1>8, <1>9, <1>11, <1>12

-----------------------------------------------------------------------------
(* Doubly escaped script data. *)

\* Whatever goes out in it.
LEMMA DoubleOn ==
    ASSUME NEW t, IsText(t), NEW x \in Nat, NEW n, NEW m,
           NEW s \in {"script double escaped", "script double escaped dash",
                      "script double escaped dash dash"},
           TextTo(s, x, n, t)
    PROVE  /\ TextTo("script double escaped", x + 1, m, t)
           /\ CharAt(x) = "-" => TextTo("script double escaped dash", x + 1, m, t)
           /\ CharAt(x) = "-" /\ s # "script double escaped" =>
                TextTo("script double escaped dash dash", x + 1, m, t)
           /\ CharAt(x) = ">" /\ s = "script double escaped dash dash" =>
                TextTo("script", x + 1, m, t)
           /\ CharAt(x) = "<" => TextTo("script double escaped lt", x + 1, m, t)
<1>1. s \in TextStatesOf("script") /\ IsScript(t, x) /\ InScript(s, t.to, x, n)
    BY ScriptSets, TextToIs
<1>2. DoubledBy(t.to, x)
  <2>1. CASE s = "script double escaped"
      BY <1>1, <2>1, InScriptIs
  <2>2. CASE s = "script double escaped dash"
      BY <1>1, <2>2, InScriptIs
  <2>3. CASE s = "script double escaped dash dash"
      BY <1>1, <2>3, InScriptIs
  <2> QED BY <2>1, <2>2, <2>3
<1>3. t.to \in Nat /\ t.to <= x /\ x + 1 \in Nat /\ x <= x + 1 /\ (x + 1) - 1 = x
    BY <1>1, OneOn DEF IsText, IsScript
<1>4. IsScript(t, x + 1) /\ DoubledBy(t.to, x + 1)
    BY <1>1, <1>2, <1>3, ScriptOn, PassedStays
<1>5. TextTo("script double escaped", x + 1, m, t)
    BY <1>4, TextToIs, ScriptSets, InScriptIs
<1>6. ASSUME CharAt(x) = "-" PROVE TextTo("script double escaped dash", x + 1, m, t)
    BY <1>3, <1>4, <1>6, DashesOn, TextToIs, ScriptSets, InScriptIs
<1>7. ASSUME CharAt(x) = "-", s # "script double escaped"
      PROVE  TextTo("script double escaped dash dash", x + 1, m, t)
  <2>1. Dashed(t.to, x)
    <3>1. CASE s = "script double escaped dash"
        BY <1>1, <3>1, InScriptIs
    <3>2. CASE s = "script double escaped dash dash"
      <4>1. DashDashed(t.to, x)
          BY <1>1, <3>2, InScriptIs
      <4> QED BY <1>3, <1>7, <4>1, DashesOn
    <3> QED BY <1>7, <3>1, <3>2
  <2>2. DashDashed(t.to, x + 1)
      BY <1>3, <1>7, <2>1, DashesOn
  <2> QED BY <1>4, <2>2, TextToIs, ScriptSets, InScriptIs
<1>8. ASSUME CharAt(x) = ">", s = "script double escaped dash dash"
      PROVE  TextTo("script", x + 1, m, t)
  <2>1. DashDashed(t.to, x)
      BY <1>1, <1>8, InScriptIs
  <2>2. AllOver(t.to, x + 1)
      BY <1>3, <1>8, <2>1, DashesOver
  <2> QED BY <1>4, <2>2, TextToIs, ScriptSets, InScriptIs
<1>9. ASSUME CharAt(x) = "<" PROVE TextTo("script double escaped lt", x + 1, m, t)
  <2>1. EndOpened(t.to, x + 1)
      BY <1>3, <1>9, Zenon DEF EndOpened
  <2> QED BY <1>4, <2>1, TextToIs, ScriptSets, InScriptIs
<1> QED BY <1>5, <1>6, <1>7, <1>8, <1>9

\* An end tag in it begins, or none does.
LEMMA DoubleEnds ==
    ASSUME NEW t, IsText(t), NEW x \in Nat, NEW n, NEW m,
           TextTo("script double escaped lt", x, n, t)
    PROVE  /\ CharAt(x) = "/" => TextTo("script double escaped end", x + 1, <<>>, t)
           /\ TextTo("script double escaped", x, m, t)
<1>1. IsScript(t, x) /\ DoubledBy(t.to, x) /\ EndOpened(t.to, x)
    BY TextToIs, ScriptSets, InScriptIs
<1>2. t.to \in Nat /\ t.to <= x /\ x + 1 \in Nat /\ x <= x + 1
    BY <1>1, OneOn DEF IsText, IsScript
<1>3. IsScript(t, x + 1) /\ DoubledBy(t.to, x + 1)
    BY <1>1, <1>2, ScriptOn, PassedStays
<1>4. ASSUME CharAt(x) = "/" PROVE EndNamed(t.to, x + 1, <<>>)
  <2> DEFINE e == <<>>
  <2>1. t.to <= x - 1 /\ CharAt(x - 1) = "<"
      BY <1>1 DEF EndOpened
  <2>2. /\ x + 1 \in t.to + 2 .. x + 1 /\ (x + 1) - 1 = x /\ (x + 1) - 2 = x - 1
        /\ (x + 1) .. (x + 1) - 1 = {} /\ x + 1 = (x + 1) + 0
      BY <1>2, <2>1, EndPlaces
  <2>3. e \in Seq(Symbols) /\ Len(e) = 0 /\ Len(e) # 1
      BY NoName
  <2> HIDE DEF e
  <2>4. NameFrom(x + 1, x + 1, e)
      BY <2>2, <2>3 DEF NameFrom
  <2>5. EndNamed(t.to, x + 1, e)
      BY <1>4, <2>1, <2>2, <2>4, Zenon DEF EndNamed
  <2> QED BY <2>5 DEF e
<1> DEFINE e == <<>>
<1> HIDE DEF e
<1>5. CharAt(x) = "/" => TextTo("script double escaped end", x + 1, e, t)
    BY <1>3, <1>4, TextToIs, ScriptSets, InScriptIs DEF e
<1>6. TextTo("script double escaped", x, m, t)
    BY <1>1, TextToIs, ScriptSets, InScriptIs
<1> QED BY <1>5, <1>6 DEF e

\* Its name goes on, or decides what the text is.
LEMMA EndNameOn ==
    ASSUME NEW t, IsText(t), NEW x \in Nat, NEW n, NEW m, IsInput,
           TextTo("script double escaped end", x, n, t)
    PROVE  /\ CharAt(x) \in Letters =>
                TextTo("script double escaped end", x + 1, Append(n, Lower(CharAt(x))), t)
           /\ CharAt(x) \in NameEnds =>
                TextTo(IF n = <<"script">> THEN "script escaped" ELSE "script double escaped",
                       x + 1, m, t)
           /\ CharAt(x) \notin Letters \cup NameEnds => TextTo("script double escaped", x, m, t)
<1>1. IsScript(t, x) /\ DoubledBy(t.to, x) /\ EndNamed(t.to, x, n)
    BY TextToIs, ScriptSets, InScriptIs
<1>2. /\ t.to \in Nat /\ t.to <= x /\ x + 1 \in Nat /\ x <= x + 1 /\ x < x + 1
    BY <1>1, OneOn DEF IsText, IsScript
<1>3. IsScript(t, x + 1) /\ DoubledBy(t.to, x + 1) /\ EscapedBy(t.to, x + 1)
    BY <1>1, <1>2, ScriptOn, PassedStays
<1>4. PICK a \in t.to + 2 .. x :
        NameFrom(a, x, n) /\ CharAt(a - 1) = "/" /\ CharAt(a - 2) = "<"
    BY <1>1 DEF EndNamed
<1>5. /\ a \in Nat \ {0} /\ a - 2 \in Nat /\ t.to <= a - 2 /\ a - 2 < x + 1
      /\ (a - 2) + 1 = a - 1 /\ (a - 2) + 2 = a /\ (a - 2) + 3 = a + 1 /\ a - 1 \in Nat
      /\ a \in t.to + 2 .. x + 1
      /\ \A p \in a - 2 .. (x + 1) - 1 : p = a - 2 \/ p = a - 1 \/ p = x \/ p \in a .. x - 1
    BY <1>2, <1>4, BeforeEndName
<1>6. /\ "<" \notin NameEnds /\ "<" # "/" /\ "/" \notin Letters
      /\ \A e \in NameEnds : e \notin Letters
    BY DEF NameEnds, Letters
<1>7. ASSUME CharAt(x) \in Letters
      PROVE  TextTo("script double escaped end", x + 1, Append(n, Lower(CharAt(x))), t)
  <2> DEFINE m2 == Append(n, Lower(CharAt(x)))
  <2>1. NameFrom(a, x + 1, m2)
      BY <1>4, <1>5, <1>7, NameOn
  <2> HIDE DEF m2
  <2>2. EndNamed(t.to, x + 1, m2)
      BY <1>4, <1>5, <2>1 DEF EndNamed
  <2>3. InScript("script double escaped end", t.to, x + 1, m2)
      BY <1>3, <2>2, InScriptIs
  <2>4. TextTo("script double escaped end", x + 1, m2, t)
      BY <1>3, <2>3, TextToIs, ScriptSets
  <2> QED BY <2>4 DEF m2
<1>8. ASSUME CharAt(x) \in NameEnds, n = <<"script">>
      PROVE  TextTo("script escaped", x + 1, m, t)
  <2>1. Lower(CharAt(a)) = "script" /\ x = a + 1
      BY <1>4, <1>5, <1>6, <1>8, NameIs
  <2>2. ScriptEndAt(a - 2)
    <3>1. /\ CharAt((a - 2) + 1) = "/" /\ Lower(CharAt((a - 2) + 2)) = "script"
          /\ CharAt((a - 2) + 3) = CharAt(x)
        BY <1>4, <1>5, <2>1
    <3>2. CharAt((a - 2) + 3) \in NameEnds
        BY <1>8, <3>1
    <3> QED BY <1>4, <1>5, <3>1, <3>2, ScriptEndIs
  <2>3. ~ScriptAt(a - 2)
    <3>1. CharAt((a - 2) + 1) \notin Letters
        BY <1>4, <1>5, <1>6
    <3> QED BY <1>5, <3>1, WordsApart
  <2>4. ~ScriptAt(a - 1) /\ ~ScriptAt(x)
    <3>1. CharAt(a - 1) # "<" /\ CharAt(x) # "<"
        BY <1>4, <1>6, <1>8
    <3> QED BY <1>5, <3>1, NoneHere
  <2>5. \A p \in a .. x - 1 : ~ScriptAt(p)
    <3>1. \A p \in a .. x - 1 : p \in Nat
        BY <1>5, RangeNat
    <3>2. \A p \in a .. x - 1 : CharAt(p) # "<"
        BY <1>4, <1>5, NameIs
    <3> QED BY <3>1, <3>2, NoneHere
  <2>6. \A p \in a - 2 .. (x + 1) - 1 : ~ScriptAt(p)
      BY <1>5, <2>3, <2>4, <2>5
  <2>7. NoneOpen(t.to, x + 1)
      BY <1>2, <1>5, <2>2, <2>6, PairOver
  <2> QED BY <1>3, <2>7, TextToIs, ScriptSets, InScriptIs DEF Escaping
<1>9. TextTo("script double escaped", x + 1, m, t) /\ TextTo("script double escaped", x, m, t)
    BY <1>1, <1>3, TextToIs, ScriptSets, InScriptIs
<1> QED BY <1>7, <1>8, <1>9

\* Where an end tag's name is kept back, no end tag has counted and no pair is open.
LEMMA EndsHere ==
    ASSUME NEW t, IsText(t), NEW x \in Nat, NEW n, NEW s \in EndTagNameStates, TextTo(s, x, n, t)
    PROVE  t.then # "plaintext" /\ Ends(t, x)
<1>1. \/ s \in TextStatesOf("rcdata") \cup TextStatesOf("rawtext")
      \/ s \in ScriptStates \/ s \in EscapedStates
    BY States DEF TextStatesOf, ScriptStates, EscapedStates
<1>2. CASE s \in TextStatesOf("rcdata") \cup TextStatesOf("rawtext")
    BY <1>2, TextToIs DEF Ends
<1>3. CASE s \in ScriptStates
  <2>1. IsScript(t, x) /\ AllOver(t.to, x)
      BY <1>3, TextToIs, ScriptSets, InScriptIs
  <2> QED BY <2>1, AllOverNone DEF Ends, IsText, IsScript
<1>4. CASE s \in EscapedStates
  <2>1. IsScript(t, x) /\ Escaping(t.to, x)
      BY <1>4, TextToIs, ScriptSets, InScriptIs
  <2> QED BY <2>1 DEF Ends, IsScript, Escaping
<1> QED BY <1>1, <1>2, <1>3, <1>4

-----------------------------------------------------------------------------
(* The invariant. *)

(* How far the text has been read that is handed over as such. *)
ReadTo(l) ==
    IF l.state \in KeptStates THEN l.mark
    ELSE IF l.flush # 0 THEN l.mark + Len(l.temp) ELSE l.pos

(* The lexer at the end of the input, in the end tag of start tag t, in its text. *)
CutOff(l) == l.state = "data" /\ l.flush = 0 /\ l.extra = NoChar /\ CharAt(l.pos) = EOF
InEndTag(l, t) ==
    /\ l.state \in AttributeStates \ {"tag name"} /\ l.tag.name = t.name /\ l.tag.isStart = FALSE
    /\ t.then # "plaintext" /\ Ends(t, l.start)
NameKept(l) ==
    l.state \in EndTagNameStates =>
        CharAt(l.mark + 1) = "/" /\ NameFrom(l.mark + 2, l.pos, l.tag.buffer)
InText(l, t) ==
    /\ TextTo(l.state, ReadTo(l), l.script, t) /\ l.last = t.name
    /\ l.flush = 0 => l.start = ReadTo(l)
    /\ NameKept(l)
ReadBy(l, t) == IsText(t) /\ (CutOff(l) \/ InEndTag(l, t) \/ InText(l, t))

(* Start tags of text, the last of them while nothing but text has followed, *)
(* and what ends one.                                                        *)
Switched(t) == t.type = "start" /\ t.then # "data"
OpenText(i) == Switched(tokens[i]) /\ \A k \in i + 1 .. Len(tokens) : IsChar(tokens[k])
EndedBy(t, u) ==
    \/ u.type = "eof"
    \/ t.then # "plaintext" /\ u.type = "end" /\ u.name = t.name /\ Ends(t, u.from)

RawEnds ==
    \A i, j \in DOMAIN tokens :
        /\ i < j /\ Switched(tokens[i]) /\ ~IsChar(tokens[j])
        /\ \A k \in i + 1 .. j - 1 : IsChar(tokens[k])
        => EndedBy(tokens[i], tokens[j])

(* What the parser finds: after a start tag it may switch. *)
Handed(u, l) ==
    /\ u.to = l.start /\ (u.type \in {"start", "end"} => "name" \in DOMAIN u)
    /\ u.type = "start" =>
        /\ u.name = l.last /\ u.then = "data"
        /\ l.state = "data" /\ l.flush = 0 /\ l.extra = NoChar

TextInv ==
    /\ RawEnds
    /\ \A i \in DOMAIN tokens : OpenText(i) => ReadBy(lexer, tokens[i])
    /\ turn = "parser" => tokens # <<>> /\ Handed(tokens[Len(tokens)], lexer)

\* The invariant implies the property (see RawTextEnds).
LEMMA TextImplies == TextInv => RawTextEnds
<1> SUFFICES ASSUME TextInv, NEW i \in DOMAIN tokens, NEW j \in DOMAIN tokens,
                    i < j, tokens[i].type = "start", tokens[i].then # "data",
                    ~IsChar(tokens[j]), \A k \in i + 1 .. j - 1 : IsChar(tokens[k]),
                    tokens[j].type # "eof"
             PROVE  /\ tokens[i].then # "plaintext"
                    /\ tokens[j].type = "end" /\ tokens[j].name = tokens[i].name
                    /\ \A p \in tokens[i].to .. tokens[j].from - 1 :
                        EndTagAt(p, tokens[i].name) =>
                            /\ tokens[i].then = "script"
                            /\ DoubleEscapes(tokens[i].to, p) # {}
                    /\ tokens[i].then = "script" =>
                        \A qr \in DoubleEscapes(tokens[i].to, tokens[j].from) :
                            ~StillOpen(qr, tokens[j].from)
    BY DEF RawTextEnds
<1> DEFINE t == tokens[i]
           x == tokens[j].from
<1>1. EndedBy(t, tokens[j])
    BY DEF TextInv, RawEnds, Switched
<1>2. t.then # "plaintext" /\ tokens[j].type = "end" /\ tokens[j].name = t.name /\ Ends(t, x)
    BY <1>1 DEF EndedBy
<1> HIDE DEF t, x
<1>3. ASSUME NEW p \in t.to .. x - 1, EndTagAt(p, t.name)
      PROVE  t.then = "script" /\ DoubleEscapes(t.to, p) # {}
  <2>1. t.then = "script" /\ DoubledBy(t.to, p)
      BY <1>2, <1>3 DEF Ends, NoEnd
  <2>2. PICK q \in t.to .. p - 1, r \in t.to .. p - 1 : q < r /\ EscapeAt(q) /\ ScriptAt(r)
      BY <2>1 DEF DoubledBy
  <2>3. <<q, r>> \in DoubleEscapes(t.to, p)
      BY <2>2 DEF DoubleEscapes
  <2> QED BY <2>1, <2>3
<1>4. ASSUME t.then = "script", NEW qr \in DoubleEscapes(t.to, x) PROVE ~StillOpen(qr, x)
  <2> DEFINE q == qr[1]
             r == qr[2]
  <2>1. /\ q \in t.to .. x - 1 /\ r \in t.to .. x - 1
        /\ q < r /\ EscapeAt(q) /\ ScriptAt(r)
      BY <1>4 DEF DoubleEscapes
  <2>2. \/ \E p \in q + 2 .. x - 1 : EscapeEndAt(p)
        \/ \E p \in r .. x - 1 : ScriptEndAt(p)
      BY <1>2, <1>4, <2>1 DEF Ends, NoneOpen
  <2> QED BY <2>2 DEF StillOpen, ScriptEndAt
<1> QED BY <1>2, <1>3, <1>4 DEF t, x

-----------------------------------------------------------------------------
(* Steps. *)

\* The document stays the same, and with it what is found in it,
LEMMA SameWords ==
    ASSUME input' = input
    PROVE  /\ \A p : CharAt(p)' = CharAt(p)
           /\ \A p, name : EndTagAt(p, name)' <=> EndTagAt(p, name)
           /\ \A p : ScriptAt(p)' <=> ScriptAt(p)
           /\ \A p : EscapeAt(p)' <=> EscapeAt(p)
           /\ \A p : EscapeEndAt(p)' <=> EscapeEndAt(p)
           /\ \A p : ScriptEndAt(p)' <=> ScriptEndAt(p)
BY DEF CharAt, EndTagAt, ScriptAt, EscapeAt, EscapeEndAt, ScriptEndAt, TagNameAt, Matches

\* what is said of texts,
LEMMA SameEnds ==
    ASSUME input' = input
    PROVE  /\ \A from, x : AllOver(from, x)' <=> AllOver(from, x)
           /\ \A from, x : EscapedBy(from, x)' <=> EscapedBy(from, x)
           /\ \A from, x : DoubledBy(from, x)' <=> DoubledBy(from, x)
           /\ \A from, x : NoneOpen(from, x)' <=> NoneOpen(from, x)
           /\ \A t, x : NoEnd(t, x)' <=> NoEnd(t, x)
           /\ \A t, x : Ends(t, x)' <=> Ends(t, x)
<1>1. \A from, x : AllOver(from, x)' <=> AllOver(from, x)
    BY SameWords, Zenon DEF AllOver
<1>2. \A from, x : EscapedBy(from, x)' <=> EscapedBy(from, x)
    BY SameWords, Zenon DEF EscapedBy
<1>3. \A from, x : DoubledBy(from, x)' <=> DoubledBy(from, x)
    BY SameWords, Zenon DEF DoubledBy
<1>4. \A from, x : NoneOpen(from, x)' <=> NoneOpen(from, x)
    BY SameWords, Zenon DEF NoneOpen
<1>5. \A t, x : NoEnd(t, x)' <=> NoEnd(t, x)
    BY <1>3, SameWords, Zenon DEF NoEnd
<1>6. \A t, x : Ends(t, x)' <=> Ends(t, x)
    BY <1>4, <1>5, Zenon DEF Ends
<1> QED BY <1>1, <1>2, <1>3, <1>4, <1>5, <1>6

\* and what is said of a script.
LEMMA SameScript ==
    ASSUME input' = input
    PROVE  /\ \A a, x, name : NameFrom(a, x, name)' <=> NameFrom(a, x, name)
           /\ \A s, from, x, name : InScript(s, from, x, name)' <=> InScript(s, from, x, name)
<1>1. \A a, x, name : NameFrom(a, x, name)' <=> NameFrom(a, x, name)
    BY SameWords, Zenon DEF NameFrom
<1>2. \A from, x : Escaping(from, x)' <=> Escaping(from, x)
    BY SameEnds, Zenon DEF Escaping
<1>3. \A from, x : StartMarked(from, x)' <=> StartMarked(from, x)
    BY SameEnds, SameWords, Zenon DEF StartMarked
<1>4. \A from, x : StartDashed(from, x)' <=> StartDashed(from, x)
    BY SameEnds, SameWords, Zenon DEF StartDashed
<1>5. /\ \A from, x : Dashed(from, x)' <=> Dashed(from, x)
      /\ \A from, x : DashDashed(from, x)' <=> DashDashed(from, x)
      /\ \A from, x : EndOpened(from, x)' <=> EndOpened(from, x)
    BY SameWords, Zenon DEF Dashed, DashDashed, EndOpened
<1>6. \A from, x, name : StartNamed(from, x, name)' <=> StartNamed(from, x, name)
    BY <1>1, <1>2, SameWords, Zenon DEF StartNamed
<1>7. \A from, x, name : EndNamed(from, x, name)' <=> EndNamed(from, x, name)
    BY <1>1, SameWords, Zenon DEF EndNamed
<1>8. \A s, from, x, name : InScript(s, from, x, name)' <=> InScript(s, from, x, name)
  <2> SUFFICES ASSUME NEW s, NEW from, NEW x, NEW name
               PROVE  InScript(s, from, x, name)' <=> InScript(s, from, x, name)
      OBVIOUS
  <2>1. /\ AllOver(from, x)' <=> AllOver(from, x)
        /\ DoubledBy(from, x)' <=> DoubledBy(from, x)
      BY SameEnds
  <2>2. /\ StartMarked(from, x)' <=> StartMarked(from, x)
        /\ StartDashed(from, x)' <=> StartDashed(from, x)
        /\ Escaping(from, x)' <=> Escaping(from, x)
        /\ Dashed(from, x)' <=> Dashed(from, x)
        /\ DashDashed(from, x)' <=> DashDashed(from, x)
        /\ EndOpened(from, x)' <=> EndOpened(from, x)
        /\ StartNamed(from, x, name)' <=> StartNamed(from, x, name)
        /\ EndNamed(from, x, name)' <=> EndNamed(from, x, name)
      BY <1>2, <1>3, <1>4, <1>5, <1>6, <1>7
  <2>3. InScript(s, from, x, name) => InScript(s, from, x, name)'
      BY <2>1, <2>2 DEF InScript
  <2>4. InScript(s, from, x, name)' => InScript(s, from, x, name)
      BY <2>1, <2>2 DEF InScript
  <2> QED BY <2>3, <2>4
<1> QED BY <1>1, <1>8

\* The same goes for where the lexer is.
LEMMA SameReading ==
    ASSUME input' = input
    PROVE  /\ \A l, t : ReadBy(l, t)' <=> ReadBy(l, t)
           /\ \A t, u : EndedBy(t, u)' <=> EndedBy(t, u)
<1>1. \A s, x, name, t : TextTo(s, x, name, t)' <=> TextTo(s, x, name, t)
    BY SameEnds, SameScript, Zenon DEF TextTo
<1>2. \A l : NameKept(l)' <=> NameKept(l)
    BY SameWords, SameScript, Zenon DEF NameKept
<1>3. \A l, t : InText(l, t)' <=> InText(l, t)
    BY <1>1, <1>2, Zenon DEF InText
<1>4. \A l, t : InEndTag(l, t)' <=> InEndTag(l, t)
    BY SameEnds, Zenon DEF InEndTag
<1>5. \A l : CutOff(l)' <=> CutOff(l)
    BY SameWords, Zenon DEF CutOff
<1>6. \A l, t : ReadBy(l, t)' <=> ReadBy(l, t)
    BY <1>3, <1>4, <1>5, Zenon DEF ReadBy
<1>7. \A t, u : EndedBy(t, u)' <=> EndedBy(t, u)
    BY SameEnds, Zenon DEF EndedBy
<1> QED BY <1>6, <1>7

(* What a step without a token must do. *)
KeepsText == \A t : ReadBy(lexer, t) => ReadBy(lexer', t)

\* Such a step.
LEMMA TextStep ==
    ASSUME TextInv, Lexing, UNCHANGED <<input, tokens, turn>>, KeepsText
    PROVE  TextInv'
<1>1. input' = input /\ tokens' = tokens /\ turn' = "lexer"
    BY DEF Lexing
<1>2. RawEnds'
  <2>1. \A i, j : EndedBy(tokens[i], tokens[j]) => EndedBy(tokens[i], tokens[j])'
      BY <1>1, SameReading
  <2> QED BY <1>1, <2>1 DEF TextInv, RawEnds, Switched, IsChar
<1>3. ASSUME NEW i \in DOMAIN tokens', OpenText(i)' PROVE ReadBy(lexer, tokens[i])'
  <2>1. i \in DOMAIN tokens /\ OpenText(i)
      BY <1>1, <1>3 DEF OpenText, Switched, IsChar
  <2>2. ReadBy(lexer', tokens'[i])
      BY <1>1, <2>1 DEF TextInv, KeepsText
  <2> QED BY <1>1, <2>2, SameReading
<1> QED BY <1>1, <1>2, <1>3 DEF TextInv

\* A step with a token.
LEMMA TextGrows ==
    ASSUME TextInv, IsTokens, NEW u, input' = input, tokens' = Append(tokens, u),
           u.then = "data", Handed(u, lexer'),
           IF IsChar(u) THEN KeepsText ELSE \A t : ReadBy(lexer, t) => EndedBy(t, u)
    PROVE  TextInv'
<1>1. PICK S : tokens \in Seq(S)
    BY DEF IsTokens
<1> DEFINE n == Len(tokens)
           T == S \cup {u}
<1>2. tokens \in Seq(T) /\ u \in T
    BY <1>1
<1>3. /\ tokens' \in Seq(T) /\ Len(tokens') = n + 1 /\ tokens'[n + 1] = u
      /\ \A i \in 1 .. n : tokens'[i] = tokens[i]
    BY <1>2, AppendProperties
<1>4. DOMAIN tokens = 1 .. n /\ DOMAIN tokens' = 1 .. n + 1 /\ n \in Nat
    BY <1>2, <1>3, LenProperties
<1>5. tokens' # <<>>
    BY <1>3, <1>4, EmptySeq
<1> HIDE DEF n, T
<1>6. /\ \A i \in 1 .. n + 1 : i = n + 1 \/ i \in 1 .. n
      /\ \A i, j \in 1 .. n + 1 : i < j => i \in 1 .. n
      /\ \A i, j \in 1 .. n : \A k \in i + 1 .. j - 1 : k \in 1 .. n
      /\ \A i \in 1 .. n : \A k \in i + 1 .. n : k \in 1 .. n /\ k \in i + 1 .. (n + 1) - 1
      /\ \A i \in 1 .. n : \A k \in i + 1 .. n : k \in i + 1 .. n + 1
      /\ \A i \in 1 .. n : n + 1 \in i + 1 .. n + 1
    BY <1>4
<1>7. ASSUME NEW i \in 1 .. n, Switched(tokens[i]), \A k \in i + 1 .. n : IsChar(tokens[k])
      PROVE  ReadBy(lexer, tokens[i])
    BY <1>4, <1>7 DEF TextInv, OpenText, n
<1>8. ASSUME NEW i \in DOMAIN tokens', NEW j \in DOMAIN tokens', i < j,
             Switched(tokens'[i]), ~IsChar(tokens'[j]),
             \A k \in i + 1 .. j - 1 : IsChar(tokens'[k])
      PROVE  EndedBy(tokens'[i], tokens'[j])
  <2>1. i \in 1 .. n /\ tokens'[i] = tokens[i]
      BY <1>3, <1>4, <1>6, <1>8
  <2>2. CASE j = n + 1
    <3>1. \A k \in i + 1 .. n : IsChar(tokens[k])
        BY <1>3, <1>6, <1>8, <2>1, <2>2
    <3>2. ReadBy(lexer, tokens[i])
        BY <1>7, <1>8, <2>1, <3>1
    <3> QED BY <1>3, <1>8, <2>1, <2>2, <3>2
  <2>3. CASE j # n + 1
    <3>1. j \in 1 .. n /\ tokens'[j] = tokens[j]
        BY <1>3, <1>4, <1>6, <1>8, <2>3
    <3>2. \A k \in i + 1 .. j - 1 : IsChar(tokens[k])
        BY <1>3, <1>6, <1>8, <2>1, <3>1
    <3> QED BY <1>4, <1>8, <2>1, <3>1, <3>2 DEF TextInv, RawEnds
  <2> QED BY <2>2, <2>3
<1>9. RawEnds'
  <2>1. ASSUME NEW i \in DOMAIN tokens', NEW j \in DOMAIN tokens', i < j,
               Switched(tokens'[i]), ~IsChar(tokens'[j]),
               \A k \in i + 1 .. j - 1 : IsChar(tokens'[k])
        PROVE  EndedBy(tokens[i], tokens[j])'
      BY <1>8, <2>1, SameReading
  <2> QED BY <2>1 DEF RawEnds, Switched, IsChar
<1>10. ASSUME NEW i \in DOMAIN tokens', OpenText(i)' PROVE ReadBy(lexer, tokens[i])'
  <2>1. Switched(tokens'[i]) /\ \A k \in i + 1 .. n + 1 : IsChar(tokens'[k])
      BY <1>3, <1>10 DEF OpenText, Switched, IsChar
  <2>2. i \in 1 .. n
      BY <1>3, <1>4, <1>6, <2>1 DEF Switched
  <2>3. IsChar(u)
      BY <1>3, <1>6, <2>1, <2>2
  <2>4. ReadBy(lexer, tokens[i])
      BY <1>3, <1>6, <1>7, <2>1, <2>2
  <2>5. ReadBy(lexer', tokens'[i])
      BY <1>3, <2>2, <2>3, <2>4 DEF KeepsText
  <2> QED BY <2>5, SameReading
<1>11. Handed(tokens[Len(tokens)], lexer)'
    BY <1>3 DEF Handed
<1> QED BY <1>5, <1>9, <1>10, <1>11 DEF TextInv

-----------------------------------------------------------------------------
(* The states in which a text is read, and those of its end tag. *)
OfText ==
    TextStatesOf("rcdata") \cup TextStatesOf("rawtext") \cup TextStatesOf("script")
        \cup TextStatesOf("plaintext")
InTags == AttributeStates \ {"tag name"}

\* They are apart.
LEMMA TextApart ==
    /\ \A s \in OfText : s \notin InTags /\ s # "data"
    /\ "data" \notin InTags /\ "data" \notin KeptStates
<1>1. /\ \A s \in TextStatesOf("rcdata") : s \notin InTags /\ s # "data"
      /\ \A s \in TextStatesOf("rawtext") : s \notin InTags /\ s # "data"
    BY States DEF TextStatesOf, InTags
<1>2. \A s \in TextStatesOf("script") : s \notin InTags /\ s # "data"
    BY States DEF TextStatesOf, InTags, ScriptStates, EscapedStates
<1>3. \A s \in TextStatesOf("plaintext") : s \notin InTags /\ s # "data"
    BY States DEF TextStatesOf, InTags
<1>4. "data" \notin InTags
    BY States DEF InTags
<1>5. "data" \notin KeptStates
    BY KeptOnly, TextNames
<1> QED BY <1>1, <1>2, <1>3, <1>4, <1>5 DEF OfText

\* What the state says of an open text.
LEMMA ReadingIs ==
    ASSUME NEW l, NEW t, ReadBy(l, t)
    PROVE  /\ IsText(t) /\ l.state \in OfText \cup InTags \cup {"data"}
           /\ l.state \in OfText => InText(l, t)
           /\ l.state \in InTags => InEndTag(l, t)
           /\ l.state = "data" => CutOff(l)
<1>1. IsText(t) /\ t.then \in {"rcdata", "rawtext", "script", "plaintext"}
    BY TextIs DEF ReadBy
<1>2. InText(l, t) => l.state \in OfText
    BY <1>1 DEF InText, TextTo, OfText
<1>3. InEndTag(l, t) => l.state \in InTags
    BY DEF InEndTag, InTags
<1>4. CutOff(l) => l.state = "data"
    BY DEF CutOff
<1> QED BY <1>1, <1>2, <1>3, <1>4, TextApart DEF ReadBy

\* The same, of the lexer at the start of a step.
LEMMA ReadingHere ==
    ASSUME NEW s \in OfText, At(s), NEW t, ReadBy(lexer, t)
    PROVE  /\ IsText(t) /\ lexer.last = t.name /\ NameKept(lexer)
           /\ s \notin KeptStates =>
                TextTo(s, lexer.pos, lexer.script, t) /\ lexer.start = lexer.pos
           /\ s \in KeptStates =>
                TextTo(s, lexer.mark, lexer.script, t) /\ lexer.start = lexer.mark
<1>1. lexer.state = s /\ lexer.flush = 0
    BY DEF At
<1>2. IsText(t) /\ InText(lexer, t)
    BY <1>1, ReadingIs
<1> QED BY <1>1, <1>2 DEF InText, ReadTo

\* A text that is read further,
LEMMA ReadsOn ==
    ASSUME NEW l, NEW t, IsText(t), NEW s, l.state = s, s \notin KeptStates, l.flush = 0,
           NEW x, l.pos = x, l.start = x, NEW n, l.script = n, TextTo(s, x, n, t),
           l.last = t.name
    PROVE  ReadBy(l, t)
<1>1. s \notin EndTagNameStates
    BY DEF KeptStates
<1>2. ReadTo(l) = x
    BY DEF ReadTo
<1>3. NameKept(l)
    BY <1>1 DEF NameKept
<1>4. InText(l, t)
    BY <1>2, <1>3 DEF InText
<1> QED BY <1>4 DEF ReadBy

\* or up to where something is kept back.
LEMMA ReadsKept ==
    ASSUME NEW l, NEW t, IsText(t), NEW s, l.state = s, s \in KeptStates, l.flush = 0,
           NEW x, l.mark = x, l.start = x, NEW n, l.script = n, TextTo(s, x, n, t),
           l.last = t.name, NameKept(l)
    PROVE  ReadBy(l, t)
<1>1. ReadTo(l) = x
    BY DEF ReadTo
<1>2. InText(l, t)
    BY <1>1 DEF InText
<1> QED BY <1>2 DEF ReadBy

-----------------------------------------------------------------------------
(* What a step leaves as it is. *)

\* Going on to the next character.
LEMMA SettledKeeps ==
    ASSUME NEW l, DOMAIN l = LexerFields
    PROVE  LET k == Settled(l)
           IN  /\ DOMAIN k = LexerFields /\ k.temp = l.temp /\ k.script = l.script
               /\ k.tag = l.tag /\ k.last = l.last
BY DEF Settled, Advance, LexerFields

\* Handing a token over.
LEMMA EmitKeeps ==
    ASSUME IsInput, NEW l, NEW token, Emit(l, token), DOMAIN l = LexerFields,
           l.pos \in Nat \ {0}, l.pos <= Len(input) + 1
    PROVE  /\ lexer'.pos = Settled(l).pos /\ lexer'.start = Settled(l).pos
           /\ lexer'.state = l.state /\ lexer'.flush = l.flush /\ lexer'.extra = l.extra
           /\ lexer'.mark = l.mark /\ lexer'.temp = l.temp /\ lexer'.script = l.script
           /\ lexer'.tag = l.tag /\ lexer'.last = l.last
<1> DEFINE k == Settled(l)
<1>1. /\ DOMAIN k = LexerFields /\ k.temp = l.temp /\ k.script = l.script
      /\ k.tag = l.tag /\ k.last = l.last
    BY SettledKeeps
<1>2. k.state = l.state /\ k.flush = l.flush /\ k.extra = l.extra /\ k.mark = l.mark
    BY SettledAt
<1>3. lexer' = [k EXCEPT !.start = k.pos]
    BY DEF Emit
<1> HIDE DEF k
<1> QED BY <1>1, <1>2, <1>3 DEF LexerFields, k

\* A token that is no tag.
LEMMA EmitText ==
    ASSUME IInv', CoverInv, TextInv, NEW l, NEW token, Emit(l, token),
           "type" \in DOMAIN token, token.type \notin {"start", "end"},
           IF IsChar(token) THEN KeepsText
           ELSE \A t : ReadBy(lexer, t) => EndedBy(t, Located(token, l.start, Settled(l).pos))
    PROVE  TextInv'
<1> DEFINE u == Located(token, l.start, Settled(l).pos)
           k == Settled(l)
<1>1. u.type = token.type /\ u.then = "data" /\ u.to = k.pos
    BY DEF Located
<1>2. lexer' = [k EXCEPT !.start = k.pos] /\ input' = input /\ tokens' = Append(tokens, u)
    BY DEF Emit
<1>3. DOMAIN lexer' = LexerFields
    BY DEF IInv, Parts, IsLexer
<1> HIDE DEF k, u
<1>4. lexer'.start = k.pos
  <2>1. DOMAIN k = LexerFields
      BY <1>2, <1>3
  <2> QED BY <1>2, <2>1 DEF LexerFields
<1>5. Handed(u, lexer')
    BY <1>1, <1>4 DEF Handed
<1>6. IsTokens
    BY DEF CoverInv
<1>7. IF IsChar(u) THEN KeepsText ELSE \A t : ReadBy(lexer, t) => EndedBy(t, u)
    BY <1>1 DEF IsChar, u, k
<1> QED BY <1>1, <1>2, <1>5, <1>6, <1>7, TextGrows

\* A character; the end of the input ends every text.
LEMMA CharsText ==
    ASSUME IInv', CoverInv, TextInv, NEW l, NEW s, EmitChar(l, s), s # EOF => KeepsText
    PROVE  TextInv'
<1> DEFINE token == [type |-> CharType(s), char |-> s]
           u == Located(token, l.start, Settled(l).pos)
<1>1. Emit(l, token)
    BY DEF EmitChar
<1>2. "type" \in DOMAIN token /\ token.type = CharType(s) /\ u.type = CharType(s)
    BY DEF Located
<1>3. s # EOF => CharType(s) \in {"whitespace", "null", "character"}
    BY DEF CharType
<1>4. s = EOF => CharType(s) = "eof"
    BY DEF CharType, EOF, NUL
<1> HIDE DEF token, u
<1>5. CASE s = EOF
  <2>1. token.type = "eof" /\ ~IsChar(token) /\ \A t : EndedBy(t, u)
      BY <1>2, <1>4, <1>5 DEF IsChar, EndedBy
  <2> QED BY <1>1, <1>2, <2>1, EmitText DEF u
<1>6. CASE s # EOF
  <2>1. token.type \notin {"start", "end"} /\ IsChar(token)
      BY <1>2, <1>3, <1>6 DEF IsChar
  <2> QED BY <1>1, <1>2, <1>6, <2>1, EmitText
<1> QED BY <1>5, <1>6

\* A step without a token.
LEMMA NextText ==
    ASSUME TextInv, Lexing, NEW l, NextChar(l), KeepsText
    PROVE  TextInv'
BY TextStep DEF NextChar

-----------------------------------------------------------------------------
(* Where no text is open. *)
Outcome ==
    \/ \E l : NextChar(l)
    \/ \E l, token : Emit(l, token) /\ "type" \in DOMAIN token /\ token.type \notin {"start", "end"}

\* Handlers either go on or hand over a token.
LEMMA OutcomeIs ==
    /\ \A l : NextChar(l) => Outcome
    /\ \A l, s : EmitChar(l, s) => Outcome
    /\ \A l : EmitComment(l) => Outcome
    /\ \A l : EmitDoctype(l) => Outcome
    /\ \A l : EmitTemporary(l) => Outcome
    /\ \A l : EmitCharRef(l) => Outcome
<1>1. \A l : NextChar(l) => Outcome
    BY DEF Outcome
<1>2. ASSUME NEW l, NEW s, EmitChar(l, s) PROVE Outcome
  <2> DEFINE token == [type |-> CharType(s), char |-> s]
  <2>1. "type" \in DOMAIN token /\ token.type \notin {"start", "end"}
      BY DEF CharType
  <2> QED BY <1>2, <2>1 DEF EmitChar, Outcome
<1>3. ASSUME NEW l, EmitComment(l) PROVE Outcome
  <2> DEFINE token == [type |-> "comment", text |-> l.temp]
  <2>1. "type" \in DOMAIN token /\ token.type \notin {"start", "end"}
      OBVIOUS
  <2> QED BY <1>3, <2>1 DEF EmitComment, Outcome
<1>4. ASSUME NEW l, EmitDoctype(l) PROVE Outcome
  <2> DEFINE token == [type |-> "doctype", doctype |-> l.doctype]
  <2>1. "type" \in DOMAIN token /\ token.type \notin {"start", "end"}
      OBVIOUS
  <2> QED BY <1>4, <2>1 DEF EmitDoctype, Outcome
<1>5. \A l : EmitTemporary(l) => Outcome
    BY <1>2 DEF EmitTemporary, FlushFrom
<1>6. \A l : EmitCharRef(l) => Outcome
    BY <1>2 DEF EmitCharRef
<1> QED BY <1>1, <1>2, <1>3, <1>4, <1>5, <1>6

\* Whatever they do, no text is open there.
LEMMA IdleText ==
    ASSUME IInv', CoverInv, TextInv, NEW s, At(s), Outcome,
           s \notin OfText \cup InTags, s = "data" => c # EOF
    PROVE  TextInv'
<1>1. \A t : ~ReadBy(lexer, t)
  <2> SUFFICES ASSUME NEW t, ReadBy(lexer, t) PROVE FALSE
      OBVIOUS
  <2>1. lexer.state = s /\ s = "data" /\ CutOff(lexer)
      BY ReadingIs DEF At
  <2> QED BY <2>1 DEF CutOff, c
<1>2. KeepsText /\ Lexing
    BY <1>1 DEF KeepsText, At
<1>3. ASSUME NEW l, NextChar(l) PROVE TextInv'
    BY <1>2, <1>3, NextText
<1>4. ASSUME NEW l, NEW token, Emit(l, token),
             "type" \in DOMAIN token, token.type \notin {"start", "end"}
      PROVE  TextInv'
    BY <1>1, <1>2, <1>4, EmitText
<1> QED BY <1>3, <1>4 DEF Outcome

-----------------------------------------------------------------------------
(* The steps of texts, by what they say of the text up to where it is read. *)
Inv == IInv /\ IInv' /\ CoverInv /\ TextInv

\* Stays, with the name of the last start tag.
Remains(l, s, again) == Stays(l, s, again) /\ l.last = lexer.last

\* The helpers leave that name alone.
LEMMA RemainsChanges ==
    ASSUME NEW l, NEW s, NEW again, Remains(l, s, again)
    PROVE  /\ Remains(Again(l), s, TRUE) /\ Again(l).script = l.script
           /\ Remains(ClearTemporary(l), s, again) /\ Remains(AbandonTag(l), s, again)
           /\ AbandonTag(l).script = l.script
           /\ \A x : /\ Remains([l EXCEPT !.script = x], s, again)
                     /\ [l EXCEPT !.script = x].script = x
                     /\ [l EXCEPT !.script = x].mark = l.mark
                     /\ [l EXCEPT !.script = x].temp = l.temp
           /\ \A ss : /\ Remains(AppendTemporary(l, ss), s, again)
                      /\ AppendTemporary(l, ss).script = l.script
<1> USE DEF Remains, Stays, LexerFields
<1>1. Remains(Again(l), s, TRUE) /\ Again(l).script = l.script
    BY DEF Again
<1>2. Remains(ClearTemporary(l), s, again)
    BY DEF ClearTemporary
<1>3. Remains(AbandonTag(l), s, again) /\ AbandonTag(l).script = l.script
    BY DEF AbandonTag
<1>4. \A x : /\ Remains([l EXCEPT !.script = x], s, again)
             /\ [l EXCEPT !.script = x].script = x
             /\ [l EXCEPT !.script = x].mark = l.mark
             /\ [l EXCEPT !.script = x].temp = l.temp
    OBVIOUS
<1>5. \A ss : /\ Remains(AppendTemporary(l, ss), s, again)
              /\ AppendTemporary(l, ss).script = l.script
    BY DEF AppendTemporary
<1> QED BY <1>1, <1>2, <1>3, <1>4, <1>5

\* The lexer at the start of a step.
LEMMA RemainsHere ==
    ASSUME Inv, NEW s, At(s)
    PROVE  /\ Lexing /\ Remains(lexer, s, FALSE)
           /\ \A t : /\ Remains(To(t), t, FALSE) /\ To(t).script = lexer.script
                     /\ To(t).mark = lexer.mark /\ To(t).temp = lexer.temp
<1>1. DOMAIN lexer = LexerFields
    BY PlacesHere DEF Inv
<1>2. \A t : To(t).last = lexer.last /\ To(t).script = lexer.script
    BY <1>1 DEF To, LexerFields
<1> QED BY <1>2, StaysHere DEF Inv, Remains

\* Where the iterator goes from where it was.
LEMMA RemainsSettled ==
    ASSUME Inv, NEW l, NEW s, NEW again, Remains(l, s, again)
    PROVE  /\ DOMAIN l = LexerFields /\ l.pos \in Nat \ {0} /\ l.pos <= Len(input) + 1 /\ IsInput
           /\ LET k == Settled(l)
              IN  /\ k.state = s /\ k.flush = 0 /\ k.extra = NoChar /\ k.mark = l.mark
                  /\ k.script = l.script /\ k.tag = l.tag /\ k.last = lexer.last
                  /\ k.start = lexer.start
                  /\ again = TRUE \/ c = EOF => k.pos = lexer.pos
                  /\ again = FALSE /\ c # EOF => k.pos = lexer.pos + 1
<1>1. /\ DOMAIN l = LexerFields /\ l.pos = lexer.pos /\ l.state = s /\ l.flush = 0
      /\ l.extra = NoChar /\ l.start = lexer.start /\ l.again = again /\ l.last = lexer.last
    BY DEF Remains, Stays
<1>2. l.pos \in Nat \ {0} /\ l.pos <= Len(input) + 1 /\ IsInput
    BY <1>1, PlacesHere DEF Inv
<1> DEFINE k == Settled(l)
<1>3. k.script = l.script /\ k.tag = l.tag /\ k.last = lexer.last
    BY <1>1, SettledKeeps
<1>4. /\ k.state = s /\ k.flush = 0 /\ k.extra = NoChar /\ k.mark = l.mark
      /\ k.start = lexer.start
      /\ again = TRUE => k.pos = l.pos
      /\ again = FALSE /\ CharAt(l.pos) # EOF => k.pos = l.pos + 1
      /\ CharAt(l.pos) = EOF => k.pos = l.pos
    BY <1>1, <1>2, SettledAt
<1> HIDE DEF k
<1>5. /\ again = TRUE \/ c = EOF => k.pos = lexer.pos
      /\ again = FALSE /\ c # EOF => k.pos = lexer.pos + 1
    BY <1>1, <1>4 DEF c
<1> QED BY <1>1, <1>2, <1>3, <1>4, <1>5 DEF k

\* A symbol goes out.
LEMMA CharGoes ==
    ASSUME Inv, NEW s \in OfText \ KeptStates, At(s), NEW s2 \in PlainStates, NEW l,
           Remains(l, s2, FALSE), NEW x \in {c, Unnulled(c)}, EmitChar(l, x),
           \A t : IsText(t) /\ TextTo(s, lexer.pos, lexer.script, t) =>
                TextTo(s2, lexer.pos + 1, l.script, t)
    PROVE  TextInv'
<1>1. c = EOF => x = EOF
    BY DEF Unnulled, EOF, NUL
<1>2. ASSUME c # EOF, NEW t, ReadBy(lexer, t) PROVE ReadBy(lexer', t)
  <2>1. Emit(l, [type |-> CharType(x), char |-> x])
      BY DEF EmitChar
  <2>2. /\ lexer'.pos = lexer.pos + 1 /\ lexer'.start = lexer.pos + 1 /\ lexer'.state = s2
        /\ lexer'.flush = 0 /\ lexer'.script = l.script /\ lexer'.last = lexer.last
      BY <1>2, <2>1, EmitKeeps, RemainsSettled, ZenonT(40) DEF Remains, Stays
  <2>3. /\ IsText(t) /\ lexer.last = t.name /\ TextTo(s2, lexer.pos + 1, l.script, t)
      BY <1>2, ReadingHere
  <2>4. s2 \notin KeptStates
      BY KeptOnly DEF CharStates
  <2> QED BY <2>2, <2>3, <2>4, ReadsOn
<1> QED BY <1>1, <1>2, CharsText DEF Inv, KeepsText

\* It is looked at again.
LEMMA AgainGoes ==
    ASSUME Inv, NEW s \in OfText \ KeptStates, At(s), NEW s2 \in CharStates,
           NextChar(Again(To(s2))),
           \A t : IsText(t) /\ TextTo(s, lexer.pos, lexer.script, t) =>
                TextTo(s2, lexer.pos, lexer.script, t)
    PROVE  TextInv'
<1> DEFINE l == Again(To(s2))
<1>1. Lexing /\ Remains(l, s2, TRUE) /\ l.script = lexer.script /\ NextChar(l)
    BY RemainsHere, RemainsChanges, ZenonT(40)
<1> HIDE DEF l
<1>2. ASSUME NEW t, ReadBy(lexer, t) PROVE ReadBy(lexer', t)
  <2>0. lexer' = Settled(l)
      BY <1>1 DEF NextChar
  <2>1. /\ lexer'.pos = lexer.pos /\ lexer'.start = lexer.start /\ lexer'.state = s2
        /\ lexer'.flush = 0 /\ lexer'.script = lexer.script /\ lexer'.last = lexer.last
      BY <1>1, <2>0, RemainsSettled
  <2>2. /\ IsText(t) /\ lexer.last = t.name /\ lexer.start = lexer.pos
        /\ TextTo(s2, lexer.pos, lexer.script, t)
      BY <1>2, ReadingHere
  <2>3. s2 \notin KeptStates
      BY KeptOnly
  <2> QED BY <2>1, <2>2, <2>3, ReadsOn
<1> QED BY <1>1, <1>2, NextText DEF Inv, KeepsText

\* "<" is kept back.
LEMMA OpensText ==
    ASSUME Inv, NEW s \in OfText \ KeptStates, At(s), NEW s2 \in OpenStates,
           NextChar(Opened(s2)),
           \A t, m : IsText(t) /\ TextTo(s, lexer.pos, lexer.script, t) =>
                TextTo(s2, lexer.pos, m, t)
    PROVE  TextInv'
<1> DEFINE l == Opened(s2)
<1>1. Lexing /\ Remains(l, s2, FALSE)
    BY RemainsHere, RemainsChanges DEF Opened
<1>2. l.mark = lexer.pos
  <2> DEFINE k == To(s2)
  <2>1. DOMAIN k = LexerFields /\ k.pos = lexer.pos
      BY RemainsHere DEF Remains, Stays
  <2> HIDE DEF k
  <2>2. AppendTemporary(ClearTemporary(k), <<"<">>).mark = lexer.pos
      BY <2>1 DEF AppendTemporary, ClearTemporary, LexerFields
  <2> QED BY <2>2 DEF Opened, k
<1>3. NextChar(l)
    OBVIOUS
<1> HIDE DEF l
<1>4. ASSUME NEW t, ReadBy(lexer, t) PROVE ReadBy(lexer', t)
  <2>0. lexer' = Settled(l)
      BY <1>3 DEF NextChar
  <2>1. /\ lexer'.mark = lexer.pos /\ lexer'.start = lexer.start /\ lexer'.state = s2
        /\ lexer'.flush = 0 /\ lexer'.last = lexer.last
      BY <1>1, <1>2, <2>0, RemainsSettled
  <2>2. /\ IsText(t) /\ lexer.last = t.name /\ lexer.start = lexer.pos
        /\ TextTo(s2, lexer.pos, lexer'.script, t)
      BY <1>4, ReadingHere
  <2>3. s2 \in KeptStates /\ s2 \notin EndTagNameStates
      BY States DEF KeptStates, OpenStates
  <2>4. NameKept(lexer')
      BY <2>1, <2>3 DEF NameKept
  <2> QED BY <2>1, <2>2, <2>3, <2>4, ReadsKept
<1> QED BY <1>1, <1>3, <1>4, NextText DEF Inv, KeepsText

\* So is more after it.
LEMMA KeptGoes ==
    ASSUME Inv, NEW s \in OfText \cap KeptStates, At(s), NEW s2 \in KeptStates, NEW l,
           Remains(l, s2, FALSE), l.mark = lexer.mark, NextChar(l),
           \A t : IsText(t) /\ NameKept(lexer) /\ TextTo(s, lexer.mark, lexer.script, t) =>
                TextTo(s2, lexer.mark, l.script, t) /\ NameKept(Settled(l))
    PROVE  TextInv'
<1>1. ASSUME NEW t, ReadBy(lexer, t) PROVE ReadBy(lexer', t)
  <2>1. lexer' = Settled(l)
      BY DEF NextChar
  <2>2. /\ lexer'.mark = lexer.mark /\ lexer'.start = lexer.start /\ lexer'.state = s2
        /\ lexer'.flush = 0 /\ lexer'.last = lexer.last /\ lexer'.script = l.script
      BY <2>1, RemainsSettled
  <2>3. /\ IsText(t) /\ lexer.last = t.name /\ lexer.start = lexer.mark
        /\ TextTo(s2, lexer.mark, l.script, t) /\ NameKept(lexer')
      BY <1>1, <2>1, ReadingHere
  <2> QED BY <2>2, <2>3, ReadsKept
<1>2. Lexing
    BY DEF At
<1> QED BY <1>1, <1>2, NextText DEF Inv, KeepsText

\* The end of the input is reached without a token.
LEMMA CutsOff ==
    ASSUME Inv, NEW s, At(s), c = EOF, NEW l, NEW again, Remains(l, "data", again), NextChar(l)
    PROVE  TextInv'
<1>1. /\ lexer'.pos = lexer.pos /\ lexer'.state = "data" /\ lexer'.flush = 0
      /\ lexer'.extra = NoChar
    BY RemainsSettled DEF NextChar
<1>2. CutOff(lexer')
    BY <1>1 DEF CutOff, c
<1>3. Lexing /\ KeepsText
    BY <1>2, ReadingIs DEF KeepsText, ReadBy, At
<1> QED BY <1>3, NextText DEF Inv

-----------------------------------------------------------------------------
(* What was kept back goes out, and is text. *)

\* Places from a mark on.
LEMMA MarkPlaces ==
    ASSUME NEW m \in Nat \ {0}, NEW n \in Nat \ {0}
    PROVE  /\ m + 1 \in Nat \ {0} /\ ~(1 < n) => m + 1 = m + n
           /\ (IF 1 < n THEN 1 + 1 ELSE 0) # 0 <=> 1 < n
OBVIOUS

\* What is kept back is one symbol longer.
LEMMA OneLonger ==
    ASSUME NEW m \in Nat, NEW k \in Nat, NEW p, m + k = p
    PROVE  k + 1 \in Nat \ {0} /\ m + (k + 1) = p + 1
OBVIOUS

\* The first of it: the iterator goes back to the mark.
LEMMA BackGoes ==
    ASSUME Inv, NEW s \in OfText \cap KeptStates, At(s), NEW s2 \in PlainStates, NEW l, NEW again,
           Remains(l, s2, again), l.mark = lexer.mark, l.temp[1] = "<", EmitTemporary(l),
           NEW n \in Nat \ {0}, Len(l.temp) = n,
           \A t : /\ IsText(t) /\ lexer.last = t.name /\ NameKept(lexer)
                  /\ TextTo(s, lexer.mark, lexer.script, t)
                  => TextTo(s2, lexer.mark + n, l.script, t)
    PROVE  TextInv'
<1> DEFINE flush == IF 1 < n THEN 1 + 1 ELSE 0
           k == [l EXCEPT !.pos = l.mark]
           m == [k EXCEPT !.again = FALSE, !.flush = flush]
<1>1. DOMAIN l = LexerFields /\ l.state = s2 /\ l.extra = NoChar /\ l.last = lexer.last
    BY DEF Remains, Stays
<1>2. k.temp = l.temp
    BY <1>1 DEF LexerFields
<1>3. EmitChar(m, "<")
    BY <1>2 DEF EmitTemporary, FlushFrom
<1> HIDE DEF flush
<1>4. /\ DOMAIN m = LexerFields /\ m.pos = lexer.mark /\ m.again = FALSE /\ m.state = s2
      /\ m.flush = flush /\ m.extra = NoChar /\ m.mark = lexer.mark /\ m.temp = l.temp
      /\ m.script = l.script /\ m.last = lexer.last
    BY <1>1 DEF LexerFields
<1> HIDE DEF m
<1>5. /\ CharAt(lexer.mark) = "<" /\ lexer.mark \in Nat \ {0} /\ IsInput
      /\ Len(input) \in Nat
  <2>1. lexer.state = s
      BY DEF At
  <2>2. OpensAt(lexer.start, lexer.mark)
      BY <2>1 DEF Inv, CoverInv, Covers, Placed
  <2> QED BY <2>2, PlacesHere DEF Inv, OpensAt, IsOpen
<1>6. lexer.mark <= Len(input) + 1 /\ CharAt(lexer.mark) # EOF
  <2>1. CharAt(lexer.mark) # EOF
      BY <1>5 DEF EOF
  <2>2. lexer.mark <= Len(input)
      BY <2>1 DEF CharAt
  <2> QED BY <1>5, <2>1, <2>2
<1>7. Settled(m).pos = lexer.mark + 1
    BY <1>4, <1>5, <1>6, SettledOn
<1>8. Emit(m, [type |-> CharType("<"), char |-> "<"])
    BY <1>3 DEF EmitChar
<1>9. /\ lexer'.start = lexer.mark + 1 /\ lexer'.pos = lexer.mark + 1 /\ lexer'.state = s2
      /\ lexer'.flush = flush /\ lexer'.mark = lexer.mark /\ lexer'.temp = l.temp
      /\ lexer'.script = l.script /\ lexer'.last = lexer.last
    BY <1>4, <1>5, <1>6, <1>7, <1>8, EmitKeeps
<1>10. s2 \notin KeptStates /\ s2 \notin EndTagNameStates
    BY KeptOnly, TextNames DEF KeptStates
<1>11. lexer'.flush = 0 => lexer'.start = lexer.mark + n
  <2>1. CASE 1 < n
    <3>1. flush # 0
        BY <2>1, MarkPlaces DEF flush
    <3> QED BY <1>9, <1>10, <3>1 DEF ReadTo
  <2>2. CASE ~(1 < n)
    <3>1. flush = 0 /\ lexer.mark + 1 = lexer.mark + n
        BY <1>5, <2>2, MarkPlaces DEF flush
    <3> QED BY <1>9, <1>10, <3>1 DEF ReadTo
  <2> QED BY <2>1, <2>2
<1>12. ReadTo(lexer') = lexer.mark + n
    BY <1>5, <1>9, <1>10, MarkPlaces DEF flush, ReadTo
<1>13. KeepsText
  <2> SUFFICES ASSUME NEW t, ReadBy(lexer, t) PROVE ReadBy(lexer', t)
      BY DEF KeepsText
  <2>1. /\ IsText(t) /\ lexer.last = t.name /\ TextTo(s2, lexer.mark + n, l.script, t)
      BY ReadingHere
  <2>2. NameKept(lexer')
      BY <1>9, <1>10 DEF NameKept
  <2>3. InText(lexer', t)
      BY <1>9, <1>11, <1>12, <2>1, <2>2 DEF InText
  <2> QED BY <2>1, <2>3 DEF ReadBy
<1> QED BY <1>3, <1>13, CharsText DEF Inv

\* It is as long as it was,
LEMMA BackAsIs ==
    ASSUME Inv, NEW s \in OfText \cap KeptStates, At(s), NEW s2 \in PlainStates,
           \/ EmitTemporary(To(s2)) \/ EmitTemporary(Again(To(s2)))
           \/ EmitTemporary(AbandonTag(To(s2))),
           \A t : /\ IsText(t) /\ lexer.last = t.name /\ NameKept(lexer)
                  /\ TextTo(s, lexer.mark, lexer.script, t)
                  => TextTo(s2, lexer.pos, lexer.script, t)
    PROVE  TextInv'
<1>1. PICK l : /\ EmitTemporary(l)
               /\ l = To(s2) \/ l = Again(To(s2)) \/ l = AbandonTag(To(s2))
    OBVIOUS
<1>2. /\ Remains(To(s2), s2, FALSE) /\ DOMAIN To(s2) = LexerFields /\ To(s2).mark = lexer.mark
      /\ To(s2).temp = lexer.temp /\ To(s2).script = lexer.script
    BY RemainsHere DEF Remains, Stays
<1>3. /\ Remains(l, s2, FALSE) \/ Remains(l, s2, TRUE)
      /\ l.mark = lexer.mark /\ l.temp = lexer.temp /\ l.script = lexer.script
  <2> DEFINE k == To(s2)
  <2>1. /\ Remains(k, s2, FALSE) /\ DOMAIN k = LexerFields /\ k.mark = lexer.mark
        /\ k.temp = lexer.temp /\ k.script = lexer.script
      BY <1>2
  <2>2. l = k \/ l = Again(k) \/ l = AbandonTag(k)
      BY <1>1
  <2> HIDE DEF k
  <2>3. Remains(Again(k), s2, TRUE) /\ Again(k).script = k.script
      BY <2>1, RemainsChanges
  <2>4. Remains(AbandonTag(k), s2, FALSE) /\ AbandonTag(k).script = k.script
      BY <2>1, RemainsChanges
  <2>5. /\ Again(k).mark = k.mark /\ Again(k).temp = k.temp
        /\ AbandonTag(k).mark = k.mark /\ AbandonTag(k).temp = k.temp
      BY <2>1, MarkStays
  <2> QED BY <2>1, <2>2, <2>3, <2>4, <2>5
<1>4. lexer.temp[1] = "<" /\ lexer.temp # <<>> /\ lexer.temp \in Seq(Symbols)
      /\ lexer.mark + Len(lexer.temp) = lexer.pos
    BY KeptHere, KeptFirst DEF Inv, IsLexer
<1>5. Len(lexer.temp) \in Nat \ {0}
    BY <1>4, EmptySeq, LenProperties
<1>6. \A t : /\ IsText(t) /\ lexer.last = t.name /\ NameKept(lexer)
             /\ TextTo(s, lexer.mark, lexer.script, t)
             => TextTo(s2, lexer.mark + Len(lexer.temp), l.script, t)
    BY <1>3, <1>4
<1>7. PICK again : Remains(l, s2, again)
    BY <1>3
<1>8. l.mark = lexer.mark /\ l.temp[1] = "<" /\ Len(l.temp) = Len(lexer.temp)
    BY <1>3, <1>4
<1> QED BY <1>1, <1>5, <1>6, <1>7, <1>8, BackGoes

\* or there is a symbol more.
LEMMA BackWithMore ==
    ASSUME Inv, NEW s \in OfText \cap KeptStates, At(s), NEW s2 \in PlainStates, NEW x \in Symbols,
           NEW l, EmitTemporary(l), Remains(l, s2, FALSE), l.mark = lexer.mark,
           l.temp = lexer.temp \o <<x>>,
           \A t : IsText(t) /\ NameKept(lexer) /\ TextTo(s, lexer.mark, lexer.script, t) =>
                TextTo(s2, lexer.pos + 1, l.script, t)
    PROVE  TextInv'
<1>1. lexer.temp \in Seq(Symbols) /\ lexer.mark + Len(lexer.temp) = lexer.pos
    BY KeptHere DEF Inv, IsLexer
<1>2. l.temp[1] = "<"
    BY KeptFirst DEF Inv
<1>3. <<x>> \in Seq(Symbols) /\ Len(<<x>>) = 1
    OBVIOUS
<1>4. Len(l.temp) = Len(lexer.temp) + 1 /\ Len(lexer.temp) \in Nat
    BY <1>1, <1>3, ConcatProperties, LenProperties
<1>5. lexer.mark \in Nat \ {0}
    BY PlacesHere DEF Inv
<1>6. Len(l.temp) \in Nat \ {0} /\ lexer.mark + Len(l.temp) = lexer.pos + 1
  <2> DEFINE k == Len(lexer.temp)
             n == Len(l.temp)
             m == lexer.mark
             p == lexer.pos
  <2>1. m \in Nat /\ k \in Nat /\ m + k = p /\ n = k + 1
      BY <1>1, <1>4, <1>5
  <2>2. k + 1 \in Nat \ {0} /\ m + (k + 1) = p + 1
      BY <2>1, OneLonger
  <2>3. n \in Nat \ {0} /\ m + n = p + 1
    <3> HIDE DEF k, n, m, p
    <3> QED BY <2>1, <2>2
  <2> QED BY <2>3
<1> QED BY <1>2, <1>6, BackGoes

\* The rest of it follows.
LEMMA FlushText ==
    ASSUME Inv, FlushTemporary
    PROVE  TextInv'
<1> DEFINE i == lexer.flush
           flush == IF i < Len(lexer.temp) THEN i + 1 ELSE 0
           m == [lexer EXCEPT !.again = FALSE, !.flush = flush]
<1>1. Lexing /\ i # 0 /\ EmitChar(m, lexer.temp[i])
    BY DEF FlushTemporary, FlushFrom
<1>2. /\ lexer.state \notin KeptStates \cup AttributeStates
      /\ i \in 1 .. Len(lexer.temp) /\ lexer.mark + i - 1 = lexer.pos /\ IsFound(lexer)
      /\ lexer.temp \in Seq(Symbols)
    BY <1>1 DEF Inv, IInv, Parts, FlushInv, IsLexer
<1>3. /\ lexer.pos \in Nat \ {0} /\ lexer.pos <= Len(input) + 1 /\ IsInput
      /\ DOMAIN lexer = LexerFields /\ lexer.mark \in Nat \ {0}
    BY PlacesHere DEF Inv
<1>4. CharAt(lexer.pos) = lexer.temp[i] /\ lexer.temp[i] # EOF
    BY <1>2 DEF IsFound
<1> HIDE DEF flush
<1>5. /\ DOMAIN m = LexerFields /\ m.pos = lexer.pos /\ m.again = FALSE /\ m.state = lexer.state
      /\ m.flush = flush /\ m.mark = lexer.mark /\ m.temp = lexer.temp
      /\ m.script = lexer.script /\ m.last = lexer.last
    BY <1>3 DEF LexerFields
<1> HIDE DEF m, i
<1>6. Settled(m).pos = lexer.pos + 1
    BY <1>3, <1>4, <1>5, SettledOn
<1>7. Emit(m, [type |-> CharType(lexer.temp[i]), char |-> lexer.temp[i]])
    BY <1>1 DEF EmitChar
<1>8. /\ lexer'.start = lexer.pos + 1 /\ lexer'.pos = lexer.pos + 1 /\ lexer'.state = lexer.state
      /\ lexer'.flush = flush /\ lexer'.mark = lexer.mark /\ lexer'.temp = lexer.temp
      /\ lexer'.script = lexer.script /\ lexer'.last = lexer.last
    BY <1>3, <1>5, <1>6, <1>7, EmitKeeps
<1>9. ReadTo(lexer) = lexer.mark + Len(lexer.temp)
    BY <1>1, <1>2 DEF ReadTo, i
<1>10. Len(lexer.temp) \in Nat
    BY <1>2, LenProperties
<1>11. /\ flush = 0 => lexer.pos + 1 = lexer.mark + Len(lexer.temp)
       /\ flush # 0 <=> i < Len(lexer.temp)
    BY <1>2, <1>3, <1>10 DEF flush
<1>12. ReadTo(lexer') = lexer.mark + Len(lexer.temp)
    BY <1>2, <1>8, <1>11 DEF ReadTo
<1>13. KeepsText
  <2> SUFFICES ASSUME NEW t, ReadBy(lexer, t) PROVE ReadBy(lexer', t)
      BY DEF KeepsText
  <2>1. IsText(t) /\ InText(lexer, t)
      BY <1>1, <1>2 DEF ReadBy, CutOff, InEndTag, i
  <2>2. NameKept(lexer')
      BY <1>2, <1>8 DEF NameKept, KeptStates
  <2>3. InText(lexer', t)
      BY <1>8, <1>9, <1>11, <1>12, <2>1, <2>2 DEF InText
  <2> QED BY <2>1, <2>3 DEF ReadBy
<1> QED BY <1>1, <1>13, CharsText DEF Inv

\* The second code point of a reference goes out.
LEMMA BufferedText ==
    ASSUME Inv, BufferedChar
    PROVE  TextInv'
<1> DEFINE m == Again([lexer EXCEPT !.extra = NoChar])
<1>1. Lexing /\ lexer.extra # NoChar /\ EmitChar(m, lexer.extra)
    BY DEF BufferedChar
<1>2. lexer.start = lexer.pos /\ lexer.flush = 0 /\ lexer.state \in EndStates
    BY <1>1 DEF Inv, CoverInv, Covers, IInv, Parts, ExtraInv
<1>3. /\ lexer.pos \in Nat \ {0} /\ lexer.pos <= Len(input) + 1 /\ IsInput
      /\ DOMAIN lexer = LexerFields
    BY PlacesHere DEF Inv
<1>4. /\ DOMAIN m = LexerFields /\ m.pos = lexer.pos /\ m.again = TRUE /\ m.state = lexer.state
      /\ m.flush = lexer.flush /\ m.mark = lexer.mark /\ m.temp = lexer.temp
      /\ m.script = lexer.script /\ m.last = lexer.last /\ m.start = lexer.start
    BY <1>3 DEF LexerFields, Again
<1> HIDE DEF m
<1>5. Settled(m).pos = lexer.pos
    BY <1>3, <1>4, SettledAt
<1>6. Emit(m, [type |-> CharType(lexer.extra), char |-> lexer.extra])
    BY <1>1 DEF EmitChar
<1>7. /\ lexer'.start = lexer.pos /\ lexer'.pos = lexer.pos /\ lexer'.state = lexer.state
      /\ lexer'.flush = 0 /\ lexer'.mark = lexer.mark /\ lexer'.temp = lexer.temp
      /\ lexer'.script = lexer.script /\ lexer'.last = lexer.last
    BY <1>2, <1>3, <1>4, <1>5, <1>6, EmitKeeps
<1>8. lexer.state \in OfText \/ lexer.state = "data"
    BY <1>2 DEF EndStates, OfText, TextStatesOf, ScriptStates
<1>9. KeepsText
  <2> SUFFICES ASSUME NEW t, ReadBy(lexer, t) PROVE ReadBy(lexer', t)
      BY DEF KeepsText
  <2>1. IsText(t) /\ InText(lexer, t)
      BY <1>1, <1>8, ReadingIs DEF CutOff
  <2>2. ReadTo(lexer') = ReadTo(lexer)
      BY <1>2, <1>7 DEF ReadTo
  <2>3. lexer.state \notin EndTagNameStates
      BY <1>2, TextNames, KeptOnly DEF KeptStates, PlainStates
  <2>4. NameKept(lexer')
      BY <1>7, <2>3 DEF NameKept
  <2>5. lexer'.start = ReadTo(lexer)
      BY <1>2, <1>7, <2>1 DEF InText
  <2>6. InText(lexer', t)
      BY <1>7, <2>1, <2>2, <2>4, <2>5 DEF InText
  <2> QED BY <2>1, <2>6 DEF ReadBy
<1> QED BY <1>1, <1>9, CharsText DEF Inv

-----------------------------------------------------------------------------
(* Tags. *)

(* A lexer in state s with the tag's name as it was. *)
Tagged(l, s) ==
    /\ DOMAIN l = LexerFields /\ l.state = s /\ l.start = lexer.start /\ l.flush = 0
    /\ l.extra = NoChar /\ l.last = lexer.last
    /\ DOMAIN l.tag = TagFields /\ l.tag.name = lexer.tag.name
    /\ l.tag.isStart = lexer.tag.isStart

\* The lexer at the start of a step.
LEMMA TaggedHere ==
    ASSUME Inv, NEW s, At(s)
    PROVE  /\ Lexing /\ Tagged(lexer, s) /\ \A t : Tagged(To(t), t)
<1>1. /\ DOMAIN lexer = LexerFields /\ DOMAIN lexer.tag = TagFields
    BY DEF Inv, IInv, Parts, IsLexer
<1>2. /\ Lexing /\ lexer.state = s /\ lexer.flush = 0 /\ lexer.extra = NoChar
    BY DEF At
<1> HIDE DEF Inv
<1>3. ASSUME NEW t PROVE Tagged(To(t), t)
  <2> DEFINE k == To(t)
  <2>1. /\ DOMAIN k = LexerFields /\ k.state = t /\ k.start = lexer.start /\ k.flush = 0
        /\ k.extra = NoChar /\ k.last = lexer.last /\ k.tag = lexer.tag
      BY <1>1, <1>2 DEF To, LexerFields
  <2> HIDE DEF k
  <2>2. Tagged(k, t)
      BY <1>1, <2>1 DEF Tagged
  <2> QED BY <2>2 DEF k
<1> QED BY <1>1, <1>2, <1>3 DEF Tagged

\* Its attributes do not matter to the name,
LEMMA TaggedTag ==
    ASSUME NEW l, NEW s, Tagged(l, s)
    PROVE  \A x : /\ Tagged([l EXCEPT !.tag.from = x], s)
                  /\ Tagged([l EXCEPT !.tag.selfClosing = x], s)
                  /\ Tagged([l EXCEPT !.tag.valueState = x], s)
                  /\ Tagged([l EXCEPT !.tag.drop = x], s)
                  /\ Tagged([l EXCEPT !.tag.buffer = x], s)
                  /\ Tagged([l EXCEPT !.tag.open = x], s)
                  /\ Tagged([l EXCEPT !.tag.attributes = x], s)
                  /\ Tagged([l EXCEPT !.mark = x], s)
                  /\ Tagged([l EXCEPT !.pos = x], s)
                  /\ Tagged([l EXCEPT !.again = x], s)
                  /\ Tagged([l EXCEPT !.temp = x], s)
<1> USE DEF Tagged, LexerFields, TagFields
<1> TAKE x
<1>1. Tagged([l EXCEPT !.tag.from = x], s)
    OBVIOUS
<1>2. Tagged([l EXCEPT !.tag.selfClosing = x], s)
    OBVIOUS
<1>3. Tagged([l EXCEPT !.tag.valueState = x], s)
    OBVIOUS
<1>4. Tagged([l EXCEPT !.tag.drop = x], s)
    OBVIOUS
<1>5. Tagged([l EXCEPT !.tag.buffer = x], s)
    OBVIOUS
<1>6. Tagged([l EXCEPT !.tag.open = x], s)
    OBVIOUS
<1>7. Tagged([l EXCEPT !.tag.attributes = x], s)
    OBVIOUS
<1>8. /\ Tagged([l EXCEPT !.mark = x], s) /\ Tagged([l EXCEPT !.pos = x], s)
      /\ Tagged([l EXCEPT !.again = x], s) /\ Tagged([l EXCEPT !.temp = x], s)
    OBVIOUS
<1> QED BY <1>1, <1>2, <1>3, <1>4, <1>5, <1>6, <1>7, <1>8

\* whatever is done with them.
LEMMA TaggedChanges ==
    ASSUME NEW l, NEW s, Tagged(l, s)
    PROVE  /\ Tagged(Again(l), s) /\ Tagged(FinishAttributeName(l), s)
           /\ Tagged(FinishAttributeValue(l), s)
           /\ \A ss : Tagged(AppendTemporary(l, ss), s)
           /\ \A x, here : Tagged(AppendTag(l, x, here), s)
<1>1. Tagged(Again(l), s)
    BY TaggedTag DEF Again
<1>2. \A ss : Tagged(AppendTemporary(l, ss), s)
  <2> TAKE ss
  <2> DEFINE x == l.temp \o ss
  <2>1. AppendTemporary(l, ss) = [l EXCEPT !.temp = x]
      BY DEF AppendTemporary, Tagged, LexerFields
  <2>2. Tagged([l EXCEPT !.temp = x], s)
    <3> HIDE DEF x
    <3> QED BY DEF Tagged, LexerFields
  <2> QED BY <2>1, <2>2
<1>3. ASSUME NEW tag, DOMAIN tag = TagFields, tag.name = l.tag.name, tag.isStart = l.tag.isStart
      PROVE  Tagged([l EXCEPT !.tag = tag], s)
    BY <1>3 DEF Tagged, LexerFields
<1>4. \A x, here : Tagged(AppendTag(l, x, here), s)
  <2> TAKE x, here
  <2> DEFINE tag == [l.tag EXCEPT !.buffer = Append(@, x),
                        !.from = IF l.tag.buffer = <<>> /\ here THEN l.pos ELSE @]
  <2>1. AppendTag(l, x, here) = [l EXCEPT !.tag = tag]
      BY DEF AppendTag, Tagged, LexerFields, TagFields
  <2>2. DOMAIN tag = TagFields /\ tag.name = l.tag.name /\ tag.isStart = l.tag.isStart
      BY DEF Tagged, TagFields
  <2> QED BY <1>3, <2>1, <2>2
<1>5. Tagged(FinishAttributeName(l), s)
    BY DEF FinishAttributeName, ReinitializeTagBuffer, Tagged, LexerFields, TagFields
<1>6. Tagged(FinishAttributeValue(l), s)
    BY DEF FinishAttributeValue, ReinitializeTagBuffer, Tagged, LexerFields, TagFields
<1> QED BY <1>1, <1>2, <1>4, <1>5, <1>6

\* An end tag is read on.
LEMMA PartGoes ==
    ASSUME Inv, NEW s \in InTags, At(s), NEW s2 \in InTags, NEW l, Tagged(l, s2), NextChar(l)
    PROVE  TextInv'
<1> DEFINE k == Settled(l)
<1>1. lexer' = k
    BY DEF NextChar
<1>2. k.tag = l.tag /\ k.state = s2 /\ k.start = lexer.start
    BY DEF Tagged, Settled, Advance, LexerFields
<1> HIDE DEF k
<1>3. lexer.state = s /\ Lexing
    BY DEF At
<1>4. ASSUME NEW t, ReadBy(lexer, t) PROVE ReadBy(lexer', t)
  <2>1. IsText(t) /\ InEndTag(lexer, t)
      BY <1>3, <1>4, ReadingIs
  <2>2. lexer'.tag.name = lexer.tag.name /\ lexer'.tag.isStart = lexer.tag.isStart
      BY <1>1, <1>2 DEF Tagged
  <2>3. InEndTag(lexer', t)
      BY <1>1, <1>2, <2>1, <2>2 DEF InEndTag, InTags
  <2> QED BY <2>1, <2>3 DEF ReadBy
<1> QED BY <1>3, <1>4, NextText DEF Inv, KeepsText

\* A tag is over: if a text is open, it is an end tag of its name.
LEMMA TagGoes ==
    ASSUME Inv, NEW l, NEW again, Stays(l, "data", again), l.last = lexer.last, EmitTag(l),
           \A t : ReadBy(lexer, t) =>
                /\ l.tag.isStart = FALSE /\ l.tag.name = t.name
                /\ t.then # "plaintext" /\ Ends(t, lexer.start)
    PROVE  TextInv'
<1> DEFINE name == IF l.tag.isStart THEN l.tag.name ELSE l.last
           k == AbandonTag(l)
           m == [k EXCEPT !.last = name]
           token == [type |-> IF l.tag.isStart THEN "start" ELSE "end", name |-> l.tag.name,
                     attributes |-> IF l.tag.isStart THEN l.tag.attributes ELSE <<>>,
                     selfClosing |-> l.tag.isStart /\ l.tag.selfClosing]
           u == Located(token, lexer.start, Settled(m).pos)
<1>1. Emit(m, token)
  <2>1. k.last = l.last
      BY DEF AbandonTag, Stays, LexerFields
  <2>2. m = [AbandonTag(l) EXCEPT !.last = IF l.tag.isStart THEN l.tag.name ELSE @]
      BY <2>1
  <2> QED BY <2>2 DEF EmitTag
<1>2. /\ DOMAIN token = {"type", "name", "attributes", "selfClosing"}
      /\ token.type = IF l.tag.isStart THEN "start" ELSE "end"
      /\ token.name = l.tag.name
    OBVIOUS
<1> HIDE DEF token
<1>3. /\ DOMAIN m = LexerFields /\ m.start = lexer.start /\ m.flush = 0 /\ m.extra = NoChar
      /\ m.pos = lexer.pos /\ m.state = "data" /\ m.last = name
    BY DEF AbandonTag, Stays, LexerFields
<1> HIDE DEF m
<1>4. /\ u.type = token.type /\ u.name = l.tag.name /\ u.from = lexer.start
      /\ u.to = Settled(m).pos /\ u.then = "data" /\ "name" \in DOMAIN u
    BY <1>2 DEF Located
<1>5. input' = input /\ tokens' = Append(tokens, u)
    BY <1>1, <1>3 DEF Emit
<1>6. lexer.pos \in Nat \ {0} /\ lexer.pos <= Len(input) + 1 /\ IsInput
    BY PlacesHere DEF Inv
<1>7. /\ lexer'.start = Settled(m).pos /\ lexer'.state = "data" /\ lexer'.flush = 0
      /\ lexer'.extra = NoChar /\ lexer'.last = name
    BY <1>1, <1>3, <1>6, EmitKeeps
<1> HIDE DEF u
<1>8. Handed(u, lexer')
  <2>1. u.type = "start" => l.tag.isStart
      BY <1>2, <1>4
  <2> QED BY <1>4, <1>7, <2>1 DEF Handed
<1>9. ~IsChar(u)
    BY <1>2, <1>4 DEF IsChar
<1>10. ASSUME NEW t, ReadBy(lexer, t) PROVE EndedBy(t, u)
    BY <1>2, <1>4, <1>10 DEF EndedBy
<1>11. IsTokens
    BY DEF Inv, CoverInv
<1> QED BY <1>4, <1>5, <1>8, <1>9, <1>10, <1>11, TextGrows DEF Inv

-----------------------------------------------------------------------------
(* The steps in an end tag that ends a text. *)

\* Its states.
LEMMA InTagNames ==
    /\ {"before attr name", "attr name", "after attr name", "before attr value",
        "attr value unquoted", "char ref in attr value", "after attr value quoted",
        "self closing"} \subseteq InTags
    /\ \A quote \in Quotes : ValueStates[quote] \in InTags
    /\ ValueNames \subseteq InTags
BY States DEF InTags, ValueStates, Quotes, ValueNames

\* The end of the input in a tag.
LEMMA CutOffText ==
    ASSUME Inv, NEW s, At(s), TagCutOff \/ ValueCutOff
    PROVE  TextInv'
<1> DEFINE k == To("data")
<1>1. Remains(k, "data", FALSE) /\ (NextChar(AbandonTag(k)) \/ NextChar(Again(AbandonTag(k))))
    BY RemainsHere DEF TagCutOff, ValueCutOff
<1>2. c = EOF
    BY DEF TagCutOff, ValueCutOff
<1> HIDE DEF k
<1>3. Remains(AbandonTag(k), "data", FALSE) /\ Remains(Again(AbandonTag(k)), "data", TRUE)
    BY <1>1, RemainsChanges
<1> QED BY <1>1, <1>2, <1>3, CutsOff

\* ">" at its end.
LEMMA EndGoes ==
    ASSUME Inv, NEW s \in InTags, At(s), NEW l, Stays(l, "data", FALSE), Tagged(l, "data"),
           EmitTag(l)
    PROVE  TextInv'
<1>1. lexer.state = s
    BY DEF At
<1>2. ASSUME NEW t, ReadBy(lexer, t)
      PROVE  /\ l.tag.isStart = FALSE /\ l.tag.name = t.name
             /\ t.then # "plaintext" /\ Ends(t, lexer.start)
  <2>1. InEndTag(lexer, t)
      BY <1>1, <1>2, ReadingIs
  <2> QED BY <2>1 DEF InEndTag, Tagged
<1>3. l.last = lexer.last
    BY DEF Tagged
<1> QED BY <1>2, <1>3, TagGoes

\* What is known of the lexer at the start of a step.
LEMMA HereStays ==
    ASSUME Inv, NEW s, At(s)
    PROVE  /\ Stays(lexer, s, FALSE) /\ Tagged(lexer, s)
           /\ \A t : /\ Stays(To(t), t, FALSE) /\ Tagged(To(t), t)
                     /\ Stays(FinishAttributeName(To(t)), t, FALSE)
                     /\ Tagged(FinishAttributeName(To(t)), t)
                     /\ Stays(FinishAttributeValue(To(t)), t, FALSE)
                     /\ Tagged(FinishAttributeValue(To(t)), t)
<1>1. /\ Stays(lexer, s, FALSE) /\ Tagged(lexer, s)
      /\ \A t : Stays(To(t), t, FALSE) /\ Tagged(To(t), t)
    BY StaysHere, TaggedHere DEF Inv
<1>2. ASSUME NEW t
      PROVE  /\ Stays(FinishAttributeName(To(t)), t, FALSE)
             /\ Tagged(FinishAttributeName(To(t)), t)
             /\ Stays(FinishAttributeValue(To(t)), t, FALSE)
             /\ Tagged(FinishAttributeValue(To(t)), t)
  <2> DEFINE k == To(t)
  <2>1. Stays(k, t, FALSE) /\ Tagged(k, t)
      BY <1>1
  <2> HIDE DEF k
  <2>2. /\ Stays(FinishAttributeName(k), t, FALSE) /\ Tagged(FinishAttributeName(k), t)
        /\ Stays(FinishAttributeValue(k), t, FALSE) /\ Tagged(FinishAttributeValue(k), t)
      BY <2>1, StaysTag, TaggedChanges
  <2> QED BY <2>2 DEF k
<1> QED BY <1>1, <1>2

\* Names of attributes.
LEMMA NamesText ==
    ASSUME Inv, BeforeAttrName \/ AttrName \/ AfterAttrName
    PROVE  TextInv'
<1>1. ASSUME NEW s \in InTags, At(s), AttributeFollows PROVE TextInv'
    BY <1>1, HereStays, InTagNames, PartGoes, EndGoes DEF AttributeFollows
<1>2. ASSUME NEW s \in InTags, At(s), NEW none, AttributeBegins(none) PROVE TextInv'
  <2> DEFINE k == To("attr name")
  <2>1. Tagged(k, "attr name")
      BY <1>2, HereStays
  <2>2. \/ NextChar(AppendTemporary(k, <<Replacement>>))
        \/ NextChar(AppendTag(k, Lower(c), TRUE))
      BY <1>2 DEF AttributeBegins
  <2> HIDE DEF k
  <2>3. /\ Tagged(AppendTemporary(k, <<Replacement>>), "attr name")
        /\ Tagged(AppendTag(k, Lower(c), TRUE), "attr name")
      BY <2>1, TaggedChanges
  <2> QED BY <1>2, <2>2, <2>3, InTagNames, PartGoes
<1>3. ASSUME NEW s \in InTags, At(s), NextChar(lexer) PROVE TextInv'
    BY <1>3, HereStays, PartGoes
<1>4. CASE BeforeAttrName
    BY <1>1, <1>2, <1>3, <1>4, InTagNames, CutOffText DEF BeforeAttrName
<1>5. CASE AttrName
  <2>1. At("attr name") /\ "attr name" \in InTags
      BY <1>5, InTagNames DEF AttrName
  <2>2. ASSUME NEW t \in {"after attr name", "self closing", "before attr value"},
               NextChar(FinishAttributeName(To(t)))
        PROVE  TextInv'
    <3>1. t \in InTags /\ Tagged(FinishAttributeName(To(t)), t)
        BY <2>1, InTagNames, HereStays
    <3> QED BY <2>1, <2>2, <3>1, PartGoes
  <2>3. ASSUME EmitTag(FinishAttributeName(To("data"))) PROVE TextInv'
    <3>1. /\ Stays(FinishAttributeName(To("data")), "data", FALSE)
          /\ Tagged(FinishAttributeName(To("data")), "data")
        BY <2>1, HereStays
    <3> QED BY <2>1, <2>3, <3>1, EndGoes
  <2>4. ASSUME NextChar(AppendTag(lexer, Lower(Unnulled(c)), TRUE)) PROVE TextInv'
    <3>1. Tagged(AppendTag(lexer, Lower(Unnulled(c)), TRUE), "attr name")
        BY <2>1, HereStays, TaggedChanges
    <3> QED BY <2>1, <2>4, <3>1, PartGoes
  <2> QED BY <1>5, <2>1, <2>2, <2>3, <2>4, CutOffText DEF AttrName
<1>6. CASE AfterAttrName
  <2>1. At("after attr name")
      BY <1>6 DEF AfterAttrName
  <2>2. ASSUME NextChar(To("before attr value")) PROVE TextInv'
      BY <2>1, <2>2, HereStays, InTagNames, PartGoes
  <2> QED BY <1>1, <1>2, <1>3, <1>6, <2>1, <2>2, InTagNames, CutOffText DEF AfterAttrName
<1> QED BY <1>4, <1>5, <1>6

\* Values of attributes.
LEMMA BeforeValueText ==
    ASSUME Inv, BeforeAttrValue
    PROVE  TextInv'
<1>1. At("before attr value") /\ "before attr value" \in InTags /\ "attr value unquoted" \in InTags
    BY InTagNames DEF BeforeAttrValue
<1>2. ASSUME NEW quote \in Quotes, NextChar([To(ValueStates[quote]) EXCEPT !.tag.from = lexer.pos])
      PROVE  TextInv'
  <2> DEFINE t == ValueStates[quote]
             k == To(t)
             x == lexer.pos
  <2>1. t \in InTags /\ Tagged(k, t) /\ NextChar([k EXCEPT !.tag.from = x])
      BY <1>1, <1>2, InTagNames, HereStays
  <2> HIDE DEF k, t, x
  <2>2. Tagged([k EXCEPT !.tag.from = x], t)
      BY <2>1, TaggedTag
  <2> QED BY <1>1, <2>1, <2>2, PartGoes
<1>3. ASSUME \/ NextChar(Again(To("attr value unquoted")))
             \/ NextChar(AppendTag(To("attr value unquoted"), Unnulled(c), TRUE))
      PROVE  TextInv'
  <2> DEFINE k == To("attr value unquoted")
  <2>1. /\ Tagged(k, "attr value unquoted")
        /\ NextChar(Again(k)) \/ NextChar(AppendTag(k, Unnulled(c), TRUE))
      BY <1>1, <1>3, HereStays
  <2> HIDE DEF k
  <2>2. /\ Tagged(Again(k), "attr value unquoted")
        /\ Tagged(AppendTag(k, Unnulled(c), TRUE), "attr value unquoted")
      BY <2>1, TaggedChanges
  <2> QED BY <1>1, <2>1, <2>2, PartGoes
<1>4. ASSUME NextChar(lexer) \/ EmitTag(To("data")) PROVE TextInv'
    BY <1>1, <1>4, HereStays, PartGoes, EndGoes
<1> QED BY <1>1, <1>2, <1>3, <1>4, CutOffText DEF BeforeAttrValue

\* The states of values.
LEMMA ValuesText ==
    ASSUME Inv, AttrValueUnquoted \/ \E quote \in Quotes : AttrValueQuoted(quote)
    PROVE  TextInv'
<1>1. ASSUME NEW s \in InTags, At(s), NEW here, NextChar(AppendTag(lexer, Unnulled(c), here))
      PROVE  TextInv'
  <2>1. Tagged(AppendTag(lexer, Unnulled(c), here), s)
      BY <1>1, HereStays, TaggedChanges
  <2> QED BY <1>1, <2>1, PartGoes
<1>2. ASSUME NEW s \in InTags, At(s), ToCharRef PROVE TextInv'
  <2> DEFINE t == "char ref in attr value"
             k == To(t)
             x == lexer.state
             m == [k EXCEPT !.tag.valueState = x]
  <2>1. Tagged(k, t) /\ NextChar(Again(m)) /\ t \in InTags
      BY <1>2, HereStays, InTagNames DEF ToCharRef
  <2> HIDE DEF k, x
  <2>2. Tagged(m, t)
      BY <2>1, TaggedTag
  <2> HIDE DEF m
  <2>3. Tagged(Again(m), t)
      BY <2>2, TaggedChanges
  <2> QED BY <1>2, <2>1, <2>3, PartGoes
<1>3. ASSUME NEW quote \in Quotes, AttrValueQuoted(quote) PROVE TextInv'
  <2> DEFINE s == ValueStates[quote]
  <2>1. At(s) /\ s \in InTags
      BY <1>3, InTagNames DEF AttrValueQuoted
  <2>2. ASSUME NextChar(To("after attr value quoted")) PROVE TextInv'
      BY <2>1, <2>2, HereStays, InTagNames, PartGoes
  <2>3. \/ NextChar(To("after attr value quoted")) \/ ToCharRef \/ ValueCutOff
        \/ NextChar(AppendTag(lexer, Unnulled(c), FALSE))
      BY <1>3 DEF AttrValueQuoted
  <2> HIDE DEF s
  <2> QED BY <1>1, <1>2, <2>1, <2>2, <2>3, CutOffText
<1>4. CASE AttrValueUnquoted
  <2>1. At("attr value unquoted") /\ "attr value unquoted" \in InTags
      BY <1>4, InTagNames DEF AttrValueUnquoted
  <2>2. ASSUME NextChar(FinishAttributeValue(To("before attr name"))) PROVE TextInv'
    <3>1. Tagged(FinishAttributeValue(To("before attr name")), "before attr name")
        BY <2>1, HereStays
    <3> QED BY <2>1, <2>2, <3>1, InTagNames, PartGoes
  <2>3. ASSUME EmitTag(FinishAttributeValue(To("data"))) PROVE TextInv'
    <3>1. /\ Stays(FinishAttributeValue(To("data")), "data", FALSE)
          /\ Tagged(FinishAttributeValue(To("data")), "data")
        BY <2>1, HereStays
    <3> QED BY <2>1, <2>3, <3>1, EndGoes
  <2> QED BY <1>1, <1>2, <1>4, <2>1, <2>2, <2>3, CutOffText DEF AttrValueUnquoted
<1> QED BY <1>3, <1>4

\* What follows on a value, and on "/".
LEMMA AfterValueText ==
    ASSUME Inv, AfterAttrValueQuoted \/ SelfClosing
    PROVE  TextInv'
<1>1. CASE AfterAttrValueQuoted
  <2>1. At("after attr value quoted") /\ "after attr value quoted" \in InTags
      BY <1>1, InTagNames DEF AfterAttrValueQuoted
  <2>2. ASSUME NEW t \in {"before attr name", "self closing"},
               \/ NextChar(FinishAttributeValue(To(t)))
               \/ NextChar(Again(FinishAttributeValue(To(t))))
        PROVE  TextInv'
    <3> DEFINE k == FinishAttributeValue(To(t))
    <3>1. Tagged(k, t) /\ t \in InTags /\ (NextChar(k) \/ NextChar(Again(k)))
        BY <2>1, <2>2, HereStays, InTagNames
    <3> HIDE DEF k
    <3>2. Tagged(Again(k), t)
        BY <3>1, TaggedChanges
    <3> QED BY <2>1, <3>1, <3>2, PartGoes
  <2>3. ASSUME EmitTag(FinishAttributeValue(To("data"))) PROVE TextInv'
    <3>1. /\ Stays(FinishAttributeValue(To("data")), "data", FALSE)
          /\ Tagged(FinishAttributeValue(To("data")), "data")
        BY <2>1, HereStays
    <3> QED BY <2>1, <2>3, <3>1, EndGoes
  <2>4. ASSUME c = EOF, NextChar(Again(AbandonTag(FinishAttributeValue(To("data")))))
        PROVE  TextInv'
    <3> DEFINE k == FinishAttributeValue(To("data"))
    <3>1. Stays(k, "data", FALSE) /\ Tagged(k, "data") /\ NextChar(Again(AbandonTag(k)))
        BY <2>1, <2>4, HereStays
    <3> HIDE DEF k
    <3>2. Remains(k, "data", FALSE)
        BY <3>1 DEF Remains, Tagged
    <3>3. Remains(Again(AbandonTag(k)), "data", TRUE)
        BY <3>2, RemainsChanges
    <3> QED BY <2>1, <2>4, <3>1, <3>3, CutsOff
  <2> QED BY <1>1, <2>2, <2>3, <2>4 DEF AfterAttrValueQuoted
<1>2. CASE SelfClosing
  <2>1. At("self closing") /\ "self closing" \in InTags
      BY <1>2, InTagNames DEF SelfClosing
  <2>2. ASSUME EmitTag([To("data") EXCEPT !.tag.selfClosing = TRUE]) PROVE TextInv'
    <3> DEFINE k == To("data")
               m == [k EXCEPT !.tag.selfClosing = TRUE]
    <3>1. Stays(k, "data", FALSE) /\ Tagged(k, "data") /\ EmitTag(m)
        BY <2>1, <2>2, HereStays
    <3> HIDE DEF k
    <3>2. Stays(m, "data", FALSE) /\ Tagged(m, "data")
        BY <3>1, StaysTag, TaggedTag
    <3> HIDE DEF m
    <3> QED BY <2>1, <3>1, <3>2, EndGoes
  <2>3. ASSUME NextChar(Again(To("before attr name"))) PROVE TextInv'
    <3> DEFINE k == To("before attr name")
    <3>1. Tagged(k, "before attr name") /\ NextChar(Again(k))
        BY <2>1, <2>3, HereStays
    <3> HIDE DEF k
    <3> QED BY <2>1, <3>1, TaggedChanges, InTagNames, PartGoes
  <2> QED BY <1>2, <2>1, <2>2, <2>3, CutOffText DEF SelfClosing
<1> QED BY <1>1, <1>2

\* A reference in a value.
LEMMA CharRefInValueText ==
    ASSUME Inv, CharRefInAttrValue
    PROVE  TextInv'
<1> DEFINE t    == lexer.tag.valueState
           unquoted == t = "attr value unquoted"
           ref  == ConsumeCharRef(lexer.pos, QuoteOf[t], TRUE)
           k    == To(t)
           at   == lexer.pos
           to   == ref.pos
           back == [k EXCEPT !.mark = at, !.pos = to]
           one  == AppendTag(back, ref.first, unquoted)
           two  == AppendSecond(one, ref.second, unquoted)
<1>1. At("char ref in attr value") /\ "char ref in attr value" \in InTags /\ t \in InTags
  <2>1. At("char ref in attr value") /\ lexer.state = "char ref in attr value"
      BY DEF CharRefInAttrValue, At
  <2> QED BY <2>1, InTagNames DEF Inv, IInv, Parts, TagInv
<1>2. NextChar(AppendTag(back, "&", unquoted)) \/ NextChar(Again(two))
    BY DEF CharRefInAttrValue
<1>3. Tagged(k, t)
    BY <1>1, HereStays
<1> HIDE DEF t, ref, k, unquoted, at, to
<1>4. Tagged(back, t)
  <2> DEFINE b == [k EXCEPT !.mark = at]
  <2>1. Tagged(b, t)
      BY <1>3, TaggedTag
  <2>2. back = [b EXCEPT !.pos = to]
      OBVIOUS
  <2> HIDE DEF b, back
  <2> QED BY <2>1, <2>2, TaggedTag
<1> HIDE DEF back
<1>5. Tagged(AppendTag(back, "&", unquoted), t) /\ Tagged(one, t)
    BY <1>4, TaggedChanges
<1> HIDE DEF one
<1>6. Tagged(two, t)
    BY <1>5, TaggedChanges DEF AppendSecond
<1> HIDE DEF two
<1>7. Tagged(Again(two), t)
    BY <1>6, TaggedChanges
<1> QED BY <1>1, <1>2, <1>5, <1>7, PartGoes

-----------------------------------------------------------------------------
(* The parser's part. *)

\* What it notes in a token leaves the rest of it alone.
LEMMA NotedName ==
    ASSUME NEW t, NEW state, {"type", "from", "to", "then"} \subseteq DOMAIN t
    PROVE  LET u == [t EXCEPT !.then = state]
           IN  /\ u.type = t.type /\ u.from = t.from /\ u.to = t.to /\ u.then = state
               /\ "name" \in DOMAIN t => u.name = t.name
OBVIOUS

\* Tokens between others.
LEMMA PlacesBetween ==
    ASSUME NEW n \in Nat
    PROVE  /\ \A i, j \in 1 .. n : i < j => i # n /\ \A k \in i + 1 .. j - 1 : k \in 1 .. n
           /\ \A i \in 1 .. n : \A k \in i + 1 .. n : k \in 1 .. n
           /\ \A i \in 1 .. n : i # n => n \in i + 1 .. n
OBVIOUS

\* In a text nothing has been read where it begins.
LEMMA TextBegins ==
    ASSUME NEW t, IsText(t), NEW n
    PROVE  TextTo(t.then, t.to, n, t) /\ t.then \notin KeptStates /\ t.then # "data"
<1>1. t.to \in Nat
    BY DEF IsText
<1>2. t.to .. t.to - 1 = {} /\ t.to <= t.to
    BY <1>1
<1>3. NoEnd(t, t.to)
    BY <1>2 DEF NoEnd
<1>4. AllOver(t.to, t.to)
    BY <1>2 DEF AllOver
<1>5. t.then \in {"rcdata", "rawtext", "script", "plaintext"} /\ t.then \in TextStatesOf(t.then)
    BY TextIs DEF TextStatesOf, ScriptStates
<1>6. t.then = "script" => InScript(t.then, t.to, t.to, n)
    BY <1>4, InScriptIs, ScriptSets
<1>7. t.then \notin KeptStates
    BY <1>5, KeptOnly, TextNames
<1> QED BY <1>2, <1>3, <1>5, <1>6, <1>7 DEF TextTo

\* It switches to a text where that begins (gumbo_tokenizer_set_state).
LEMMA ReactText ==
    ASSUME Inv, React
    PROVE  TextInv'
<1>1. PICK state \in Switches(Last(tokens)), foreign \in Foreigns(Last(tokens)) :
        /\ lexer'  = [lexer EXCEPT !.state = state, !.foreign = foreign]
        /\ tokens' = [tokens EXCEPT ![Len(tokens)].then = state]
    BY DEF React
<1> DEFINE n == Len(tokens)
           z == tokens[n]
           u == [z EXCEPT !.then = state]
<1>2. /\ input' = input /\ turn' = "lexer" /\ turn = "parser" /\ tokens # <<>> /\ Handed(z, lexer)
    BY DEF React, Inv, TextInv
<1>3. /\ DOMAIN lexer = LexerFields /\ lexer.start = lexer.pos /\ lexer.start \in Nat \ {0}
    BY <1>2, PlacesHere DEF Inv, CoverInv
<1>4. PICK S : tokens \in Seq(S)
    BY DEF Inv, CoverInv, IsTokens
<1>5. DOMAIN tokens = 1 .. n /\ n \in Nat /\ n \in 1 .. n
    BY <1>2, <1>4, LenProperties, EmptySeq
<1>6. \A i \in 1 .. n : {"type", "from", "to", "then"} \subseteq DOMAIN tokens[i]
    BY <1>5 DEF Inv, CoverInv, TokensCovered, TokenIsCovered
<1>7. /\ u.type = z.type /\ u.from = z.from /\ u.to = z.to /\ u.then = state
      /\ "name" \in DOMAIN z => u.name = z.name
    BY <1>5, <1>6, NotedName
<1>8. /\ tokens' \in Seq(S \cup {u}) /\ Len(tokens') = n /\ tokens'[n] = u
      /\ \A i \in 1 .. n : i # n => tokens'[i] = tokens[i]
  <2> DEFINE T == S \cup {u}
             new == [tokens EXCEPT ![n] = u]
  <2>1. tokens \in Seq(T) /\ u \in T
      BY <1>4
  <2> HIDE DEF T, u
  <2>2. /\ new \in Seq(T) /\ Len(new) = n /\ new[n] = u
        /\ \A i \in 1 .. n : i # n => new[i] = tokens[i]
      BY <1>5, <2>1, ExceptSeq
  <2>3. tokens' = new
      BY <1>1 DEF u
  <2> QED BY <2>2, <2>3 DEF T
<1>9. DOMAIN tokens' = 1 .. n
    BY <1>5, <1>8, LenProperties
<1>10. /\ lexer'.state = state /\ lexer'.pos = lexer.pos /\ lexer'.start = lexer.start
       /\ lexer'.flush = lexer.flush /\ lexer'.extra = lexer.extra /\ lexer'.mark = lexer.mark
       /\ lexer'.temp = lexer.temp /\ lexer'.script = lexer.script /\ lexer'.tag = lexer.tag
       /\ lexer'.last = lexer.last
    BY <1>1, <1>3 DEF LexerFields
<1>11. \/ state = lexer.state
       \/ z.type = "start" /\ z.name \in DOMAIN TextOf /\ state = TextOf[z.name]
  <2>1. state \in Switches(z)
      BY <1>1 DEF Last
  <2> QED BY <2>1 DEF Switches
<1> HIDE DEF u, z
<1>12. ASSUME NEW i \in 1 .. n PROVE tokens'[i].type = tokens[i].type
  <2>1. CASE i = n
      BY <1>7, <1>8, <2>1 DEF z
  <2> QED BY <1>8, <2>1
<1>13. RawEnds'
  <2>1. ASSUME NEW i \in 1 .. n, NEW j \in 1 .. n, i < j, Switched(tokens'[i]),
               ~IsChar(tokens'[j]), \A k \in i + 1 .. j - 1 : IsChar(tokens'[k])
        PROVE  EndedBy(tokens'[i], tokens'[j])
    <3>1. i # n /\ \A k \in i + 1 .. j - 1 : k \in 1 .. n
        BY <1>5, <2>1, PlacesBetween
    <3>2. tokens'[i] = tokens[i]
        BY <1>8, <3>1
    <3>3. ~IsChar(tokens[j]) /\ \A k \in i + 1 .. j - 1 : IsChar(tokens[k])
        BY <1>12, <2>1, <3>1 DEF IsChar
    <3>4. EndedBy(tokens[i], tokens[j])
        BY <1>5, <2>1, <3>2, <3>3 DEF Inv, TextInv, RawEnds
    <3>5. CASE j # n
        BY <1>8, <3>2, <3>4, <3>5
    <3>6. CASE j = n
      <4>1. tokens'[j] = u /\ tokens[j] = z
          BY <1>8, <3>6 DEF z
      <4>2. u.type = "end" => u.name = z.name
          BY <1>2, <1>7 DEF Handed
      <4> QED BY <1>7, <3>2, <3>4, <4>1, <4>2 DEF EndedBy
    <3> QED BY <3>5, <3>6
  <2>2. ASSUME NEW i \in DOMAIN tokens', NEW j \in DOMAIN tokens', i < j,
               Switched(tokens'[i]), ~IsChar(tokens'[j]),
               \A k \in i + 1 .. j - 1 : IsChar(tokens'[k])
        PROVE  EndedBy(tokens[i], tokens[j])'
      BY <1>2, <1>9, <2>1, <2>2, SameReading
  <2> QED BY <2>2 DEF RawEnds, Switched, IsChar
<1>14. ASSUME NEW i \in DOMAIN tokens', OpenText(i)' PROVE ReadBy(lexer, tokens[i])'
  <2>1. i \in 1 .. n /\ Switched(tokens'[i]) /\ \A k \in i + 1 .. n : IsChar(tokens'[k])
      BY <1>8, <1>9, <1>14 DEF OpenText, Switched, IsChar
  <2>2. CASE i # n
    <3>1. tokens'[i] = tokens[i] /\ \A k \in i + 1 .. n : k \in 1 .. n
        BY <1>5, <1>8, <2>1, <2>2, PlacesBetween
    <3>2. \A k \in i + 1 .. n : IsChar(tokens[k])
        BY <1>12, <2>1, <3>1 DEF IsChar
    <3>3. n \in i + 1 .. n
        BY <1>5, <2>1, <2>2
    <3>4. z.type # "start"
        BY <3>2, <3>3 DEF IsChar, z
    <3>5. ReadBy(lexer, tokens[i])
        BY <1>5, <2>1, <3>1, <3>2 DEF Inv, TextInv, OpenText, n
    <3>6. ReadBy(lexer', tokens'[i])
        BY <1>10, <1>11, <3>1, <3>4, <3>5
           DEF ReadBy, CutOff, InEndTag, InText, ReadTo, NameKept
    <3> QED BY <1>2, <3>6, SameReading
  <2>3. CASE i = n
    <3>1. u.type = "start" /\ u.then # "data" /\ tokens'[i] = u
        BY <1>8, <2>1, <2>3 DEF Switched
    <3>2. /\ z.to = lexer.start /\ z.name = lexer.last /\ lexer.state = "data"
          /\ lexer.flush = 0 /\ u.name = z.name
        BY <1>2, <1>7, <3>1 DEF Handed
    <3>3. IsText(u)
        BY <1>3, <1>7, <1>11, <3>1, <3>2 DEF IsText
    <3>4. TextTo(state, u.to, lexer'.script, u) /\ state \notin KeptStates
        BY <1>7, <3>3, TextBegins
    <3>5. /\ lexer'.state = state /\ lexer'.flush = 0 /\ lexer'.pos = u.to
          /\ lexer'.start = u.to /\ lexer'.last = u.name
        BY <1>3, <1>7, <1>10, <3>2
    <3>6. ReadBy(lexer', u)
        BY <3>3, <3>4, <3>5, ReadsOn
    <3> QED BY <1>2, <3>1, <3>6, SameReading
  <2> QED BY <2>2, <2>3
<1> QED BY <1>2, <1>13, <1>14 DEF TextInv

-----------------------------------------------------------------------------
(* Text outside of tags. *)

\* The states of each kind of text,
LEMMA TextFamilies ==
    /\ TextStatesOf("rcdata") =
        {"rcdata", "char ref in rcdata", "rcdata lt", "rcdata end tag open",
         "rcdata end tag name"}
    /\ TextStatesOf("rawtext") =
        {"rawtext", "rawtext lt", "rawtext end tag open", "rawtext end tag name"}
    /\ TextStatesOf("plaintext") = {"plaintext"}
    /\ {TextStatesOf("rcdata"), TextStatesOf("rawtext"), TextStatesOf("plaintext"),
        ScriptStates, EscapedStates} \subseteq Families
    /\ ScriptStates \cup EscapedStates \subseteq OfText
    /\ \A F \in Families : F \subseteq OfText
BY DEF TextStatesOf, Families, ScriptStates, EscapedStates, OfText

\* of which these keep something back and these do not.
LEMMA TextKept ==
    /\ {"rcdata", "rawtext", "script", "plaintext", "char ref in rcdata", "script escaped",
        "script escaped start", "script escaped start dash", "script escaped dash",
        "script escaped dash dash", "script double escaped start", "script double escaped",
        "script double escaped dash", "script double escaped dash dash",
        "script double escaped lt", "script double escaped end"} \subseteq OfText \ KeptStates
    /\ {"rcdata lt", "rawtext lt", "script lt", "script escaped lt",
        "rcdata end tag open", "rawtext end tag open", "script end tag open",
        "script escaped end tag open", "rcdata end tag name", "rawtext end tag name",
        "script end tag name", "script escaped end tag name"} \subseteq OfText \cap KeptStates
<1>1. OfText = TextStatesOf("rcdata") \cup TextStatesOf("rawtext") \cup TextStatesOf("script")
                    \cup TextStatesOf("plaintext")
    BY DEF OfText
<1>2. {"rcdata", "rawtext", "script", "plaintext", "char ref in rcdata", "script escaped",
       "script escaped start", "script escaped start dash", "script escaped dash",
       "script escaped dash dash", "script double escaped start", "script double escaped",
       "script double escaped dash", "script double escaped dash dash",
       "script double escaped lt", "script double escaped end"} \subseteq OfText
    BY <1>1 DEF TextStatesOf, ScriptStates, EscapedStates
<1>3. {"rcdata lt", "rawtext lt", "script lt", "script escaped lt",
       "rcdata end tag open", "rawtext end tag open", "script end tag open",
       "script escaped end tag open", "rcdata end tag name", "rawtext end tag name",
       "script end tag name", "script escaped end tag name"} \subseteq OfText
    BY <1>1 DEF TextStatesOf, ScriptStates, EscapedStates
<1>4. {"rcdata lt", "rawtext lt", "script lt", "script escaped lt",
       "rcdata end tag open", "rawtext end tag open", "script end tag open",
       "script escaped end tag open", "rcdata end tag name", "rawtext end tag name",
       "script end tag name", "script escaped end tag name"} \subseteq KeptStates
    BY States DEF KeptStates, OpenStates
<1>5. {"rcdata", "rawtext", "script", "plaintext", "char ref in rcdata", "script escaped",
       "script escaped start", "script escaped start dash", "script escaped dash",
       "script escaped dash dash", "script double escaped start", "script double escaped",
       "script double escaped dash", "script double escaped dash dash",
       "script double escaped lt", "script double escaped end"} \subseteq CharStates
    BY TextNames
<1> QED BY <1>2, <1>3, <1>4, <1>5, KeptOnly

\* The text goes on past a symbol that begins no tag,
LEMMA SymbolOn ==
    ASSUME NEW t, IsText(t), NEW F \in Families, NEW s \in F, NEW s2 \in F,
           NEW x \in Nat, NEW n, NEW m,
           TextTo(s, x, n, t), CharAt(x) # "<"
    PROVE  TextTo(s2, x + 1, m, t)
<1>1. x + 1 \in Nat /\ x <= x + 1 /\ \A p \in x .. (x + 1) - 1 : p = x
    BY OneOn
<1>2. \A p \in x .. (x + 1) - 1 : ~EscapeAt(p) /\ ~ScriptAt(p) /\ ~EndTagAt(p, t.name)
    BY <1>1, NoneHere
<1> QED BY <1>1, <1>2, TextOn

\* and the states of one kind say the same of it.
LEMMA SameKind ==
    ASSUME NEW t, IsText(t), NEW F \in Families, NEW s \in F, NEW s2 \in F,
           NEW x \in Nat, NEW n, NEW m,
           TextTo(s, x, n, t)
    PROVE  TextTo(s2, x, m, t)
<1>1. x <= x /\ x .. x - 1 = {}
    OBVIOUS
<1> QED BY <1>1, TextOn

\* RCDATA (handle_rcdata_state).
LEMMA RcdataText ==
    ASSUME Inv, Rcdata
    PROVE  TextInv'
<1> DEFINE F == TextStatesOf("rcdata")
<1>1. At("rcdata") /\ "rcdata" \in OfText \ KeptStates /\ "rcdata" \in PlainStates
    BY TextKept, TextNames DEF Rcdata
<1>2. {"rcdata", "char ref in rcdata", "rcdata lt"} \subseteq F /\ F \in Families
    BY TextFamilies
<1>3. lexer.pos \in Nat
    BY PlacesHere DEF Inv
<1> HIDE DEF F
<1>4. CASE NextChar(Again(To("char ref in rcdata")))
  <2>1. "char ref in rcdata" \in CharStates
      BY TextNames
  <2> QED BY <1>1, <1>2, <1>3, <1>4, <2>1, SameKind, AgainGoes
<1>5. CASE NextChar(Opened("rcdata lt"))
  <2>1. "rcdata lt" \in OpenStates
      BY DEF OpenStates
  <2> QED BY <1>1, <1>2, <1>3, <1>5, <2>1, SameKind, OpensText
<1>6. CASE c # "<" /\ EmitChar(lexer, Unnulled(c))
  <2>1. Remains(lexer, "rcdata", FALSE) /\ CharAt(lexer.pos) # "<"
      BY <1>1, <1>6, RemainsHere DEF c
  <2>2. \A t : IsText(t) /\ TextTo("rcdata", lexer.pos, lexer.script, t) =>
            TextTo("rcdata", lexer.pos + 1, lexer.script, t)
      BY <1>2, <1>3, <2>1, SymbolOn
  <2> QED BY <1>1, <1>6, <2>1, <2>2, CharGoes
<1> QED BY <1>4, <1>5, <1>6 DEF Rcdata

\* RAWTEXT and script data (handle_rawtext_state, handle_script_state).
LEMMA RawTextText ==
    ASSUME Inv, NEW s \in {"rawtext", "script"}, RawText(s)
    PROVE  TextInv'
<1>1. At(s) /\ s \in OfText \ KeptStates /\ s \in PlainStates
    BY TextKept, TextNames DEF RawText
<1>2. PICK F \in Families : s \in F /\ LessThan[s] \in F
  <2>1. LessThan["rawtext"] = "rawtext lt" /\ LessThan["script"] = "script lt"
      BY DEF LessThan, RawStates
  <2>2. {"rawtext", "rawtext lt"} \subseteq TextStatesOf("rawtext")
      BY TextFamilies
  <2>3. {"script", "script lt"} \subseteq ScriptStates
      BY ScriptSets
  <2>4. CASE s = "rawtext"
      BY <2>1, <2>2, <2>4, TextFamilies
  <2>5. CASE s = "script"
      BY <2>1, <2>3, <2>5, TextFamilies
  <2> QED BY <2>4, <2>5
<1>3. lexer.pos \in Nat
    BY PlacesHere DEF Inv
<1>4. CASE NextChar(Opened(LessThan[s]))
  <2>1. LessThan[s] \in OpenStates
      BY DEF OpenStates, LessThan, RawStates
  <2> QED BY <1>1, <1>2, <1>3, <1>4, <2>1, SameKind, OpensText
<1>5. CASE c # "<" /\ EmitChar(lexer, Unnulled(c))
  <2>1. Remains(lexer, s, FALSE) /\ CharAt(lexer.pos) # "<"
      BY <1>1, <1>5, RemainsHere DEF c
  <2>2. \A t : IsText(t) /\ TextTo(s, lexer.pos, lexer.script, t) =>
            TextTo(s, lexer.pos + 1, lexer.script, t)
      BY <1>2, <1>3, <2>1, SymbolOn
  <2> QED BY <1>1, <1>5, <2>1, <2>2, CharGoes
<1> QED BY <1>4, <1>5 DEF RawText

\* Nothing ends PLAINTEXT (handle_plaintext_state).
LEMMA PlaintextText ==
    ASSUME Inv, Plaintext
    PROVE  TextInv'
<1>1. /\ At("plaintext") /\ "plaintext" \in OfText \ KeptStates /\ "plaintext" \in PlainStates
      /\ EmitChar(lexer, Unnulled(c)) /\ "plaintext" \in TextStatesOf("plaintext")
    BY TextKept, TextNames, TextFamilies DEF Plaintext
<1>2. ASSUME NEW t, IsText(t), TextTo("plaintext", lexer.pos, lexer.script, t)
      PROVE  TextTo("plaintext", lexer.pos + 1, lexer.script, t)
  <2>1. t.then = "plaintext" /\ t.to <= lexer.pos
      BY <1>1, <1>2, TextToIs
  <2>2. t.to \in Nat /\ lexer.pos \in Nat
      BY <1>2, PlacesHere DEF Inv, IsText
  <2>3. t.to <= lexer.pos + 1
    <3> HIDE DEF Inv
    <3> DEFINE a == t.to
               b == lexer.pos
    <3>1. a \in Nat /\ b \in Nat /\ a <= b
        BY <2>1, <2>2
    <3>2. a <= b + 1
      <4> HIDE DEF a, b
      <4> QED BY <3>1
    <3> QED BY <3>2
  <2> QED BY <1>1, <1>2, <2>1, <2>3, TextToIs
<1>3. Remains(lexer, "plaintext", FALSE)
    BY <1>1, RemainsHere
<1> QED BY <1>1, <1>2, <1>3, CharGoes

\* A reference in RCDATA is text, and there is no "<" in it (emit_char_ref).
LEMMA CharRefText ==
    ASSUME Inv, CharRefInRcdata
    PROVE  TextInv'
<1> DEFINE s    == "char ref in rcdata"
           ref  == ConsumeCharRef(lexer.pos, " ", FALSE)
           k    == To("rcdata")
           x    == lexer.pos
           at   == [k EXCEPT !.mark = x]
           past == [at EXCEPT !.pos = ref.pos, !.extra = ref.second]
           m    == Again(past)
           F    == TextStatesOf("rcdata")
<1>1. At(s) /\ s \in OfText \ KeptStates /\ "rcdata" \in PlainStates /\ EmitCharRef(k)
    BY TextKept, TextNames DEF CharRefInRcdata
<1>2. /\ x \in Nat \ {0} /\ x <= Len(input) + 1 /\ Len(input) \in Nat /\ IsInput /\ c = "&"
      /\ CharAt(x) = "&"
  <2>1. lexer.state = s /\ s \in RefStates
      BY <1>1, TextNames DEF At
  <2> QED BY <2>1, PlacesHere DEF Inv, CoverInv, Covers, Placed, c
<1>3. Remains(k, "rcdata", FALSE) /\ k.script = lexer.script
    BY <1>1, RemainsHere
<1>4. \/ ref.first = NoChar /\ EmitChar(at, "&")
      \/ ref.first # NoChar /\ EmitChar(m, ref.first)
  <2>1. k.pos = lexer.pos
      BY <1>3 DEF Remains, Stays
  <2> QED BY <1>1, <2>1 DEF EmitCharRef
<1>5. Crosses(x, ref)
    BY <1>2, CharRefCrosses
<1>6. F \in Families /\ s \in F /\ "rcdata" \in F
    BY TextFamilies
<1> HIDE DEF ref, k, F, s
<1>7. Remains(at, "rcdata", FALSE) /\ at.script = lexer.script /\ at.pos = x
    BY <1>3 DEF Remains, Stays, LexerFields
<1> HIDE DEF at
<1>8. CASE ref.first = NoChar /\ EmitChar(at, "&")
  <2>1. CharAt(x) # "<"
      BY <1>2
  <2>2. \A t : IsText(t) /\ TextTo(s, lexer.pos, lexer.script, t) =>
            TextTo("rcdata", lexer.pos + 1, at.script, t)
      BY <1>2, <1>6, <2>1, SymbolOn
  <2> QED BY <1>1, <1>2, <1>7, <1>8, <2>2, CharGoes
<1>9. CASE ref.first # NoChar /\ EmitChar(m, ref.first)
  <2>1. /\ DOMAIN m = LexerFields /\ m.pos = ref.pos /\ m.again = TRUE /\ m.flush = 0
        /\ m.extra = ref.second /\ m.state = "rcdata" /\ m.script = lexer.script
        /\ m.last = lexer.last
      BY <1>7 DEF Remains, Stays, Again, LexerFields
  <2> HIDE DEF m
  <2>2. ref.pos \in Nat \ {0} /\ x <= ref.pos /\ x + 2 <= ref.pos
        /\ \A r \in x .. ref.pos - 1 : r <= Len(input) /\ CharAt(r) # "<"
      BY <1>5, <1>9 DEF Crosses
  <2>3. ref.pos <= Len(input) + 1
    <3>1. ref.pos - 1 \in x .. ref.pos - 1
        BY <1>2, <2>2
    <3>2. ref.pos - 1 <= Len(input)
        BY <2>2, <3>1
    <3> QED BY <1>2, <2>2, <3>2
  <2>4. Settled(m).pos = ref.pos
      BY <1>2, <2>1, <2>2, <2>3, SettledAt
  <2>5. Emit(m, [type |-> CharType(ref.first), char |-> ref.first])
      BY <1>9 DEF EmitChar
  <2>6. /\ lexer'.pos = ref.pos /\ lexer'.start = ref.pos /\ lexer'.state = "rcdata"
        /\ lexer'.flush = 0 /\ lexer'.script = lexer.script /\ lexer'.last = lexer.last
      BY <1>2, <2>1, <2>2, <2>3, <2>4, <2>5, EmitKeeps
  <2>7. ASSUME NEW t, ReadBy(lexer, t) PROVE ReadBy(lexer', t)
    <3>1. IsText(t) /\ lexer.last = t.name /\ TextTo(s, x, lexer.script, t)
        BY <1>1, <2>7, ReadingHere
    <3>2. \A p \in x .. ref.pos - 1 : p \in Nat
        BY <1>2
    <3>3. \A p \in x .. ref.pos - 1 : ~EscapeAt(p) /\ ~ScriptAt(p) /\ ~EndTagAt(p, t.name)
        BY <2>2, <3>2, NoneHere
    <3>4. TextTo("rcdata", ref.pos, lexer.script, t)
        BY <1>2, <1>6, <2>2, <3>1, <3>3, TextOn
    <3>5. "rcdata" \notin KeptStates
        BY TextKept
    <3> QED BY <2>6, <3>1, <3>4, <3>5, ReadsOn
  <2> QED BY <1>9, <2>7, CharsText DEF Inv, KeepsText
<1> QED BY <1>4, <1>8, <1>9

-----------------------------------------------------------------------------
(* What follows "<" in a text. *)

\* The states that keep it back say the same of the text as the one they come from.
LEMMA RawKinds ==
    \A state \in RawStates :
        /\ \E F \in Families :
                {state, LessThan[state], EndTagOpen[state], EndTagName[state]} \subseteq F
        /\ {LessThan[state], EndTagOpen[state], EndTagName[state]} \subseteq OfText \cap KeptStates
        /\ state \in PlainStates
<1> DEFINE KindOf(state) == {state, LessThan[state], EndTagOpen[state], EndTagName[state]}
<1>1. /\ KindOf("rcdata") =
            {"rcdata", "rcdata lt", "rcdata end tag open", "rcdata end tag name"}
      /\ KindOf("rawtext") =
            {"rawtext", "rawtext lt", "rawtext end tag open", "rawtext end tag name"}
      /\ KindOf("script") =
            {"script", "script lt", "script end tag open", "script end tag name"}
      /\ KindOf("script escaped") =
            {"script escaped", "script escaped lt", "script escaped end tag open",
             "script escaped end tag name"}
    BY DEF LessThan, EndTagOpen, EndTagName, RawStates
<1>2. /\ KindOf("rcdata") \subseteq TextStatesOf("rcdata")
      /\ KindOf("rawtext") \subseteq TextStatesOf("rawtext")
      /\ KindOf("script") \subseteq ScriptStates
      /\ KindOf("script escaped") \subseteq EscapedStates
    BY <1>1, TextFamilies DEF ScriptStates, EscapedStates
<1>3. \A state \in RawStates :
        /\ state \in PlainStates
        /\ {LessThan[state], EndTagOpen[state], EndTagName[state]} \subseteq KeptStates
    BY RawNames, TextNames DEF RawStates, KeptStates
<1>4. \A state \in RawStates : \E F \in Families : KindOf(state) \subseteq F
  <2> HIDE DEF KindOf
  <2> QED BY <1>2, TextFamilies, Zenon DEF RawStates
<1> QED BY <1>3, <1>4, TextFamilies

\* A symbol more in the buffer changes nothing else.
LEMMA MoreRemains ==
    ASSUME NEW k, NEW s, NEW again, Remains(k, s, again), NEW x
    PROVE  LET l == AppendTemporary(k, <<x>>)
           IN  /\ Remains(l, s, again) /\ l.mark = k.mark /\ l.temp = k.temp \o <<x>>
               /\ l.script = k.script /\ l.tag = k.tag
<1>1. \A ss : Remains(AppendTemporary(k, ss), s, again) /\ AppendTemporary(k, ss).script = k.script
    BY RemainsChanges
<1>2. DOMAIN k = LexerFields
    BY DEF Remains, Stays
<1>3. \A ss : AppendTemporary(k, ss).mark = k.mark /\ AppendTemporary(k, ss).temp = k.temp \o ss
    BY <1>2, MarkStays
<1>4. \A ss : AppendTemporary(k, ss).tag = k.tag
    BY <1>2 DEF AppendTemporary, LexerFields
<1> QED BY <1>1, <1>3, <1>4

\* What is kept back in a text,
LEMMA KeptPlaces ==
    ASSUME Inv, NEW s \in KeptStates, At(s)
    PROVE  /\ lexer.mark \in Nat /\ lexer.pos \in Nat /\ IsInput /\ CharAt(lexer.mark) = "<"
           /\ s \in OpenStates => lexer.pos = lexer.mark + 1
           /\ s \in EndTagOpenStates => lexer.pos = lexer.mark + 2 /\ CharAt(lexer.mark + 1) = "/"
<1>1. /\ lexer.state = s /\ IsFound(lexer) /\ lexer.mark + Len(lexer.temp) = lexer.pos
    BY KeptHere DEF Inv
<1>2. /\ lexer.mark \in Nat \ {0} /\ lexer.pos \in Nat /\ IsInput
    BY PlacesHere DEF Inv
<1>3. CharAt(lexer.mark) = "<"
    BY <1>1 DEF Inv, CoverInv, Covers, Placed, OpensAt, IsOpen
<1>4. /\ s \in OpenStates => lexer.temp = <<"<">>
      /\ s \in EndTagOpenStates => lexer.temp = <<"<", "/">>
    BY <1>1 DEF Inv, IInv, Parts, TempInv
<1>5. s \in OpenStates => lexer.pos = lexer.mark + 1
    BY <1>1, <1>4
<1>6. s \in EndTagOpenStates => Len(lexer.temp) = 2 /\ lexer.temp[2] = "/"
    BY <1>4
<1>7. ASSUME s \in EndTagOpenStates
      PROVE  lexer.pos = lexer.mark + 2 /\ CharAt(lexer.mark + 1) = "/"
  <2>1. CharAt(lexer.mark + 2 - 1) = lexer.temp[2]
      BY <1>1, <1>6, <1>7 DEF IsFound
  <2>2. lexer.mark + 2 - 1 = lexer.mark + 1
      BY <1>2, PlacesOn
  <2> QED BY <1>1, <1>6, <1>7, <2>1, <2>2
<1> QED BY <1>2, <1>3, <1>5, <1>7

\* "/" may begin an end tag.
LEMMA ToEndTagText ==
    ASSUME Inv, NEW state \in RawStates, At(LessThan[state]), ToEndTag(state)
    PROVE  TextInv'
<1> DEFINE s == LessThan[state]
           s2 == EndTagOpen[state]
           k == To(s2)
           l == AppendTemporary(k, <<"/">>)
<1>1. s \in OfText \cap KeptStates /\ s2 \in OfText \cap KeptStates /\ At(s)
    BY RawKinds
<1>2. PICK F \in Families : s \in F /\ s2 \in F
    BY RawKinds
<1>3. s2 \notin EndTagNameStates
    BY RawNames, States
<1>4. NextChar(l)
    BY DEF ToEndTag
<1> HIDE DEF s, s2
<1>5. Remains(k, s2, FALSE) /\ k.script = lexer.script /\ k.mark = lexer.mark
    BY <1>1, RemainsHere
<1> HIDE DEF k
<1>6. Remains(l, s2, FALSE) /\ l.script = lexer.script /\ l.mark = lexer.mark
    BY <1>5, MoreRemains
<1> HIDE DEF l
<1>7. lexer.mark \in Nat
    BY <1>1, KeptPlaces
<1>8. \A t : IsText(t) /\ TextTo(s, lexer.mark, lexer.script, t) =>
        TextTo(s2, lexer.mark, l.script, t)
    BY <1>2, <1>7, SameKind
<1>9. NameKept(Settled(l))
  <2>1. Settled(l).state = s2
      BY <1>6, RemainsSettled
  <2> QED BY <1>3, <2>1 DEF NameKept
<1> QED BY <1>1, <1>4, <1>6, <1>8, <1>9, KeptGoes

\* With anything else the "<" was text,
LEMMA RawLessThanText ==
    ASSUME Inv, NEW state \in {"rcdata", "rawtext"}, RawLessThan(state)
    PROVE  TextInv'
<1> DEFINE s == LessThan[state]
<1>1. At(s) /\ s \in OfText \cap KeptStates /\ state \in PlainStates /\ state \in RawStates
      /\ s \in OpenStates
    BY RawKinds, RawNames DEF RawLessThan, RawStates
<1>2. PICK F \in Families : s \in F /\ state \in F /\ F # ScriptStates /\ F # EscapedStates
  <2>1. \A r \in {"rcdata", "rawtext"} : r \in TextStatesOf(r) /\ LessThan[r] \in TextStatesOf(r)
                                        /\ TextStatesOf(r) \in Families
      BY TextFamilies DEF LessThan, RawStates
  <2>2. {"rcdata", "rawtext"} \cap (ScriptStates \cup EscapedStates) = {}
      BY DEF ScriptStates, EscapedStates
  <2> QED BY <2>1, <2>2
<1>3. /\ lexer.mark \in Nat /\ lexer.pos \in Nat /\ lexer.pos = lexer.mark + 1
    BY <1>1, KeptPlaces
<1>4. ToEndTag(state) \/ (c # "/" /\ EmitTemporary(Again(To(state))))
    BY DEF RawLessThan
<1> HIDE DEF s
<1>5. ASSUME c # "/", NEW t, IsText(t), TextTo(s, lexer.mark, lexer.script, t)
      PROVE  TextTo(state, lexer.pos, lexer.script, t)
  <2>1. ~EndTagAt(lexer.mark, t.name)
      BY <1>3, <1>5, WordsApart DEF c
  <2>2. \A p \in lexer.mark .. lexer.pos - 1 : p = lexer.mark
      BY <1>3, OneOn
  <2>3. lexer.mark <= lexer.pos
      BY <1>3, OneOn
  <2> QED BY <1>2, <1>3, <1>5, <2>1, <2>2, <2>3, TextOn
<1> QED BY <1>1, <1>4, <1>5, ToEndTagText, BackAsIs DEF s

\* but "!" may begin <!-- in a script (handle_script_lt_state),
LEMMA ScriptLessThanText ==
    ASSUME Inv, ScriptLessThan
    PROVE  TextInv'
<1> DEFINE s == "script lt"
<1>1. /\ At(s) /\ s \in OfText \cap KeptStates /\ s \in OpenStates /\ s \in ScriptStates
      /\ "script" \in PlainStates /\ "script" \in ScriptStates /\ ScriptStates \in Families
      /\ "script escaped start" \in PlainStates /\ s = LessThan["script"] /\ "script" \in RawStates
    BY TextKept, TextNames, ScriptSets, TextFamilies
       DEF ScriptLessThan, OpenStates, LessThan, RawStates
<1>2. /\ lexer.mark \in Nat /\ lexer.pos \in Nat /\ lexer.pos = lexer.mark + 1
      /\ CharAt(lexer.mark) = "<"
    BY <1>1, KeptPlaces
<1>3. /\ lexer.mark <= lexer.pos /\ \A p \in lexer.mark .. lexer.pos - 1 : p = lexer.mark
      /\ lexer.pos + 1 = lexer.mark + 2
    BY <1>2, OneOn, PlacesOn
<1>4. CASE c = "!" /\ EmitTemporary(AppendTemporary(To("script escaped start"), <<"!">>))
  <2> DEFINE s2 == "script escaped start"
             k == To(s2)
             l == AppendTemporary(k, <<"!">>)
  <2>1. Remains(k, s2, FALSE) /\ k.mark = lexer.mark /\ k.temp = lexer.temp /\ EmitTemporary(l)
      BY <1>1, <1>4, RemainsHere
  <2> HIDE DEF k
  <2>2. /\ Remains(l, s2, FALSE) /\ l.mark = lexer.mark /\ l.temp = lexer.temp \o <<"!">>
      BY <2>1, MoreRemains
  <2> HIDE DEF l
  <2>3. "!" \in Symbols
      BY DEF Symbols
  <2>4. CharAt(lexer.mark + 1) = "!"
      BY <1>2, <1>4 DEF c
  <2>5. \A t : IsText(t) /\ TextTo(s, lexer.mark, lexer.script, t) =>
            TextTo(s2, lexer.pos + 1, l.script, t)
      BY <1>2, <1>3, <2>4, StartOpens
  <2> QED BY <1>1, <2>1, <2>2, <2>3, <2>5, BackWithMore
<1>5. CASE c \notin {"/", "!"} /\ EmitTemporary(Again(To("script")))
  <2>1. CharAt(lexer.mark + 1) # "/" /\ CharAt(lexer.mark + 1) # "!"
      BY <1>2, <1>5 DEF c
  <2>2. \A p \in lexer.mark .. lexer.pos - 1 : ~EscapeAt(p) /\ \A name : ~EndTagAt(p, name)
      BY <1>2, <1>3, <2>1, WordsApart
  <2>3. ScriptStates # EscapedStates
      BY DEF ScriptStates, EscapedStates
  <2>4. \A t : IsText(t) /\ TextTo(s, lexer.mark, lexer.script, t) =>
            TextTo("script", lexer.pos, lexer.script, t)
      BY <1>1, <1>2, <1>3, <2>2, <2>3, TextOn
  <2> QED BY <1>1, <1>5, <2>4, BackAsIs
<1>6. CASE ToEndTag("script")
    BY <1>1, <1>6, ToEndTagText
<1> QED BY <1>4, <1>5, <1>6 DEF ScriptLessThan

\* and a letter <script> after it (handle_script_escaped_lt_state).
LEMMA EscapedLessThanText ==
    ASSUME Inv, EscapedLessThan
    PROVE  TextInv'
<1> DEFINE s == "script escaped lt"
<1>1. /\ At(s) /\ s \in OfText \cap KeptStates /\ s \in OpenStates /\ s \in EscapedStates
      /\ "script escaped" \in PlainStates /\ "script escaped" \in EscapedStates
      /\ EscapedStates \in Families /\ "script double escaped start" \in PlainStates
      /\ s = LessThan["script escaped"] /\ "script escaped" \in RawStates
    BY TextKept, TextNames, ScriptSets, TextFamilies
       DEF EscapedLessThan, OpenStates, LessThan, RawStates
<1>2. /\ lexer.mark \in Nat /\ lexer.pos \in Nat /\ lexer.pos = lexer.mark + 1
      /\ CharAt(lexer.mark) = "<" /\ IsInput
    BY <1>1, KeptPlaces
<1>3. /\ lexer.mark <= lexer.pos /\ \A p \in lexer.mark .. lexer.pos - 1 : p = lexer.mark
      /\ lexer.pos + 1 = lexer.mark + 2 /\ lexer.pos \in Nat \ {0}
    BY <1>2, OneOn, PlacesOn
<1>4. CASE /\ c \in Letters
           /\ EmitTemporary([AppendTemporary(To("script double escaped start"), <<c>>)
                                EXCEPT !.script = <<Lower(c)>>])
  <2> DEFINE s2 == "script double escaped start"
             k == To(s2)
             x == c
             n == <<Lower(c)>>
             g == AppendTemporary(k, <<x>>)
             l == [g EXCEPT !.script = n]
  <2>1. Remains(k, s2, FALSE) /\ k.mark = lexer.mark /\ k.temp = lexer.temp /\ EmitTemporary(l)
      BY <1>1, <1>4, RemainsHere
  <2>2. x \in Symbols
      BY <1>2, <1>3, CharIsSymbol DEF c
  <2>3. CharAt(lexer.mark + 1) \in Letters /\ n = <<Lower(CharAt(lexer.mark + 1))>>
      BY <1>2, <1>4 DEF c
  <2> HIDE DEF k, x, n
  <2>4. Remains(g, s2, FALSE) /\ g.mark = lexer.mark /\ g.temp = lexer.temp \o <<x>>
      BY <2>1, MoreRemains
  <2> HIDE DEF g
  <2>5. /\ Remains(l, s2, FALSE) /\ l.mark = lexer.mark /\ l.temp = lexer.temp \o <<x>>
        /\ l.script = n
    <3>1. \A y : /\ Remains([g EXCEPT !.script = y], s2, FALSE)
                 /\ [g EXCEPT !.script = y].script = y
                 /\ [g EXCEPT !.script = y].mark = g.mark
                 /\ [g EXCEPT !.script = y].temp = g.temp
        BY <2>4, RemainsChanges
    <3> QED BY <2>4, <3>1
  <2> HIDE DEF l
  <2>6. \A t : IsText(t) /\ TextTo(s, lexer.mark, lexer.script, t) =>
            TextTo(s2, lexer.pos + 1, l.script, t)
      BY <1>2, <1>3, <2>3, <2>5, NameStarts
  <2> QED BY <1>1, <2>1, <2>2, <2>5, <2>6, BackWithMore
<1>5. CASE c \notin Letters \cup {"/"} /\ EmitTemporary(To("script escaped"))
  <2>1. CharAt(lexer.mark + 1) # "/" /\ CharAt(lexer.mark + 1) \notin Letters
      BY <1>2, <1>5 DEF c
  <2>2. \A p \in lexer.mark .. lexer.pos - 1 : ~ScriptAt(p) /\ \A name : ~EndTagAt(p, name)
      BY <1>2, <1>3, <2>1, WordsApart
  <2>3. ScriptStates # EscapedStates
      BY DEF ScriptStates, EscapedStates
  <2>4. \A t : IsText(t) /\ TextTo(s, lexer.mark, lexer.script, t) =>
            TextTo("script escaped", lexer.pos, lexer.script, t)
      BY <1>1, <1>2, <1>3, <2>2, <2>3, TextOn
  <2> QED BY <1>1, <1>5, <2>4, BackAsIs
<1>6. CASE ToEndTag("script escaped")
    BY <1>1, <1>6, ToEndTagText
<1> QED BY <1>4, <1>5, <1>6 DEF EscapedLessThan

-----------------------------------------------------------------------------
(* The end tags of texts. *)

\* A name is begun,
LEMMA NameBegun ==
    ASSUME NEW k, NEW s, NEW again, Remains(k, s, again), DOMAIN k.tag = TagFields
    PROVE  LET l == StartNewTag(k, FALSE)
           IN  /\ Remains(l, s, again) /\ l.mark = k.mark /\ l.script = k.script
               /\ l.tag.buffer = <<Lower(c)>>
<1> DEFINE l == StartNewTag(k, FALSE)
           b == <<Lower(c)>>
           tag == [k.tag EXCEPT !.open = TRUE, !.attributes = <<>>, !.drop = FALSE,
                      !.isStart = FALSE, !.selfClosing = FALSE, !.buffer = b, !.from = k.pos]
<1>1. DOMAIN k = LexerFields
    BY DEF Remains, Stays
<1>2. l = [k EXCEPT !.tag = tag]
    BY <1>1 DEF StartNewTag, LexerFields, TagFields
<1> HIDE DEF b, l
<1>3. tag.buffer = b
    BY DEF TagFields
<1> HIDE DEF tag
<1>4. Remains(l, s, again) /\ l.mark = k.mark /\ l.script = k.script /\ l.tag = tag
    BY <1>2 DEF Remains, Stays, LexerFields
<1> QED BY <1>3, <1>4 DEF b, l

\* read on,
LEMMA NameReadOn ==
    ASSUME NEW k, NEW s, NEW again, Remains(k, s, again), DOMAIN k.tag = TagFields, NEW x
    PROVE  LET l == AppendTag(k, x, TRUE)
           IN  /\ Remains(l, s, again) /\ l.mark = k.mark /\ l.script = k.script
               /\ l.tag.buffer = Append(k.tag.buffer, x)
<1> DEFINE l == AppendTag(k, x, TRUE)
           b == Append(k.tag.buffer, x)
           f == IF k.tag.buffer = <<>> /\ TRUE THEN k.pos ELSE k.tag.from
           tag == [k.tag EXCEPT !.buffer = b, !.from = f]
<1>1. DOMAIN k = LexerFields
    BY DEF Remains, Stays
<1>2. l = [k EXCEPT !.tag = tag]
    BY <1>1 DEF AppendTag, LexerFields, TagFields
<1> HIDE DEF b, f, l
<1>3. tag.buffer = b
    BY DEF TagFields
<1> HIDE DEF tag
<1>4. Remains(l, s, again) /\ l.mark = k.mark /\ l.script = k.script /\ l.tag = tag
    BY <1>2 DEF Remains, Stays, LexerFields
<1> QED BY <1>3, <1>4 DEF b, l

\* and over.
LEMMA FullName ==
    ASSUME NEW k, NEW s, NEW again, Remains(k, s, again), DOMAIN k.tag = TagFields
    PROVE  LET l == FinishTagName(k)
           IN  /\ Remains(l, s, again) /\ l.tag.name = k.tag.buffer
               /\ l.tag.isStart = k.tag.isStart
<1> DEFINE l == FinishTagName(k)
           b == k.tag.buffer
           p == k.pos
           tag == [k.tag EXCEPT !.name = b, !.buffer = <<>>, !.from = p]
<1>1. DOMAIN k = LexerFields
    BY DEF Remains, Stays
<1>2. l = [k EXCEPT !.tag = tag]
    BY <1>1 DEF FinishTagName, ReinitializeTagBuffer, LexerFields, TagFields
<1> HIDE DEF b, p, l
<1>3. tag.name = b /\ tag.isStart = k.tag.isStart
    BY DEF TagFields
<1> HIDE DEF tag
<1>4. Remains(l, s, again) /\ l.tag = tag
    BY <1>2 DEF Remains, Stays, LexerFields
<1> QED BY <1>3, <1>4 DEF b, l

\* The lexer at the start of a step.
LEMMA TagHere ==
    ASSUME Inv, NEW s, At(s)
    PROVE  /\ DOMAIN lexer.tag = TagFields /\ \A t : To(t).tag = lexer.tag
           /\ s \in EndTagNameStates => lexer.tag.isStart = FALSE
<1>1. DOMAIN lexer = LexerFields /\ DOMAIN lexer.tag = TagFields /\ lexer.tag.isStart \in BOOLEAN
    BY DEF Inv, IInv, Parts, IsLexer
<1>2. \A t : To(t).tag = lexer.tag
    BY <1>1 DEF To, LexerFields
<1>3. s \in EndTagNameStates => lexer.tag.isStart = FALSE
    BY <1>1 DEF Inv, IInv, Parts, TempInv, At
<1> QED BY <1>1, <1>2, <1>3

\* A letter after "</" begins a name of one symbol.
LEMMA FirstOfName ==
    ASSUME NEW a \in Nat \ {0}, IsInput, CharAt(a) \in Letters
    PROVE  NameFrom(a, a + 1, <<Lower(CharAt(a))>>)
<1> DEFINE n == <<Lower(CharAt(a))>>
<1>1. n \in Seq(Symbols) /\ Len(n) = 1
    BY CharIsSymbol, OneSymbol
<1>2. \A q \in a .. (a + 1) - 1 : CharAt(q) \in Letters
    BY OneOn
<1>3. n = <<Lower(CharAt(a))>>
    OBVIOUS
<1> HIDE DEF n
<1>4. NameFrom(a, a + 1, n)
    BY <1>1, <1>2, <1>3 DEF NameFrom
<1> QED BY <1>4 DEF n

\* Places of "<", "/" and a name.
LEMMA TagPlaces ==
    ASSUME NEW m \in Nat
    PROVE  /\ m + 1 \in Nat /\ m + 2 \in Nat \ {0} /\ (m + 2) + 1 = m + 3 /\ m <= m + 2
           /\ \A p \in m .. (m + 2) - 1 : p = m \/ p = m + 1
           /\ \A x \in Nat : m + 2 <= x =>
                /\ m <= x
                /\ \A p \in m .. x - 1 : p = m \/ p = m + 1 \/ p \in m + 2 .. x - 1
OBVIOUS

\* A letter after "</" begins the name of an end tag (handle_rcdata_end_tag_open_state and its
\* like).
LEMMA RawEndTagOpenText ==
    ASSUME Inv, NEW state \in RawStates, RawEndTagOpen(state)
    PROVE  TextInv'
<1> DEFINE s == EndTagOpen[state]
           s2 == EndTagName[state]
           m == lexer.mark
<1>1. /\ At(s) /\ s \in OfText \cap KeptStates /\ s2 \in OfText \cap KeptStates
      /\ s \in EndTagOpenStates /\ state \in PlainStates
    BY RawKinds, RawNames DEF RawEndTagOpen
<1>2. PICK F \in Families : s \in F /\ s2 \in F /\ state \in F
    BY RawKinds
<1>3. /\ m \in Nat /\ lexer.pos \in Nat /\ IsInput /\ CharAt(m) = "<" /\ lexer.pos = m + 2
      /\ CharAt(m + 1) = "/"
    BY <1>1, KeptPlaces
<1>4. \/ c \in Letters
         /\ NextChar(AppendTemporary(StartNewTag(To(s2), FALSE), <<c>>))
      \/ c \notin Letters /\ EmitTemporary(To(state))
    BY DEF RawEndTagOpen
<1> HIDE DEF s, s2
<1>5. CASE c \in Letters /\ NextChar(AppendTemporary(StartNewTag(To(s2), FALSE), <<c>>))
  <2> DEFINE k == To(s2)
             g == StartNewTag(k, FALSE)
             x == c
             l == AppendTemporary(g, <<x>>)
  <2>1. /\ Remains(k, s2, FALSE) /\ k.mark = m /\ k.script = lexer.script
        /\ DOMAIN k.tag = TagFields /\ NextChar(l)
      BY <1>1, <1>5, RemainsHere, TagHere
  <2> HIDE DEF k, x
  <2>2. /\ Remains(g, s2, FALSE) /\ g.mark = m /\ g.script = lexer.script
        /\ g.tag.buffer = <<Lower(c)>>
      BY <2>1, NameBegun
  <2> HIDE DEF g
  <2>3. Remains(l, s2, FALSE) /\ l.mark = m /\ l.script = lexer.script /\ l.tag = g.tag
      BY <2>2, MoreRemains
  <2> HIDE DEF l
  <2>4. /\ Settled(l).mark = m /\ Settled(l).tag = l.tag /\ Settled(l).state = s2
        /\ Settled(l).pos = lexer.pos + 1
    <3>1. c # EOF
        BY <1>5 DEF Letters, EOF
    <3> QED BY <2>3, <3>1, RemainsSettled
  <2>5. NameFrom(m + 2, (m + 2) + 1, <<Lower(CharAt(m + 2))>>)
      BY <1>3, <1>5, TagPlaces, FirstOfName DEF c
  <2>6. NameKept(Settled(l))
      BY <1>3, <2>2, <2>3, <2>4, <2>5 DEF NameKept, c
  <2>7. \A t : IsText(t) /\ TextTo(s, lexer.mark, lexer.script, t) =>
            TextTo(s2, lexer.mark, l.script, t)
      BY <1>2, <1>3, SameKind
  <2> QED BY <1>1, <2>1, <2>3, <2>6, <2>7, KeptGoes
<1>6. CASE c \notin Letters /\ EmitTemporary(To(state))
  <2>1. CharAt(m + 2) \notin Letters
      BY <1>3, <1>6 DEF c
  <2>2. ASSUME NEW t, IsText(t), NEW p \in m .. lexer.pos - 1
        PROVE  ~EscapeAt(p) /\ ~ScriptAt(p) /\ ~EndTagAt(p, t.name)
    <3>1. p = m \/ p = m + 1
        BY <1>3, <2>2, TagPlaces
    <3>2. CASE p = m
      <4>1. CharAt(m + 1) # "!" /\ CharAt(m + 1) \notin Letters
          BY <1>3 DEF Letters
      <4> QED BY <1>3, <2>1, <2>2, <3>2, <4>1, WordsApart
    <3>3. CASE p = m + 1
      <4>1. CharAt(m + 1) # "<" /\ m + 1 \in Nat
          BY <1>3, TagPlaces
      <4> QED BY <3>3, <4>1, NoneHere
    <3> QED BY <3>1, <3>2, <3>3
  <2>3. m <= lexer.pos
      BY <1>3, TagPlaces
  <2>4. \A t : IsText(t) /\ TextTo(s, m, lexer.script, t) =>
            TextTo(state, lexer.pos, lexer.script, t)
      BY <1>2, <1>3, <2>2, <2>3, TextOn
  <2> QED BY <1>1, <1>6, <2>4, BackAsIs
<1> QED BY <1>4, <1>5, <1>6

\* With the name of the start tag the text is over (is_appropriate_end_tag),
LEMMA NameEndsText ==
    ASSUME Inv, NEW s \in EndTagNameStates \cap OfText, At(s), IsAppropriateEndTag(lexer), NameEnded
    PROVE  TextInv'
<1>1. s \in KeptStates
    BY DEF KeptStates
<1>2. ASSUME NEW t, ReadBy(lexer, t)
      PROVE  /\ IsText(t) /\ lexer.tag.buffer = t.name
             /\ t.then # "plaintext" /\ Ends(t, lexer.start)
  <2>1. /\ IsText(t) /\ lexer.last = t.name /\ TextTo(s, lexer.mark, lexer.script, t)
        /\ lexer.start = lexer.mark
      BY <1>1, <1>2, ReadingHere
  <2>2. lexer.mark \in Nat
      BY <1>1, KeptPlaces
  <2>3. t.then # "plaintext" /\ Ends(t, lexer.mark)
      BY <2>1, <2>2, EndsHere
  <2> QED BY <2>1, <2>3 DEF IsAppropriateEndTag
<1>3. /\ DOMAIN lexer.tag = TagFields /\ lexer.tag.isStart = FALSE
      /\ \A t : To(t).tag = lexer.tag /\ Remains(To(t), t, FALSE)
    BY TagHere, RemainsHere
<1>4. ASSUME NEW s2
      PROVE  /\ Remains(FinishTagName(To(s2)), s2, FALSE)
             /\ FinishTagName(To(s2)).tag.name = lexer.tag.buffer
             /\ FinishTagName(To(s2)).tag.isStart = FALSE
  <2> DEFINE k == To(s2)
  <2>1. Remains(k, s2, FALSE) /\ k.tag = lexer.tag
      BY <1>3
  <2> HIDE DEF k
  <2>2. /\ Remains(FinishTagName(k), s2, FALSE)
        /\ FinishTagName(k).tag.name = k.tag.buffer
        /\ FinishTagName(k).tag.isStart = k.tag.isStart
      BY <1>3, <2>1, FullName
  <2> QED BY <1>3, <2>1, <2>2 DEF k
<1>5. ASSUME NEW s2 \in {"before attr name", "self closing"}, NextChar(FinishTagName(To(s2)))
      PROVE  TextInv'
  <2> DEFINE l == FinishTagName(To(s2))
  <2>1. Remains(l, s2, FALSE) /\ l.tag.name = lexer.tag.buffer /\ l.tag.isStart = FALSE
      BY <1>4
  <2>2. NextChar(l)
      BY <1>5
  <2> HIDE DEF l
  <2>3. lexer' = Settled(l)
      BY <2>2 DEF NextChar
  <2>4. lexer'.state = s2 /\ lexer'.tag = l.tag /\ lexer'.start = lexer.start
      BY <2>1, <2>3, RemainsSettled
  <2>5. s2 \in InTags
      BY InTagNames
  <2>6. ASSUME NEW t, ReadBy(lexer, t) PROVE ReadBy(lexer', t)
    <3>1. IsText(t) /\ lexer.tag.buffer = t.name /\ t.then # "plaintext" /\ Ends(t, lexer.start)
        BY <1>2, <2>6
    <3> QED BY <2>1, <2>4, <2>5, <3>1 DEF ReadBy, InEndTag, InTags
  <2>7. Lexing
      BY DEF At
  <2> QED BY <2>2, <2>6, <2>7, NextText DEF Inv, KeepsText
<1>6. ASSUME EmitTag(FinishTagName(To("data"))) PROVE TextInv'
  <2> DEFINE l == FinishTagName(To("data"))
  <2>1. Remains(l, "data", FALSE) /\ l.tag.name = lexer.tag.buffer /\ l.tag.isStart = FALSE
      BY <1>4
  <2>2. EmitTag(l)
      BY <1>6
  <2> HIDE DEF l
  <2>3. Stays(l, "data", FALSE) /\ l.last = lexer.last
      BY <2>1 DEF Remains
  <2> QED BY <1>2, <2>1, <2>2, <2>3, TagGoes
<1> QED BY <1>5, <1>6 DEF NameEnded

\* and with another one it goes on: what looked like a tag is text.
LEMMA OtherNameText ==
    ASSUME Inv, NEW state \in RawStates, At(EndTagName[state]),
           c \notin Letters, ~IsAppropriateEndTag(lexer) \/ c \notin NameEnds,
           EmitTemporary(AbandonTag(To(state)))
    PROVE  TextInv'
<1> DEFINE s == EndTagName[state]
           m == lexer.mark
           x == lexer.pos
           n == lexer.tag.buffer
<1>1. At(s) /\ s \in OfText \cap KeptStates /\ state \in PlainStates /\ s \in EndTagNameStates
    BY RawKinds, RawNames
<1>2. PICK F \in Families : s \in F /\ state \in F
    BY RawKinds
<1> HIDE DEF s
<1>3. m \in Nat /\ x \in Nat /\ lexer.state = s
    BY <1>1, KeptPlaces DEF At
<1> HIDE DEF m, x, n
<1>4. ASSUME NEW t, IsText(t), lexer.last = t.name, NameKept(lexer), TextTo(s, m, lexer.script, t)
      PROVE  TextTo(state, x, lexer.script, t)
  <2>1. CharAt(m + 1) = "/" /\ NameFrom(m + 2, x, n)
      BY <1>1, <1>3, <1>4 DEF NameKept, m, x, n
  <2>2. m + 1 \in Nat /\ m + 2 \in Nat /\ (m + 2) + 1 = m + 3
      BY <1>3, TagPlaces
  <2>3. CharAt(x) \notin Letters /\ (n # lexer.last \/ CharAt(x) \notin NameEnds)
      BY DEF c, x, n, IsAppropriateEndTag
  <2>4. /\ m + 2 <= x /\ \A q \in m + 2 .. x - 1 : CharAt(q) # "<"
        /\ \A w : m + 2 < x /\ Lower(CharAt(m + 2)) = w /\ CharAt(m + 3) \in NameEnds => n = <<w>>
        /\ m + 2 < x /\ CharAt(m + 3) \in NameEnds => x = m + 3
      BY <1>3, <2>1, <2>2, <2>3, NameIs
  <2>5. ~EndTagAt(m, t.name)
    <3> SUFFICES ASSUME EndTagAt(m, t.name) PROVE FALSE
        OBVIOUS
    <3>1. Lower(CharAt(m + 2)) = Head(t.name) /\ CharAt(m + 3) \in NameEnds
        BY <1>3, WordsAt
    <3>2. CharAt(m + 2) \in Letters
        BY <1>3, <1>4, WordsApart
    <3>3. m + 2 < x
      <4>1. m + 2 # x
          BY <2>3, <3>2
      <4> QED BY <1>3, <2>2, <2>4, <4>1
    <3>4. n = <<Head(t.name)>> /\ x = m + 3
        BY <2>4, <3>1, <3>3
    <3>5. t.name = <<Head(t.name)>>
        BY <1>4, TextIs
    <3> QED BY <1>4, <2>3, <3>1, <3>4, <3>5
  <2>6. ASSUME NEW p \in m .. x - 1
        PROVE  ~EscapeAt(p) /\ ~ScriptAt(p) /\ ~EndTagAt(p, t.name)
    <3>1. p = m \/ p = m + 1 \/ p \in m + 2 .. x - 1
        BY <1>3, <2>4, <2>6, TagPlaces
    <3>2. CASE p = m
      <4>1. CharAt(m + 1) # "!" /\ CharAt(m + 1) \notin Letters
          BY <2>1 DEF Letters
      <4> QED BY <1>3, <2>5, <3>2, <4>1, WordsApart
    <3>3. CASE p = m + 1
      <4>1. CharAt(m + 1) # "<"
          BY <2>1
      <4> QED BY <2>2, <3>3, <4>1, NoneHere
    <3>4. CASE p \in m + 2 .. x - 1
      <4>1. p \in Nat /\ CharAt(p) # "<"
          BY <2>2, <2>4, <3>4
      <4> QED BY <4>1, NoneHere
    <3> QED BY <3>1, <3>2, <3>3, <3>4
  <2>7. m <= x
      BY <1>3, <2>4, TagPlaces
  <2> QED BY <1>2, <1>3, <1>4, <2>6, <2>7, TextOn
<1> QED BY <1>1, <1>4, BackAsIs DEF m, x

\* The name is read on, or is over (handle_rcdata_end_tag_name_state and its like).
LEMMA RawEndTagNameText ==
    ASSUME Inv, NEW state \in RawStates, RawEndTagName(state)
    PROVE  TextInv'
<1> DEFINE s == EndTagName[state]
<1>1. At(s) /\ s \in OfText \cap KeptStates /\ s \in EndTagNameStates
    BY RawKinds, RawNames DEF RawEndTagName
<1>2. CASE c \in Letters /\ NextChar(AppendTemporary(AppendTag(lexer, Lower(c), TRUE), <<c>>))
  <2> DEFINE y == Lower(c)
             g == AppendTag(lexer, y, TRUE)
             x == c
             l == AppendTemporary(g, <<x>>)
             m == lexer.mark
  <2> HIDE DEF s
  <2>1. Remains(lexer, s, FALSE) /\ DOMAIN lexer.tag = TagFields /\ NextChar(l)
      BY <1>1, <1>2, RemainsHere, TagHere
  <2> HIDE DEF x, y
  <2>2. /\ Remains(g, s, FALSE) /\ g.mark = m /\ g.script = lexer.script
        /\ g.tag.buffer = Append(lexer.tag.buffer, y)
      BY <2>1, NameReadOn
  <2> HIDE DEF g
  <2>3. Remains(l, s, FALSE) /\ l.mark = m /\ l.script = lexer.script /\ l.tag = g.tag
      BY <2>2, MoreRemains
  <2> HIDE DEF l
  <2>4. /\ Settled(l).mark = m /\ Settled(l).tag = l.tag /\ Settled(l).state = s
        /\ Settled(l).pos = lexer.pos + 1
    <3>1. c # EOF
        BY <1>2 DEF Letters, EOF
    <3> QED BY <2>3, <3>1, RemainsSettled
  <2>5. m \in Nat /\ lexer.pos \in Nat /\ IsInput /\ m + 2 \in Nat \ {0}
      BY <1>1, KeptPlaces, TagPlaces
  <2>6. ASSUME NameKept(lexer) PROVE NameKept(Settled(l))
    <3>1. CharAt(m + 1) = "/" /\ NameFrom(m + 2, lexer.pos, lexer.tag.buffer)
        BY <1>1, <2>6 DEF NameKept, At
    <3>2. NameFrom(m + 2, lexer.pos + 1, Append(lexer.tag.buffer, y))
        BY <1>2, <2>5, <3>1, NameOn DEF c, y
    <3> QED BY <2>2, <2>3, <2>4, <3>1, <3>2 DEF NameKept
  <2> QED BY <1>1, <2>1, <2>3, <2>6, KeptGoes
<1> QED BY <1>1, <1>2, NameEndsText, OtherNameText DEF RawEndTagName

-----------------------------------------------------------------------------
(* Escaped script data. *)

\* A symbol goes out, and another state follows.
LEMMA SymbolGoes ==
    ASSUME Inv, NEW s \in OfText \ KeptStates, At(s), NEW s2 \in PlainStates,
           NEW x \in {c, Unnulled(c)},
           EmitChar(To(s2), x) \/ (s2 = s /\ EmitChar(lexer, x)),
           \A t, m : IsText(t) /\ TextTo(s, lexer.pos, lexer.script, t) =>
                TextTo(s2, lexer.pos + 1, m, t)
    PROVE  TextInv'
<1>1. Remains(To(s2), s2, FALSE) /\ Remains(lexer, s, FALSE)
    BY RemainsHere
<1>2. CASE EmitChar(To(s2), x)
    BY <1>1, <1>2, CharGoes
<1>3. CASE s2 = s /\ EmitChar(lexer, x)
    BY <1>1, <1>3, CharGoes
<1> QED BY <1>2, <1>3

\* "<" is text in doubly escaped data.
LEMMA DoubleOpensText ==
    ASSUME Inv, DoubleOpens,
           NEW s \in {"script double escaped", "script double escaped dash",
                      "script double escaped dash dash"}, At(s)
    PROVE  TextInv'
<1>1. s \in OfText \ KeptStates /\ "script double escaped lt" \in PlainStates
    BY TextKept, TextNames
<1>2. lexer.pos \in Nat /\ CharAt(lexer.pos) = "<"
    BY PlacesHere DEF Inv, DoubleOpens, c
<1>3. \A t, m : IsText(t) /\ TextTo(s, lexer.pos, lexer.script, t) =>
        TextTo("script double escaped lt", lexer.pos + 1, m, t)
    BY <1>2, DoubleOn
<1>4. EmitChar(To("script double escaped lt"), c)
    BY DEF DoubleOpens
<1> QED BY <1>1, <1>3, <1>4, SymbolGoes

\* That of escaped data is kept back.
LEMMA EscapedOpensText ==
    ASSUME Inv, EscapedOpens,
           NEW s \in {"script escaped", "script escaped dash", "script escaped dash dash"}, At(s)
    PROVE  TextInv'
<1>1. /\ s \in OfText \ KeptStates /\ "script escaped lt" \in OpenStates
      /\ "script escaped lt" \in EscapedStates
      /\ s \in EscapedStates \cup {"script escaped dash", "script escaped dash dash"}
    BY TextKept, ScriptSets DEF OpenStates
<1>2. lexer.pos \in Nat
    BY PlacesHere DEF Inv
<1>3. \A t, m : IsText(t) /\ TextTo(s, lexer.pos, lexer.script, t) =>
        TextTo("script escaped lt", lexer.pos, m, t)
    BY <1>1, <1>2, EscapedHere
<1>4. NextChar(Opened("script escaped lt"))
    BY DEF EscapedOpens
<1> QED BY <1>1, <1>3, <1>4, OpensText

\* The end of the input in the text of a script.
LEMMA ScriptCutOff ==
    ASSUME Inv, NEW s, At(s), c = EOF, NextChar(To("data"))
    PROVE  TextInv'
BY RemainsHere, CutsOff

\* <!-- begins (handle_script_escaped_start_state, handle_script_escaped_start_dash_state).
LEMMA EscapedStartText ==
    ASSUME Inv, EscapedStart \/ EscapedStartDash
    PROVE  TextInv'
<1>1. /\ {"script escaped start", "script escaped start dash"} \subseteq OfText \ KeptStates
      /\ {"script escaped start dash", "script escaped dash dash"} \subseteq PlainStates
      /\ "script" \in CharStates
    BY TextKept, TextNames
<1>2. lexer.pos \in Nat
    BY PlacesHere DEF Inv
<1>3. CASE EscapedStart
  <2>1. At("script escaped start")
      BY <1>3 DEF EscapedStart
  <2>2. CASE c = "-" /\ EmitChar(To("script escaped start dash"), c)
    <3>1. \A t, m : IsText(t) /\ TextTo("script escaped start", lexer.pos, lexer.script, t) =>
            TextTo("script escaped start dash", lexer.pos + 1, m, t)
        BY <1>2, <2>2, StartGoesOn DEF c
    <3> QED BY <1>1, <2>1, <2>2, <3>1, SymbolGoes
  <2>3. CASE c # "-" /\ NextChar(Again(To("script")))
    <3>1. \A t : IsText(t) /\ TextTo("script escaped start", lexer.pos, lexer.script, t) =>
            TextTo("script", lexer.pos, lexer.script, t)
        BY <1>2, <2>3, StartGoesOn DEF c
    <3> QED BY <1>1, <2>1, <2>3, <3>1, AgainGoes
  <2> QED BY <1>3, <2>2, <2>3 DEF EscapedStart
<1>4. CASE EscapedStartDash
  <2>1. At("script escaped start dash")
      BY <1>4 DEF EscapedStartDash
  <2>2. CASE c = "-" /\ EmitChar(To("script escaped dash dash"), c)
    <3>1. \A t, m : IsText(t) /\ TextTo("script escaped start dash", lexer.pos, lexer.script, t) =>
            TextTo("script escaped dash dash", lexer.pos + 1, m, t)
        BY <1>2, <2>2, StartEnds DEF c
    <3> QED BY <1>1, <2>1, <2>2, <3>1, SymbolGoes
  <2>3. CASE c # "-" /\ NextChar(Again(To("script")))
    <3>1. \A t : IsText(t) /\ TextTo("script escaped start dash", lexer.pos, lexer.script, t) =>
            TextTo("script", lexer.pos, lexer.script, t)
        BY <1>2, <2>3, StartEnds DEF c
    <3> QED BY <1>1, <2>1, <2>3, <3>1, AgainGoes
  <2> QED BY <1>4, <2>2, <2>3 DEF EscapedStartDash
<1> QED BY <1>3, <1>4

\* The data between <!-- and --> (handle_script_escaped_state and those after dashes).
LEMMA EscapedText ==
    ASSUME Inv, Escaped \/ EscapedDash \/ EscapedDashDash
    PROVE  TextInv'
<1> DEFINE Places == {"script escaped", "script escaped dash", "script escaped dash dash"}
<1>1. Places \subseteq OfText \ KeptStates /\ Places \cup {"script"} \subseteq PlainStates
    BY TextKept, TextNames
<1>2. lexer.pos \in Nat
    BY PlacesHere DEF Inv
<1>3. ASSUME NEW s \in Places, At(s), NEW s2 \in Places \cup {"script"}, NEW x \in {c, Unnulled(c)},
             EmitChar(To(s2), x) \/ (s2 = s /\ EmitChar(lexer, x)), c # "<",
             \/ s2 = "script escaped" \/ (c = "-" /\ s2 = "script escaped dash")
             \/ c = "-" /\ s # "script escaped" /\ s2 = "script escaped dash dash"
             \/ c = ">" /\ s = "script escaped dash dash" /\ s2 = "script"
      PROVE  TextInv'
  <2>1. \A t, m : IsText(t) /\ TextTo(s, lexer.pos, lexer.script, t) =>
            TextTo(s2, lexer.pos + 1, m, t)
      BY <1>2, <1>3, EscapedOn DEF c
  <2> QED BY <1>1, <1>3, <2>1, SymbolGoes
<1>4. CASE Escaped
  <2>1. At("script escaped")
      BY <1>4 DEF Escaped
  <2> QED BY <1>3, <1>4, <2>1, EscapedOpensText DEF Escaped
<1>5. ASSUME NEW s \in {"script escaped dash", "script escaped dash dash"}, At(s),
             AfterDash("script escaped", "script escaped dash dash", EscapedOpens)
      PROVE  TextInv'
    BY <1>3, <1>5, EscapedOpensText, ScriptCutOff DEF AfterDash
<1>6. CASE EscapedDash
  <2>1. At("script escaped dash")
      BY <1>6 DEF EscapedDash
  <2> QED BY <1>3, <1>5, <1>6, <2>1 DEF EscapedDash
<1>7. CASE EscapedDashDash
  <2>1. At("script escaped dash dash")
      BY <1>7 DEF EscapedDashDash
  <2> QED BY <1>3, <1>5, <1>7, <2>1 DEF EscapedDashDash
<1> QED BY <1>4, <1>6, <1>7

\* The data between <script> and </script> in there (handle_script_double_escaped_state and
\* those after dashes).
LEMMA DoubleEscapedText ==
    ASSUME Inv, DoubleEscaped \/ DoubleEscapedDash \/ DoubleEscapedDashDash
    PROVE  TextInv'
<1> DEFINE Places == {"script double escaped", "script double escaped dash",
                      "script double escaped dash dash"}
<1>1. Places \subseteq OfText \ KeptStates /\ Places \cup {"script"} \subseteq PlainStates
    BY TextKept, TextNames
<1>2. lexer.pos \in Nat
    BY PlacesHere DEF Inv
<1>3. ASSUME NEW s \in Places, At(s), NEW s2 \in Places \cup {"script"}, NEW x \in {c, Unnulled(c)},
             EmitChar(To(s2), x) \/ (s2 = s /\ EmitChar(lexer, x)),
             \/ s2 = "script double escaped" \/ (c = "-" /\ s2 = "script double escaped dash")
             \/ c = "-" /\ s # "script double escaped" /\ s2 = "script double escaped dash dash"
             \/ c = ">" /\ s = "script double escaped dash dash" /\ s2 = "script"
      PROVE  TextInv'
  <2>1. \A t, m : IsText(t) /\ TextTo(s, lexer.pos, lexer.script, t) =>
            TextTo(s2, lexer.pos + 1, m, t)
      BY <1>2, <1>3, DoubleOn DEF c
  <2> QED BY <1>1, <1>3, <2>1, SymbolGoes
<1>4. CASE DoubleEscaped
  <2>1. At("script double escaped")
      BY <1>4 DEF DoubleEscaped
  <2> QED BY <1>3, <1>4, <2>1, DoubleOpensText, ScriptCutOff DEF DoubleEscaped
<1>5. ASSUME NEW s \in {"script double escaped dash", "script double escaped dash dash"}, At(s),
             AfterDash("script double escaped", "script double escaped dash dash", DoubleOpens)
      PROVE  TextInv'
    BY <1>3, <1>5, DoubleOpensText, ScriptCutOff DEF AfterDash
<1>6. CASE DoubleEscapedDash
  <2>1. At("script double escaped dash")
      BY <1>6 DEF DoubleEscapedDash
  <2> QED BY <1>3, <1>5, <1>6, <2>1 DEF DoubleEscapedDash
<1>7. CASE DoubleEscapedDashDash
  <2>1. At("script double escaped dash dash")
      BY <1>7 DEF DoubleEscapedDashDash
  <2> QED BY <1>3, <1>5, <1>7, <2>1 DEF DoubleEscapedDashDash
<1> QED BY <1>4, <1>6, <1>7

\* "<" in there, and perhaps "/" (handle_script_double_escaped_lt_state).
LEMMA DoubleLessThanText ==
    ASSUME Inv, DoubleEscapedLessThan
    PROVE  TextInv'
<1> DEFINE s == "script double escaped lt"
           s2 == "script double escaped end"
<1>1. /\ At(s) /\ s \in OfText \ KeptStates /\ s2 \in PlainStates
      /\ "script double escaped" \in CharStates
    BY TextKept, TextNames DEF DoubleEscapedLessThan
<1>2. lexer.pos \in Nat
    BY PlacesHere DEF Inv
<1>3. CASE c = "/" /\ EmitChar([To(s2) EXCEPT !.script = <<>>], c)
  <2> DEFINE k == To(s2)
             l == [k EXCEPT !.script = <<>>]
  <2>1. Remains(k, s2, FALSE) /\ EmitChar(l, c)
      BY <1>1, <1>3, RemainsHere
  <2> HIDE DEF k
  <2>2. Remains(l, s2, FALSE) /\ l.script = <<>>
    <3>1. \A y : /\ Remains([k EXCEPT !.script = y], s2, FALSE)
                 /\ [k EXCEPT !.script = y].script = y
        BY <2>1, RemainsChanges, ZenonT(40)
    <3> QED BY <3>1
  <2> HIDE DEF l
  <2>3. \A t : IsText(t) /\ TextTo(s, lexer.pos, lexer.script, t) =>
            TextTo(s2, lexer.pos + 1, l.script, t)
      BY <1>2, <1>3, <2>2, DoubleEnds DEF c
  <2> QED BY <1>1, <2>1, <2>2, <2>3, CharGoes
<1>4. CASE NextChar(Again(To("script double escaped")))
  <2>1. \A t : IsText(t) /\ TextTo(s, lexer.pos, lexer.script, t) =>
            TextTo("script double escaped", lexer.pos, lexer.script, t)
      BY <1>2, DoubleEnds
  <2> QED BY <1>1, <1>4, <2>1, AgainGoes
<1> QED BY <1>3, <1>4 DEF DoubleEscapedLessThan

\* The names of tags in scripts (handle_script_double_escaped_start_state,
\* handle_script_double_escaped_end_state).
LEMMA NameOfScriptText ==
    ASSUME Inv, NEW s \in OfText \ KeptStates, At(s), s \in PlainStates,
           NEW s2 \in PlainStates, NEW s3 \in PlainStates, NameOfScript(s2, s3),
           \A t : IsText(t) /\ TextTo(s, lexer.pos, lexer.script, t) =>
                /\ c \in Letters => TextTo(s, lexer.pos + 1, Append(lexer.script, Lower(c)), t)
                /\ c \in NameEnds =>
                    \A m : TextTo(IF lexer.script = <<"script">> THEN s2 ELSE s3,
                                  lexer.pos + 1, m, t)
                /\ c \notin Letters \cup NameEnds => TextTo(s3, lexer.pos, lexer.script, t)
    PROVE  TextInv'
<1> DEFINE u == IF lexer.script = <<"script">> THEN s2 ELSE s3
<1>1. CASE c \in NameEnds /\ EmitChar(To(u), c)
  <2>1. u \in PlainStates
      OBVIOUS
  <2>2. \A t, m : IsText(t) /\ TextTo(s, lexer.pos, lexer.script, t) =>
            TextTo(u, lexer.pos + 1, m, t)
      BY <1>1
  <2> HIDE DEF u
  <2> QED BY <1>1, <2>1, <2>2, SymbolGoes
<1>2. CASE c \in Letters /\ EmitChar([lexer EXCEPT !.script = Append(@, Lower(c))], c)
  <2> DEFINE n == Append(lexer.script, Lower(c))
             l == [lexer EXCEPT !.script = n]
  <2>1. EmitChar(l, c)
      BY <1>2
  <2>2. \A t : IsText(t) /\ TextTo(s, lexer.pos, lexer.script, t) =>
            TextTo(s, lexer.pos + 1, n, t)
      BY <1>2
  <2> HIDE DEF n
  <2>3. Remains(l, s, FALSE) /\ l.script = n
    <3>1. Remains(lexer, s, FALSE)
        BY RemainsHere
    <3>2. \A y : /\ Remains([lexer EXCEPT !.script = y], s, FALSE)
                 /\ [lexer EXCEPT !.script = y].script = y
        BY <3>1, RemainsChanges
    <3> QED BY <3>2
  <2> HIDE DEF l
  <2> QED BY <2>1, <2>2, <2>3, CharGoes
<1>3. CASE c \notin NameEnds \cup Letters /\ NextChar(Again(To(s3)))
    BY <1>3, TextNames, AgainGoes
<1> QED BY <1>1, <1>2, <1>3 DEF NameOfScript

\* The names after "<" and "</" in escaped script data
\* (handle_script_double_escaped_start_state, handle_script_double_escaped_end_state).
LEMMA ScriptNamesText ==
    ASSUME Inv, DoubleEscapedStart \/ DoubleEscapedEnd
    PROVE  TextInv'
<1>1. /\ {"script double escaped start", "script double escaped end"} \subseteq OfText \ KeptStates
      /\ {"script double escaped start", "script double escaped end", "script escaped",
          "script double escaped"} \subseteq PlainStates
    BY TextKept, TextNames
<1>2. lexer.pos \in Nat /\ IsInput
    BY PlacesHere DEF Inv
<1>3. CASE DoubleEscapedStart
  <2> DEFINE s == "script double escaped start"
  <2>1. At(s) /\ NameOfScript("script double escaped", "script escaped")
      BY <1>3 DEF DoubleEscapedStart
  <2>2. ASSUME NEW t, IsText(t), TextTo(s, lexer.pos, lexer.script, t)
        PROVE  /\ c \in Letters => TextTo(s, lexer.pos + 1, Append(lexer.script, Lower(c)), t)
               /\ c \in NameEnds =>
                    \A m : TextTo(IF lexer.script = <<"script">>
                                  THEN "script double escaped" ELSE "script escaped",
                                  lexer.pos + 1, m, t)
               /\ c \notin Letters \cup NameEnds =>
                    TextTo("script escaped", lexer.pos, lexer.script, t)
      BY <1>2, <2>2, StartNameOn DEF c
  <2> QED BY <1>1, <2>1, <2>2, NameOfScriptText
<1>4. CASE DoubleEscapedEnd
  <2> DEFINE s == "script double escaped end"
  <2>1. At(s) /\ NameOfScript("script escaped", "script double escaped")
      BY <1>4 DEF DoubleEscapedEnd
  <2>2. ASSUME NEW t, IsText(t), TextTo(s, lexer.pos, lexer.script, t)
        PROVE  /\ c \in Letters => TextTo(s, lexer.pos + 1, Append(lexer.script, Lower(c)), t)
               /\ c \in NameEnds =>
                    \A m : TextTo(IF lexer.script = <<"script">>
                                  THEN "script escaped" ELSE "script double escaped",
                                  lexer.pos + 1, m, t)
               /\ c \notin Letters \cup NameEnds =>
                    TextTo("script double escaped", lexer.pos, lexer.script, t)
      BY <1>2, <2>2, EndNameOn DEF c
  <2> QED BY <1>1, <2>1, <2>2, NameOfScriptText
<1> QED BY <1>3, <1>4

-----------------------------------------------------------------------------
(* Outside of the texts. *)

\* The states in which no text is read, nor an end tag that ends one.
LEMMA IdleNames ==
    {"data", "char ref in data", "tag open", "end tag open", "tag name", "bogus comment",
     "markup declaration", "comment start", "comment start dash", "comment", "comment end dash",
     "comment end", "comment end bang", "doctype", "before doctype name", "doctype name",
     "after doctype name", "after doctype public keyword", "before doctype public id",
     "public id double quoted", "public id single quoted", "after doctype public id",
     "between doctype ids", "after doctype system keyword", "before doctype system id",
     "system id double quoted", "system id single quoted", "after doctype system id",
     "bogus doctype", "cdata"} \cap (OfText \cup InTags) = {}
<1> DEFINE idle ==
        {"data", "char ref in data", "tag open", "end tag open", "tag name", "bogus comment",
         "markup declaration", "comment start", "comment start dash", "comment",
         "comment end dash", "comment end", "comment end bang", "doctype",
         "before doctype name", "doctype name", "after doctype name",
         "after doctype public keyword", "before doctype public id",
         "public id double quoted", "public id single quoted", "after doctype public id",
         "between doctype ids", "after doctype system keyword", "before doctype system id",
         "system id double quoted", "system id single quoted", "after doctype system id",
         "bogus doctype", "cdata"}
<1>1. idle \cap InTags = {}
    BY States DEF InTags
<1>2. idle \cap TextStatesOf("rcdata") = {} /\ idle \cap TextStatesOf("rawtext") = {}
    BY DEF TextStatesOf
<1>3. idle \cap TextStatesOf("script") = {} /\ idle \cap TextStatesOf("plaintext") = {}
    BY DEF TextStatesOf, ScriptStates, EscapedStates
<1> QED BY <1>1, <1>2, <1>3 DEF OfText

\* Plain text; at the end of the input every text is over.
LEMMA DataText ==
    ASSUME Inv, DataState \/ CharRefInData
    PROVE  TextInv'
<1>1. {"data", "char ref in data"} \cap (OfText \cup InTags) = {}
    BY IdleNames
<1>2. CASE CharRefInData
    BY <1>1, <1>2, OutcomeIs, IdleText DEF CharRefInData, Inv
<1>3. CASE DataState /\ c # EOF
    BY <1>1, <1>3, OutcomeIs, IdleText DEF DataState, Inv
<1>4. CASE DataState /\ c = EOF
  <2>1. EmitChar(lexer, EOF)
      BY <1>4 DEF DataState, EOF
  <2> QED BY <2>1, CharsText DEF Inv
<1> QED BY <1>2, <1>3, <1>4

\* A tag begins outside of the texts.
LEMMA TagBeginsText ==
    ASSUME Inv, TagOpen \/ EndTagOpenState \/ TagName
    PROVE  TextInv'
<1>1. {"tag open", "end tag open", "tag name"} \cap (OfText \cup InTags \cup {"data"}) = {}
    BY IdleNames
<1>2. CASE TagOpen
    BY <1>1, <1>2, OutcomeIs, IdleText DEF TagOpen, Inv
<1>3. CASE EndTagOpenState
    BY <1>1, <1>3, OutcomeIs, IdleText DEF EndTagOpenState, Inv
<1>4. CASE TagName
  <2>1. At("tag name")
      BY <1>4 DEF TagName
  <2>2. ASSUME NEW l, NextChar(l) PROVE TextInv'
      BY <1>1, <2>1, <2>2, OutcomeIs, IdleText DEF Inv
  <2>3. ASSUME EmitTag(FinishTagName(To("data"))) PROVE TextInv'
    <3> DEFINE l == To("data")
               k == FinishTagName(l)
    <3>1. Remains(l, "data", FALSE)
        BY <2>1, RemainsHere
    <3>2. Stays(k, "data", FALSE) /\ k.last = lexer.last
      <4> HIDE DEF l
      <4> QED BY <3>1 DEF Remains, Stays, FinishTagName, ReinitializeTagBuffer, LexerFields
    <3>3. \A t : ~ReadBy(lexer, t)
        BY <1>1, <2>1, ReadingIs DEF At
    <3>4. EmitTag(k)
        BY <2>3
    <3> HIDE DEF k
    <3> QED BY <3>2, <3>3, <3>4, TagGoes
  <2> QED BY <1>4, <2>2, <2>3 DEF TagName, NameEnded, TagCutOff
<1> QED BY <1>2, <1>3, <1>4

\* Comments and CDATA sections are outside of them,
LEMMA CommentsText ==
    ASSUME Inv,
           \/ BogusComment \/ MarkupDeclaration \/ CommentStart \/ CommentStartDash \/ Comment
           \/ CommentEndDash \/ CommentEnd \/ CommentEndBang \/ Cdata
    PROVE  TextInv'
<1>1. {"bogus comment", "markup declaration", "comment start", "comment start dash", "comment",
       "comment end dash", "comment end", "comment end bang", "cdata"}
            \cap (OfText \cup InTags \cup {"data"}) = {}
    BY IdleNames
<1> DEFINE idle == {"bogus comment", "markup declaration", "comment start",
                    "comment start dash", "comment", "comment end dash", "comment end",
                    "comment end bang", "cdata"}
<1>2. ASSUME NEW s \in idle, At(s), Outcome PROVE TextInv'
    BY <1>1, <1>2, IdleText DEF Inv
<1>3. CASE BogusComment
    BY <1>2, <1>3, OutcomeIs DEF BogusComment
<1>4. CASE MarkupDeclaration
    BY <1>2, <1>4, OutcomeIs DEF MarkupDeclaration
<1>5. CASE CommentStart \/ CommentStartDash \/ Comment
    BY <1>2, <1>5, OutcomeIs DEF CommentStart, CommentStartDash, Comment, CommentOver, InComment
<1>6. CASE CommentEndDash \/ CommentEnd \/ CommentEndBang
    BY <1>2, <1>6, OutcomeIs DEF CommentEndDash, CommentEnd, CommentEndBang, CommentOver, InComment
<1>7. CASE Cdata
    BY <1>2, <1>7, OutcomeIs DEF Cdata
<1> QED BY <1>3, <1>4, <1>5, <1>6, <1>7

\* and so are doctypes.
LEMMA DoctypesText ==
    ASSUME Inv,
           \/ DoctypeState \/ BeforeDoctypeName \/ DoctypeName \/ AfterDoctypeName
           \/ AfterDoctypePublicKeyword \/ BeforeDoctypePublicId
           \/ AfterDoctypePublicId \/ BetweenDoctypeIds
           \/ AfterDoctypeSystemKeyword \/ BeforeDoctypeSystemId \/ AfterDoctypeSystemId
           \/ BogusDoctype
    PROVE  TextInv'
<1> DEFINE idle == {"doctype", "before doctype name", "doctype name", "after doctype name",
                    "after doctype public keyword", "before doctype public id",
                    "after doctype public id", "between doctype ids",
                    "after doctype system keyword", "before doctype system id",
                    "after doctype system id", "bogus doctype"}
<1>1. idle \cap (OfText \cup InTags \cup {"data"}) = {}
    BY IdleNames
<1>2. ASSUME NEW s \in idle, At(s), Outcome PROVE TextInv'
    BY <1>1, <1>2, IdleText DEF Inv
<1>3. /\ \A ends : DoctypeCutOff(ends) => Outcome
      /\ DoctypeOver => Outcome
      /\ DoctypeBlank => Outcome
      /\ \A quoted : IdBegins(quoted) => Outcome
    BY OutcomeIs DEF DoctypeCutOff, DoctypeOver, DoctypeBlank, IdBegins
<1>4. CASE DoctypeState \/ BeforeDoctypeName
    BY <1>2, <1>3, <1>4, OutcomeIs DEF DoctypeState, BeforeDoctypeName
<1>5. CASE DoctypeName \/ AfterDoctypeName
    BY <1>2, <1>3, <1>5, OutcomeIs DEF DoctypeName, AfterDoctypeName
<1>6. CASE AfterDoctypePublicKeyword \/ BeforeDoctypePublicId
    BY <1>2, <1>3, <1>6, OutcomeIs DEF AfterDoctypePublicKeyword, BeforeDoctypePublicId
<1>7. CASE AfterDoctypePublicId \/ BetweenDoctypeIds
    BY <1>2, <1>3, <1>7, OutcomeIs DEF AfterDoctypePublicId, BetweenDoctypeIds
<1>8. CASE AfterDoctypeSystemKeyword \/ BeforeDoctypeSystemId
    BY <1>2, <1>3, <1>8, OutcomeIs DEF AfterDoctypeSystemKeyword, BeforeDoctypeSystemId
<1>9. CASE AfterDoctypeSystemId \/ BogusDoctype
    BY <1>2, <1>3, <1>9, OutcomeIs DEF AfterDoctypeSystemId, BogusDoctype
<1> QED BY <1>4, <1>5, <1>6, <1>7, <1>8, <1>9

\* with their identifiers.
LEMMA DoctypeIdText ==
    ASSUME Inv, NEW quote \in Quotes,
           \/ DoctypeId(PublicIdQuoted, quote, "after doctype public id")
           \/ DoctypeId(SystemIdQuoted, quote, "after doctype system id")
    PROVE  TextInv'
<1>1. {"public id double quoted", "public id single quoted", "system id double quoted",
       "system id single quoted"} \cap (OfText \cup InTags \cup {"data"}) = {}
    BY IdleNames
<1>2. /\ PublicIdQuoted[quote] \in {"public id double quoted", "public id single quoted"}
      /\ SystemIdQuoted[quote] \in {"system id double quoted", "system id single quoted"}
    BY DEF PublicIdQuoted, SystemIdQuoted, Quotes
<1>3. ASSUME NEW quoted, NEW after, DoctypeId(quoted, quote, after)
      PROVE  At(quoted[quote]) /\ Outcome
    BY <1>3, OutcomeIs DEF DoctypeId
<1>4. PICK quoted : At(quoted[quote]) /\ Outcome /\ quoted \in {PublicIdQuoted, SystemIdQuoted}
    BY <1>3
<1>5. quoted[quote] \notin OfText \cup InTags \cup {"data"}
    BY <1>1, <1>2, <1>4
<1> QED BY <1>4, <1>5, IdleText DEF Inv

-----------------------------------------------------------------------------
(* The invariant holds at every step. *)

\* At first no tag has been handed over.
LEMMA TextInit == Init => TextInv
<1> SUFFICES ASSUME Init PROVE TextInv
    OBVIOUS
<1>1. tokens = <<>> /\ turn = "lexer"
    BY DEF Init
<1>2. DOMAIN tokens = {}
    BY <1>1
<1> QED BY <1>1, <1>2 DEF TextInv, RawEnds

\* Every step of the tokenizer and of the parser keeps it,
LEMMA TextHolds ==
    ASSUME Inv, Next
    PROVE  TextInv'
<1>1. CASE BufferedChar \/ FlushTemporary
    BY <1>1, BufferedText, FlushText
<1>2. CASE TextState
  <2>1. CASE \E state \in RawStates : RawEndTagOpen(state) \/ RawEndTagName(state)
      BY <2>1, RawEndTagOpenText, RawEndTagNameText
  <2>2. CASE DataState \/ CharRefInData \/ Rcdata \/ CharRefInRcdata
      BY <2>2, DataText, RcdataText, CharRefText
  <2>3. CASE RawText("rawtext") \/ RawText("script") \/ Plaintext
      BY <2>3, RawTextText, PlaintextText
  <2>4. CASE \/ RawLessThan("rcdata") \/ RawLessThan("rawtext") \/ ScriptLessThan
             \/ EscapedLessThan
      BY <2>4, RawLessThanText, ScriptLessThanText, EscapedLessThanText
  <2>5. CASE \/ EscapedStart \/ EscapedStartDash \/ Escaped \/ EscapedDash
             \/ EscapedDashDash \/ DoubleEscapedStart \/ DoubleEscapedEnd
      BY <2>5, EscapedStartText, EscapedText, ScriptNamesText
  <2>6. CASE \/ DoubleEscaped \/ DoubleEscapedDash \/ DoubleEscapedDashDash
             \/ DoubleEscapedLessThan
      BY <2>6, DoubleEscapedText, DoubleLessThanText
  <2> QED BY <1>2, <2>1, <2>2, <2>3, <2>4, <2>5, <2>6 DEF TextState
<1>3. CASE TagState
    BY <1>3, TagBeginsText, NamesText, BeforeValueText, ValuesText, CharRefInValueText,
       AfterValueText DEF TagState
<1>4. CASE MarkupState
    BY <1>4, CommentsText, DoctypesText, DoctypeIdText DEF MarkupState
<1>5. CASE React
    BY <1>5, ReactText
<1> QED BY <1>1, <1>2, <1>3, <1>4, <1>5 DEF Next

\* and stuttering steps do.
LEMMA TextSound == IInv /\ CoverInv /\ TextInv /\ [Next]_vars => TextInv'
<1> SUFFICES ASSUME IInv, CoverInv, TextInv, [Next]_vars PROVE TextInv'
    OBVIOUS
<1>1. CASE Next
  <2>1. IInv'
      BY <1>1, NextSound
  <2> QED BY <1>1, <2>1, TextHolds DEF Inv
<1>2. CASE UNCHANGED vars
  <2>1. lexer' = lexer /\ input' = input /\ tokens' = tokens /\ turn' = turn
      BY <1>2 DEF vars
  <2>2. RawEnds'
    <3>1. \A i, j : EndedBy(tokens[i], tokens[j]) => EndedBy(tokens[i], tokens[j])'
        BY <2>1, SameReading
    <3> QED BY <2>1, <3>1 DEF TextInv, RawEnds, Switched, IsChar
  <2>3. ASSUME NEW i \in DOMAIN tokens', OpenText(i)' PROVE ReadBy(lexer, tokens[i])'
    <3>1. i \in DOMAIN tokens /\ OpenText(i)
        BY <2>1, <2>3 DEF OpenText, Switched, IsChar
    <3>2. ReadBy(lexer', tokens'[i])
        BY <2>1, <3>1 DEF TextInv
    <3> QED BY <2>1, <3>2, SameReading
  <2>4. (turn = "parser" => tokens # <<>> /\ Handed(tokens[Len(tokens)], lexer))'
      BY <2>1 DEF TextInv, Handed
  <2> QED BY <2>2, <2>3, <2>4 DEF TextInv
<1> QED BY <1>1, <1>2

\* Whatever the document: the text of an element that the parser switched to runs from
\* its start tag to the first tag that comes out of it, which is an end tag of that name;
\* none is passed over but after <!-- <script>, and none ends a script while that is open
\* (handle_rcdata_end_tag_name_state and the script states, with is_appropriate_end_tag
\* and emit_temporary_buffer).
THEOREM TextEndsAtItsTag == Spec => []RawTextEnds
<1>1. Init => IInv /\ OwnInv /\ CoverInv /\ TextInv
    BY InitSound, OwnInit, CoverInit, TextInit
<1>2. IInv /\ OwnInv /\ CoverInv /\ TextInv /\ [Next]_vars
        => (IInv /\ OwnInv /\ CoverInv /\ TextInv)'
    BY NextSound, OwnSound, CoverSound, TextSound
<1>3. IInv /\ OwnInv /\ CoverInv /\ TextInv => RawTextEnds
    BY TextImplies
<1> QED BY <1>1, <1>2, <1>3, PTL DEF Spec
=============================================================================
