------------------------ MODULE HtmlTokenizerProofs ------------------------
(***************************************************************************)
(* What holds of the tokenizer for every document, of any length; each     *)
(* part has an inductive invariant that every handler preserves.           *)
(*                                                                         *)
(* First the asserts.  Beyond them IInv says where the iterator is: what   *)
(* is kept back in the buffer is the input from the mark up to it, so that *)
(* the iterator may go back to the mark and hand the buffer over symbol by *)
(* symbol.  TempInv, TagInv and DoctypeInv say what the buffers hold by    *)
(* state, KeptInv, FlushInv and ExtraInv what is still to come of them.    *)
(*                                                                         *)
(* Then attributes (AttributesAreOwn): in OwnInv each value belongs to the *)
(* attribute whose "=" it follows, and of two attributes of one name the   *)
(* second goes together with its value.                                    *)
(*                                                                         *)
(* Then the text of the tokens (TextIsCovered).  CoverInv says, by the     *)
(* state, what lies between the start of the next token and the iterator:  *)
(* in text nothing but marks that have no token, where something is kept   *)
(* back such marks up to the mark of the buffer and "<" there, in a tag    *)
(* something that begins with "<".  How far a reference in a value carries *)
(* the iterator comes from OwnInv.                                         *)
(***************************************************************************)
EXTENDS HtmlTokenizer, SequenceTheorems, FiniteSetTheorems, WellFoundedInduction, TLAPS

-----------------------------------------------------------------------------
(* The sets of states, written out. *)
LEMMA States ==
    /\ EndTagOpenStates =
        {"end tag open", "rcdata end tag open", "rawtext end tag open",
         "script end tag open", "script escaped end tag open"}
    /\ EndTagNameStates =
        {"rcdata end tag name", "rawtext end tag name", "script end tag name",
         "script escaped end tag name"}
    /\ AttributeStates =
        {"tag name", "before attr name", "attr name", "after attr name", "before attr value",
         "attr value unquoted", "char ref in attr value", "after attr value quoted",
         "self closing", "attr value double quoted", "attr value single quoted"}
    /\ DoctypeStates =
        IdStates \cup
        {"before doctype name", "doctype name", "after doctype name",
         "after doctype system id", "bogus doctype", "public id double quoted",
         "public id single quoted", "system id double quoted", "system id single quoted"}
<1>1. EndTagOpenStates =
        {"end tag open", "rcdata end tag open", "rawtext end tag open",
         "script end tag open", "script escaped end tag open"}
    BY DEF EndTagOpenStates, EndTagOpen, RawStates
<1>2. EndTagNameStates =
        {"rcdata end tag name", "rawtext end tag name", "script end tag name",
         "script escaped end tag name"}
    BY DEF EndTagNameStates, EndTagName, RawStates
<1>3. /\ ValueStates["\""] = "attr value double quoted"
      /\ ValueStates["'"] = "attr value single quoted"
    BY DEF ValueStates, Quotes
<1>4. AttributeStates =
        {"tag name", "before attr name", "attr name", "after attr name", "before attr value",
         "attr value unquoted", "char ref in attr value", "after attr value quoted",
         "self closing", "attr value double quoted", "attr value single quoted"}
    BY <1>3 DEF AttributeStates
<1>5. /\ Range(PublicIdQuoted) = {"public id double quoted", "public id single quoted"}
      /\ Range(SystemIdQuoted) = {"system id double quoted", "system id single quoted"}
    BY DEF Range, PublicIdQuoted, SystemIdQuoted, Quotes
<1>6. DoctypeStates =
        IdStates \cup
        {"before doctype name", "doctype name", "after doctype name",
         "after doctype system id", "bogus doctype", "public id double quoted",
         "public id single quoted", "system id double quoted", "system id single quoted"}
    BY <1>5 DEF DoctypeStates, IdStates
<1> QED BY <1>1, <1>2, <1>4, <1>6

\* The parser switches to a state of text only.
LEMMA TextStates ==
   ASSUME NEW x \in DOMAIN TextOf PROVE TextOf[x] \in {"rcdata", "rawtext", "script", "plaintext"}
BY DEF TextOf

(* A set of natural numbers has a least one. *)
LEMMA LeastNumber ==
    ASSUME NEW S, S \subseteq Nat, S # {}
    PROVE  \E n \in S : \A m \in S : n <= m
<1> DEFINE R == {pair \in Nat \X Nat : pair[1] < pair[2]}
<1>1. IsWellFoundedOn(R, Nat)
    BY NatLessThanWellFounded DEF OpToRel
<1>2. PICK n \in S : \A m \in S : ~ (<<m, n>> \in R)
  <2> HIDE DEF R
  <2> QED BY <1>1, WFMin
<1>3. ASSUME NEW m \in S PROVE n <= m
  <2>1. ~ (<<m, n>> \in R)
      BY <1>2
  <2>2. ~ (m < n)
      BY <2>1
  <2> QED BY <2>2
<1> QED BY <1>3

-----------------------------------------------------------------------------
(* The inductive invariant. *)
LexerFields ==
    {"state", "pos", "again", "mark", "start", "temp", "flush", "extra", "script", "tag",
     "last", "doctype", "foreign"}
TagFields ==
    {"open", "name", "attributes", "buffer", "from", "drop", "isStart", "selfClosing",
     "valueState"}
DoctypeFields == {"open", "name", "public", "system", "quirks"}

(* What is put into the temporary buffer (the provers do not know of a     *)
(* string that it is in STRING).                                           *)
Symbols == STRING \cup {EOF, Replacement, "<", "/", "!", "?", "-", "a", "title"}

IsLexer(l) ==
    /\ DOMAIN l = LexerFields /\ DOMAIN l.tag = TagFields /\ DOMAIN l.doctype = DoctypeFields
    /\ l.temp \in Seq(Symbols) /\ l.pos \in Nat \ {0} /\ l.mark \in Nat \ {0} /\ l.flush \in Nat
    /\ l.again = FALSE \/ l.again = TRUE
    /\ l.tag.open \in BOOLEAN /\ l.tag.isStart \in BOOLEAN /\ l.doctype.open \in BOOLEAN

IsInput == input \in Seq(STRING \ {EOF})

ValueNames  == {"attr value unquoted", "attr value double quoted", "attr value single quoted"}
KeptStates  == OpenStates \cup EndTagOpenStates \cup EndTagNameStates
ClearStates == IdStates \cup {"markup declaration", "after doctype name"}
EndStates   == {"data", "rcdata", "rawtext", "script", "plaintext"}

TempInv(l) ==
    /\ l.state \in OpenStates => l.temp = <<"<">>
    /\ l.state \in EndTagOpenStates => l.temp = <<"<", "/">>
    /\ l.state \in EndTagNameStates => Len(l.temp) >= 2 /\ ~l.tag.isStart
    /\ l.state \in ClearStates => l.temp = <<>>
    /\ l.state = "script escaped lt" => l.script = <<>>
TagInv(l) ==
    /\ l.tag.open <=> l.state \in AttributeStates \cup EndTagNameStates
    /\ l.state = "char ref in attr value" => l.tag.valueState \in ValueNames
DoctypeInv(l) ==
    l.doctype.open =>
        \/ l.state \in DoctypeStates
        \/ l.state \in EndStates /\ CharAt(l.pos) = EOF

(* What the buffer holds is in the input from the mark on. *)
IsFound(l) ==
    \A i \in 1 .. Len(l.temp) :
        CharAt(l.mark + i - 1) = l.temp[i] /\ l.temp[i] # EOF
KeptInv(l) ==
    l.state \in KeptStates => IsFound(l) /\ l.mark + Len(l.temp) = l.pos
FlushInv(l) ==
    l.flush # 0 =>
        /\ l.state \notin KeptStates \cup DoctypeStates \cup AttributeStates
        /\ l.flush \in 1 .. Len(l.temp) /\ l.mark + l.flush - 1 = l.pos
        /\ IsFound(l)

ExtraInv(l) == l.extra # NoChar => l.flush = 0 /\ l.state \in EndStates

Parts(l) ==
    /\ IsLexer(l) /\ l.again = FALSE
    /\ TempInv(l) /\ TagInv(l) /\ DoctypeInv(l) /\ KeptInv(l) /\ FlushInv(l) /\ ExtraInv(l)

(* With nothing kept back, wherever the input goes on from. *)
Rests(l) ==
    /\ IsLexer(l) /\ l.flush = 0 /\ l.state \notin KeptStates
    /\ TempInv(l) /\ TagInv(l) /\ DoctypeInv(l) /\ ExtraInv(l)

IInv ==
    /\ IsInput /\ Parts(lexer)
    /\ turn = "parser" =>
        ~lexer.tag.open /\ (lexer.doctype.open => lexer.state \in EndStates)

\* The invariant implies the asserts (tokenizer.c, see LexerAsserts).
LEMMA InvImpliesAsserts == IInv => LexerAsserts
<1> SUFFICES ASSUME IInv PROVE LexerAsserts
    OBVIOUS
<1> USE DEF IInv, Parts
<1>1. lexer.flush # 0 => lexer.temp[lexer.flush] = c
    BY DEF FlushInv, IsFound, IsLexer, c
<1> QED BY <1>1, States DEF TempInv, TagInv, DoctypeInv, ClearStates, LexerAsserts, c

-----------------------------------------------------------------------------
(* Going on. *)
LEMMA SettledIs ==
    ASSUME NEW l, IsLexer(l)
    PROVE  /\ IsLexer(Settled(l))
           /\ Settled(l).again = FALSE
           /\ Settled(l).state = l.state /\ Settled(l).temp = l.temp /\ Settled(l).mark = l.mark
           /\ Settled(l).script = l.script /\ Settled(l).tag = l.tag
           /\ Settled(l).doctype = l.doctype /\ Settled(l).flush = l.flush
           /\ Settled(l).extra = l.extra
           /\ l.again => Settled(l).pos = l.pos
           /\ ~l.again /\ l.pos > Len(input) => Settled(l).pos = l.pos
           /\ ~l.again /\ l.pos <= Len(input) => Settled(l).pos = l.pos + 1
BY DEF IsLexer, Settled, Advance, LexerFields

\* The iterator is at the end of the input exactly where it is past its last symbol.
LEMMA AtTheEnd ==
    ASSUME IsInput, NEW p \in Nat \ {0}
    PROVE  CharAt(p) = EOF <=> p > Len(input)
BY DEF IsInput, CharAt

\* Where nothing is kept back, the iterator may go on.
LEMMA RestSettled ==
    ASSUME IsInput, NEW l, Rests(l)
    PROVE  Parts(Settled(l))
<1>1. IsLexer(l) /\ l.pos \in Nat \ {0} /\ l.again \in BOOLEAN
    BY DEF Rests, IsLexer
<1>2. CharAt(l.pos) = EOF => Settled(l).pos = l.pos
    BY <1>1, AtTheEnd, SettledIs
<1>3. DoctypeInv(Settled(l))
    BY <1>1, <1>2, SettledIs DEF Rests, DoctypeInv
<1> QED BY <1>1, <1>3, SettledIs
        DEF Rests, Parts, TempInv, TagInv, KeptInv, FlushInv, ExtraInv

(* What the invariant is about. *)
Same(l, m) ==
    /\ IsLexer(m) /\ m.again = l.again /\ m.pos = l.pos /\ m.temp = l.temp /\ m.mark = l.mark
    /\ m.flush = l.flush /\ m.state = l.state /\ m.tag = l.tag /\ m.doctype = l.doctype
    /\ m.extra = l.extra /\ m.script = l.script

\* Lexers that agree on them agree on what the invariant says.
LEMMA SameParts ==
    ASSUME NEW l, NEW m, Parts(l), Same(l, m)
    PROVE  Parts(m)
<1>1. IsLexer(m) /\ m.again = FALSE
    BY DEF Parts, Same
<1>2. TempInv(m) /\ TagInv(m) /\ DoctypeInv(m) /\ ExtraInv(m)
    BY DEF Parts, Same, TempInv, TagInv, DoctypeInv, ExtraInv
<1>3. IsFound(l) => IsFound(m)
    BY DEF Same, IsFound
<1>4. KeptInv(m) /\ FlushInv(m)
    BY <1>3 DEF Parts, Same, KeptInv, FlushInv
<1> QED BY <1>1, <1>2, <1>4 DEF Parts

(* The lexer after a step is sound if the one it is taken from is. *)
LEMMA PartsNext ==
    ASSUME NEW l, Parts(l), lexer' = l, input' = input
    PROVE  Parts(lexer)'
<1>1. IsLexer(lexer)' /\ (lexer.again = FALSE)'
    BY DEF Parts, IsLexer
<1>2. TempInv(lexer)' /\ TagInv(lexer)' /\ ExtraInv(lexer)'
    BY DEF Parts, TempInv, TagInv, ExtraInv
<1>3. DoctypeInv(lexer)'
    BY DEF Parts, DoctypeInv, CharAt
<1>4. IsFound(l) => IsFound(lexer)'
    BY DEF IsFound, CharAt
<1>5. KeptInv(lexer)' /\ FlushInv(lexer)'
    BY <1>4 DEF Parts, KeptInv, FlushInv
<1> QED BY <1>1, <1>2, <1>3, <1>5 DEF Parts

\* A step of the lexer to where nothing is kept back preserves the invariant.
LEMMA NextRests ==
    ASSUME IInv, Lexing, NEW l, Rests(l), NextChar(l)
    PROVE  IInv'
<1>1. Parts(Settled(l))
    BY RestSettled DEF IInv
<1>2. lexer' = Settled(l) /\ input' = input /\ turn' = turn
    BY DEF NextChar
<1>3. Parts(lexer)'
    BY <1>1, <1>2, PartsNext
<1> QED BY <1>2, <1>3 DEF IInv, IsInput, Lexing

\* So does a token, if no tag and no doctype is under way when the parser gets it.
LEMMA EmitIs ==
    ASSUME IInv, Lexing, NEW l, NEW token, Parts(Settled(l)), Emit(l, token),
           ~l.tag.open, l.doctype.open => l.state \in EndStates
    PROVE  IInv'
<1> DEFINE m == [Settled(l) EXCEPT !.start = Settled(l).pos]
<1>1. IsLexer(Settled(l))
    BY DEF Parts
<1>2. Same(Settled(l), m)
  <2> DEFINE k == Settled(l)
  <2>1. IsLexer(k)
      BY <1>1
  <2> HIDE DEF k
  <2>2. Same(k, [k EXCEPT !.start = k.pos])
      BY <2>1 DEF Same, IsLexer, LexerFields
  <2> QED BY <2>2 DEF k
<1>3. Parts(m)
  <2> HIDE DEF m
  <2> QED BY <1>2, SameParts
<1>4. lexer' = m /\ input' = input /\ turn' = "parser"
    BY DEF Emit
<1>5. Parts(lexer)'
    BY <1>3, <1>4, PartsNext
<1>6. Settled(l).tag = l.tag /\ Settled(l).doctype = l.doctype /\ Settled(l).state = l.state
    BY DEF Settled, Advance
<1>7. m.tag = l.tag /\ m.doctype = l.doctype /\ m.state = l.state
    BY <1>2, <1>6 DEF Same
<1> HIDE DEF m
<1> QED BY <1>4, <1>5, <1>7 DEF IInv, IsInput, Lexing

\* The same, with nothing kept back.
LEMMA EmitRests ==
    ASSUME IInv, Lexing, NEW l, NEW token, Rests(l), Emit(l, token),
           ~l.tag.open, l.doctype.open => l.state \in EndStates
    PROVE  IInv'
BY RestSettled, EmitIs DEF IInv

-----------------------------------------------------------------------------
(* The states of text and comments, with no tag and no doctype under way. *)
QuietStates ==
    EndStates \cup
    {"char ref in data", "char ref in rcdata", "script escaped start",
     "script escaped start dash", "script escaped", "script escaped dash",
     "script escaped dash dash", "script double escaped start", "script double escaped",
     "script double escaped dash", "script double escaped dash dash",
     "script double escaped lt", "script double escaped end", "bogus comment", "comment start",
     "comment start dash", "comment", "comment end dash", "comment end", "comment end bang",
     "cdata"}

\* The quiet states are none in which something is kept back or under way.
LEMMA QuietApart ==
    \A state \in QuietStates :
        state \notin KeptStates \cup ClearStates \cup AttributeStates \cup EndTagNameStates
                        \cup DoctypeStates
BY States DEF QuietStates, EndStates, KeptStates, ClearStates, OpenStates, IdStates

Quiet(l) ==
    /\ IsLexer(l) /\ l.state \in QuietStates
    /\ l.flush = 0 /\ ExtraInv(l)
    /\ ~l.tag.open /\ DoctypeInv(l)

\* In them nothing is kept back.
LEMMA QuietRests ==
    ASSUME NEW l, Quiet(l)
    PROVE  Rests(l) /\ ~l.tag.open /\ (l.doctype.open => l.state \in EndStates)
<1>1. l.state \notin OpenStates \cup EndTagOpenStates \cup EndTagNameStates \cup ClearStates
                \cup AttributeStates \cup DoctypeStates \cup KeptStates
    BY QuietApart DEF Quiet, KeptStates
<1>2. l.state # "script escaped lt" /\ l.state # "char ref in attr value"
    BY <1>1, States DEF OpenStates
<1> QED BY <1>1, <1>2 DEF Rests, Quiet, TempInv, TagInv, DoctypeInv

\* A step to one of them preserves the invariant,
LEMMA QuietNext ==
    ASSUME IInv, Lexing, NEW l, Quiet(l), NextChar(l)
    PROVE  IInv'
BY QuietRests, NextRests

\* with a token too,
LEMMA QuietEmit ==
    ASSUME IInv, Lexing, NEW l, NEW token, Quiet(l), Emit(l, token)
    PROVE  IInv'
BY QuietRests, EmitRests

\* a character for instance.
LEMMA QuietChar ==
    ASSUME IInv, Lexing, NEW l, NEW s, Quiet(l), EmitChar(l, s)
    PROVE  IInv'
BY QuietEmit DEF EmitChar

\* What the handlers of text and comments do to the lexer leaves it quiet.
LEMMA QuietChanges ==
    ASSUME NEW l, Quiet(l)
    PROVE  /\ Quiet(Again(l)) /\ Quiet(ClearTemporary(l))
           /\ \A ss \in Seq(Symbols) : Quiet(AppendTemporary(l, ss))
           /\ \A ss : Quiet([l EXCEPT !.script = ss])
<1> USE DEF Quiet, IsLexer, LexerFields, ExtraInv, DoctypeInv
<1>1. Quiet(Again(l))
    BY DEF Again
<1>2. Quiet(ClearTemporary(l))
    BY DEF ClearTemporary
<1>3. ASSUME NEW ss \in Seq(Symbols) PROVE Quiet(AppendTemporary(l, ss))
    BY DEF AppendTemporary
<1>4. ASSUME NEW ss PROVE Quiet([l EXCEPT !.script = ss])
    OBVIOUS
<1> QED BY <1>1, <1>2, <1>3, <1>4

\* A comment is handed over.
LEMMA QuietComment ==
    ASSUME IInv, Lexing, NEW l, Quiet(l), EmitComment(l)
    PROVE  IInv'
BY QuietEmit, QuietChanges DEF EmitComment

(* From a state without tag and doctype to one of text or comments. *)
LEMMA ToQuiet ==
    ASSUME IInv, NEW s, At(s), s \notin AttributeStates \cup EndTagNameStates \cup DoctypeStates,
           NEW t \in QuietStates, s \in EndStates => c # EOF
    PROVE  Quiet(To(t))
<1>1. /\ IsLexer(lexer) /\ lexer.state = s /\ lexer.extra = NoChar /\ lexer.flush = 0
      /\ ~lexer.tag.open
    BY DEF IInv, Parts, At, TagInv
<1>2. ~lexer.doctype.open
    BY <1>1 DEF IInv, Parts, DoctypeInv, c
<1> QED BY <1>1, <1>2 DEF To, Quiet, IsLexer, LexerFields, ExtraInv, DoctypeInv

\* In a quiet state the lexer is quiet.
LEMMA StayQuiet ==
    ASSUME IInv, NEW s \in QuietStates, At(s)
    PROVE  Quiet(lexer)
<1>1. lexer.state = s /\ lexer.flush = 0
    BY DEF At
<1>2. s \notin AttributeStates \cup EndTagNameStates
    BY QuietApart
<1> QED BY <1>1, <1>2 DEF IInv, Parts, Quiet, TagInv

-----------------------------------------------------------------------------
(* The temporary buffer goes out. *)
LEMMA CharIsSymbol ==
    ASSUME IsInput, NEW p \in Nat \ {0}
    PROVE  CharAt(p) \in Symbols /\ Lower(CharAt(p)) \in Symbols /\ Unnulled(CharAt(p)) \in Symbols
<1>1. CASE p <= Len(input)
  <2>1. input[p] \in STRING \ {EOF}
      BY <1>1, ElementOfSeq DEF IsInput
  <2> QED BY <1>1, <2>1 DEF CharAt, Symbols, Lower, Unnulled
<1>2. CASE ~(p <= Len(input))
    BY <1>2 DEF CharAt, Symbols, Lower, Unnulled
<1> QED BY <1>1, <1>2

\* A symbol alone is a sequence of symbols.
LEMMA OneSymbol ==
    ASSUME NEW x \in Symbols
    PROVE  <<x>> \in Seq(Symbols)
OBVIOUS

\* Two symbols, put together.
LEMMA Pair ==
    ASSUME NEW a, NEW b
    PROVE  <<a>> \o <<b>> = <<a, b>>
<1> DEFINE S == {a, b}
<1>1. <<a>> \in Seq(S) /\ <<b>> \in Seq(S) /\ <<a, b>> \in Seq(S)
    OBVIOUS
<1>2. <<a>> \o <<b>> \in Seq(S)
    BY <1>1, ConcatProperties
<1>3. Len(<<a>> \o <<b>>) = 2 /\ Len(<<a, b>>) = 2
    BY <1>1, ConcatProperties
<1>4. \A i \in 1 .. 2 : (<<a>> \o <<b>>)[i] = <<a, b>>[i]
    BY <1>1, ConcatProperties
<1> QED BY <1>1, <1>2, <1>3, <1>4, SeqEqual

\* One symbol of the buffer goes out: it is the one at the iterator, and so is the next.
LEMMA FlushGoesOn ==
    ASSUME IInv, Lexing, NEW l, NEW i \in 1 .. Len(l.temp), IsLexer(l), IsFound(l),
           l.pos = l.mark + i - 1, l.extra = NoChar, ~l.tag.open, ~l.doctype.open,
           l.state \notin KeptStates \cup DoctypeStates \cup AttributeStates \cup ClearStates,
           FlushFrom(l, i)
    PROVE  IInv'
<1> DEFINE m == [l EXCEPT !.again = FALSE, !.flush = IF i < Len(l.temp) THEN i + 1 ELSE 0]
<1>1. /\ IsLexer(m) /\ m.again = FALSE /\ m.pos = l.pos /\ m.mark = l.mark /\ m.temp = l.temp
      /\ m.state = l.state /\ m.tag = l.tag /\ m.doctype = l.doctype /\ m.extra = l.extra
      /\ m.flush = IF i < Len(l.temp) THEN i + 1 ELSE 0
    BY DEF IsLexer, LexerFields
<1>2. Emit(m, [type |-> CharType(l.temp[i]), char |-> l.temp[i]])
    BY DEF FlushFrom, EmitChar
<1> HIDE DEF m
<1>3. l.pos <= Len(input)
  <2>1. CharAt(l.pos) # EOF
      BY DEF IsFound
  <2>2. l.pos \in Nat \ {0} /\ Len(input) \in Nat
      BY DEF IsLexer, IInv, IsInput
  <2> QED BY <2>1, <2>2, AtTheEnd DEF IInv
<1>4. Settled(m).pos = m.pos + 1
    BY <1>1, <1>3, SettledIs
<1>5. Parts(Settled(m))
  <2>1. /\ IsLexer(Settled(m)) /\ Settled(m).again = FALSE /\ Settled(m).state = l.state
        /\ Settled(m).temp = l.temp /\ Settled(m).mark = l.mark /\ Settled(m).flush = m.flush
        /\ Settled(m).tag = l.tag /\ Settled(m).doctype = l.doctype
        /\ Settled(m).extra = NoChar
      BY <1>1, SettledIs
  <2>2. /\ l.state \notin OpenStates \cup EndTagOpenStates \cup EndTagNameStates
        /\ l.state # "script escaped lt" /\ l.state # "char ref in attr value"
      BY States DEF KeptStates, OpenStates
  <2>3. TempInv(Settled(m)) /\ TagInv(Settled(m)) /\ DoctypeInv(Settled(m))
      BY <2>1, <2>2 DEF TempInv, TagInv, DoctypeInv
  <2>4. IsFound(Settled(m))
      BY <2>1 DEF IsFound
  <2>5. FlushInv(Settled(m))
    <3>1. CASE i < Len(l.temp)
      <4>1. i \in Nat /\ Len(l.temp) \in Nat /\ l.mark \in Nat
          BY LenProperties DEF IsLexer
      <4>2. m.flush = i + 1 /\ i + 1 \in 1 .. Len(l.temp) /\ l.mark + (i + 1) - 1 = m.pos + 1
          BY <1>1, <3>1, <4>1
      <4> QED BY <1>4, <2>1, <2>2, <2>4, <4>2 DEF FlushInv
    <3>2. CASE ~(i < Len(l.temp))
      <4>1. m.flush = 0
          BY <1>1, <3>2
      <4> QED BY <2>1, <4>1 DEF FlushInv
    <3> QED BY <3>1, <3>2
  <2> QED BY <2>1, <2>3, <2>5 DEF Parts, KeptInv, ExtraInv
<1> QED BY <1>1, <1>2, <1>5, EmitIs

\* The iterator goes back to the mark, where the buffer begins (emit_temporary_buffer).
LEMMA KeptGoesOut ==
    ASSUME IInv, Lexing, NEW l, IsLexer(l), IsFound(l), l.temp # <<>>,
           l.extra = NoChar, ~l.tag.open, ~l.doctype.open,
           l.state \notin KeptStates \cup DoctypeStates \cup AttributeStates \cup ClearStates,
           EmitTemporary(l)
    PROVE  IInv'
<1> DEFINE m == [l EXCEPT !.pos = l.mark]
<1>1. /\ IsLexer(m) /\ m.pos = l.mark /\ m.mark = l.mark /\ m.temp = l.temp
      /\ m.state = l.state /\ m.tag = l.tag /\ m.doctype = l.doctype /\ m.extra = l.extra
    BY DEF IsLexer, LexerFields
<1>2. FlushFrom(m, 1)
    BY DEF EmitTemporary
<1> HIDE DEF m
<1>3. 1 \in 1 .. Len(m.temp)
    BY <1>1, EmptySeq, LenProperties DEF IsLexer
<1>4. IsFound(m) /\ m.pos = m.mark + 1 - 1
    BY <1>1 DEF IsFound, IsLexer
<1> QED BY <1>1, <1>2, <1>3, <1>4, FlushGoesOn

\* The next symbol of the buffer goes out (maybe_emit_from_temporary_buffer).
LEMMA FlushTemporarySound ==
    ASSUME IInv, FlushTemporary
    PROVE  IInv'
<1>1. /\ Lexing /\ lexer.extra = NoChar /\ lexer.flush # 0 /\ FlushFrom(lexer, lexer.flush)
    BY DEF FlushTemporary
<1>2. /\ IsLexer(lexer) /\ IsFound(lexer) /\ lexer.flush \in 1 .. Len(lexer.temp)
      /\ lexer.pos = lexer.mark + lexer.flush - 1
      /\ lexer.state \notin KeptStates \cup DoctypeStates \cup AttributeStates
    BY <1>1 DEF IInv, Parts, FlushInv
<1>3. lexer.state \notin ClearStates
  <2>1. CASE lexer.state \in {"markup declaration", "after doctype name"}
    <3>1. lexer.temp = <<>>
        BY <2>1 DEF IInv, Parts, TempInv, ClearStates
    <3> QED BY <1>2, <3>1
  <2>2. IdStates \subseteq DoctypeStates
      BY DEF DoctypeStates
  <2> QED BY <1>2, <2>1, <2>2 DEF ClearStates
<1>4. CharAt(lexer.pos) # EOF
    BY <1>2 DEF IsFound
<1>5. ~lexer.tag.open /\ ~lexer.doctype.open
    BY <1>2, <1>4 DEF IInv, Parts, TagInv, DoctypeInv, KeptStates
<1> QED BY <1>1, <1>2, <1>3, <1>5, FlushGoesOn

\* The second code point of a reference goes out (gumbo_lex).
LEMMA BufferedCharSound ==
    ASSUME IInv, BufferedChar
    PROVE  IInv'
<1> DEFINE m == [lexer EXCEPT !.extra = NoChar]
<1>1. /\ Lexing /\ lexer.extra # NoChar /\ EmitChar(Again(m), lexer.extra)
    BY DEF BufferedChar
<1>2. lexer.flush = 0 /\ lexer.state \in EndStates /\ lexer.state \in QuietStates
    BY <1>1 DEF IInv, Parts, ExtraInv, QuietStates
<1>3. ~lexer.tag.open
    BY <1>2, QuietApart DEF IInv, Parts, TagInv
<1>4. Quiet(m)
    BY <1>2, <1>3 DEF IInv, Parts, Quiet, IsLexer, LexerFields, ExtraInv, DoctypeInv
<1> HIDE DEF m
<1> QED BY <1>1, <1>4, QuietChanges, QuietChar

\* The parser switches the state, with nothing kept back (gumbo_parse_with_options).
LEMMA ReactSound ==
    ASSUME IInv, React
    PROVE  IInv'
<1>1. PICK state \in Switches(Last(tokens)), foreign \in Foreigns(Last(tokens)) :
        lexer' = [lexer EXCEPT !.state = state, !.foreign = foreign]
    BY DEF React
<1>2. state = lexer.state \/ state \in EndStates
    BY <1>1, TextStates DEF Switches, EndStates
<1> DEFINE m == [lexer EXCEPT !.state = state, !.foreign = foreign]
<1>3. /\ IsLexer(lexer) /\ ~lexer.tag.open
      /\ lexer.doctype.open => lexer.state \in EndStates
      /\ turn' = "lexer" /\ input' = input
    BY DEF IInv, Parts, React
<1>4. /\ IsLexer(m) /\ m.again = FALSE /\ m.pos = lexer.pos /\ m.mark = lexer.mark
      /\ m.temp = lexer.temp /\ m.state = state /\ m.tag = lexer.tag
      /\ m.doctype = lexer.doctype /\ m.extra = lexer.extra /\ m.flush = lexer.flush
      /\ m.script = lexer.script
    BY <1>3 DEF IInv, Parts, IsLexer, LexerFields
<1> HIDE DEF m
<1>5. Parts(m)
  <2>1. CASE state = lexer.state
      BY <1>4, <2>1, SameParts DEF IInv, Parts, Same
  <2>2. CASE state \in EndStates
    <3>1. /\ state \notin KeptStates \cup ClearStates \cup AttributeStates \cup EndTagNameStates
                        \cup DoctypeStates
          /\ state \notin OpenStates \cup EndTagOpenStates /\ state # "script escaped lt"
          /\ state # "char ref in attr value"
        BY <2>2, QuietApart, States DEF QuietStates, KeptStates, EndStates, OpenStates
    <3>2. m.doctype.open => CharAt(m.pos) = EOF
        BY <1>3, <1>4, QuietApart DEF IInv, Parts, DoctypeInv, QuietStates
    <3>3. TempInv(m) /\ TagInv(m) /\ DoctypeInv(m)
        BY <1>3, <1>4, <2>2, <3>1, <3>2 DEF TempInv, TagInv, DoctypeInv
    <3>4. KeptInv(m) /\ ExtraInv(m)
        BY <1>4, <2>2, <3>1 DEF IInv, Parts, KeptInv, ExtraInv
    <3>5. IsFound(lexer) => IsFound(m)
        BY <1>4 DEF IsFound
    <3>6. FlushInv(m)
        BY <1>4, <3>1, <3>5 DEF IInv, Parts, FlushInv
    <3> QED BY <1>4, <3>3, <3>4, <3>6 DEF Parts
  <2> QED BY <1>2, <2>1, <2>2
<1>6. Parts(lexer)'
    BY <1>1, <1>3, <1>5, PartsNext DEF m
<1> QED BY <1>3, <1>6 DEF IInv, IsInput

-----------------------------------------------------------------------------
(* Character references. *)
LEMMA EndIs ==
    ASSUME IsInput, NEW p \in Nat \ {0}, NEW set, EOF \notin set, p <= Len(input) + 1
    PROVE  EndOf(p, set) \in Nat \ {0}
<1> DEFINE Stops == {q \in p .. Len(input) + 1 : CharAt(q) \notin set}
<1>1. Stops \subseteq Nat /\ Len(input) + 1 \in Stops
    BY AtTheEnd DEF IsInput
<1>2. PICK q \in Stops : \A r \in Stops : q <= r
    BY <1>1, LeastNumber
<1>3. \A r \in p .. q - 1 : CharAt(r) \in set
    BY <1>1, <1>2 DEF IsInput
<1>4. \E e \in p .. Len(input) + 1 :
          /\ CharAt(e) \notin set
          /\ \A r \in p .. e - 1 : CharAt(r) \in set
    BY <1>2, <1>3
<1>5. EndOf(p, set) \in p .. Len(input) + 1
    BY <1>4 DEF EndOf
<1> QED BY <1>5 DEF IsInput

\* A character reference ends in the input or right after it.
LEMMA ReferenceEnds ==
    ASSUME IsInput, NEW p \in Nat \ {0}, NEW allowed, NEW inAttribute
    PROVE  ConsumeCharRef(p, allowed, inAttribute).pos \in Nat \ {0}
<1>1. NoReference(p).pos \in Nat \ {0}
    BY DEF NoReference
<1>2. NamedReference(p, inAttribute).pos \in Nat \ {0}
  <2> DEFINE Reference(first, second, pos) == [first |-> first, second |-> second, pos |-> pos]
  <2>1. \/ NamedReference(p, inAttribute) = NoReference(p)
        \/ NamedReference(p, inAttribute) = Reference("u", "v", p + 3)
        \/ NamedReference(p, inAttribute) = Reference("<", NoChar, p + 3)
        \/ NamedReference(p, inAttribute) = Reference("<", NoChar, p + 2)
      BY Zenon DEF NamedReference
  <2> QED BY <1>1, <2>1
<1>3. CASE CharAt(p + 1) = "#"
  <2>1. Len(input) \in Nat
      BY DEF IsInput
  <2>2. p + 1 <= Len(input)
      BY <1>3, <2>1 DEF CharAt, EOF
  <2>3. CharAt(p + 2) = "x" => p + 2 <= Len(input)
      BY <2>1 DEF CharAt, EOF
  <2>4. NumberAt(p) \in Nat \ {0} /\ NumberAt(p) <= Len(input) + 1
      BY <2>1, <2>2, <2>3 DEF NumberAt, Hexadecimal
  <2>5. EOF \notin DigitsAt(p)
      BY DEF DigitsAt, Digits, EOF
  <2>6. EndOf(NumberAt(p), DigitsAt(p)) \in Nat \ {0}
      BY <2>4, <2>5, EndIs
  <2>7. NumericReference(p).pos \in Nat \ {0}
    <3> DEFINE from == NumberAt(p)
               to   == EndOf(from, DigitsAt(p))
               found(end) == [first |-> CodePoint(from, to), second |-> NoChar, pos |-> end]
    <3>1. \/ NumericReference(p) = NoReference(p)
          \/ NumericReference(p) = found(IF CharAt(to) = ";" THEN to + 1 ELSE to)
        BY Zenon DEF NumericReference
    <3>2. \A end : found(end).pos = end
        OBVIOUS
    <3>3. found(IF CharAt(to) = ";" THEN to + 1 ELSE to).pos \in {to + 1, to}
        BY <3>2
    <3>4. to \in Nat \ {0} /\ to + 1 \in Nat \ {0}
        BY <2>6
    <3> HIDE DEF found, to
    <3> QED BY <1>1, <3>1, <3>3, <3>4
  <2> QED BY <1>1, <1>3, <2>7 DEF ConsumeCharRef
<1>4. CASE CharAt(p + 1) # "#"
    BY <1>1, <1>2, <1>4 DEF ConsumeCharRef
<1> QED BY <1>3, <1>4

\* A character reference in text (emit_char_ref).
LEMMA CharRefSound ==
    ASSUME IInv, Lexing, NEW l, Quiet(l), l.extra = NoChar, ~l.doctype.open, l.state \in EndStates,
           EmitCharRef(l)
    PROVE  IInv'
<1> DEFINE ref  == ConsumeCharRef(l.pos, " ", FALSE)
           at   == [l EXCEPT !.mark = l.pos]
           past == [at EXCEPT !.pos = ref.pos, !.extra = ref.second]
<1>1. ref.pos \in Nat \ {0}
    BY ReferenceEnds DEF IInv, Quiet, IsLexer
<1>2. Quiet(at)
    BY DEF Quiet, IsLexer, LexerFields, ExtraInv, DoctypeInv
<1>3. Quiet(past)
  <2> HIDE DEF ref
  <2> QED BY <1>1 DEF Quiet, IsLexer, LexerFields, ExtraInv, DoctypeInv
<1>4. \/ EmitChar(at, "&")
      \/ EmitChar(Again(past), ref.first)
    BY DEF EmitCharRef
<1> HIDE DEF at, past
<1> QED BY <1>2, <1>3, <1>4, QuietChar, QuietChanges

-----------------------------------------------------------------------------
(* Text that needs no look ahead. *)
LEMMA PlainText ==
    ASSUME IInv, NEW s \in EndStates, At(s)
    PROVE  /\ Lexing /\ Quiet(lexer)
           /\ c # EOF => \A t \in QuietStates : Quiet(To(t))
<1>1. s \in QuietStates
    BY DEF QuietStates
<1>2. s \notin AttributeStates \cup EndTagNameStates \cup DoctypeStates
    BY <1>1, QuietApart
<1> QED BY <1>1, <1>2, StayQuiet, ToQuiet DEF At

\* Data and RCDATA, but for "<".
LEMMA DataStateSound ==
    ASSUME IInv, At("data") \/ At("rcdata"), DataState \/ Rcdata, c # "<"
    PROVE  IInv'
<1>1. Lexing /\ Quiet(lexer)
    BY PlainText DEF EndStates
<1>2. ASSUME NEW t \in {"char ref in data", "char ref in rcdata"}, c = "&", NextChar(Again(To(t)))
      PROVE  IInv'
  <2>1. Quiet(To(t))
      BY <1>2, PlainText DEF EndStates, QuietStates, EOF
  <2> QED BY <1>1, <1>2, <2>1, QuietChanges, QuietNext
<1> QED BY <1>1, <1>2, QuietChar DEF DataState, Rcdata

-----------------------------------------------------------------------------
(* Text with a look ahead. *)
LEMMA KeptNext ==
    ASSUME IInv, Lexing, NEW l, NextChar(l), IsLexer(l), l.state \in KeptStates,
           l.flush = 0, l.extra = NoChar, l.again = FALSE, ~l.doctype.open,
           TempInv(l), TagInv(l), IsFound(l), l.mark + Len(l.temp) - 1 = l.pos,
           CharAt(l.pos) # EOF
    PROVE  IInv'
<1>1. /\ IsLexer(Settled(l)) /\ Settled(l).again = FALSE /\ Settled(l).state = l.state
      /\ Settled(l).temp = l.temp /\ Settled(l).mark = l.mark /\ Settled(l).flush = l.flush
      /\ Settled(l).tag = l.tag /\ Settled(l).doctype = l.doctype
      /\ Settled(l).extra = l.extra /\ Settled(l).script = l.script
    BY SettledIs
<1>2. l.pos \in Nat \ {0} /\ Len(input) \in Nat
    BY DEF IsLexer, IInv, IsInput
<1>3. Settled(l).pos = l.pos + 1
  <2>1. l.pos <= Len(input)
      BY <1>2, AtTheEnd DEF IInv
  <2> QED BY <1>2, <2>1, SettledIs
<1>4. KeptInv(Settled(l))
    BY <1>1, <1>2, <1>3 DEF KeptInv, IsFound, IsLexer
<1>5. Parts(Settled(l))
    BY <1>1, <1>4 DEF Parts, TempInv, TagInv, DoctypeInv, FlushInv, ExtraInv
<1>6. lexer' = Settled(l) /\ input' = input /\ turn' = turn
    BY DEF NextChar
<1>7. Parts(lexer)'
    BY <1>5, <1>6, PartsNext
<1> QED BY <1>6, <1>7 DEF IInv, IsInput, Lexing

\* "<" is kept back, and the mark is at it.
LEMMA OpenedSound ==
    ASSUME IInv, NEW s, At(s), s \notin AttributeStates \cup EndTagNameStates \cup DoctypeStates,
           c = "<", NEW t \in OpenStates, NextChar(Opened(t))
    PROVE  IInv'
<1> DEFINE l == Opened(t)
<1>1. /\ Lexing /\ IsLexer(lexer) /\ lexer.state = s /\ lexer.extra = NoChar /\ lexer.flush = 0
      /\ lexer.again = FALSE /\ ~lexer.tag.open
    BY DEF IInv, Parts, At, TagInv
<1>2. ~lexer.doctype.open
    BY <1>1 DEF IInv, Parts, DoctypeInv, c, EOF
<1>3. /\ IsLexer(l) /\ l.state = t /\ l.temp = <<"<">> /\ l.mark = lexer.pos /\ l.pos = lexer.pos
      /\ l.again = FALSE /\ l.tag = lexer.tag /\ l.doctype = lexer.doctype
      /\ l.extra = NoChar /\ l.flush = 0 /\ l.script = <<>>
  <2>1. <<>> \o <<"<">> = <<"<">> /\ <<"<">> \in Seq(Symbols)
      BY ConcatEmptySeq DEF Symbols
  <2> DEFINE k == ClearTemporary(To(t))
  <2>2. /\ IsLexer(k) /\ k.state = t /\ k.temp = <<>> /\ k.mark = lexer.pos /\ k.pos = lexer.pos
        /\ k.again = FALSE /\ k.tag = lexer.tag /\ k.doctype = lexer.doctype
        /\ k.extra = NoChar /\ k.flush = 0 /\ k.script = <<>>
      BY <1>1 DEF ClearTemporary, To, IsLexer, LexerFields
  <2>3. l = [k EXCEPT !.temp = k.temp \o <<"<">>]
      BY DEF Opened, AppendTemporary
  <2>4. l = [k EXCEPT !.temp = <<"<">>]
      BY <2>1, <2>2, <2>3
  <2> HIDE DEF k, l
  <2> QED BY <2>1, <2>2, <2>4 DEF IsLexer, LexerFields
<1>4. /\ t \notin EndTagOpenStates \cup EndTagNameStates \cup ClearStates \cup AttributeStates
      /\ t # "char ref in attr value" /\ t \in KeptStates
    BY States DEF OpenStates, ClearStates, IdStates, KeptStates
<1>5. TempInv(l) /\ TagInv(l)
    BY <1>1, <1>3, <1>4 DEF TempInv, TagInv
<1>6. IsFound(l) /\ l.mark + Len(l.temp) - 1 = l.pos /\ CharAt(l.pos) # EOF
    BY <1>1, <1>3 DEF IsFound, IsLexer, c, EOF
<1>7. NextChar(l)
    OBVIOUS
<1> HIDE DEF l
<1> QED BY <1>1, <1>2, <1>3, <1>4, <1>5, <1>6, <1>7, KeptNext

\* The states of the kinds of raw text are of the sets their names say.
LEMMA RawNames ==
    \A state \in RawStates :
        /\ LessThan[state] \in OpenStates /\ LessThan[state] # "tag open"
        /\ EndTagOpen[state] \in EndTagOpenStates /\ EndTagOpen[state] # "end tag open"
        /\ EndTagName[state] \in EndTagNameStates
        /\ state \in QuietStates
BY DEF RawStates, LessThan, EndTagOpen, EndTagName, OpenStates, EndTagOpenStates,
       EndTagNameStates, QuietStates, EndStates

(* What is known where something is kept back. *)
LEMMA KeptHere ==
    ASSUME IInv, NEW s \in KeptStates, At(s)
    PROVE  /\ Lexing /\ IsLexer(lexer) /\ lexer.state = s /\ lexer.temp # <<>> /\ IsFound(lexer)
           /\ lexer.mark + Len(lexer.temp) = lexer.pos
           /\ lexer.flush = 0 /\ lexer.extra = NoChar /\ lexer.again = FALSE
           /\ ~lexer.doctype.open
           /\ lexer.tag.open <=> s \in EndTagNameStates
<1>1. /\ Lexing /\ IsLexer(lexer) /\ lexer.state = s /\ lexer.flush = 0 /\ lexer.extra = NoChar
      /\ lexer.again = FALSE
    BY DEF At, IInv, Parts
<1>2. /\ IsFound(lexer) /\ lexer.mark + Len(lexer.temp) = lexer.pos
    BY <1>1 DEF IInv, Parts, KeptInv
<1>3. s \notin DoctypeStates \cup EndStates \cup AttributeStates
    BY States DEF KeptStates, OpenStates, EndStates, IdStates
<1>4. ~lexer.doctype.open /\ (lexer.tag.open <=> s \in EndTagNameStates)
    BY <1>1, <1>3 DEF IInv, Parts, DoctypeInv, TagInv
<1>5. lexer.temp # <<>>
  <2>1. \/ lexer.temp = <<"<">> \/ lexer.temp = <<"<", "/">> \/ Len(lexer.temp) >= 2
      BY <1>1 DEF IInv, Parts, TempInv, KeptStates
  <2>2. Len(<<"<">>) = 1 /\ Len(<<"<", "/">>) = 2 /\ Len(<<>>) = 0
      OBVIOUS
  <2> QED BY <2>1, <2>2
<1> QED BY <1>1, <1>2, <1>4, <1>5

\* What was kept back turns out to be text.
LEMMA KeptToText ==
    ASSUME IInv, NEW s \in KeptStates, At(s), s \notin EndTagNameStates, NEW t \in QuietStates,
           EmitTemporary(To(t)) \/ EmitTemporary(Again(To(t)))
    PROVE  IInv'
<1>1. ASSUME NEW l, l = To(t) \/ l = Again(To(t)), EmitTemporary(l)
      PROVE  IInv'
  <2>1. /\ IsLexer(l) /\ l.temp = lexer.temp /\ l.mark = lexer.mark /\ l.tag = lexer.tag
        /\ l.doctype = lexer.doctype /\ l.extra = NoChar /\ l.state = t
      BY <1>1, KeptHere DEF To, Again, IsLexer, LexerFields
  <2>2. IsFound(l)
      BY <2>1, KeptHere DEF IsFound
  <2> QED BY <1>1, <2>1, <2>2, KeptHere, QuietApart, KeptGoesOut
<1> QED BY <1>1

(* One more symbol is kept back. *)
Keeps(l) ==
    IsLexer(l) /\ l.temp = lexer.temp /\ l.mark = lexer.mark /\ l.pos = lexer.pos
Grown(l, m) ==
    /\ IsLexer(m) /\ IsFound(m) /\ m.mark + Len(m.temp) - 1 = m.pos /\ m.pos = lexer.pos
    /\ m.temp = l.temp \o <<c>> /\ m.temp # <<>> /\ Len(m.temp) = Len(lexer.temp) + 1
    /\ m.mark = l.mark /\ m.state = l.state /\ m.again = l.again /\ m.flush = l.flush
    /\ m.extra = l.extra /\ m.tag = l.tag /\ m.doctype = l.doctype /\ m.script = l.script

\* What is kept back with one more symbol is still what the input has from the mark on.
LEMMA AppendKept ==
    ASSUME IInv, NEW s \in KeptStates, At(s), c # EOF, NEW l, Keeps(l)
    PROVE  Grown(l, AppendTemporary(l, <<c>>))
<1> DEFINE m == AppendTemporary(l, <<c>>)
<1> USE DEF Keeps
<1>1. c \in Symbols /\ lexer.temp \in Seq(Symbols)
    BY CharIsSymbol, KeptHere DEF IInv, IsLexer, c
<1>2. l.temp \o <<c>> \in Seq(Symbols) /\ Len(l.temp \o <<c>>) = Len(l.temp) + 1
    BY <1>1
<1>3. /\ IsLexer(m) /\ m.temp = l.temp \o <<c>>
      /\ m.pos = l.pos /\ m.mark = l.mark /\ m.state = l.state /\ m.again = l.again
      /\ m.flush = l.flush /\ m.extra = l.extra /\ m.tag = l.tag /\ m.doctype = l.doctype
      /\ m.script = l.script
    BY <1>2 DEF AppendTemporary, IsLexer, LexerFields
<1> HIDE DEF m
<1>4. m.mark + Len(m.temp) - 1 = m.pos /\ Len(m.temp) = Len(lexer.temp) + 1
  <2>1. lexer.mark + Len(lexer.temp) = lexer.pos /\ lexer.mark \in Nat
      BY KeptHere DEF IsLexer
  <2>2. Len(lexer.temp) \in Nat
      BY <1>1, LenProperties
  <2> QED BY <1>2, <1>3, <2>1, <2>2
<1>5. ASSUME NEW i \in 1 .. Len(m.temp)
      PROVE  CharAt(m.mark + i - 1) = m.temp[i] /\ m.temp[i] # EOF
  <2>1. CASE i <= Len(lexer.temp)
    <3>1. i \in 1 .. Len(lexer.temp)
        BY <1>1, <1>4, <2>1
    <3>2. m.temp[i] = lexer.temp[i]
        BY <1>1, <1>3, <3>1
    <3>3. CharAt(lexer.mark + i - 1) = lexer.temp[i] /\ lexer.temp[i] # EOF
        BY <3>1, KeptHere DEF IsFound
    <3> QED BY <1>3, <3>2, <3>3
  <2>2. CASE i = Len(lexer.temp) + 1
    <3>1. m.temp[i] = c
        BY <1>1, <1>3, <2>2
    <3>2. m.mark + i - 1 = lexer.pos
      <4>1. lexer.mark + Len(lexer.temp) = lexer.pos /\ lexer.mark \in Nat
          BY KeptHere DEF IsLexer
      <4> QED BY <1>1, <1>3, <2>2, <4>1
    <3> QED BY <3>1, <3>2 DEF c
  <2> QED BY <1>1, <1>4, <2>1, <2>2
<1>6. IsFound(m)
    BY <1>5 DEF IsFound
<1> QED BY <1>2, <1>3, <1>4, <1>6, <1>1 DEF Grown, m

-----------------------------------------------------------------------------
(* The handlers, one after the other. *)
LEMMA EndTagOpens ==
    ASSUME IInv, NEW s \in OpenStates, At(s), c = "/", NEW t \in EndTagOpenStates,
           NextChar(AppendTemporary(To(t), <<"/">>))
    PROVE  IInv'
<1> DEFINE l == To(t)
           m == AppendTemporary(l, <<"/">>)
<1>1. s \in KeptStates /\ s \notin EndTagNameStates
    BY States DEF KeptStates, OpenStates
<1>2. t \in KeptStates
    BY DEF KeptStates
<1>3. NextChar(m) /\ c # EOF
    BY DEF EOF
<1>4. /\ IsLexer(l) /\ l.temp = lexer.temp /\ l.mark = lexer.mark /\ l.pos = lexer.pos
      /\ l.state = t /\ l.again = FALSE /\ l.flush = 0 /\ l.extra = NoChar
      /\ l.tag = lexer.tag /\ l.doctype = lexer.doctype
    BY <1>1, KeptHere DEF To, IsLexer, LexerFields
<1>11. m = AppendTemporary(l, <<c>>)
    OBVIOUS
<1> HIDE DEF l, m
<1>5. /\ IsLexer(m) /\ IsFound(m) /\ m.mark + Len(m.temp) - 1 = m.pos /\ m.pos = lexer.pos
      /\ m.temp = l.temp \o <<c>> /\ m.state = t
      /\ m.again = FALSE /\ m.flush = 0 /\ m.extra = NoChar
      /\ m.tag = lexer.tag /\ m.doctype = lexer.doctype
  <2>1. Grown(l, m)
      BY <1>1, <1>3, <1>4, <1>11, AppendKept DEF Keeps
  <2> QED BY <1>4, <2>1 DEF Grown
<1>6. m.temp = <<"<", "/">>
  <2>1. lexer.temp = <<"<">>
      BY DEF IInv, Parts, TempInv, At
  <2> QED BY <1>4, <1>5, <2>1, Pair
<1>7. TempInv(m) /\ TagInv(m)
  <2>1. /\ t \notin OpenStates \cup EndTagNameStates \cup ClearStates \cup AttributeStates
        /\ t # "script escaped lt" /\ t # "char ref in attr value"
      BY States DEF OpenStates, ClearStates, IdStates
  <2>2. ~m.tag.open
      BY <1>1, <1>5, KeptHere
  <2> QED BY <1>5, <1>6, <2>1, <2>2 DEF TempInv, TagInv
<1>8. Lexing /\ ~m.doctype.open /\ CharAt(m.pos) # EOF
    BY <1>1, <1>3, <1>5, KeptHere DEF c
<1> QED BY <1>2, <1>3, <1>5, <1>7, <1>8, KeptNext

\* "</" in raw text.
LEMMA ToEndTagSound ==
    ASSUME IInv, NEW state \in RawStates, At(LessThan[state]), ToEndTag(state)
    PROVE  IInv'
BY RawNames, EndTagOpens DEF ToEndTag

\* Something is kept back in all of these states.
LEMMA OpenApart ==
    /\ \A s \in OpenStates \cup EndTagOpenStates : s \in KeptStates /\ s \notin EndTagNameStates
    /\ \A s \in EndTagNameStates : s \in KeptStates
BY States DEF KeptStates, OpenStates

\* "<" in RCDATA and RAWTEXT.
LEMMA RawLessThanSound ==
    ASSUME IInv, NEW state \in RawStates, RawLessThan(state)
    PROVE  IInv'
<1>1. At(LessThan[state])
    BY DEF RawLessThan
<1>2. CASE ToEndTag(state)
    BY <1>1, <1>2, ToEndTagSound
<1>3. CASE EmitTemporary(Again(To(state)))
    BY <1>1, <1>3, RawNames, OpenApart, KeptToText
<1> QED BY <1>2, <1>3 DEF RawLessThan

(* The symbol goes out after what was kept back. *)
LEMMA GrownGoesOut ==
    ASSUME IInv, NEW s \in KeptStates, At(s), s \notin EndTagNameStates, NEW t \in QuietStates,
           c # EOF, NEW m, EmitTemporary(m), Grown(To(t), m)
    PROVE  IInv'
<1>1. /\ To(t).tag = lexer.tag /\ To(t).doctype = lexer.doctype /\ To(t).extra = NoChar
      /\ To(t).state = t
    BY KeptHere DEF To, IsLexer, LexerFields
<1>2. /\ IsLexer(m) /\ IsFound(m) /\ m.temp # <<>> /\ m.state = t /\ m.extra = NoChar
      /\ ~m.tag.open /\ ~m.doctype.open
    BY <1>1, KeptHere DEF Grown
<1> QED BY <1>2, KeptHere, QuietApart, KeptGoesOut

\* A change of the state keeps the rest.
LEMMA ToKeeps ==
    ASSUME IInv, NEW s \in KeptStates, At(s), NEW t
    PROVE  Keeps(To(t))
BY KeptHere DEF Keeps, To, IsLexer, LexerFields

\* "<" in a script.
LEMMA ScriptLessThanSound ==
    ASSUME IInv, ScriptLessThan
    PROVE  IInv'
<1>1. /\ At("script lt") /\ "script lt" \in KeptStates /\ "script lt" \notin EndTagNameStates
      /\ "script" \in RawStates /\ LessThan["script"] = "script lt"
    BY OpenApart DEF ScriptLessThan, OpenStates, LessThan, RawStates
<1>2. CASE ToEndTag("script")
    BY <1>1, <1>2, ToEndTagSound
<1>3. CASE c = "!" /\ EmitTemporary(AppendTemporary(To("script escaped start"), <<"!">>))
  <2>1. c # EOF /\ EmitTemporary(AppendTemporary(To("script escaped start"), <<c>>))
      BY <1>3 DEF EOF
  <2>2. Grown(To("script escaped start"), AppendTemporary(To("script escaped start"), <<c>>))
      BY <1>1, <2>1, ToKeeps, AppendKept
  <2> QED BY <1>1, <2>1, <2>2, GrownGoesOut DEF QuietStates
<1>4. CASE EmitTemporary(Again(To("script")))
    BY <1>1, <1>4, KeptToText DEF QuietStates, EndStates
<1> QED BY <1>2, <1>3, <1>4 DEF ScriptLessThan

\* "<" in an escaped script.
LEMMA EscapedLessThanSound ==
    ASSUME IInv, EscapedLessThan
    PROVE  IInv'
<1>1. /\ At("script escaped lt") /\ "script escaped lt" \in KeptStates
      /\ "script escaped lt" \notin EndTagNameStates
      /\ "script escaped" \in RawStates /\ LessThan["script escaped"] = "script escaped lt"
    BY OpenApart DEF EscapedLessThan, OpenStates, LessThan, RawStates
<1>2. CASE ToEndTag("script escaped")
    BY <1>1, <1>2, ToEndTagSound
<1>3. CASE /\ c \in Letters
           /\ EmitTemporary([AppendTemporary(To("script double escaped start"), <<c>>)
                                EXCEPT !.script = <<Lower(c)>>])
  <2> DEFINE l == AppendTemporary(To("script double escaped start"), <<c>>)
             m == [l EXCEPT !.script = <<Lower(c)>>]
  <2>1. c # EOF /\ EmitTemporary(m)
      BY <1>3 DEF EOF, Letters
  <2>2. Grown(To("script double escaped start"), l)
      BY <1>1, <2>1, ToKeeps, AppendKept
  <2>3. /\ To("script double escaped start").tag = lexer.tag
        /\ To("script double escaped start").doctype = lexer.doctype
        /\ To("script double escaped start").extra = NoChar
        /\ To("script double escaped start").state = "script double escaped start"
      BY <1>1, KeptHere DEF To, IsLexer, LexerFields
  <2>4. /\ IsLexer(l) /\ IsFound(l) /\ l.temp # <<>> /\ l.state = "script double escaped start"
        /\ l.extra = NoChar /\ ~l.tag.open /\ ~l.doctype.open
      BY <1>1, <2>2, <2>3, KeptHere DEF Grown
  <2> HIDE DEF l
  <2>5. /\ IsLexer(m) /\ IsFound(m) /\ m.temp # <<>> /\ m.state = "script double escaped start"
        /\ m.extra = NoChar /\ ~m.tag.open /\ ~m.doctype.open
      BY <2>4 DEF IsLexer, LexerFields, IsFound
  <2> HIDE DEF m
  <2> QED BY <1>1, <2>1, <2>5, KeptHere, QuietApart, KeptGoesOut DEF QuietStates
<1>4. CASE EmitTemporary(To("script escaped"))
    BY <1>1, <1>4, KeptToText DEF QuietStates
<1> QED BY <1>2, <1>3, <1>4 DEF EscapedLessThan

-----------------------------------------------------------------------------
(* A tag under way. *)
InTag(l) ==
    /\ IsLexer(l) /\ l.flush = 0 /\ l.extra = NoChar /\ ~l.doctype.open /\ l.tag.open
    /\ l.state = "char ref in attr value" => l.tag.valueState \in ValueNames

\* The states of a tag are none in which something is kept back.
LEMMA AttributeApart ==
    \A s \in AttributeStates :
        /\ s \notin KeptStates \cup ClearStates \cup DoctypeStates \cup EndStates
        /\ s \notin OpenStates \cup EndTagOpenStates \cup EndTagNameStates
        /\ s # "script escaped lt"
BY States DEF KeptStates, ClearStates, OpenStates, IdStates, EndStates

\* Nothing is kept back while a tag is read.
LEMMA InTagRests ==
    ASSUME NEW l, InTag(l), l.state \in AttributeStates
    PROVE  Rests(l)
BY AttributeApart DEF InTag, Rests, TempInv, TagInv, DoctypeInv, ExtraInv

\* A step from one part of a tag to the next preserves the invariant.
LEMMA InTagNext ==
    ASSUME IInv, Lexing, NEW l, InTag(l), l.state \in AttributeStates, NextChar(l)
    PROVE  IInv'
BY InTagRests, NextRests

\* Without its tag the lexer is quiet.
LEMMA Abandoned ==
    ASSUME NEW l, InTag(l), l.state = "data"
    PROVE  /\ Quiet(AbandonTag(l))
           /\ \A name : Quiet([AbandonTag(l) EXCEPT !.last = name])
<1>1. Quiet(AbandonTag(l))
    BY DEF InTag, AbandonTag, Quiet, IsLexer, LexerFields, TagFields, ExtraInv, DoctypeInv,
           QuietStates, EndStates
<1> HIDE DEF AbandonTag
<1>2. ASSUME NEW name PROVE Quiet([AbandonTag(l) EXCEPT !.last = name])
    BY <1>1 DEF Quiet, IsLexer, LexerFields, ExtraInv, DoctypeInv
<1> QED BY <1>1, <1>2

\* The tag is handed over (emit_current_tag).
LEMMA InTagEmit ==
    ASSUME IInv, Lexing, NEW l, InTag(l), l.state = "data", EmitTag(l)
    PROVE  IInv'
<1> DEFINE m == [AbandonTag(l) EXCEPT !.last = IF l.tag.isStart THEN l.tag.name ELSE @]
<1>1. PICK token : Emit(m, token)
    BY DEF EmitTag
<1>2. m = [AbandonTag(l) EXCEPT
                !.last = IF l.tag.isStart THEN l.tag.name ELSE AbandonTag(l).last]
    OBVIOUS
<1>3. Quiet(m)
  <2> HIDE DEF m
  <2> QED BY <1>2, Abandoned
<1> HIDE DEF m
<1> QED BY <1>1, <1>3, QuietEmit

(* What the handlers do to a tag leaves it under way, in the same state. *)
Kin(l, m) == InTag(m) /\ m.state = l.state

\* What the handlers do to a tag leaves it under way.
LEMMA InTagChanges ==
    ASSUME NEW l, InTag(l)
    PROVE  /\ Kin(l, Again(l)) /\ Kin(l, FinishTagName(l))
           /\ Kin(l, FinishAttributeName(l)) /\ Kin(l, FinishAttributeValue(l))
           /\ \A s, fromHere : Kin(l, AppendTag(l, s, fromHere))
           /\ \A s : Kin(l, AppendTag(l, s, TRUE))
           /\ \A ss \in Seq(Symbols) : Kin(l, AppendTemporary(l, ss))
           /\ \A p : Kin(l, [l EXCEPT !.tag.from = p])
           /\ Kin(l, [l EXCEPT !.tag.selfClosing = TRUE])
<1> USE DEF Kin, InTag, IsLexer, LexerFields, TagFields
<1>1. Kin(l, Again(l))
    BY DEF Again
<1>2. ASSUME NEW m, Kin(l, m) PROVE Kin(l, ReinitializeTagBuffer(m))
    BY <1>2 DEF ReinitializeTagBuffer
<1>3. Kin(l, FinishTagName(l))
  <2>1. Kin(l, [l EXCEPT !.tag.name = l.tag.buffer])
      OBVIOUS
  <2> QED BY <1>2, <2>1 DEF FinishTagName
<1>4. \A x : Kin(l, [l EXCEPT !.tag.drop = x])
    OBVIOUS
<1>5. Kin(l, FinishAttributeName(l))
  <2>1. ASSUME NEW x, NEW y PROVE Kin(l, [l EXCEPT !.tag.drop = x, !.tag.attributes = y])
    <3> DEFINE k == [l EXCEPT !.tag.drop = x]
    <3>1. Kin(l, k)
        BY <1>4
    <3> HIDE DEF k
    <3>2. Kin(l, [k EXCEPT !.tag.attributes = y])
        BY <3>1
    <3> QED BY <3>2 DEF k
  <2> DEFINE entry == [name |-> l.tag.buffer, from |-> l.tag.from,
                       value |-> <<>>, valueFrom |-> l.tag.from]
             new == Append(l.tag.attributes, entry)
  <2>2. Kin(l, [l EXCEPT !.tag.drop = FALSE, !.tag.attributes = new])
      BY <2>1
  <2>3. [l EXCEPT !.tag.drop = FALSE, !.tag.attributes = Append(@, entry)]
            = [l EXCEPT !.tag.drop = FALSE, !.tag.attributes = new]
      OBVIOUS
  <2> HIDE DEF new, Kin, InTag
  <2>4. Kin(l, IF HasAttribute(l, l.tag.buffer)
               THEN [l EXCEPT !.tag.drop = TRUE]
               ELSE [l EXCEPT !.tag.drop = FALSE, !.tag.attributes = Append(@, entry)])
      BY <1>4, <2>2, <2>3
  <2> QED BY <1>2, <2>4 DEF FinishAttributeName
<1>6. Kin(l, FinishAttributeValue(l))
  <2>1. \A n, x : Kin(l, [l EXCEPT !.tag.attributes[n] = x])
      OBVIOUS
  <2> DEFINE n == Len(l.tag.attributes)
             x == [l.tag.attributes[n] EXCEPT !.value = l.tag.buffer, !.valueFrom = l.tag.from]
  <2>2. Kin(l, [l EXCEPT !.tag.attributes[n] = x])
      BY <2>1
  <2> HIDE DEF Kin, InTag, x
  <2>3. Kin(l, IF l.tag.drop THEN [l EXCEPT !.tag.drop = FALSE]
               ELSE [l EXCEPT !.tag.attributes[n] = x])
      BY <1>4, <2>2
  <2> QED BY <1>2, <2>3 DEF FinishAttributeValue, x
<1>7. ASSUME NEW s, NEW fromHere PROVE Kin(l, AppendTag(l, s, fromHere))
    BY DEF AppendTag
<1>11. ASSUME NEW s PROVE Kin(l, AppendTag(l, s, TRUE))
    BY DEF AppendTag
<1>8. ASSUME NEW ss \in Seq(Symbols) PROVE Kin(l, AppendTemporary(l, ss))
  <2>1. l.temp \o ss \in Seq(Symbols)
      BY ConcatProperties
  <2> QED BY <2>1 DEF AppendTemporary
<1>9. ASSUME NEW p PROVE Kin(l, [l EXCEPT !.tag.from = p])
    OBVIOUS
<1>10. Kin(l, [l EXCEPT !.tag.selfClosing = TRUE])
    OBVIOUS
<1> QED BY <1>1, <1>3, <1>5, <1>6, <1>7, <1>8, <1>9, <1>10, <1>11

\* Where a tag is under way, it is so in any other of its states.
LEMMA ToInTag ==
    ASSUME IInv, NEW s \in AttributeStates \cup EndTagNameStates, At(s)
    PROVE  /\ Lexing /\ InTag(lexer) /\ lexer.state = s
           /\ \A t : t # "char ref in attr value" => InTag(To(t)) /\ To(t).state = t
<1>1. /\ Lexing /\ IsLexer(lexer) /\ lexer.state = s /\ lexer.flush = 0 /\ lexer.extra = NoChar
      /\ lexer.tag.open
      /\ s = "char ref in attr value" => lexer.tag.valueState \in ValueNames
    BY DEF At, IInv, Parts, TagInv
<1>2. ~lexer.doctype.open
  <2>1. s \notin DoctypeStates \cup EndStates
      BY AttributeApart, States DEF EndStates, IdStates
  <2> QED BY <1>1, <2>1 DEF IInv, Parts, DoctypeInv
<1> QED BY <1>1, <1>2 DEF InTag, To, IsLexer, LexerFields

\* A symbol is appended to the buffer of the tag.
LEMMA AppendTagNext ==
    ASSUME IInv, Lexing, NEW l, InTag(l), l.state \in AttributeStates, NEW s,
           NEW fromHere \in BOOLEAN, NextChar(AppendTag(l, s, fromHere))
    PROVE  IInv'
<1>1. Kin(l, AppendTag(l, s, fromHere))
    BY InTagChanges
<1> HIDE DEF AppendTag
<1> QED BY <1>1, InTagNext DEF Kin

\* The end of a tag name.
LEMMA TagEnded ==
    ASSUME IInv, NEW s \in AttributeStates \cup EndTagNameStates, At(s), NameEnded
    PROVE  IInv'
<1>1. ASSUME NEW t \in {"before attr name", "self closing", "data"}
      PROVE  InTag(FinishTagName(To(t))) /\ FinishTagName(To(t)).state = t
    BY ToInTag, InTagChanges DEF Kin
<1>2. ASSUME NEW t \in {"before attr name", "self closing"}, NextChar(FinishTagName(To(t)))
      PROVE  IInv'
  <2>1. t \in AttributeStates
      BY States
  <2> QED BY <1>1, <1>2, <2>1, ToInTag, InTagNext
<1>3. CASE EmitTag(FinishTagName(To("data")))
    BY <1>1, <1>3, ToInTag, InTagEmit
<1> QED BY <1>2, <1>3 DEF NameEnded

\* The end of the input inside a tag.
LEMMA TagDropped ==
    ASSUME IInv, NEW s \in AttributeStates \cup EndTagNameStates, At(s), TagCutOff \/ ValueCutOff
    PROVE  IInv'
<1>1. Quiet(AbandonTag(To("data"))) /\ Lexing
    BY ToInTag, Abandoned
<1> QED BY <1>1, QuietChanges, QuietNext DEF TagCutOff, ValueCutOff

\* A tag name.
LEMMA TagNameSound ==
    ASSUME IInv, TagName
    PROVE  IInv'
<1>1. At("tag name") /\ "tag name" \in AttributeStates
    BY States DEF TagName
<1>2. CASE NextChar(AppendTag(lexer, Lower(Unnulled(c)), TRUE))
    BY <1>1, <1>2, ToInTag, AppendTagNext
<1> QED BY <1>1, <1>2, TagEnded, TagDropped DEF TagName

\* What may follow where an attribute can.
LEMMA AttributeFollowsSound ==
    ASSUME IInv, NEW s \in AttributeStates, At(s), AttributeFollows
    PROVE  IInv'
<1>1. "self closing" \in AttributeStates
    BY States
<1> QED BY <1>1, ToInTag, InTagNext, InTagEmit DEF AttributeFollows

\* An attribute name begins.
LEMMA AttributeBeginsSound ==
    ASSUME IInv, NEW s \in AttributeStates, At(s), NEW none, AttributeBegins(none)
    PROVE  IInv'
<1>1. "attr name" \in AttributeStates
    BY States
<1>2. <<Replacement>> \in Seq(Symbols)
    BY DEF Symbols
<1>3. Lexing /\ InTag(To("attr name")) /\ To("attr name").state = "attr name"
    BY ToInTag
<1>4. CASE NextChar(AppendTemporary(To("attr name"), <<Replacement>>))
    BY <1>1, <1>2, <1>3, <1>4, InTagChanges, InTagNext DEF Kin
<1>5. CASE NextChar(AppendTag(To("attr name"), Lower(c), TRUE))
    BY <1>1, <1>3, <1>5, InTagChanges, InTagNext DEF Kin
<1> QED BY <1>4, <1>5 DEF AttributeBegins

\* Before an attribute name.
LEMMA BeforeAttrNameSound ==
    ASSUME IInv, BeforeAttrName
    PROVE  IInv'
<1>1. At("before attr name") /\ "before attr name" \in AttributeStates
    BY States DEF BeforeAttrName
<1>2. CASE NextChar(lexer)
    BY <1>1, <1>2, ToInTag, InTagNext
<1> QED BY <1>1, <1>2, AttributeFollowsSound, TagDropped, AttributeBeginsSound DEF BeforeAttrName

\* An attribute name.
LEMMA AttrNameSound ==
    ASSUME IInv, AttrName
    PROVE  IInv'
<1>1. /\ At("attr name")
      /\ {"attr name", "after attr name", "self closing", "before attr value"}
            \subseteq AttributeStates
    BY States DEF AttrName
<1>2. ASSUME NEW t \in {"after attr name", "self closing", "before attr value", "data"}
      PROVE  InTag(FinishAttributeName(To(t))) /\ FinishAttributeName(To(t)).state = t
    BY <1>1, ToInTag, InTagChanges DEF Kin
<1>3. ASSUME NEW t \in {"after attr name", "self closing", "before attr value"},
             NextChar(FinishAttributeName(To(t)))
      PROVE  IInv'
    BY <1>1, <1>2, <1>3, ToInTag, InTagNext
<1>4. CASE EmitTag(FinishAttributeName(To("data")))
    BY <1>1, <1>2, <1>4, ToInTag, InTagEmit
<1>5. CASE NextChar(AppendTag(lexer, Lower(Unnulled(c)), TRUE))
    BY <1>1, <1>5, ToInTag, AppendTagNext
<1> QED BY <1>1, <1>3, <1>4, <1>5, TagDropped DEF AttrName

\* After an attribute name.
LEMMA AfterAttrNameSound ==
    ASSUME IInv, AfterAttrName
    PROVE  IInv'
<1>1. /\ At("after attr name")
      /\ "after attr name" \in AttributeStates /\ "before attr value" \in AttributeStates
    BY States DEF AfterAttrName
<1>2. CASE NextChar(lexer) \/ NextChar(To("before attr value"))
    BY <1>1, <1>2, ToInTag, InTagNext
<1> QED BY <1>1, <1>2, AttributeFollowsSound, TagDropped, AttributeBeginsSound DEF AfterAttrName

\* The states of attribute values are states of a tag.
LEMMA ValueNamesAre ==
    /\ \A quote \in Quotes : ValueStates[quote] \in ValueNames
    /\ ValueNames \subseteq AttributeStates
    /\ "char ref in attr value" \notin ValueNames
BY States DEF ValueStates, Quotes, ValueNames

\* Before an attribute value.
LEMMA BeforeAttrValueSound ==
    ASSUME IInv, BeforeAttrValue
    PROVE  IInv'
<1>1. /\ At("before attr value") /\ "before attr value" \in AttributeStates
      /\ "attr value unquoted" \in AttributeStates
    BY States DEF BeforeAttrValue
<1>2. CASE NextChar(lexer)
    BY <1>1, <1>2, ToInTag, InTagNext
<1>3. CASE c \in Quotes /\ NextChar([To(ValueStates[c]) EXCEPT !.tag.from = lexer.pos])
  <2> DEFINE l == To(ValueStates[c])
             m == [l EXCEPT !.tag.from = lexer.pos]
  <2>1. ValueStates[c] \in AttributeStates /\ ValueStates[c] # "char ref in attr value"
      BY <1>3, ValueNamesAre
  <2>2. InTag(l) /\ l.state = ValueStates[c] /\ Lexing
      BY <1>1, <2>1, ToInTag
  <2> HIDE DEF l
  <2>3. Kin(l, m)
      BY <2>2, InTagChanges
  <2>4. NextChar(m)
      BY <1>3 DEF l
  <2> HIDE DEF m
  <2> QED BY <2>1, <2>2, <2>3, <2>4, InTagNext DEF Kin
<1>4. CASE NextChar(Again(To("attr value unquoted")))
  <2>1. /\ Kin(To("attr value unquoted"), Again(To("attr value unquoted"))) /\ Lexing
        /\ To("attr value unquoted").state = "attr value unquoted"
      BY <1>1, ToInTag, InTagChanges
  <2> QED BY <1>1, <1>4, <2>1, InTagNext DEF Kin
<1>5. CASE EmitTag(To("data"))
    BY <1>1, <1>5, ToInTag, InTagEmit
<1>6. CASE NextChar(AppendTag(To("attr value unquoted"), Unnulled(c), TRUE))
  <2>1. /\ Lexing /\ InTag(To("attr value unquoted"))
        /\ To("attr value unquoted").state = "attr value unquoted"
      BY <1>1, ToInTag
  <2> QED BY <1>1, <1>6, <2>1, AppendTagNext
<1> QED BY <1>1, <1>2, <1>3, <1>4, <1>5, <1>6, TagDropped DEF BeforeAttrValue

\* A reference in a value: the state to come back to is one of the values.
LEMMA ToCharRefSound ==
    ASSUME IInv, NEW s \in ValueNames, At(s), ToCharRef
    PROVE  IInv'
<1> DEFINE l == [To("char ref in attr value") EXCEPT !.tag.valueState = lexer.state]
<1>1. /\ Lexing /\ InTag(lexer) /\ lexer.state = s
    BY ValueNamesAre, ToInTag
<1>2. InTag(l) /\ l.state = "char ref in attr value"
    BY <1>1 DEF To, InTag, IsLexer, LexerFields, TagFields
<1>3. NextChar(Again(l))
    BY DEF ToCharRef
<1>4. "char ref in attr value" \in AttributeStates
    BY States
<1> HIDE DEF l
<1>5. Kin(l, Again(l))
    BY <1>2, InTagChanges
<1> QED BY <1>1, <1>2, <1>3, <1>4, <1>5, InTagNext DEF Kin

\* An attribute value in quotes.
LEMMA AttrValueQuotedSound ==
    ASSUME IInv, NEW quote \in Quotes, AttrValueQuoted(quote)
    PROVE  IInv'
<1>1. /\ At(ValueStates[quote]) /\ ValueStates[quote] \in ValueNames
      /\ ValueStates[quote] \in AttributeStates /\ "after attr value quoted" \in AttributeStates
    BY States, ValueNamesAre DEF AttrValueQuoted
<1>2. CASE NextChar(To("after attr value quoted"))
    BY <1>1, <1>2, ToInTag, InTagNext
<1>3. CASE NextChar(AppendTag(lexer, Unnulled(c), FALSE))
    BY <1>1, <1>3, ToInTag, AppendTagNext
<1> QED BY <1>1, <1>2, <1>3, ToCharRefSound, TagDropped DEF AttrValueQuoted

\* An attribute value without.
LEMMA AttrValueUnquotedSound ==
    ASSUME IInv, AttrValueUnquoted
    PROVE  IInv'
<1>1. /\ At("attr value unquoted") /\ "attr value unquoted" \in ValueNames
      /\ "attr value unquoted" \in AttributeStates /\ "before attr name" \in AttributeStates
    BY States DEF AttrValueUnquoted, ValueNames
<1>2. ASSUME NEW t \in {"before attr name", "data"}
      PROVE  InTag(FinishAttributeValue(To(t))) /\ FinishAttributeValue(To(t)).state = t
    BY <1>1, ToInTag, InTagChanges DEF Kin
<1>3. CASE NextChar(FinishAttributeValue(To("before attr name")))
    BY <1>1, <1>2, <1>3, ToInTag, InTagNext
<1>4. CASE EmitTag(FinishAttributeValue(To("data")))
    BY <1>1, <1>2, <1>4, ToInTag, InTagEmit
<1>5. CASE NextChar(AppendTag(lexer, Unnulled(c), TRUE))
    BY <1>1, <1>5, ToInTag, AppendTagNext
<1> QED BY <1>1, <1>3, <1>4, <1>5, ToCharRefSound, TagDropped DEF AttrValueUnquoted

\* A character reference in a value: back to the state it came from.
LEMMA CharRefInAttrValueSound ==
    ASSUME IInv, CharRefInAttrValue
    PROVE  IInv'
<1> DEFINE state == lexer.tag.valueState
           unquoted == state = "attr value unquoted"
           ref  == ConsumeCharRef(lexer.pos, QuoteOf[state], TRUE)
           back == [To(state) EXCEPT !.mark = lexer.pos, !.pos = ref.pos]
           first == AppendTag(back, ref.first, unquoted)
           second == AppendSecond(first, ref.second, unquoted)
<1>1. /\ At("char ref in attr value") /\ "char ref in attr value" \in AttributeStates
    BY States DEF CharRefInAttrValue
<1>2. Lexing /\ InTag(lexer) /\ lexer.state = "char ref in attr value"
    BY <1>1, ToInTag
<1>3. /\ state \in ValueNames /\ state \in AttributeStates
      /\ state # "char ref in attr value" /\ unquoted \in BOOLEAN
    BY <1>2, ValueNamesAre DEF InTag
<1>4. ref.pos \in Nat \ {0} /\ lexer.pos \in Nat \ {0}
    BY <1>2, ReferenceEnds DEF IInv, InTag, IsLexer
<1>5. InTag(back) /\ back.state = state
  <2>1. InTag(To(state)) /\ To(state).state = state
      BY <1>1, <1>3, ToInTag
  <2> DEFINE l == To(state)
  <2> HIDE DEF l, ref, state
  <2>2. back = [l EXCEPT !.mark = lexer.pos, !.pos = ref.pos]
      BY DEF l
  <2>3. InTag(l) /\ l.state = state
      BY <2>1 DEF l
  <2> HIDE DEF back
  <2> QED BY <1>3, <1>4, <2>2, <2>3 DEF InTag, IsLexer, LexerFields
<1>6. \/ NextChar(AppendTag(back, "&", unquoted))
      \/ NextChar(Again(second))
    BY DEF CharRefInAttrValue
<1> HIDE DEF back, unquoted, state, ref
<1>7. CASE NextChar(AppendTag(back, "&", unquoted))
    BY <1>2, <1>3, <1>5, <1>7, AppendTagNext
<1>8. CASE NextChar(Again(second))
  <2>1. Kin(back, first)
      BY <1>3, <1>5, InTagChanges
  <2>2. InTag(first) /\ first.state = state
      BY <1>5, <2>1 DEF Kin
  <2> HIDE DEF first
  <2>3. second = first \/ second = AppendTag(first, ref.second, unquoted)
      BY DEF AppendSecond
  <2>6. Kin(first, AppendTag(first, ref.second, unquoted))
      BY <2>2, InTagChanges
  <2>4. InTag(second) /\ second.state = state
    <3> DEFINE m == AppendTag(first, ref.second, unquoted)
    <3>1. InTag(m) /\ m.state = state
        BY <2>2, <2>6 DEF Kin
    <3> HIDE DEF m
    <3> QED BY <2>2, <2>3, <3>1 DEF m
  <2> HIDE DEF second
  <2>5. Kin(second, Again(second))
      BY <2>4, InTagChanges
  <2> QED BY <1>2, <1>3, <1>8, <2>4, <2>5, InTagNext DEF Kin
<1> QED BY <1>6, <1>7, <1>8

\* After the closing quote.
LEMMA AfterAttrValueQuotedSound ==
    ASSUME IInv, AfterAttrValueQuoted
    PROVE  IInv'
<1>1. /\ At("after attr value quoted")
      /\ {"after attr value quoted", "before attr name", "self closing"} \subseteq AttributeStates
    BY States DEF AfterAttrValueQuoted
<1>2. ASSUME NEW t \in {"before attr name", "self closing", "data"}
      PROVE  InTag(FinishAttributeValue(To(t))) /\ FinishAttributeValue(To(t)).state = t
    BY <1>1, ToInTag, InTagChanges DEF Kin
<1>3. ASSUME NEW t \in {"before attr name", "self closing"}, NextChar(FinishAttributeValue(To(t)))
      PROVE  IInv'
    BY <1>1, <1>2, <1>3, ToInTag, InTagNext
<1>4. CASE EmitTag(FinishAttributeValue(To("data")))
    BY <1>1, <1>2, <1>4, ToInTag, InTagEmit
<1>5. CASE NextChar(Again(AbandonTag(FinishAttributeValue(To("data")))))
    BY <1>1, <1>2, <1>5, ToInTag, Abandoned, QuietChanges, QuietNext
<1>6. CASE NextChar(Again(FinishAttributeValue(To("before attr name"))))
  <2> DEFINE l == FinishAttributeValue(To("before attr name"))
  <2>1. InTag(l) /\ l.state = "before attr name" /\ Lexing /\ NextChar(Again(l))
      BY <1>1, <1>2, <1>6, ToInTag
  <2> HIDE DEF l
  <2>2. Kin(l, Again(l))
      BY <2>1, InTagChanges
  <2> QED BY <1>1, <2>1, <2>2, InTagNext DEF Kin
<1> QED BY <1>3, <1>4, <1>5, <1>6 DEF AfterAttrValueQuoted

\* After "/" in a tag.
LEMMA SelfClosingSound ==
    ASSUME IInv, SelfClosing
    PROVE  IInv'
<1>1. /\ At("self closing") /\ {"self closing", "before attr name"} \subseteq AttributeStates
    BY States DEF SelfClosing
<1>2. Lexing /\ \A t \in {"data", "before attr name"} : InTag(To(t)) /\ To(t).state = t
    BY <1>1, ToInTag
<1>3. CASE EmitTag([To("data") EXCEPT !.tag.selfClosing = TRUE])
  <2> DEFINE l == To("data")
             m == [l EXCEPT !.tag.selfClosing = TRUE]
  <2>1. InTag(l) /\ l.state = "data"
      BY <1>2
  <2> HIDE DEF l
  <2>2. Kin(l, m)
      BY <2>1, InTagChanges
  <2>3. EmitTag(m)
      BY <1>3 DEF l
  <2> HIDE DEF m
  <2> QED BY <1>2, <2>1, <2>2, <2>3, InTagEmit DEF Kin
<1>4. CASE NextChar(Again(To("before attr name")))
  <2>1. Kin(To("before attr name"), Again(To("before attr name")))
      BY <1>2, InTagChanges
  <2> QED BY <1>1, <1>2, <1>4, <2>1, InTagNext DEF Kin
<1> QED BY <1>1, <1>3, <1>4, TagDropped DEF SelfClosing

-----------------------------------------------------------------------------
(* Where a tag begins. *)
\* In these states no tag and no doctype is under way.
LEMMA KeptApart ==
    \A s \in OpenStates \cup EndTagOpenStates :
        /\ s \in KeptStates
        /\ s \notin AttributeStates \cup EndTagNameStates \cup DoctypeStates \cup EndStates
BY States DEF KeptStates, OpenStates, IdStates, EndStates

\* A tag begins: with nothing kept back any more.
LEMMA TagBegins ==
    ASSUME IInv, NEW s \in OpenStates \cup EndTagOpenStates, At(s), c \in Letters,
           NEW isStart \in BOOLEAN, NextChar(StartNewTag(To("tag name"), isStart))
    PROVE  IInv'
<1> DEFINE l == StartNewTag(To("tag name"), isStart)
<1>3. /\ Lexing /\ IsLexer(lexer) /\ lexer.flush = 0 /\ lexer.extra = NoChar
      /\ ~lexer.doctype.open
    BY KeptApart, KeptHere
<1>1. InTag(l) /\ l.state = "tag name" /\ Lexing
    BY <1>3, ZenonT(40) DEF StartNewTag, To, InTag, IsLexer, LexerFields, TagFields
<1>2. "tag name" \in AttributeStates
    BY States
<1> HIDE DEF l
<1> QED BY <1>1, <1>2, InTagNext DEF l

\* What was kept back is dropped.
LEMMA KeptToQuiet ==
    ASSUME IInv, NEW s \in OpenStates \cup EndTagOpenStates, At(s), NEW t \in QuietStates
    PROVE  Lexing /\ Quiet(To(t))
BY KeptApart, ToQuiet DEF At

\* "<" in data.
LEMMA TagOpenSound ==
    ASSUME IInv, TagOpen
    PROVE  IInv'
<1>1. At("tag open") /\ "tag open" \in OpenStates
    BY DEF TagOpen, OpenStates
<1>2. CASE NextChar(ClearTemporary(To("markup declaration")))
  <2> DEFINE l == ClearTemporary(To("markup declaration"))
  <2>1. /\ Lexing /\ IsLexer(l) /\ l.state = "markup declaration" /\ l.flush = 0
        /\ l.extra = NoChar /\ l.temp = <<>> /\ ~l.tag.open /\ ~l.doctype.open
    <3>1. /\ Lexing /\ IsLexer(lexer) /\ lexer.flush = 0 /\ lexer.extra = NoChar
          /\ ~lexer.tag.open /\ ~lexer.doctype.open
        BY <1>1, KeptApart, KeptHere
    <3> QED BY <3>1 DEF ClearTemporary, To, IsLexer, LexerFields
  <2>2. /\ "markup declaration" \notin KeptStates \cup AttributeStates \cup DoctypeStates
        /\ "markup declaration" \notin OpenStates \cup EndTagOpenStates \cup EndTagNameStates
      BY States DEF KeptStates, OpenStates, IdStates
  <2> HIDE DEF l
  <2>3. Rests(l)
      BY <2>1, <2>2 DEF Rests, TempInv, TagInv, DoctypeInv, ExtraInv
  <2> QED BY <1>2, <2>1, <2>3, NextRests DEF l
<1>3. CASE c = "/" /\ NextChar(AppendTemporary(To("end tag open"), <<"/">>))
  <2>1. "end tag open" \in EndTagOpenStates
      BY States
  <2> QED BY <1>1, <1>3, <2>1, EndTagOpens
<1>4. CASE NextChar(AppendTemporary(ClearTemporary(To("bogus comment")), <<"?">>))
  <2>1. "bogus comment" \in QuietStates /\ <<"?">> \in Seq(Symbols)
      BY DEF QuietStates, Symbols
  <2>2. Lexing /\ Quiet(ClearTemporary(To("bogus comment")))
      BY <1>1, <2>1, KeptToQuiet, QuietChanges
  <2> QED BY <1>4, <2>1, <2>2, QuietChanges, QuietNext
<1>5. CASE c \in Letters /\ NextChar(StartNewTag(To("tag name"), TRUE))
    BY <1>1, <1>5, TagBegins
<1>6. CASE EmitTemporary(To("data"))
    BY <1>1, <1>6, KeptApart, KeptToText DEF QuietStates, EndStates
<1> QED BY <1>2, <1>3, <1>4, <1>5, <1>6 DEF TagOpen

\* "</" in data.
LEMMA EndTagOpenStateSound ==
    ASSUME IInv, EndTagOpenState
    PROVE  IInv'
<1>1. At("end tag open") /\ "end tag open" \in EndTagOpenStates
    BY States DEF EndTagOpenState
<1>2. CASE NextChar(To("data"))
    BY <1>1, <1>2, KeptToQuiet, QuietNext DEF QuietStates, EndStates
<1>3. CASE EmitTemporary(To("data"))
    BY <1>1, <1>3, KeptApart, KeptToText DEF QuietStates, EndStates
<1>4. CASE c \in Letters /\ NextChar(StartNewTag(To("tag name"), FALSE))
    BY <1>1, <1>4, TagBegins
<1>5. CASE NextChar(AppendTemporary(ClearTemporary(To("bogus comment")), <<c>>))
  <2>1. "bogus comment" \in QuietStates /\ <<c>> \in Seq(Symbols)
    <3>1. c \in Symbols
        BY CharIsSymbol DEF IInv, Parts, IsLexer, c
    <3> QED BY <3>1 DEF QuietStates
  <2>2. Lexing /\ Quiet(ClearTemporary(To("bogus comment")))
      BY <1>1, <2>1, KeptToQuiet, QuietChanges
  <2> QED BY <1>5, <2>1, <2>2, QuietChanges, QuietNext
<1> QED BY <1>2, <1>3, <1>4, <1>5 DEF EndTagOpenState

(* An end tag in raw text, kept back until its name is known. *)
LEMMA NameIsKept ==
    ASSUME IInv, NEW s \in KeptStates, At(s), c # EOF, NEW l, Keeps(l),
           l.state \in EndTagNameStates, l.tag.open, ~l.tag.isStart, l.flush = 0,
           l.extra = NoChar, l.again = FALSE, ~l.doctype.open,
           NextChar(AppendTemporary(l, <<c>>))
    PROVE  IInv'
<1> DEFINE m == AppendTemporary(l, <<c>>)
<1>1. Grown(l, m)
    BY AppendKept
<1>2. NextChar(m)
    OBVIOUS
<1> HIDE DEF m
<1>3. /\ IsLexer(m) /\ IsFound(m) /\ m.mark + Len(m.temp) - 1 = m.pos /\ m.pos = lexer.pos
      /\ m.state \in EndTagNameStates /\ m.tag.open /\ ~m.tag.isStart /\ m.flush = 0
      /\ m.extra = NoChar /\ m.again = FALSE /\ ~m.doctype.open
      /\ Len(m.temp) = Len(lexer.temp) + 1
    BY <1>1 DEF Grown
<1>4. Len(m.temp) >= 2
  <2>1. lexer.temp \in Seq(Symbols) /\ lexer.temp # <<>>
      BY KeptHere DEF IsLexer
  <2> QED BY <1>3, <2>1, EmptySeq, LenProperties
<1>5. /\ m.state \notin OpenStates \cup EndTagOpenStates \cup ClearStates
      /\ m.state # "script escaped lt" /\ m.state # "char ref in attr value"
      /\ m.state \in KeptStates
    BY <1>3, States DEF OpenStates, ClearStates, IdStates, KeptStates
<1>6. TempInv(m) /\ TagInv(m)
    BY <1>3, <1>4, <1>5 DEF TempInv, TagInv
<1>7. Lexing /\ CharAt(m.pos) # EOF
    BY <1>3, KeptHere DEF c
<1> QED BY <1>2, <1>3, <1>5, <1>6, <1>7, KeptNext

\* "</" in raw text, and the first letter of a name.
LEMMA RawEndTagOpenSound ==
    ASSUME IInv, NEW state \in RawStates, RawEndTagOpen(state)
    PROVE  IInv'
<1>1. At(EndTagOpen[state]) /\ EndTagOpen[state] \in EndTagOpenStates
    BY RawNames DEF RawEndTagOpen
<1>2. EndTagOpen[state] \in KeptStates /\ EndTagOpen[state] \notin EndTagNameStates
    BY <1>1, KeptApart
<1>3. CASE /\ c \in Letters
           /\ NextChar(AppendTemporary(StartNewTag(To(EndTagName[state]), FALSE), <<c>>))
  <2> DEFINE l == StartNewTag(To(EndTagName[state]), FALSE)
  <2>5. /\ IsLexer(lexer) /\ lexer.flush = 0 /\ lexer.extra = NoChar /\ lexer.again = FALSE
        /\ ~lexer.doctype.open
      BY <1>1, <1>2, KeptHere
  <2>1. /\ Keeps(l) /\ l.state = EndTagName[state] /\ l.tag.open /\ ~l.tag.isStart
        /\ l.flush = 0 /\ l.extra = NoChar /\ l.again = FALSE /\ ~l.doctype.open
      BY <2>5, ZenonT(40) DEF StartNewTag, To, Keeps, IsLexer, LexerFields, TagFields
  <2>2. l.state \in EndTagNameStates
      BY <2>1, RawNames
  <2>3. c # EOF
      BY <1>3 DEF Letters, EOF
  <2>4. NextChar(AppendTemporary(l, <<c>>))
      BY <1>3
  <2> HIDE DEF l
  <2> QED BY <1>1, <1>2, <2>1, <2>2, <2>3, <2>4, NameIsKept
<1>4. CASE EmitTemporary(To(state))
    BY <1>1, <1>2, <1>4, RawNames, KeptToText
<1> QED BY <1>3, <1>4 DEF RawEndTagOpen

\* The name of an end tag in raw text: kept back, or ended, or text.
LEMMA RawEndTagNameSound ==
    ASSUME IInv, NEW state \in RawStates, RawEndTagName(state)
    PROVE  IInv'
<1>1. /\ At(EndTagName[state]) /\ EndTagName[state] \in EndTagNameStates
      /\ EndTagName[state] \in KeptStates
    BY RawNames DEF RawEndTagName, KeptStates
<1>2. lexer.tag.open /\ ~lexer.tag.isStart /\ lexer.state = EndTagName[state]
    BY <1>1, KeptHere DEF IInv, Parts, TempInv
<1>3. CASE /\ c \in Letters
           /\ NextChar(AppendTemporary(AppendTag(lexer, Lower(c), TRUE), <<c>>))
  <2> DEFINE l == AppendTag(lexer, Lower(c), TRUE)
  <2>5. /\ IsLexer(lexer) /\ lexer.flush = 0 /\ lexer.extra = NoChar /\ lexer.again = FALSE
        /\ ~lexer.doctype.open
      BY <1>1, KeptHere
  <2>1. /\ Keeps(l) /\ l.state = EndTagName[state] /\ l.tag.open /\ ~l.tag.isStart
        /\ l.flush = 0 /\ l.extra = NoChar /\ l.again = FALSE /\ ~l.doctype.open
      BY <1>2, <2>5 DEF AppendTag, Keeps, IsLexer, LexerFields, TagFields
  <2>3. c # EOF
      BY <1>3 DEF Letters, EOF
  <2>4. NextChar(AppendTemporary(l, <<c>>))
      BY <1>3
  <2> HIDE DEF l
  <2> QED BY <1>1, <2>1, <2>3, <2>4, NameIsKept
<1>4. CASE NameEnded
    BY <1>1, <1>4, TagEnded
<1>5. CASE EmitTemporary(AbandonTag(To(state)))
  <2> DEFINE l == AbandonTag(To(state))
  <2>1. /\ Lexing /\ IsLexer(l) /\ l.state = state /\ ~l.tag.open /\ l.extra = NoChar
        /\ ~l.doctype.open /\ l.temp = lexer.temp /\ l.mark = lexer.mark
      BY <1>1, KeptHere DEF AbandonTag, To, IsLexer, LexerFields, TagFields
  <2>2. IsFound(l) /\ l.temp # <<>>
      BY <1>1, <2>1, KeptHere DEF IsFound
  <2>3. EmitTemporary(l)
      BY <1>5
  <2> HIDE DEF l
  <2> QED BY <2>1, <2>2, <2>3, RawNames, QuietApart, KeptGoesOut
<1> QED BY <1>3, <1>4, <1>5 DEF RawEndTagName

-----------------------------------------------------------------------------
(* Text and scripts. *)
LEMMA FromQuiet ==
    ASSUME IInv, NEW s \in QuietStates, s \notin EndStates, At(s)
    PROVE  /\ Lexing /\ Quiet(lexer)
           /\ \A t \in QuietStates : Quiet(To(t)) /\ Quiet(Again(To(t)))
<1>1. s \notin AttributeStates \cup EndTagNameStates \cup DoctypeStates
    BY QuietApart
<1> QED BY <1>1, StayQuiet, ToQuiet, QuietChanges DEF At

(* "<" opens what is kept back, from a state of text. *)
LEMMA TextOpens ==
    ASSUME IInv, NEW s \in QuietStates, At(s), c = "<", NEW t \in OpenStates,
           NextChar(Opened(t))
    PROVE  IInv'
<1>1. s \notin AttributeStates \cup EndTagNameStates \cup DoctypeStates
    BY QuietApart
<1> QED BY <1>1, OpenedSound

\* Character references in data and RCDATA.
LEMMA CharRefInTextSound ==
    ASSUME IInv, CharRefInData \/ CharRefInRcdata
    PROVE  IInv'
<1>1. ASSUME NEW s \in {"char ref in data", "char ref in rcdata"},
             NEW t \in {"data", "rcdata"}, At(s), EmitCharRef(To(t))
      PROVE  IInv'
  <2>1. s \in QuietStates /\ s \notin EndStates /\ t \in QuietStates /\ t \in EndStates
      BY DEF QuietStates, EndStates
  <2>2. Quiet(To(t)) /\ Lexing
      BY <1>1, <2>1, FromQuiet
  <2>3. /\ IsLexer(lexer) /\ lexer.extra = NoChar /\ lexer.state = s
        /\ s \notin DoctypeStates
      BY <1>1, <2>1, QuietApart DEF At, IInv, Parts
  <2>4. ~lexer.doctype.open
      BY <2>1, <2>3 DEF IInv, Parts, DoctypeInv
  <2>5. To(t).extra = NoChar /\ ~To(t).doctype.open /\ To(t).state = t
      BY <2>3, <2>4 DEF To, IsLexer, LexerFields
  <2> QED BY <1>1, <2>1, <2>2, <2>5, CharRefSound
<1> QED BY <1>1 DEF CharRefInData, CharRefInRcdata

\* Text of all kinds.
LEMMA RawTextSound ==
    ASSUME IInv,
           DataState \/ Rcdata \/ RawText("rawtext") \/ RawText("script") \/ Plaintext
    PROVE  IInv'
<1>1. EndStates \subseteq QuietStates
    BY DEF QuietStates
<1>2. {"tag open", LessThan["rcdata"], LessThan["rawtext"], LessThan["script"],
       "rcdata lt"} \subseteq OpenStates
    BY DEF OpenStates, LessThan, RawStates
<1>3. CASE DataState \/ Rcdata
    BY <1>1, <1>2, <1>3, TextOpens, DataStateSound DEF DataState, Rcdata, EndStates
<1>4. CASE Plaintext \/ RawText("rawtext") \/ RawText("script")
    BY <1>1, <1>2, <1>4, TextOpens, PlainText, QuietChar DEF Plaintext, RawText, EndStates
<1> QED BY <1>3, <1>4

\* "<" in an escaped script is kept back,
LEMMA EscapedOpensSound ==
    ASSUME IInv, NEW s \in QuietStates, At(s), EscapedOpens
    PROVE  IInv'
BY TextOpens DEF EscapedOpens, OpenStates

\* in a doubly escaped one it is not.
LEMMA DoubleOpensSound ==
    ASSUME IInv, NEW s \in QuietStates, s \notin EndStates, At(s), DoubleOpens
    PROVE  IInv'
BY FromQuiet, QuietChar DEF DoubleOpens, QuietStates

\* Escaped scripts.
LEMMA EscapedSound ==
    ASSUME IInv, EscapedStart \/ EscapedStartDash \/ Escaped \/ DoubleEscaped
    PROVE  IInv'
<1> DEFINE From == {"script escaped start", "script escaped start dash", "script escaped",
                    "script double escaped"}
           Onto == {"script", "data", "script escaped start dash", "script escaped dash dash",
                    "script escaped dash", "script double escaped dash"}
<1>1. From \cup Onto \subseteq QuietStates /\ From \cap EndStates = {}
    BY DEF QuietStates, EndStates
<1>2. ASSUME NEW s \in From, At(s)
      PROVE  /\ Lexing /\ Quiet(lexer)
             /\ \A t \in Onto : Quiet(To(t)) /\ Quiet(Again(To(t)))
             /\ EscapedOpens \/ DoubleOpens => IInv'
    BY <1>1, <1>2, FromQuiet, EscapedOpensSound, DoubleOpensSound
<1>3. CASE EscapedStart
    BY <1>2, <1>3, QuietChar, QuietNext DEF EscapedStart
<1>4. CASE EscapedStartDash
    BY <1>2, <1>4, QuietChar, QuietNext DEF EscapedStartDash
<1>5. CASE Escaped
    BY <1>2, <1>5, QuietChar DEF Escaped
<1>6. CASE DoubleEscaped
    BY <1>2, <1>6, QuietChar, QuietNext DEF DoubleEscaped
<1> QED BY <1>3, <1>4, <1>5, <1>6

\* After a dash in an escaped script,
LEMMA AfterDashSound ==
    ASSUME IInv, NEW s \in QuietStates, s \notin EndStates, At(s),
           NEW state \in QuietStates, NEW dashDash \in QuietStates,
           AfterDash(state, dashDash, EscapedOpens) \/ AfterDash(state, dashDash, DoubleOpens)
    PROVE  IInv'
<1>1. CASE EscapedOpens \/ DoubleOpens
    BY <1>1, EscapedOpensSound, DoubleOpensSound
<1>2. "data" \in QuietStates
    BY DEF QuietStates, EndStates
<1>3. /\ Lexing
      /\ \A t \in {state, dashDash, "data"} : Quiet(To(t))
    BY <1>2, FromQuiet
<1>4. CASE ~(EscapedOpens \/ DoubleOpens)
  <2>1. \/ EmitChar(To(dashDash), c) \/ NextChar(To("data")) \/ EmitChar(To(state), Unnulled(c))
      BY <1>4 DEF AfterDash
  <2> QED BY <1>3, <2>1, QuietChar, QuietNext
<1> QED BY <1>1, <1>4

\* or after two.
LEMMA DashesSound ==
    ASSUME IInv,
           EscapedDash \/ EscapedDashDash \/ DoubleEscapedDash \/ DoubleEscapedDashDash
    PROVE  IInv'
<1> DEFINE From == {"script escaped dash", "script escaped dash dash",
                    "script double escaped dash", "script double escaped dash dash"}
           Onto == {"script", "script escaped", "script double escaped"}
<1>1. From \cup Onto \subseteq QuietStates /\ From \cap EndStates = {}
    BY DEF QuietStates, EndStates
<1>2. ASSUME NEW s \in From, At(s), NEW t \in Onto, EmitChar(To(t), c)
      PROVE  IInv'
    BY <1>1, <1>2, FromQuiet, QuietChar
<1>3. CASE EscapedDash
    BY <1>1, <1>2, <1>3, AfterDashSound DEF EscapedDash
<1>4. CASE EscapedDashDash
    BY <1>1, <1>2, <1>4, AfterDashSound DEF EscapedDashDash
<1>5. CASE DoubleEscapedDash
    BY <1>1, <1>2, <1>5, AfterDashSound DEF DoubleEscapedDash
<1>6. CASE DoubleEscapedDashDash
    BY <1>1, <1>2, <1>6, AfterDashSound DEF DoubleEscapedDashDash
<1> QED BY <1>3, <1>4, <1>5, <1>6

\* The name of a tag in an escaped script.
LEMMA NameOfScriptSound ==
    ASSUME IInv, NEW s \in QuietStates, s \notin EndStates, At(s),
           NEW t \in QuietStates, NEW u \in QuietStates, NameOfScript(t, u)
    PROVE  IInv'
<1>1. /\ Lexing /\ Quiet(lexer)
      /\ \A v \in QuietStates : Quiet(To(v)) /\ Quiet(Again(To(v)))
    BY FromQuiet
<1>2. CASE EmitChar(To(IF lexer.script = <<"script">> THEN t ELSE u), c)
    BY <1>1, <1>2, QuietChar
<1>3. CASE EmitChar([lexer EXCEPT !.script = Append(@, Lower(c))], c)
  <2>1. Quiet([lexer EXCEPT !.script = Append(lexer.script, Lower(c))])
      BY <1>1, QuietChanges
  <2> QED BY <1>1, <1>3, <2>1, QuietChar
<1>4. CASE NextChar(Again(To(u)))
    BY <1>1, <1>4, QuietNext
<1> QED BY <1>2, <1>3, <1>4 DEF NameOfScript

\* Where double escapes begin and end.
LEMMA DoubleEscapesSound ==
    ASSUME IInv, DoubleEscapedStart \/ DoubleEscapedEnd \/ DoubleEscapedLessThan
    PROVE  IInv'
<1> DEFINE From == {"script double escaped start", "script double escaped end",
                    "script double escaped lt"}
           Onto == {"script escaped", "script double escaped", "script double escaped end"}
<1>1. From \cup Onto \subseteq QuietStates /\ From \cap EndStates = {}
    BY DEF QuietStates, EndStates
<1>2. CASE DoubleEscapedStart
    BY <1>1, <1>2, NameOfScriptSound DEF DoubleEscapedStart
<1>3. CASE DoubleEscapedEnd
    BY <1>1, <1>3, NameOfScriptSound DEF DoubleEscapedEnd
<1>4. CASE DoubleEscapedLessThan
  <2>1. /\ Lexing /\ \A t \in Onto : Quiet(To(t)) /\ Quiet(Again(To(t)))
      BY <1>1, <1>4, FromQuiet DEF DoubleEscapedLessThan
  <2>2. Quiet([To("script double escaped end") EXCEPT !.script = <<>>])
      BY <2>1, QuietChanges
  <2> QED BY <1>4, <2>1, <2>2, QuietChar, QuietNext DEF DoubleEscapedLessThan
<1> QED BY <1>2, <1>3, <1>4

\* All handlers of text.
LEMMA TextStateSound ==
    ASSUME IInv, TextState
    PROVE  IInv'
<1>1. "rcdata" \in RawStates /\ "rawtext" \in RawStates
    BY DEF RawStates
<1> QED BY <1>1, RawTextSound, CharRefInTextSound, RawLessThanSound, ScriptLessThanSound,
           EscapedLessThanSound, RawEndTagOpenSound, RawEndTagNameSound, EscapedSound,
           DashesSound, DoubleEscapesSound DEF TextState

\* All handlers of tags.
LEMMA TagStateSound ==
    ASSUME IInv, TagState
    PROVE  IInv'
BY TagOpenSound, EndTagOpenStateSound, TagNameSound, BeforeAttrNameSound, AttrNameSound,
   AfterAttrNameSound, BeforeAttrValueSound, AttrValueUnquotedSound, CharRefInAttrValueSound,
   AttrValueQuotedSound, AfterAttrValueQuotedSound, SelfClosingSound DEF TagState

-----------------------------------------------------------------------------
(* Comments. *)
LEMMA BogusCommentSound ==
    ASSUME IInv, BogusComment
    PROVE  IInv'
<1>1. At("bogus comment") /\ Lexing /\ Quiet(To("data")) /\ To("data").pos = lexer.pos
  <2>1. "bogus comment" \in QuietStates \ EndStates /\ "data" \in QuietStates
      BY DEF QuietStates, EndStates
  <2>2. At("bogus comment")
      BY DEF BogusComment
  <2>3. IsLexer(lexer)
      BY DEF IInv, Parts
  <2> QED BY <2>1, <2>2, <2>3, FromQuiet DEF To, IsLexer, LexerFields
<1> DEFINE rest(end) == [i \in 1 .. end - lexer.pos |-> Unnulled(CharAt(lexer.pos + i - 1))]
           l(end)    == [To("data") EXCEPT !.pos = end]
<1>2. PICK end \in lexer.pos .. Len(input) + 1 : EmitComment(AppendTemporary(l(end), rest(end)))
    BY DEF BogusComment
<1>3. lexer.pos \in Nat \ {0} /\ Len(input) \in Nat
    BY DEF IInv, Parts, IsLexer, IsInput
<1>4. end \in Nat \ {0} /\ end - lexer.pos \in Nat
    BY <1>3
<1>5. rest(end) \in Seq(Symbols)
  <2>1. ASSUME NEW i \in 1 .. end - lexer.pos
        PROVE  Unnulled(CharAt(lexer.pos + i - 1)) \in Symbols
    <3>1. lexer.pos + i - 1 \in Nat \ {0}
        BY <1>3, <1>4
    <3> QED BY <3>1, CharIsSymbol DEF IInv
  <2>2. rest(end) \in [1 .. end - lexer.pos -> Symbols]
      BY <2>1
  <2> QED BY <1>4, <2>2, SeqDef, ZenonT(40)
<1>6. Quiet(l(end))
  <2> DEFINE k == To("data")
  <2>1. Quiet(k) /\ k.pos = lexer.pos
      BY <1>1
  <2> HIDE DEF k
  <2>2. ~k.doctype.open \/ CharAt(k.pos) = EOF
      BY <2>1, QuietApart DEF Quiet, DoctypeInv
  <2>3. ~lexer.doctype.open
    <3>1. "bogus comment" \notin DoctypeStates \cup EndStates
        BY QuietApart DEF QuietStates, EndStates
    <3> QED BY <1>1, <3>1 DEF At, IInv, Parts, DoctypeInv
  <2>4. k.doctype = lexer.doctype
      BY DEF k, To, IInv, Parts, IsLexer, LexerFields
  <2>5. Quiet([k EXCEPT !.pos = end])
      BY <1>4, <2>1, <2>3, <2>4 DEF Quiet, IsLexer, LexerFields, ExtraInv, DoctypeInv
  <2> QED BY <2>5 DEF k
<1> HIDE DEF l, rest
<1> QED BY <1>1, <1>2, <1>5, <1>6, QuietChanges, QuietComment

\* Comments.
LEMMA CommentsSound ==
    ASSUME IInv,
           CommentStart \/ CommentStartDash \/ Comment
                \/ CommentEndDash \/ CommentEnd \/ CommentEndBang
    PROVE  IInv'
<1> DEFINE From == {"comment start", "comment start dash", "comment", "comment end dash",
                    "comment end", "comment end bang"}
           Onto == From \cup {"data"}
<1>1. Onto \subseteq QuietStates /\ From \cap EndStates = {}
    BY DEF QuietStates, EndStates
<1>2. ASSUME NEW s \in From, At(s)
      PROVE  Lexing /\ Quiet(lexer) /\ \A t \in Onto : Quiet(To(t))
    BY <1>1, <1>2, FromQuiet
<1>3. Unnulled(c) \in Symbols
    BY CharIsSymbol DEF IInv, Parts, IsLexer, c
<1>4. ASSUME NEW s \in From, At(s), NEW ss \in Seq(Symbols), InComment(ss)
      PROVE  IInv'
  <2>1. Append(ss, Unnulled(c)) \in Seq(Symbols)
      BY <1>3, <1>4, AppendProperties
  <2> QED BY <1>2, <1>4, <2>1, QuietChanges, QuietNext DEF InComment
<1>5. ASSUME NEW s \in From, At(s), NEW ends, CommentOver(ends)
      PROVE  IInv'
    BY <1>2, <1>5, QuietComment DEF CommentOver
<1>6. ASSUME NEW s \in From, At(s), NEW t \in From, NextChar(To(t))
      PROVE  IInv'
    BY <1>2, <1>6, QuietNext
<1>7. {<<>>, <<"-">>, <<"-", "-">>, <<"-", "-", "!">>} \subseteq Seq(Symbols)
  <2>1. "-" \in Symbols /\ "!" \in Symbols
      BY DEF Symbols
  <2> QED BY <2>1
<1>8. CASE CommentStart
    BY <1>4, <1>5, <1>6, <1>7, <1>8 DEF CommentStart
<1>9. CASE CommentStartDash
    BY <1>4, <1>5, <1>6, <1>7, <1>9 DEF CommentStartDash
<1>10. CASE Comment
    BY <1>4, <1>5, <1>6, <1>7, <1>10 DEF Comment
<1>11. CASE CommentEndDash
    BY <1>4, <1>5, <1>6, <1>7, <1>11 DEF CommentEndDash
<1>12. CASE CommentEnd
  <2>1. Lexing /\ Quiet(AppendTemporary(lexer, <<"-">>))
      BY <1>2, <1>7, <1>12, QuietChanges DEF CommentEnd
  <2> QED BY <1>4, <1>5, <1>6, <1>7, <1>12, <2>1, QuietNext DEF CommentEnd
<1>13. CASE CommentEndBang
  <2>1. Lexing /\ Quiet(AppendTemporary(To("comment end dash"), <<"-", "-", "!">>))
      BY <1>2, <1>7, <1>13, QuietChanges DEF CommentEndBang
  <2> QED BY <1>4, <1>5, <1>7, <1>13, <2>1, QuietNext DEF CommentEndBang
<1> QED BY <1>8, <1>9, <1>10, <1>11, <1>12, <1>13

-----------------------------------------------------------------------------
(* Doctypes: between tags, whatever is under way. *)
Loose(l) ==
    IsLexer(l) /\ l.flush = 0 /\ l.extra = NoChar /\ ~l.tag.open
Typed(l) ==
    Loose(l) /\ l.state \in DoctypeStates /\ (l.state \in ClearStates => l.temp = <<>>)

\* The states of a doctype are none of tags, of text, or with something kept back.
LEMMA DoctypeApart ==
    \A s \in DoctypeStates :
        /\ s \notin KeptStates \cup AttributeStates \cup EndStates
        /\ s \notin OpenStates \cup EndTagOpenStates \cup EndTagNameStates
        /\ s # "script escaped lt" /\ s # "char ref in attr value"
BY States DEF KeptStates, OpenStates, IdStates, EndStates

\* Nothing is kept back in a doctype.
LEMMA TypedRests ==
    ASSUME NEW l, Typed(l)
    PROVE  Rests(l)
BY DoctypeApart DEF Typed, Loose, Rests, TempInv, TagInv, DoctypeInv, ExtraInv

\* A step from one part of a doctype to the next preserves the invariant.
LEMMA TypedNext ==
    ASSUME IInv, Lexing, NEW l, Typed(l), NextChar(l)
    PROVE  IInv'
BY TypedRests, NextRests

\* In a state of a doctype.
LEMMA FromDoctype ==
    ASSUME IInv, NEW s \in DoctypeStates, At(s)
    PROVE  /\ Lexing /\ Typed(lexer) /\ lexer.state = s
           /\ \A t : Loose(To(t)) /\ To(t).state = t /\ To(t).temp = lexer.temp
<1>1. /\ Lexing /\ IsLexer(lexer) /\ lexer.state = s /\ lexer.flush = 0 /\ lexer.extra = NoChar
      /\ ~lexer.tag.open
    BY DoctypeApart DEF At, IInv, Parts, TagInv
<1>2. s \in ClearStates => lexer.temp = <<>>
    BY <1>1 DEF IInv, Parts, TempInv
<1> QED BY <1>1, <1>2 DEF Loose, Typed, To, IsLexer, LexerFields

(* What the handlers do to it. *)
Alike(l, m)   == Loose(m) /\ m.state = l.state /\ m.temp = l.temp
Cleared(l, m) == Loose(m) /\ m.state = l.state /\ m.temp = <<>>

\* What the handlers do to a doctype.
LEMMA LooseChanges ==
    ASSUME NEW l, Loose(l)
    PROVE  /\ Alike(l, Again(l)) /\ Alike(l, Quirks(l))
           /\ Alike(l, [l EXCEPT !.doctype.quirks = FALSE])
           /\ Alike(l, [l EXCEPT !.doctype.open = TRUE])
           /\ Cleared(l, ClearTemporary(l))
           /\ Cleared(l, FinishDoctypeName(l))
           /\ Cleared(l, FinishPublicId(l)) /\ Cleared(l, FinishSystemId(l))
           /\ \A ss \in Seq(Symbols) :
                Loose(AppendTemporary(l, ss)) /\ AppendTemporary(l, ss).state = l.state
           /\ Alike(l, [l EXCEPT !.doctype = NoDoctype])
           /\ [l EXCEPT !.doctype = NoDoctype].doctype.open = FALSE
<1> USE DEF Alike, Cleared, Loose, IsLexer, LexerFields, DoctypeFields
<1>1. Alike(l, Again(l)) /\ Alike(l, Quirks(l))
    BY DEF Again, Quirks
<1>2. /\ Alike(l, [l EXCEPT !.doctype.quirks = FALSE])
      /\ Alike(l, [l EXCEPT !.doctype.open = TRUE])
    OBVIOUS
<1>3. ASSUME NEW m, Loose(m) PROVE Cleared(m, ClearTemporary(m))
    BY <1>3 DEF ClearTemporary
<1>4. \A x : /\ Alike(l, [l EXCEPT !.doctype.name = x])
             /\ Alike(l, [l EXCEPT !.doctype.public = x])
             /\ Alike(l, [l EXCEPT !.doctype.system = x])
    OBVIOUS
<1>5. /\ Cleared(l, FinishDoctypeName(l))
      /\ Cleared(l, FinishPublicId(l)) /\ Cleared(l, FinishSystemId(l))
  <2> HIDE DEF Loose
  <2>1. ASSUME NEW m, Alike(l, m) PROVE Cleared(l, ClearTemporary(m))
      BY <1>3, <2>1
  <2> HIDE DEF Alike, Cleared
  <2> QED BY <1>4, <2>1 DEF FinishDoctypeName, FinishPublicId, FinishSystemId
<1>6. ASSUME NEW ss \in Seq(Symbols)
      PROVE  Loose(AppendTemporary(l, ss)) /\ AppendTemporary(l, ss).state = l.state
  <2>1. l.temp \o ss \in Seq(Symbols)
      BY ConcatProperties
  <2> QED BY <2>1 DEF AppendTemporary
<1>7. /\ Alike(l, [l EXCEPT !.doctype = NoDoctype])
      /\ [l EXCEPT !.doctype = NoDoctype].doctype.open = FALSE
    BY DEF NoDoctype
<1> HIDE DEF Alike, Cleared, Loose, IsLexer
<1>8. Cleared(l, ClearTemporary(l))
    BY <1>3
<1> QED BY <1>1, <1>2, <1>5, <1>6, <1>7, <1>8

\* A word is passed over.
LEMMA PastIs ==
    ASSUME NEW l, IsLexer(l), NEW word, Len(word) \in Nat
    PROVE  /\ IsLexer(Past(l, word)) /\ Past(l, word).state = l.state
           /\ Past(l, word).temp = l.temp /\ Past(l, word).flush = l.flush
           /\ Past(l, word).extra = l.extra /\ Past(l, word).tag = l.tag
           /\ Past(l, word).doctype = l.doctype
BY DEF Past, IsLexer, LexerFields

\* The doctype is handed over, and a fresh one is there for a second token.
LEMMA DoctypeEmits ==
    ASSUME IInv, Lexing, NEW l, Loose(l), l.state \in {"data", "bogus doctype"}, EmitDoctype(l)
    PROVE  IInv'
<1> DEFINE m == [l EXCEPT !.doctype = NoDoctype]
<1>1. /\ Loose(m) /\ m.state = l.state /\ ~m.doctype.open
    BY LooseChanges DEF Alike
<1>2. PICK token : Emit(m, token)
    BY DEF EmitDoctype
<1> HIDE DEF m
<1>3. CASE l.state = "data"
  <2>1. Quiet(m)
      BY <1>1, <1>3 DEF Quiet, Loose, QuietStates, EndStates, ExtraInv, DoctypeInv
  <2> QED BY <1>2, <2>1, QuietEmit
<1>4. CASE l.state = "bogus doctype"
  <2>1. "bogus doctype" \in DoctypeStates /\ "bogus doctype" \notin ClearStates
      BY States DEF ClearStates, IdStates
  <2>2. Rests(m) /\ ~m.tag.open
      BY <1>1, <1>4, <2>1, TypedRests DEF Typed, Loose
  <2> QED BY <1>1, <1>2, <2>2, EmitRests
<1> QED BY <1>3, <1>4

\* After "<!".
LEMMA MarkupDeclarationSound ==
    ASSUME IInv, MarkupDeclaration
    PROVE  IInv'
<1>1. /\ At("markup declaration") /\ Lexing
      /\ "markup declaration" \in ClearStates
      /\ "markup declaration" \notin AttributeStates \cup EndTagNameStates \cup DoctypeStates
                                        \cup EndStates
    BY States DEF MarkupDeclaration, At, ClearStates, IdStates, EndStates
<1>2. /\ IsLexer(lexer) /\ lexer.flush = 0 /\ lexer.extra = NoChar /\ ~lexer.tag.open
      /\ ~lexer.doctype.open /\ lexer.temp = <<>>
    BY <1>1 DEF At, IInv, Parts, TagInv, DoctypeInv, TempInv
<1>3. ASSUME NEW t \in {"comment start", "cdata", "bogus comment"}
      PROVE  t \in QuietStates /\ Quiet(To(t)) /\ To(t).state = t /\ ~To(t).doctype.open
  <2>1. t \in QuietStates
      BY DEF QuietStates
  <2> QED BY <1>1, <1>2, <2>1, ToQuiet DEF To, IsLexer, LexerFields
<1>4. ASSUME NEW t \in {"comment start", "cdata"}, NEW word, Len(word) \in Nat,
             NextChar(Past(To(t), word))
      PROVE  IInv'
  <2>1. Quiet(Past(To(t), word))
    <3> DEFINE l == To(t)
    <3>1. Quiet(l) /\ ~l.doctype.open
        BY <1>3
    <3> HIDE DEF l
    <3>2. Quiet(Past(l, word))
        BY <1>4, <3>1, PastIs DEF Quiet, ExtraInv, DoctypeInv
    <3> QED BY <3>2 DEF l
  <2> QED BY <1>1, <1>4, <2>1, QuietNext
<1>5. CASE NextChar([Past(To("doctype"), <<"doctype">>) EXCEPT !.doctype.open = TRUE])
  <2> DEFINE k == To("doctype")
             l == Past(k, <<"doctype">>)
             m == [l EXCEPT !.doctype.open = TRUE]
  <2>1. Loose(k) /\ k.state = "doctype" /\ k.temp = <<>>
      BY <1>2 DEF To, Loose, IsLexer, LexerFields
  <2>6. Len(<<"doctype">>) \in Nat
      OBVIOUS
  <2> HIDE DEF k
  <2>2. Loose(l) /\ l.state = "doctype" /\ l.temp = <<>>
      BY <2>1, <2>6, PastIs DEF Loose
  <2> HIDE DEF l
  <2>3. Loose(m) /\ m.state = "doctype" /\ m.temp = <<>>
      BY <2>2, LooseChanges DEF Alike
  <2>4. NextChar(m)
      BY <1>5 DEF l, k
  <2> HIDE DEF m
  <2>5. "doctype" \in DoctypeStates
      BY States DEF IdStates
  <2> QED BY <1>1, <2>3, <2>4, <2>5, TypedNext DEF Typed
<1>6. CASE NextChar(Again(ClearTemporary(To("bogus comment"))))
    BY <1>1, <1>3, <1>6, QuietChanges, QuietNext
<1>7. Len(<<"-", "-">>) \in Nat /\ Len(<<"[CDATA[">>) \in Nat
    OBVIOUS
<1> QED BY <1>4, <1>5, <1>6, <1>7 DEF MarkupDeclaration

\* CDATA sections.
LEMMA CdataSound ==
    ASSUME IInv, Cdata
    PROVE  IInv'
<1>1. At("cdata") /\ "cdata" \in QuietStates \ EndStates /\ "data" \in QuietStates
    BY DEF Cdata, QuietStates, EndStates
<1>2. Lexing /\ Quiet(lexer) /\ Quiet(Again(To("data")))
    BY <1>1, FromQuiet
<1>3. IsLexer(lexer) /\ ~lexer.doctype.open
    BY <1>1, QuietApart DEF At, IInv, Parts, DoctypeInv
<1> DEFINE end == IF c = EOF THEN lexer.pos ELSE lexer.pos + 3
           k == Again(To("data"))
           l == [k EXCEPT !.pos = end, !.start = end]
<1>4. CASE NextChar(l)
  <2>1. end \in Nat \ {0}
      BY <1>3 DEF IsLexer
  <2>2. Quiet(k) /\ ~k.doctype.open
      BY <1>2, <1>3 DEF Again, To, IsLexer, LexerFields
  <2> HIDE DEF end, k
  <2>3. Quiet(l)
      BY <2>1, <2>2 DEF Quiet, IsLexer, LexerFields, ExtraInv, DoctypeInv
  <2> HIDE DEF l
  <2> QED BY <1>2, <1>4, <2>3, QuietNext
<1>5. CASE EmitChar(lexer, c)
    BY <1>2, <1>5, QuietChar
<1> QED BY <1>4, <1>5 DEF Cdata

(* What the doctype handlers have in common. *)
LEMMA DoctypeEnds ==
    ASSUME IInv, NEW s \in DoctypeStates, At(s), NEW ends,
           \/ DoctypeOver \/ DoctypeCutOff(ends) \/ DoctypeBlank
           \/ EmitDoctype(Quirks(To("bogus doctype")))
           \/ NextChar(To("bogus doctype")) \/ NextChar(Quirks(To("bogus doctype")))
    PROVE  IInv'
<1>1. /\ Lexing /\ Typed(lexer)
      /\ \A t : Loose(To(t)) /\ To(t).state = t
    BY FromDoctype
<1>2. \A t : Loose(Quirks(To(t))) /\ Quirks(To(t)).state = t
    BY <1>1, LooseChanges DEF Alike
<1>3. "bogus doctype" \in DoctypeStates /\ "bogus doctype" \notin ClearStates
    BY States DEF ClearStates, IdStates
<1>4. CASE DoctypeOver \/ DoctypeCutOff(ends) \/ EmitDoctype(Quirks(To("bogus doctype")))
    BY <1>1, <1>2, <1>4, DoctypeEmits DEF DoctypeOver, DoctypeCutOff
<1>5. CASE DoctypeBlank
    BY <1>1, <1>5, TypedNext DEF DoctypeBlank
<1>6. CASE NextChar(To("bogus doctype")) \/ NextChar(Quirks(To("bogus doctype")))
  <2>1. Typed(To("bogus doctype")) /\ Typed(Quirks(To("bogus doctype")))
      BY <1>1, <1>2, <1>3 DEF Typed
  <2> QED BY <1>1, <1>6, <2>1, TypedNext
<1> QED BY <1>4, <1>5, <1>6

\* The states of quoted identifiers.
LEMMA QuotedNames ==
    \A quote \in Quotes :
        /\ PublicIdQuoted[quote] \in DoctypeStates \ ClearStates
        /\ SystemIdQuoted[quote] \in DoctypeStates \ ClearStates
BY States DEF PublicIdQuoted, SystemIdQuoted, Quotes, ClearStates, IdStates

\* An identifier begins.
LEMMA IdBeginsSound ==
    ASSUME IInv, NEW s \in DoctypeStates, At(s),
           IdBegins(PublicIdQuoted) \/ IdBegins(SystemIdQuoted)
    PROVE  IInv'
<1>1. PICK t \in DoctypeStates \ ClearStates : NextChar(To(t))
    BY QuotedNames DEF IdBegins
<1>2. Lexing /\ Typed(To(t))
    BY FromDoctype DEF Typed
<1> QED BY <1>1, <1>2, TypedNext

\* The name of a doctype; it is out of the buffer before an identifier begins.
LEMMA DoctypeNamesSound ==
    ASSUME IInv, DoctypeState \/ BeforeDoctypeName \/ DoctypeName \/ AfterDoctypeName
    PROVE  IInv'
<1>1. /\ {"doctype", "before doctype name", "doctype name", "after doctype name",
          "after doctype public keyword", "after doctype system keyword"} \subseteq DoctypeStates
      /\ "before doctype name" \notin ClearStates /\ "doctype name" \notin ClearStates
      /\ "after doctype name" \in ClearStates
    BY States DEF ClearStates, IdStates
<1>2. Lower(c) \in Symbols /\ <<Lower(c)>> \in Seq(Symbols) /\ <<Replacement>> \in Seq(Symbols)
  <2>1. Lower(c) \in Symbols /\ Replacement \in Symbols
      BY CharIsSymbol DEF IInv, Parts, IsLexer, c, Symbols
  <2> QED BY <2>1
<1>3. CASE DoctypeState
  <2>1. At("doctype")
      BY <1>3 DEF DoctypeState
  <2> DEFINE l == To("before doctype name")
  <2>2. Lexing /\ Loose(l) /\ l.state = "before doctype name"
      BY <1>1, <2>1, FromDoctype
  <2>3. CASE NextChar(l) \/ NextChar(Again(Quirks(l)))
    <3> HIDE DEF l
    <3>1. Loose(Quirks(l)) /\ Quirks(l).state = "before doctype name"
        BY <2>2, LooseChanges DEF Alike
    <3>2. Loose(Again(Quirks(l))) /\ Again(Quirks(l)).state = "before doctype name"
        BY <3>1, LooseChanges DEF Alike
    <3> QED BY <1>1, <2>2, <2>3, <3>2, TypedNext DEF Typed
  <2> QED BY <1>1, <1>3, <2>1, <2>3, DoctypeEnds DEF DoctypeState
<1>4. ASSUME NEW l, Loose(l), l.state = "doctype name", Lexing, NEW ss \in Seq(Symbols),
             NextChar(AppendTemporary(l, ss))
      PROVE  IInv'
  <2>1. Loose(AppendTemporary(l, ss)) /\ AppendTemporary(l, ss).state = "doctype name"
      BY <1>4, LooseChanges
  <2> QED BY <1>1, <1>4, <2>1, TypedNext DEF Typed
<1>5. CASE BeforeDoctypeName
  <2>1. At("before doctype name")
      BY <1>5 DEF BeforeDoctypeName
  <2> DEFINE l == To("doctype name")
  <2>2. Lexing /\ Loose(l) /\ l.state = "doctype name"
      BY <1>1, <2>1, FromDoctype
  <2> DEFINE m == [l EXCEPT !.doctype.quirks = FALSE]
  <2>3. CASE \/ NextChar(AppendTemporary(Quirks(l), <<Replacement>>))
             \/ NextChar(AppendTemporary(m, <<Lower(c)>>))
    <3> HIDE DEF l
    <3>1. Loose(Quirks(l)) /\ Quirks(l).state = "doctype name"
        BY <2>2, LooseChanges DEF Alike
    <3>2. Loose(m) /\ m.state = "doctype name"
        BY <2>2, LooseChanges DEF Alike
    <3> HIDE DEF m
    <3> QED BY <1>2, <1>4, <2>2, <2>3, <3>1, <3>2
  <2> QED BY <1>1, <1>5, <2>1, <2>3, DoctypeEnds DEF BeforeDoctypeName
<1>6. CASE DoctypeName
  <2>1. At("doctype name")
      BY <1>6 DEF DoctypeName
  <2>2. /\ Lexing /\ Typed(lexer) /\ lexer.state = "doctype name"
        /\ \A t : Loose(To(t)) /\ To(t).state = t
      BY <1>1, <2>1, FromDoctype
  <2>3. CASE NextChar(FinishDoctypeName(To("after doctype name")))
    <3>1. Cleared(To("after doctype name"), FinishDoctypeName(To("after doctype name")))
        BY <2>2, LooseChanges
    <3>2. Typed(FinishDoctypeName(To("after doctype name")))
        BY <1>1, <2>2, <3>1 DEF Typed, Cleared
    <3> QED BY <2>2, <2>3, <3>2, TypedNext
  <2>4. CASE \/ EmitDoctype(FinishDoctypeName(To("data")))
             \/ EmitDoctype(FinishDoctypeName(Quirks(To("data"))))
    <3> DEFINE l == To("data")
    <3>1. Loose(l) /\ l.state = "data"
        BY <2>2
    <3> HIDE DEF l
    <3>2. Loose(Quirks(l)) /\ Quirks(l).state = "data"
        BY <3>1, LooseChanges DEF Alike
    <3>3. ASSUME NEW m \in {l, Quirks(l)}, EmitDoctype(FinishDoctypeName(m))
          PROVE  IInv'
      <4>1. Cleared(m, FinishDoctypeName(m))
          BY <3>1, <3>2, LooseChanges
      <4> QED BY <2>2, <3>1, <3>2, <3>3, <4>1, DoctypeEmits DEF Cleared
    <3> QED BY <2>4, <3>3 DEF l
  <2> DEFINE n == [lexer EXCEPT !.doctype.quirks = FALSE]
  <2>5. CASE \/ NextChar(AppendTemporary(lexer, <<Replacement>>))
             \/ NextChar(AppendTemporary(n, <<Lower(c)>>))
    <3>1. Loose(lexer) /\ Loose(n) /\ n.state = "doctype name"
        BY <2>2, LooseChanges DEF Typed, Alike
    <3> HIDE DEF n
    <3> QED BY <1>2, <1>4, <2>2, <2>5, <3>1
  <2> QED BY <1>6, <2>3, <2>4, <2>5 DEF DoctypeName
<1>7. CASE AfterDoctypeName
  <2>1. At("after doctype name")
      BY <1>7 DEF AfterDoctypeName
  <2>2. /\ Lexing /\ Typed(lexer) /\ lexer.state = "after doctype name" /\ lexer.temp = <<>>
        /\ \A t : Loose(To(t)) /\ To(t).state = t /\ To(t).temp = <<>>
      BY <1>1, <2>1, FromDoctype DEF Typed
  <2>3. ASSUME NEW t \in {"after doctype public keyword", "after doctype system keyword"},
               NEW word, Len(word) \in Nat, NextChar(Past(To(t), word))
        PROVE  IInv'
    <3> DEFINE l == To(t)
               m == Past(l, word)
    <3>2. IsLexer(l) /\ l.flush = 0 /\ l.extra = NoChar /\ ~l.tag.open /\ l.state = t
          /\ l.temp = <<>>
        BY <2>2 DEF Loose
    <3> HIDE DEF l
    <3>3. IsLexer(m) /\ m.flush = 0 /\ m.extra = NoChar /\ ~m.tag.open /\ m.state = t
          /\ m.temp = <<>>
        BY <2>3, <3>2, PastIs
    <3> HIDE DEF m
    <3>1. Typed(Past(To(t), word))
        BY <1>1, <3>3 DEF Typed, Loose, l, m
    <3> QED BY <2>2, <2>3, <3>1, TypedNext
  <2>4. Len(<<"public">>) \in Nat /\ Len(<<"system">>) \in Nat
      OBVIOUS
  <2> QED BY <1>1, <1>7, <2>1, <2>3, <2>4, DoctypeEnds DEF AfterDoctypeName
<1> QED BY <1>3, <1>5, <1>6, <1>7

\* An identifier, which is out of the buffer before the next one begins.
LEMMA DoctypeIdSound ==
    ASSUME IInv, NEW quoted \in {PublicIdQuoted, SystemIdQuoted}, NEW quote \in Quotes,
           NEW after \in {"after doctype public id", "after doctype system id"},
           DoctypeId(quoted, quote, after)
    PROVE  IInv'
<1> DEFINE finished(l) == IF quoted = PublicIdQuoted THEN FinishPublicId(l) ELSE FinishSystemId(l)
<1>1. /\ At(quoted[quote]) /\ quoted[quote] \in DoctypeStates \ ClearStates
      /\ after \in DoctypeStates
    BY QuotedNames, States DEF DoctypeId, IdStates
<1>2. /\ Lexing /\ Typed(lexer) /\ lexer.state = quoted[quote]
      /\ \A t : Loose(To(t)) /\ To(t).state = t
    BY <1>1, FromDoctype
<1>3. \A t : Loose(Quirks(To(t))) /\ Quirks(To(t)).state = t
    BY <1>2, LooseChanges DEF Alike
<1>4. ASSUME NEW l, Loose(l) PROVE Cleared(l, finished(l))
    BY <1>4, LooseChanges
<1>5. CASE NextChar(finished(To(after)))
  <2>1. Cleared(To(after), finished(To(after)))
      BY <1>2, <1>4
  <2> HIDE DEF finished
  <2>2. Typed(finished(To(after)))
      BY <1>1, <1>2, <2>1 DEF Typed, Cleared
  <2> QED BY <1>2, <1>5, <2>2, TypedNext
<1>6. CASE EmitDoctype(finished(Quirks(To("data"))))
  <2>1. Cleared(Quirks(To("data")), finished(Quirks(To("data"))))
      BY <1>3, <1>4
  <2> HIDE DEF finished
  <2> QED BY <1>2, <1>3, <1>6, <2>1, DoctypeEmits DEF Cleared
<1>7. CASE NextChar(AppendTemporary(lexer, <<Unnulled(c)>>))
  <2>1. Unnulled(c) \in Symbols
      BY CharIsSymbol DEF IInv, Parts, IsLexer, c
  <2>2. <<Unnulled(c)>> \in Seq(Symbols)
      BY <2>1, OneSymbol
  <2>4. Loose(lexer)
      BY <1>2 DEF Typed
  <2>5. /\ Loose(AppendTemporary(lexer, <<Unnulled(c)>>))
        /\ AppendTemporary(lexer, <<Unnulled(c)>>).state = quoted[quote]
      BY <1>2, <2>2, <2>4, LooseChanges
  <2>3. Typed(AppendTemporary(lexer, <<Unnulled(c)>>))
      BY <1>1, <2>5 DEF Typed
  <2> QED BY <1>2, <1>7, <2>3, TypedNext
<1> QED BY <1>5, <1>6, <1>7 DEF DoctypeId

\* Around the identifiers; the end of the input after the first leaves the doctype open.
LEMMA DoctypeIdsSound ==
    ASSUME IInv,
           \/ AfterDoctypePublicKeyword \/ BeforeDoctypePublicId \/ AfterDoctypePublicId
           \/ BetweenDoctypeIds \/ AfterDoctypeSystemKeyword \/ BeforeDoctypeSystemId
    PROVE  IInv'
<1>1. IdStates \subseteq DoctypeStates /\ IdStates \subseteq ClearStates
    BY DEF DoctypeStates, ClearStates
<1>2. ASSUME NEW s \in IdStates, At(s), NEW t \in IdStates, NextChar(To(t))
      PROVE  IInv'
  <2>1. Lexing /\ Typed(To(t))
      BY <1>1, <1>2, FromDoctype DEF Typed
  <2> QED BY <1>2, <2>1, TypedNext
<1>3. CASE AfterDoctypePublicKeyword
    BY <1>1, <1>2, <1>3, IdBeginsSound, DoctypeEnds DEF AfterDoctypePublicKeyword, IdStates
<1>4. CASE BeforeDoctypePublicId
    BY <1>1, <1>2, <1>4, IdBeginsSound, DoctypeEnds DEF BeforeDoctypePublicId, IdStates
<1>5. CASE BetweenDoctypeIds
    BY <1>1, <1>2, <1>5, IdBeginsSound, DoctypeEnds DEF BetweenDoctypeIds, IdStates
<1>6. CASE AfterDoctypeSystemKeyword
    BY <1>1, <1>2, <1>6, IdBeginsSound, DoctypeEnds DEF AfterDoctypeSystemKeyword, IdStates
<1>7. CASE BeforeDoctypeSystemId
    BY <1>1, <1>2, <1>7, IdBeginsSound, DoctypeEnds DEF BeforeDoctypeSystemId, IdStates
<1>8. CASE AfterDoctypePublicId
  <2>1. At("after doctype public id") /\ "after doctype public id" \in IdStates
      BY <1>8 DEF AfterDoctypePublicId, IdStates
  <2>2. CASE c = EOF /\ NextChar(Again(Quirks(To("data"))))
    <3> DEFINE l == To("data")
               m == Again(Quirks(l))
    <3>1. Lexing /\ Loose(l) /\ l.state = "data" /\ l.pos = lexer.pos
        BY <1>1, <2>1, FromDoctype DEF To, IInv, Parts, IsLexer, LexerFields
    <3> HIDE DEF l
    <3>2. Loose(Quirks(l)) /\ Quirks(l).state = "data" /\ Quirks(l).pos = lexer.pos
        BY <3>1, LooseChanges DEF Alike, Quirks, Loose, IsLexer, LexerFields
    <3>3. Loose(m) /\ m.state = "data" /\ m.pos = lexer.pos
        BY <3>2, LooseChanges DEF Alike, Again, Loose, IsLexer, LexerFields
    <3>4. NextChar(m)
        BY <2>2 DEF l
    <3> HIDE DEF m
    <3>5. Quiet(m)
        BY <2>2, <3>3 DEF Quiet, Loose, QuietStates, EndStates, ExtraInv, DoctypeInv, c
    <3> QED BY <3>1, <3>4, <3>5, QuietNext
  <2> QED BY <1>1, <1>2, <1>8, <2>1, <2>2, IdBeginsSound, DoctypeEnds
          DEF AfterDoctypePublicId, IdStates
<1> QED BY <1>3, <1>4, <1>5, <1>6, <1>7, <1>8

\* The rest of a doctype.
LEMMA DoctypeRestSound ==
    ASSUME IInv, AfterDoctypeSystemId \/ BogusDoctype
    PROVE  IInv'
<1>1. "after doctype system id" \in DoctypeStates /\ "bogus doctype" \in DoctypeStates
    BY States
<1>2. CASE AfterDoctypeSystemId
    BY <1>1, <1>2, DoctypeEnds DEF AfterDoctypeSystemId
<1>3. CASE BogusDoctype
  <2>1. At("bogus doctype")
      BY <1>3 DEF BogusDoctype
  <2>2. Lexing /\ Typed(lexer) /\ Loose(To("data")) /\ To("data").state = "data"
      BY <1>1, <2>1, FromDoctype
  <2> QED BY <1>3, <2>2, DoctypeEmits, TypedNext DEF BogusDoctype
<1> QED BY <1>2, <1>3

\* All handlers of comments, doctypes and CDATA sections.
LEMMA MarkupStateSound ==
    ASSUME IInv, MarkupState
    PROVE  IInv'
BY BogusCommentSound, MarkupDeclarationSound, CommentsSound, DoctypeNamesSound, DoctypeIdSound,
   DoctypeIdsSound, DoctypeRestSound, CdataSound DEF MarkupState

-----------------------------------------------------------------------------
\* The invariant holds at the start of every document.
LEMMA InitSound == Init => IInv
<1> SUFFICES ASSUME Init PROVE IInv
    OBVIOUS
<1>1. IsInput
  <2>1. PICK family \in Documents :
          \E rest \in BoundedSeq(family.then, family.len) : input = family.start \o rest
      BY DEF Init
  <2>2. PICK rest \in BoundedSeq(family.then, family.len) : input = family.start \o rest
      BY <2>1
  <2>3. rest \in Seq(STRING \ {EOF}) /\ family.start \in Seq(STRING \ {EOF})
    <3>1. rest \in UNION {[1 .. n -> family.then] : n \in 0 .. family.len}
        BY <2>2 DEF BoundedSeq, SeqOf
    <3>2. PICK n \in 0 .. family.len : rest \in [1 .. n -> family.then]
        BY <3>1
    <3>3. /\ family.start \in Seq(STRING \ {EOF}) /\ family.then \subseteq STRING \ {EOF}
          /\ family.len \in Nat
        BY DocumentsAssumption
    <3>4. n \in Nat /\ rest \in [1 .. n -> STRING \ {EOF}]
        BY <3>2, <3>3
    <3> QED BY <3>3, <3>4
  <2> QED BY <2>2, <2>3 DEF IsInput
<1>2. lexer = InitialLexer /\ turn = "lexer"
    BY DEF Init
<1>3. IsLexer(lexer)
  <2>1. <<>> \in Seq(Symbols)
      OBVIOUS
  <2>2. /\ DOMAIN lexer = LexerFields /\ DOMAIN lexer.tag = TagFields
        /\ DOMAIN lexer.doctype = DoctypeFields
      BY <1>2 DEF InitialLexer, NoDoctype, LexerFields, TagFields, DoctypeFields
  <2>3. /\ lexer.temp = <<>> /\ lexer.pos = 1 /\ lexer.mark = 1 /\ lexer.flush = 0
        /\ lexer.again = FALSE /\ lexer.tag.open = FALSE /\ lexer.tag.isStart = FALSE
        /\ lexer.doctype.open = FALSE
      BY <1>2 DEF InitialLexer, NoDoctype
  <2>4. lexer.temp \in Seq(Symbols)
      BY <2>1, <2>3
  <2>5. /\ lexer.tag.open \in BOOLEAN /\ lexer.tag.isStart \in BOOLEAN
        /\ lexer.doctype.open \in BOOLEAN
      BY <2>3
  <2> QED BY <2>2, <2>3, <2>4, <2>5 DEF IsLexer
<1>4. /\ lexer.state = "data" /\ ~lexer.tag.open /\ ~lexer.doctype.open /\ lexer.flush = 0
      /\ lexer.extra = NoChar /\ lexer.again = FALSE
    BY <1>2 DEF InitialLexer, NoDoctype
<1>5. "data" \notin KeptStates \cup OpenStates \cup EndTagOpenStates \cup EndTagNameStates
                        \cup ClearStates \cup AttributeStates
    BY States DEF KeptStates, OpenStates, ClearStates, IdStates
<1> QED BY <1>1, <1>2, <1>3, <1>4, <1>5
        DEF IInv, Parts, TempInv, TagInv, DoctypeInv, KeptInv, FlushInv, ExtraInv

\* Every step preserves it.
LEMMA NextSound == IInv /\ [Next]_vars => IInv'
<1> SUFFICES ASSUME IInv, [Next]_vars PROVE IInv'
    OBVIOUS
<1>1. CASE UNCHANGED vars
  <2>1. lexer' = lexer /\ input' = input /\ turn' = turn
      BY <1>1 DEF vars
  <2>2. Parts(lexer)'
      BY <2>1, PartsNext DEF IInv
  <2> QED BY <2>1, <2>2 DEF IInv, IsInput
<1>2. CASE Next
    BY <1>2, BufferedCharSound, FlushTemporarySound, TextStateSound, TagStateSound,
       MarkupStateSound, ReactSound DEF Next
<1> QED BY <1>1, <1>2

\* Whatever the document and however long, the buffers are as each state of the
\* tokenizer expects them (the asserts of tokenizer.c listed at LexerAsserts; but
\* for 870, where a document ends after the public identifier of its doctype).
THEOREM LexerIsSound == Spec => []LexerAsserts
<1> QED BY InitSound, NextSound, InvImpliesAsserts, PTL DEF Spec

-----------------------------------------------------------------------------
(* Attributes: the invariant.  A value belongs to the attribute whose "="  *)
(* it follows, so that between the beginning of an attribute's name and    *)
(* that of its value there is one "=".                                     *)
NoEquals(from, to)  == EqualsSigns(from, to) = {}
OneEquals(from, to) == \E p : EqualsSigns(from, to) = {p}

(* What the buffer of a tag is made of, and its attributes. *)
TagSymbols == Symbols \cup {"&", "u", "v"}
Attribute  == [name : Seq(TagSymbols), from : Nat, value : Seq(TagSymbols), valueFrom : Nat]

IsTag(t) ==
    /\ DOMAIN t = TagFields /\ t.attributes \in Seq(Attribute) /\ t.buffer \in Seq(TagSymbols)
    /\ t.from \in Nat /\ t.drop \in BOOLEAN

Own(as) ==
    /\ \A j, k \in DOMAIN as : as[j].name = as[k].name => j = k
    /\ \A j \in DOMAIN as : as[j].value # <<>> => OneEquals(as[j].from, as[j].valueFrom)

(* An attribute that was not left out waits for its value. *)
LastFrom(t) == t.attributes[Len(t.attributes)].from

NameStates  == {"before attr name", "self closing", "after attr name"}
InValue     == ValueNames \cup {"after attr value quoted", "char ref in attr value"}
IsUnquoted(s, t) ==
    "attr value unquoted" = IF s = "char ref in attr value" THEN t.valueState ELSE s

(* The tag t that is under way in state s, with p the next place to be read. *)
TagIs(s, p, t) ==
    /\ s \in NameStates => t.buffer = <<>> /\ t.from <= p /\ NoEquals(t.from, p)
    /\ s = "attr name" => t.from < p /\ NoEquals(t.from, p)
    /\ s = "after attr name" /\ ~t.drop =>
        t.attributes # <<>> /\ LastFrom(t) < p /\ NoEquals(LastFrom(t), p)
    /\ s = "before attr value" =>
        t.buffer = <<>> /\ (~t.drop => t.attributes # <<>> /\ OneEquals(LastFrom(t), p))
    /\ s = "char ref in attr value" => CharAt(p) = "&"
    /\ s \in InValue /\ ~t.drop =>
        /\ t.attributes # <<>>
        /\ OneEquals(LastFrom(t), IF t.buffer = <<>> /\ IsUnquoted(s, t) THEN p ELSE t.from)

TagsAre(s, p, t) == IsTag(t) /\ Own(t.attributes) /\ TagIs(s, p, t)

OwnToken(t) ==
    /\ "type" \in DOMAIN t
    /\ t.type = "start" => "attributes" \in DOMAIN t /\ Own(t.attributes)
TokensOwn ==
    /\ \E S : tokens \in Seq(S)
    /\ \A i \in DOMAIN tokens : OwnToken(tokens[i])

OwnInv == TagsAre(lexer.state, lexer.pos, lexer.tag) /\ TokensOwn

-----------------------------------------------------------------------------
(* Counting "=". *)

\* What is passed over without an "=" changes no count.
LEMMA EqualsOn ==
    ASSUME NEW from \in Nat, NEW p \in Nat, NEW q \in Nat, p <= q,
           \A r \in p .. q - 1 : r <= Len(input) /\ CharAt(r) # "="
    PROVE  EqualsSigns(from, q) = EqualsSigns(from, p)
<1>1. ASSUME NEW r \in from + 1 .. q - 1, input[r] = "=" PROVE r \in from + 1 .. p - 1
  <2>1. CASE r \in p .. q - 1
      BY <1>1, <2>1 DEF CharAt
  <2>2. CASE r \notin p .. q - 1
      BY <2>2
  <2> QED BY <2>1, <2>2
<1>2. \A r \in from + 1 .. p - 1 : r \in from + 1 .. q - 1
    OBVIOUS
<1> QED BY <1>1, <1>2 DEF EqualsSigns

\* One symbol other than "=".
LEMMA EqualsSkip ==
    ASSUME NEW from \in Nat, NEW p \in Nat, IsInput, CharAt(p) # "=", CharAt(p) # EOF
    PROVE  EqualsSigns(from, p + 1) = EqualsSigns(from, p)
<1>1. p <= Len(input)
    BY DEF CharAt
<1>2. \A r \in p .. (p + 1) - 1 : r = p
    OBVIOUS
<1>3. p <= p + 1 /\ p + 1 \in Nat
    OBVIOUS
<1> QED BY <1>1, <1>2, <1>3, EqualsOn

\* The "=" after a name.
LEMMA EqualsFound ==
    ASSUME NEW from \in Nat, NEW p \in Nat, from < p, NoEquals(from, p), CharAt(p) = "="
    PROVE  OneEquals(from, p + 1)
<1>1. input[p] = "="
    BY DEF CharAt, EOF
<1>2. EqualsSigns(from, p + 1) = {p}
  <2>1. ASSUME NEW r \in EqualsSigns(from, p + 1) PROVE r = p
    <3>1. r \in from + 1 .. p /\ input[r] = "="
        BY DEF EqualsSigns
    <3>2. r \notin from + 1 .. p - 1
        BY <3>1 DEF NoEquals, EqualsSigns
    <3> QED BY <3>1, <3>2
  <2>2. p \in EqualsSigns(from, p + 1)
      BY <1>1 DEF EqualsSigns
  <2> QED BY <2>1, <2>2
<1> QED BY <1>2 DEF OneEquals

\* Right at or after a place there is none.
LEMMA EqualsNone ==
    ASSUME NEW p \in Nat
    PROVE  NoEquals(p, p) /\ NoEquals(p, p + 1)
<1>1. p + 1 .. p - 1 = {} /\ p + 1 .. (p + 1) - 1 = {}
    OBVIOUS
<1> QED BY <1>1 DEF NoEquals, EqualsSigns

-----------------------------------------------------------------------------
(* Steps. *)

\* What is said of a tag is said of the tag after a step, and of the tokens.
LEMMA TagsNext ==
    ASSUME input' = input, TagsAre(lexer'.state, lexer'.pos, lexer'.tag), TokensOwn'
    PROVE  OwnInv'
<1>1. \A from, to : EqualsSigns(from, to)' = EqualsSigns(from, to)
    BY DEF EqualsSigns
<1>2. Own(lexer.tag.attributes)'
    BY <1>1 DEF TagsAre, Own, OneEquals
<1>3. IsTag(lexer.tag)'
    BY DEF TagsAre, IsTag
<1>4. TagIs(lexer.state, lexer.pos, lexer.tag)'
    BY <1>1 DEF TagsAre, TagIs, OneEquals, NoEquals, LastFrom, CharAt, IsUnquoted
<1> QED BY <1>2, <1>3, <1>4 DEF OwnInv, TagsAre

(* At most one token more, and that is in order. *)
Told ==
    \/ tokens' = tokens
    \/ \E token, from, to : tokens' = Append(tokens, Located(token, from, to)) /\ OwnToken(token)

\* A step that hands over no tag, or one whose attributes are its own, keeps the tokens so.
LEMMA TokensNext ==
    ASSUME TokensOwn, input' = input, Told
    PROVE  TokensOwn'
<1>1. PICK S : tokens \in Seq(S)
    BY DEF TokensOwn
<1>2. \A from, to : EqualsSigns(from, to)' = EqualsSigns(from, to)
    BY DEF EqualsSigns
<1>3. ASSUME NEW i \in DOMAIN tokens', NEW x, tokens'[i] = x, OwnToken(x) PROVE OwnToken(tokens[i])'
    BY <1>2, <1>3 DEF OwnToken, Own, OneEquals
<1>4. CASE tokens' = tokens
  <2>1. ASSUME NEW i \in DOMAIN tokens' PROVE OwnToken(tokens[i])'
    <3>1. tokens'[i] = tokens[i] /\ OwnToken(tokens[i])
        BY <1>4, <2>1 DEF TokensOwn
    <3> QED BY <1>3, <3>1
  <2> QED BY <1>1, <1>4, <2>1 DEF TokensOwn
<1>5. ASSUME NEW token, NEW from, NEW to, OwnToken(token),
             tokens' = Append(tokens, Located(token, from, to))
      PROVE  TokensOwn'
  <2> DEFINE t == Located(token, from, to)
             T == S \cup {t}
  <2>1. t.type = token.type /\ "type" \in DOMAIN t
      BY <1>5 DEF Located, OwnToken
  <2>2. "attributes" \in DOMAIN token => "attributes" \in DOMAIN t /\ t.attributes = token.attributes
      BY DEF Located
  <2>3. OwnToken(t)
      BY <1>5, <2>1, <2>2 DEF OwnToken
  <2> HIDE DEF t
  <2>4. tokens \in Seq(T) /\ t \in T
      BY <1>1
  <2>5. /\ tokens' \in Seq(T) /\ Len(tokens') = Len(tokens) + 1
        /\ tokens'[Len(tokens) + 1] = t
        /\ \A i \in 1 .. Len(tokens) : tokens'[i] = tokens[i]
      BY <1>5, <2>4, AppendProperties DEF t
  <2>6. DOMAIN tokens = 1 .. Len(tokens) /\ DOMAIN tokens' = 1 .. Len(tokens') /\ Len(tokens) \in Nat
      BY <2>4, <2>5, LenProperties
  <2>7. ASSUME NEW i \in DOMAIN tokens' PROVE OwnToken(tokens[i])'
    <3>1. CASE i = Len(tokens) + 1
        BY <1>3, <2>3, <2>5, <2>7, <3>1
    <3>2. CASE i # Len(tokens) + 1
      <4>1. i \in DOMAIN tokens
          BY <2>5, <2>6, <3>2
      <4>2. tokens'[i] = tokens[i] /\ OwnToken(tokens[i])
          BY <2>5, <2>6, <4>1 DEF TokensOwn
      <4> QED BY <1>3, <4>2
    <3> QED BY <3>1, <3>2
  <2> QED BY <2>5, <2>7 DEF TokensOwn
<1> QED BY <1>4, <1>5 DEF Told

-----------------------------------------------------------------------------
(* Steps that leave the tag under way as it is. *)
Calm == lexer'.tag = lexer.tag /\ input' = input /\ Told

\* Where no part of a tag but its name is read, nothing else is said of it.
LEMMA CalmNext ==
    ASSUME OwnInv, IInv', lexer.state \notin AttributeStates \cup EndTagNameStates, IInv, Calm
    PROVE  OwnInv'
<1>1. ~lexer.tag.open
    BY DEF IInv, Parts, TagInv
<1>2. ~(lexer'.tag).open
    BY <1>1 DEF Calm
<1>3. lexer'.state \notin AttributeStates
    BY <1>2 DEF IInv, Parts, TagInv
<1>4. /\ lexer'.state \notin NameStates /\ lexer'.state \notin InValue
      /\ lexer'.state # "attr name" /\ lexer'.state # "before attr value"
      /\ lexer'.state # "after attr name" /\ lexer'.state # "char ref in attr value"
    BY <1>3, States DEF NameStates, InValue, ValueNames
<1>5. TagIs(lexer'.state, lexer'.pos, lexer'.tag)
    BY <1>4 DEF TagIs
<1>6. TagsAre(lexer'.state, lexer'.pos, lexer'.tag)
    BY <1>5 DEF Calm, OwnInv, TagsAre
<1> QED BY <1>6, TagsNext, TokensNext DEF Calm, OwnInv

Light(l) == DOMAIN l = LexerFields /\ l.tag = lexer.tag

\* A step on, and a token that is no start tag.
LEMMA LightNext ==
    ASSUME NEW l, Light(l), NextChar(l)
    PROVE  Calm
BY DEF Light, NextChar, Settled, Advance, LexerFields, Calm, Told

\* Handing over a token that is no start tag leaves the tag under way alone (emit_*,
\* tokenizer.c).
LEMMA LightEmit ==
    ASSUME NEW l, NEW token, Light(l), "type" \in DOMAIN token, token.type # "start", Emit(l, token)
    PROVE  Calm
<1>1. DOMAIN Settled(l) = LexerFields /\ Settled(l).tag = lexer.tag
    BY DEF Light, Settled, Advance, LexerFields
<1>2. lexer'.tag = lexer.tag /\ input' = input
    BY <1>1 DEF Emit, LexerFields
<1>3. OwnToken(token)
    BY DEF OwnToken
<1>4. Told
    BY <1>3 DEF Emit, Told
<1> QED BY <1>2, <1>4 DEF Calm

\* So does handing over a symbol,
LEMMA LightChar ==
    ASSUME NEW l, NEW s, Light(l), EmitChar(l, s)
    PROVE  Calm
<1>1. CharType(s) # "start"
    BY DEF CharType
<1> QED BY <1>1, LightEmit DEF EmitChar

\* What the handlers do to the lexer other than to its tag.
LEMMA LightChanges ==
    ASSUME NEW l, Light(l)
    PROVE  /\ Light(Again(l)) /\ Light(ClearTemporary(l)) /\ Light(Quirks(l))
           /\ \A ss : Light(AppendTemporary(l, ss))
           /\ \A word : Light(Past(l, word))
           /\ \A x : /\ Light([l EXCEPT !.script = x]) /\ Light([l EXCEPT !.pos = x])
                     /\ Light([l EXCEPT !.extra = x])
                     /\ Light([l EXCEPT !.mark = x]) /\ Light([l EXCEPT !.start = x])
                     /\ Light([l EXCEPT !.doctype.open = x])
                     /\ Light([l EXCEPT !.doctype.quirks = x]) /\ Light([l EXCEPT !.doctype = x])
           /\ \A x, y : Light([l EXCEPT !.pos = x, !.extra = y])
           /\ \A x, y : Light([l EXCEPT !.pos = x, !.start = y])
           /\ \A x, y : Light([l EXCEPT !.again = x, !.flush = y])
           /\ Light(FinishDoctypeName(l)) /\ Light(FinishPublicId(l)) /\ Light(FinishSystemId(l))
BY DEF Light, LexerFields, Again, ClearTemporary, AppendTemporary, Past, Quirks,
       FinishDoctypeName, FinishPublicId, FinishSystemId

\* beginning to flush the temporary buffer,
LEMMA LightTemporary ==
    ASSUME NEW l, Light(l), EmitTemporary(l)
    PROVE  Calm
<1>1. \A m, i : Light(m) /\ FlushFrom(m, i) => Calm
    BY LightChanges, LightChar DEF FlushFrom
<1>2. Light([l EXCEPT !.pos = l.mark])
    BY LightChanges
<1> QED BY <1>1, <1>2 DEF EmitTemporary

\* and handing over a comment, a doctype or a character reference.
LEMMA LightOthers ==
    ASSUME NEW l, Light(l), EmitComment(l) \/ EmitDoctype(l) \/ EmitCharRef(l)
    PROVE  Calm
<1>1. CASE EmitComment(l)
    BY <1>1, LightChanges, LightEmit DEF EmitComment
<1>2. CASE EmitDoctype(l)
  <2>1. Light([l EXCEPT !.doctype = NoDoctype])
      BY LightChanges
  <2>2. Emit([l EXCEPT !.doctype = NoDoctype], [type |-> "doctype", doctype |-> l.doctype])
      BY <1>2 DEF EmitDoctype
  <2> QED BY <2>1, <2>2, LightEmit
<1>3. CASE EmitCharRef(l)
  <2> DEFINE ref  == ConsumeCharRef(l.pos, " ", FALSE)
             at   == [l EXCEPT !.mark = l.pos]
             past == [at EXCEPT !.pos = ref.pos, !.extra = ref.second]
  <2>1. Light(at)
      BY LightChanges
  <2>2. EmitChar(at, "&") \/ EmitChar(Again(past), ref.first)
      BY <1>3 DEF EmitCharRef
  <2> HIDE DEF at, ref
  <2>3. Light(past)
      BY <2>1, LightChanges
  <2> HIDE DEF past
  <2> QED BY <2>1, <2>2, <2>3, LightChanges, LightChar
<1> QED BY <1>1, <1>2, <1>3

\* At the start of every step.
LEMMA LightHere ==
    ASSUME IInv
    PROVE  Light(lexer) /\ \A t : Light(To(t))
BY DEF IInv, Parts, IsLexer, Light, To, LexerFields

-----------------------------------------------------------------------------
(* The states of text and of markup leave the tag alone. *)

\* Outside of tags.
LEMMA OutsideTags ==
    \A s \in QuietStates \cup OpenStates \cup EndTagOpenStates \cup DoctypeStates
                \cup {"markup declaration"} :
        s \notin AttributeStates \cup EndTagNameStates
BY States, QuietApart DEF OpenStates, IdStates

Outside == lexer.state \notin AttributeStates \cup EndTagNameStates

\* So do the symbols that go out of the buffer one by one (maybe_emit_from_temporary_buffer).
LEMMA FlushCalm ==
    ASSUME IInv, BufferedChar \/ FlushTemporary
    PROVE  Calm
<1>1. CASE BufferedChar
  <2>1. Light([lexer EXCEPT !.extra = NoChar])
      BY LightHere, LightChanges
  <2> QED BY <1>1, <2>1, LightChanges, LightChar DEF BufferedChar
<1>2. CASE FlushTemporary
  <2>1. \A x, y : Light([lexer EXCEPT !.again = x, !.flush = y])
      BY LightHere, LightChanges
  <2> QED BY <1>2, <2>1, LightChar DEF FlushTemporary, FlushFrom
<1> QED BY <1>1, <1>2

\* The states of text (handle_data_state ... handle_plaintext_state) end outside every tag.
LEMMA TextCalm ==
    ASSUME IInv,
           \/ DataState \/ CharRefInData \/ Rcdata \/ CharRefInRcdata
           \/ RawText("rawtext") \/ RawText("script") \/ Plaintext
    PROVE  Calm /\ Outside
<1>1. Outside
    BY OutsideTags DEF Outside, QuietStates, EndStates, At, DataState, CharRefInData, Rcdata,
                       CharRefInRcdata, RawText, Plaintext
<1>2. \A s : Light(Opened(s))
    BY LightHere, LightChanges DEF Opened
<1>3. CASE DataState \/ CharRefInData
    BY <1>1, <1>2, <1>3, LightHere, LightChanges, LightNext, LightChar, LightOthers
       DEF DataState, CharRefInData
<1>4. CASE Rcdata \/ CharRefInRcdata
    BY <1>1, <1>2, <1>4, LightHere, LightChanges, LightNext, LightChar, LightOthers
       DEF Rcdata, CharRefInRcdata
<1>5. CASE RawText("rawtext") \/ RawText("script") \/ Plaintext
    BY <1>1, <1>2, <1>5, LightHere, LightNext, LightChar DEF RawText, Plaintext
<1> QED BY <1>3, <1>4, <1>5

\* So do those after "<" in raw text,
LEMMA LessThanCalm ==
    ASSUME IInv,
           \/ RawLessThan("rcdata") \/ RawLessThan("rawtext") \/ ScriptLessThan \/ EscapedLessThan
    PROVE  Calm /\ Outside
<1>1. Outside
    BY OutsideTags DEF Outside, OpenStates, At, RawLessThan, LessThan, RawStates, ScriptLessThan,
                       EscapedLessThan
<1>2. Calm
  <2>1. CASE RawLessThan("rcdata") \/ RawLessThan("rawtext")
      BY <2>1, LightHere, LightChanges, LightNext, LightTemporary DEF RawLessThan, ToEndTag
  <2>2. CASE ScriptLessThan
      BY <2>2, LightHere, LightChanges, LightNext, LightTemporary DEF ScriptLessThan, ToEndTag
  <2>3. CASE EscapedLessThan
    <3>1. \A s, x, y : Light([AppendTemporary(To(s), x) EXCEPT !.script = y])
        BY LightHere, LightChanges
    <3> QED BY <2>3, <3>1, LightHere, LightChanges, LightNext, LightTemporary
            DEF EscapedLessThan, ToEndTag
  <2> QED BY <2>1, <2>2, <2>3
<1> QED BY <1>1, <1>2

\* those inside an escaped script,
LEMMA ScriptCalm ==
    ASSUME IInv,
           \/ EscapedStart \/ EscapedStartDash \/ Escaped \/ EscapedDash \/ EscapedDashDash
           \/ DoubleEscapedStart \/ DoubleEscaped \/ DoubleEscapedDash \/ DoubleEscapedDashDash
           \/ DoubleEscapedLessThan \/ DoubleEscapedEnd
    PROVE  Calm /\ Outside
<1>1. Outside
    BY OutsideTags
       DEF Outside, QuietStates, At, EscapedStart, EscapedStartDash, Escaped, EscapedDash,
           EscapedDashDash, DoubleEscapedStart, DoubleEscaped, DoubleEscapedDash,
           DoubleEscapedDashDash, DoubleEscapedLessThan, DoubleEscapedEnd
<1>2. Light(lexer) /\ (\A s : Light(To(s)) /\ Light(Again(To(s))) /\ Light(Opened(s)))
    BY LightHere, LightChanges DEF Opened
<1> HIDE DEF Light, Calm
<1>3. CASE EscapedStart \/ EscapedStartDash
    BY <1>1, <1>2, <1>3, LightNext, LightChar DEF EscapedStart, EscapedStartDash
<1>4. CASE Escaped \/ DoubleEscaped
    BY <1>1, <1>2, <1>4, LightNext, LightChar DEF Escaped, DoubleEscaped, EscapedOpens, DoubleOpens
<1>5. CASE EscapedDash \/ EscapedDashDash
    BY <1>1, <1>2, <1>5, LightNext, LightChar
       DEF EscapedDash, EscapedDashDash, AfterDash, EscapedOpens
<1>6. CASE DoubleEscapedDash \/ DoubleEscapedDashDash
    BY <1>1, <1>2, <1>6, LightNext, LightChar
       DEF DoubleEscapedDash, DoubleEscapedDashDash, AfterDash, DoubleOpens
<1>7. CASE DoubleEscapedStart \/ DoubleEscapedEnd
  <2>1. \A x : Light([lexer EXCEPT !.script = x])
      BY <1>2, LightChanges
  <2> QED BY <1>1, <1>2, <1>7, <2>1, LightNext, LightChar
          DEF DoubleEscapedStart, DoubleEscapedEnd, NameOfScript
<1>8. CASE DoubleEscapedLessThan
  <2>1. \A s, x : Light([To(s) EXCEPT !.script = x])
      BY <1>2, LightChanges
  <2> QED BY <1>1, <1>2, <1>8, <2>1, LightNext, LightChar DEF DoubleEscapedLessThan
<1> QED BY <1>3, <1>4, <1>5, <1>6, <1>7, <1>8

\* those of comments,
LEMMA CommentCalm ==
    ASSUME IInv,
           \/ BogusComment \/ MarkupDeclaration \/ CommentStart \/ CommentStartDash \/ Comment
           \/ CommentEndDash \/ CommentEnd \/ CommentEndBang \/ Cdata
    PROVE  Calm /\ Outside
<1>1. Outside
    BY OutsideTags
       DEF Outside, QuietStates, At, BogusComment, MarkupDeclaration, CommentStart,
           CommentStartDash, Comment, CommentEndDash, CommentEnd, CommentEndBang, Cdata
<1>2. /\ Light(lexer)
      /\ \A s : /\ Light(To(s)) /\ Light(Again(To(s))) /\ Light(Again(ClearTemporary(To(s))))
                /\ \A word : /\ Light(Past(To(s), word))
                             /\ \A x : Light([Past(To(s), word) EXCEPT !.doctype.open = x])
                /\ \A x : Light(AppendTemporary(To(s), x))
                /\ \A x, y : /\ Light(AppendTemporary([To(s) EXCEPT !.pos = x], y))
                             /\ Light([Again(To(s)) EXCEPT !.pos = x, !.start = y])
      /\ \A x : Light(AppendTemporary(lexer, x))
    BY LightHere, LightChanges
<1>3. CASE BogusComment
    BY <1>1, <1>2, <1>3, LightOthers DEF BogusComment
<1>4. CASE MarkupDeclaration
    BY <1>1, <1>2, <1>4, LightNext DEF MarkupDeclaration
<1>5. \A ends : CommentOver(ends) => Calm
    BY <1>2, LightOthers DEF CommentOver
<1>6. \A ss : InComment(ss) => Calm
    BY <1>2, LightNext DEF InComment
<1>7. CASE CommentStart \/ CommentStartDash \/ Comment
    BY <1>1, <1>2, <1>5, <1>6, <1>7, LightNext DEF CommentStart, CommentStartDash, Comment
<1>8. CASE CommentEndDash \/ CommentEnd \/ CommentEndBang
    BY <1>1, <1>2, <1>5, <1>6, <1>8, LightNext DEF CommentEndDash, CommentEnd, CommentEndBang
<1>9. CASE Cdata
    BY <1>1, <1>2, <1>9, LightNext, LightChar DEF Cdata
<1> QED BY <1>3, <1>4, <1>7, <1>8, <1>9

\* and those of doctypes.
LEMMA DoctypeCalm ==
    ASSUME IInv,
           \/ DoctypeState \/ BeforeDoctypeName \/ DoctypeName \/ AfterDoctypeName
           \/ AfterDoctypePublicKeyword \/ BeforeDoctypePublicId
           \/ (\E quote \in Quotes :
                   \/ DoctypeId(PublicIdQuoted, quote, "after doctype public id")
                   \/ DoctypeId(SystemIdQuoted, quote, "after doctype system id"))
           \/ AfterDoctypePublicId \/ BetweenDoctypeIds
           \/ AfterDoctypeSystemKeyword \/ BeforeDoctypeSystemId \/ AfterDoctypeSystemId
           \/ BogusDoctype
    PROVE  Calm /\ Outside
<1>1. ASSUME NEW s \in DoctypeStates, At(s) PROVE Outside
    BY <1>1, OutsideTags DEF Outside, At
<1>2. /\ Light(lexer)
      /\ \A s : /\ Light(To(s)) /\ Light(Quirks(To(s))) /\ Light(Again(Quirks(To(s))))
                /\ \A word : Light(Past(To(s), word))
                /\ \A x : Light(AppendTemporary(Quirks(To(s)), x))
                /\ \A x, y : Light(AppendTemporary([To(s) EXCEPT !.doctype.quirks = x], y))
                /\ Light(FinishDoctypeName(To(s))) /\ Light(FinishDoctypeName(Quirks(To(s))))
      /\ \A x : Light(AppendTemporary(lexer, x))
      /\ \A x, y : Light(AppendTemporary([lexer EXCEPT !.doctype.quirks = x], y))
    BY LightHere, LightChanges
<1>3. DoctypeOver => Calm
    BY <1>2, LightOthers DEF DoctypeOver
<1>4. \A ends : DoctypeCutOff(ends) => Calm
    BY <1>2, LightOthers DEF DoctypeCutOff
<1>5. DoctypeBlank => Calm
    BY <1>2, LightNext DEF DoctypeBlank
<1>6. \A quoted : IdBegins(quoted) => Calm
    BY <1>2, LightNext DEF IdBegins
<1>7. CASE DoctypeState \/ BeforeDoctypeName \/ DoctypeName \/ AfterDoctypeName
  <2>1. Outside
      BY <1>1, <1>7, States
         DEF IdStates, DoctypeState, BeforeDoctypeName, DoctypeName, AfterDoctypeName
  <2>2. CASE DoctypeState
      BY <2>1, <1>2, <1>3, <1>4, <1>5, <2>2, LightNext DEF DoctypeState
  <2>3. CASE BeforeDoctypeName
      BY <2>1, <1>2, <1>3, <1>4, <1>5, <2>3, LightNext DEF BeforeDoctypeName
  <2>4. CASE DoctypeName
      BY <2>1, <1>2, <1>3, <1>4, <1>5, <2>4, LightNext, LightOthers DEF DoctypeName
  <2>5. CASE AfterDoctypeName
      BY <2>1, <1>2, <1>3, <1>4, <1>5, <2>5, LightNext DEF AfterDoctypeName
  <2> QED BY <1>7, <2>1, <2>2, <2>3, <2>4, <2>5
<1>8. CASE AfterDoctypePublicKeyword \/ BeforeDoctypePublicId \/ AfterDoctypeSystemKeyword
             \/ BeforeDoctypeSystemId
  <2>1. Outside
      BY <1>1, <1>8, States
         DEF IdStates, AfterDoctypePublicKeyword, BeforeDoctypePublicId,
             AfterDoctypeSystemKeyword, BeforeDoctypeSystemId
  <2>2. Calm
      BY <1>2, <1>4, <1>5, <1>6, <1>8, LightNext, LightOthers
         DEF AfterDoctypePublicKeyword, BeforeDoctypePublicId,
             AfterDoctypeSystemKeyword, BeforeDoctypeSystemId
  <2> QED BY <2>1, <2>2
<1>9. CASE AfterDoctypePublicId \/ BetweenDoctypeIds \/ AfterDoctypeSystemId \/ BogusDoctype
  <2>1. Outside
      BY <1>1, <1>9, States
         DEF IdStates, AfterDoctypePublicId, BetweenDoctypeIds, AfterDoctypeSystemId, BogusDoctype
  <2>2. Calm
      BY <1>2, <1>3, <1>4, <1>5, <1>6, <1>9, LightNext, LightOthers
         DEF AfterDoctypePublicId, BetweenDoctypeIds, AfterDoctypeSystemId, BogusDoctype
  <2> QED BY <2>1, <2>2
<1>10. ASSUME NEW quote \in Quotes, NEW quoted \in {PublicIdQuoted, SystemIdQuoted}, NEW after,
              DoctypeId(quoted, quote, after)
       PROVE  Calm /\ Outside
  <2> DEFINE finished(l) == IF quoted = PublicIdQuoted THEN FinishPublicId(l) ELSE FinishSystemId(l)
  <2>1. At(quoted[quote])
      BY <1>10 DEF DoctypeId
  <2>2. quoted[quote] \in DoctypeStates
    <3>1. /\ PublicIdQuoted[quote] \in {"public id double quoted", "public id single quoted"}
          /\ SystemIdQuoted[quote] \in {"system id double quoted", "system id single quoted"}
        BY DEF PublicIdQuoted, SystemIdQuoted
    <3> QED BY <3>1, States
  <2>3. \A s : Light(finished(To(s))) /\ Light(finished(Quirks(To(s))))
    <3>1. ASSUME NEW l, Light(l) PROVE Light(finished(l))
        BY <3>1, LightChanges
    <3> QED BY <1>2, <3>1
  <2>4. \/ c = quote /\ NextChar(finished(To(after)))
        \/ c \in {">", EOF} /\ EmitDoctype(finished(Quirks(To("data"))))
        \/ NextChar(AppendTemporary(lexer, <<Unnulled(c)>>))
      BY <1>10 DEF DoctypeId
  <2> HIDE DEF finished
  <2>5. Calm
      BY <1>2, <2>3, <2>4, LightNext, LightOthers
  <2> QED BY <1>1, <2>1, <2>2, <2>5
<1> QED BY <1>7, <1>8, <1>9, <1>10

-----------------------------------------------------------------------------
(* What the helpers make of a tag. *)
Formed(l) == IsLexer(l) /\ IsTag(l.tag) /\ Own(l.tag.attributes)

\* The symbols that come into the buffer of a tag.
LEMMA TagSymbol ==
    ASSUME NEW s \in Symbols
    PROVE  {s, Lower(s), Unnulled(s), Lower(Unnulled(s))} \subseteq TagSymbols
<1>1. \A x \in Symbols : Lower(x) \in Symbols
    BY DEF Lower, Symbols
<1>2. Unnulled(s) \in Symbols
    BY DEF Unnulled, Symbols
<1> QED BY <1>1, <1>2 DEF TagSymbols

\* One symbol more in the buffer (append_char_to_tag_buffer).
LEMMA AppendTagIs ==
    ASSUME NEW l, Formed(l), NEW s \in TagSymbols, NEW fromHere \in BOOLEAN
    PROVE  LET m == AppendTag(l, s, fromHere)
           IN  /\ Formed(m) /\ m.state = l.state /\ m.pos = l.pos /\ m.again = l.again
               /\ m.tag.buffer # <<>>
               /\ m.tag.from = IF l.tag.buffer = <<>> /\ fromHere THEN l.pos ELSE l.tag.from
               /\ m.tag.attributes = l.tag.attributes /\ m.tag.drop = l.tag.drop
               /\ m.tag.valueState = l.tag.valueState
<1> DEFINE b == Append(l.tag.buffer, s)
           f == IF l.tag.buffer = <<>> /\ fromHere THEN l.pos ELSE l.tag.from
           m == [l EXCEPT !.tag.buffer = b, !.tag.from = f]
<1>1. AppendTag(l, s, fromHere) = m
    BY DEF AppendTag
<1>2. b \in Seq(TagSymbols) /\ b # <<>> /\ f \in Nat
  <2>1. l.tag.buffer \in Seq(TagSymbols)
      BY DEF Formed, IsTag
  <2>2. b \in Seq(TagSymbols) /\ Len(b) = Len(l.tag.buffer) + 1 /\ Len(l.tag.buffer) \in Nat
      BY <2>1, AppendProperties, LenProperties
  <2>3. b # <<>>
      BY <2>2
  <2> QED BY <2>2, <2>3 DEF Formed, IsTag, IsLexer
<1> HIDE DEF b, f
<1>3. /\ IsLexer(m) /\ m.state = l.state /\ m.pos = l.pos /\ m.again = l.again
      /\ m.tag.buffer = b /\ m.tag.from = f /\ DOMAIN m.tag = TagFields
      /\ m.tag.attributes = l.tag.attributes /\ m.tag.drop = l.tag.drop
      /\ m.tag.valueState = l.tag.valueState
    BY DEF Formed, IsLexer, LexerFields, TagFields
<1> HIDE DEF m
<1>4. IsTag(m.tag)
    BY <1>2, <1>3 DEF Formed, IsTag
<1>5. Formed(m)
    BY <1>3, <1>4 DEF Formed
<1> QED BY <1>1, <1>2, <1>3, <1>5 DEF f

\* A symbol appended to the tag's buffer notes where it was read if it is the first.
LEMMA AppendHere ==
    ASSUME NEW l, Formed(l), NEW s, s \in TagSymbols
    PROVE  LET m == AppendTag(l, s, TRUE)
           IN  /\ Formed(m) /\ m.state = l.state /\ m.pos = l.pos /\ m.again = l.again
               /\ m.tag.buffer # <<>>
               /\ m.tag.from = IF l.tag.buffer = <<>> THEN l.pos ELSE l.tag.from
               /\ m.tag.attributes = l.tag.attributes /\ m.tag.drop = l.tag.drop
               /\ m.tag.valueState = l.tag.valueState
BY AppendTagIs

\* The buffer is empty again (finish_tag_name).
LEMMA ReinitializedIs ==
    ASSUME NEW l, Formed(l)
    PROVE  LET m == ReinitializeTagBuffer(l)
           IN  /\ Formed(m) /\ m.state = l.state /\ m.pos = l.pos /\ m.again = l.again
               /\ m.tag.buffer = <<>> /\ m.tag.from = l.pos
               /\ m.tag.attributes = l.tag.attributes /\ m.tag.drop = l.tag.drop
<1> DEFINE m == ReinitializeTagBuffer(l)
<1>1. /\ IsLexer(m) /\ m.state = l.state /\ m.pos = l.pos /\ m.again = l.again
      /\ m.tag.buffer = <<>> /\ m.tag.from = l.pos /\ DOMAIN m.tag = TagFields
      /\ m.tag.attributes = l.tag.attributes /\ m.tag.drop = l.tag.drop
    BY DEF ReinitializeTagBuffer, Formed, IsLexer, LexerFields, TagFields
<1> HIDE DEF m
<1>2. IsTag(m.tag)
    BY <1>1 DEF Formed, IsTag, IsLexer
<1> QED BY <1>1, <1>2 DEF Formed, m

\* After finish_tag_name the buffer is empty and begins at the iterator.
LEMMA FinishTagNameIs ==
    ASSUME NEW l, Formed(l)
    PROVE  LET m == FinishTagName(l)
           IN  /\ Formed(m) /\ m.state = l.state /\ m.pos = l.pos /\ m.again = l.again
               /\ m.tag.buffer = <<>> /\ m.tag.from = l.pos
<1> DEFINE k == [l EXCEPT !.tag.name = l.tag.buffer]
<1>1. Formed(k) /\ k.state = l.state /\ k.pos = l.pos /\ k.again = l.again
    BY DEF Formed, IsLexer, LexerFields, IsTag, TagFields
<1> HIDE DEF k
<1> QED BY <1>1, ReinitializedIs DEF FinishTagName, k

\* A tag without attributes and buffer (abandon_current_tag).
LEMMA AbandonedIs ==
    ASSUME NEW l, Formed(l)
    PROVE  LET m == AbandonTag(l)
           IN  Formed(m) /\ m.state = l.state /\ m.pos = l.pos /\ m.again = l.again
<1> DEFINE m == AbandonTag(l)
<1>1. /\ IsLexer(m) /\ m.state = l.state /\ m.pos = l.pos /\ m.again = l.again
      /\ m.tag.buffer = <<>> /\ m.tag.from = l.tag.from /\ DOMAIN m.tag = TagFields
      /\ m.tag.attributes = <<>> /\ m.tag.drop = l.tag.drop
    BY DEF AbandonTag, Formed, IsLexer, LexerFields, TagFields
<1> HIDE DEF m
<1>2. IsTag(m.tag) /\ Own(m.tag.attributes)
    BY <1>1 DEF Formed, IsTag, Own
<1> QED BY <1>1, <1>2 DEF Formed, m

\* A new attribute has a name that no other has; a second one of its name is
\* left out (finish_attribute_name).
LEMMA FinishAttributeNameIs ==
    ASSUME NEW l, Formed(l)
    PROVE  LET m == FinishAttributeName(l)
           IN  /\ Formed(m) /\ m.state = l.state /\ m.pos = l.pos /\ m.again = l.again
               /\ m.tag.buffer = <<>> /\ m.tag.from = l.pos
               /\ ~m.tag.drop => m.tag.attributes # <<>> /\ LastFrom(m.tag) = l.tag.from
<1> DEFINE as    == l.tag.attributes
           entry == [name |-> l.tag.buffer, from |-> l.tag.from,
                     value |-> <<>>, valueFrom |-> l.tag.from]
           more  == Append(as, entry)
<1>1. as \in Seq(Attribute) /\ entry \in Attribute
    BY DEF Formed, IsTag, Attribute
<1>2. /\ more \in Seq(Attribute) /\ Len(more) = Len(as) + 1 /\ more[Len(more)] = entry
      /\ \A j \in 1 .. Len(as) : more[j] = as[j]
      /\ DOMAIN as = 1 .. Len(as) /\ DOMAIN more = 1 .. Len(more) /\ Len(as) \in Nat
    BY <1>1, AppendProperties, LenProperties
<1>3. CASE HasAttribute(l, l.tag.buffer)
  <2> DEFINE k == [l EXCEPT !.tag.drop = TRUE]
  <2>1. FinishAttributeName(l) = ReinitializeTagBuffer(k)
      BY <1>3 DEF FinishAttributeName
  <2>2. /\ IsLexer(k) /\ k.state = l.state /\ k.pos = l.pos /\ k.again = l.again
        /\ k.tag.drop = TRUE /\ k.tag.attributes = as /\ k.tag.buffer = l.tag.buffer
        /\ k.tag.from = l.tag.from /\ DOMAIN k.tag = TagFields
      BY DEF Formed, IsLexer, LexerFields, TagFields
  <2> HIDE DEF k
  <2>3. Formed(k)
      BY <2>2 DEF Formed, IsTag
  <2> QED BY <2>1, <2>2, <2>3, ReinitializedIs
<1>4. CASE ~HasAttribute(l, l.tag.buffer)
  <2> DEFINE k == [l EXCEPT !.tag.drop = FALSE, !.tag.attributes = more]
  <2>1. FinishAttributeName(l) = ReinitializeTagBuffer(k)
      BY <1>4 DEF FinishAttributeName
  <2> HIDE DEF more
  <2>2. /\ IsLexer(k) /\ k.state = l.state /\ k.pos = l.pos /\ k.again = l.again
        /\ k.tag.drop = FALSE /\ k.tag.attributes = more /\ k.tag.buffer = l.tag.buffer
        /\ k.tag.from = l.tag.from /\ DOMAIN k.tag = TagFields
      BY DEF Formed, IsLexer, LexerFields, TagFields
  <2> HIDE DEF k
  <2>3. \A j \in 1 .. Len(as) : as[j].name # entry.name
      BY <1>2, <1>4 DEF HasAttribute
  <2>4. Own(more)
    <3>1. ASSUME NEW j \in DOMAIN more, NEW i \in DOMAIN more, more[j].name = more[i].name
          PROVE  j = i
      <4>1. CASE j \in DOMAIN as /\ i \in DOMAIN as
          BY <1>2, <3>1, <4>1 DEF Formed, Own
      <4>2. CASE j \notin DOMAIN as /\ i \in DOMAIN as
        <5>1. more[j] = entry /\ more[i] = as[i]
            BY <1>2, <4>2
        <5> QED BY <1>2, <2>3, <3>1, <4>2, <5>1
      <4>3. CASE j \in DOMAIN as /\ i \notin DOMAIN as
        <5>1. more[i] = entry /\ more[j] = as[j]
            BY <1>2, <4>3
        <5> QED BY <1>2, <2>3, <3>1, <4>3, <5>1
      <4>4. CASE j \notin DOMAIN as /\ i \notin DOMAIN as
          BY <1>2, <4>4
      <4> QED BY <4>1, <4>2, <4>3, <4>4
    <3>2. ASSUME NEW j \in DOMAIN more, more[j].value # <<>>
          PROVE  OneEquals(more[j].from, more[j].valueFrom)
      <4>1. j \in DOMAIN as
        <5>1. j = Len(more) => more[j].value = <<>>
            BY <1>2
        <5> QED BY <1>2, <3>2, <5>1
      <4>2. more[j] = as[j]
          BY <1>2, <4>1
      <4> QED BY <3>2, <4>1, <4>2 DEF Formed, Own
    <3> QED BY <3>1, <3>2 DEF Own
  <2>5. Formed(k)
      BY <1>2, <2>2, <2>4 DEF Formed, IsTag
  <2>6. more # <<>> /\ LastFrom(k.tag) = l.tag.from
    <3>1. more # <<>>
        BY <1>2
    <3>2. LastFrom(k.tag) = more[Len(more)].from
        BY <2>2, Zenon DEF LastFrom
    <3>3. more[Len(more)] = entry
        BY <1>2
    <3> QED BY <3>1, <3>2, <3>3
  <2> DEFINE m == ReinitializeTagBuffer(k)
  <2>7. /\ Formed(m) /\ m.state = l.state /\ m.pos = l.pos /\ m.again = l.again
        /\ m.tag.buffer = <<>> /\ m.tag.from = l.pos /\ m.tag.attributes = more
      BY <2>2, <2>5, ReinitializedIs
  <2> HIDE DEF m
  <2>8. LastFrom(m.tag) = LastFrom(k.tag)
      BY <2>2, <2>7 DEF LastFrom
  <2> QED BY <2>1, <2>6, <2>7, <2>8 DEF m
<1> QED BY <1>3, <1>4

\* An attribute gets the value that follows its own name, but if it was left
\* out (finish_attribute_value).
LEMMA FinishAttributeValueIs ==
    ASSUME NEW l, Formed(l),
           ~l.tag.drop =>
               /\ l.tag.attributes # <<>>
               /\ l.tag.buffer # <<>> => OneEquals(LastFrom(l.tag), l.tag.from)
    PROVE  LET m == FinishAttributeValue(l)
           IN  /\ Formed(m) /\ m.state = l.state /\ m.pos = l.pos /\ m.again = l.again
               /\ m.tag.buffer = <<>> /\ m.tag.from = l.pos
<1> DEFINE as == l.tag.attributes
           n  == Len(as)
<1>1. as \in Seq(Attribute) /\ n \in Nat /\ DOMAIN as = 1 .. n
    BY LenProperties DEF Formed, IsTag
<1>2. CASE l.tag.drop
  <2> DEFINE k == [l EXCEPT !.tag.drop = FALSE]
  <2>1. FinishAttributeValue(l) = ReinitializeTagBuffer(k)
      BY <1>2 DEF FinishAttributeValue
  <2>2. /\ IsLexer(k) /\ k.state = l.state /\ k.pos = l.pos /\ k.again = l.again
        /\ k.tag.drop = FALSE /\ k.tag.attributes = as /\ k.tag.buffer = l.tag.buffer
        /\ k.tag.from = l.tag.from /\ DOMAIN k.tag = TagFields
      BY DEF Formed, IsLexer, LexerFields, TagFields
  <2> HIDE DEF k
  <2>3. Formed(k)
      BY <2>2 DEF Formed, IsTag
  <2> QED BY <2>1, <2>2, <2>3, ReinitializedIs
<1>3. CASE ~l.tag.drop
  <2> DEFINE last == [as[n] EXCEPT !.value = l.tag.buffer, !.valueFrom = l.tag.from]
             new  == [as EXCEPT ![n] = last]
             k    == [l EXCEPT !.tag.attributes = new]
  <2>1. FinishAttributeValue(l) = ReinitializeTagBuffer(k)
    <3>1. k = [l EXCEPT !.tag.attributes[Len(l.tag.attributes)] =
                    [@ EXCEPT !.value = l.tag.buffer, !.valueFrom = l.tag.from]]
        BY DEF Formed, IsLexer, LexerFields, TagFields
    <3> QED BY <1>3, <3>1 DEF FinishAttributeValue
  <2>2. n \in DOMAIN as /\ as[n] \in Attribute
    <3>1. n # 0
        BY <1>1, <1>3, EmptySeq
    <3> QED BY <1>1, <3>1, ElementOfSeq
  <2>3. /\ last \in Attribute /\ last.name = as[n].name /\ last.from = as[n].from
        /\ last.value = l.tag.buffer /\ last.valueFrom = l.tag.from
      BY <2>2 DEF Attribute, Formed, IsTag
  <2> HIDE DEF last
  <2>4. new \in Seq(Attribute) /\ DOMAIN new = DOMAIN as /\ new[n] = last
        /\ \A j \in DOMAIN as : j # n => new[j] = as[j]
      BY <1>1, <2>2, <2>3, ExceptSeq
  <2> HIDE DEF new
  <2>5. /\ IsLexer(k) /\ k.state = l.state /\ k.pos = l.pos /\ k.again = l.again
        /\ k.tag.drop = FALSE /\ k.tag.attributes = new /\ k.tag.buffer = l.tag.buffer
        /\ k.tag.from = l.tag.from /\ DOMAIN k.tag = TagFields
      BY <1>3 DEF Formed, IsLexer, LexerFields, TagFields, IsTag
  <2> HIDE DEF k
  <2>6. Own(new)
    <3>1. \A j \in DOMAIN as : new[j].name = as[j].name /\ new[j].from = as[j].from
        BY <2>3, <2>4
    <3>2. ASSUME NEW j \in DOMAIN new, new[j].value # <<>>
          PROVE  OneEquals(new[j].from, new[j].valueFrom)
      <4>1. CASE j = n
        <5>1. OneEquals(as[n].from, l.tag.from)
            BY <1>3, <2>3, <2>4, <3>2, <4>1 DEF LastFrom
        <5> QED BY <2>3, <2>4, <4>1, <5>1
      <4>2. CASE j # n
          BY <2>4, <3>2, <4>2 DEF Formed, Own
      <4> QED BY <4>1, <4>2
    <3> QED BY <2>4, <3>1, <3>2 DEF Formed, Own
  <2>7. Formed(k)
      BY <2>4, <2>5, <2>6 DEF Formed, IsTag
  <2> QED BY <2>1, <2>5, <2>7, ReinitializedIs
<1> QED BY <1>2, <1>3

-----------------------------------------------------------------------------
(* The steps of a tag. *)
LEMMA OwnNext ==
    ASSUME TokensOwn, NEW l, IsLexer(l), NextChar(l), TagsAre(l.state, Settled(l).pos, l.tag)
    PROVE  OwnInv'
<1>1. /\ lexer' = Settled(l) /\ input' = input /\ Told
    BY DEF NextChar, Told
<1>2. TagsAre(lexer'.state, lexer'.pos, lexer'.tag)
    BY <1>1, SettledIs
<1> QED BY <1>1, <1>2, TagsNext, TokensNext

\* To where no attribute is read.
LEMMA NoPart ==
    ASSUME NEW s, s \in EndStates \cup RawStates \cup EndTagNameStates \cup {"tag name"}, NEW p, NEW t
    PROVE  TagIs(s, p, t)
BY States DEF EndStates, RawStates, TagIs, NameStates, InValue, ValueNames

\* The tag is handed over.
LEMMA OwnEmit ==
    ASSUME TokensOwn, NEW l, Formed(l), l.state = "data", EmitTag(l)
    PROVE  OwnInv'
<1> DEFINE k == AbandonTag(l)
           m == [k EXCEPT !.last = IF l.tag.isStart THEN l.tag.name ELSE @]
           token == [type |-> IF l.tag.isStart THEN "start" ELSE "end", name |-> l.tag.name,
                     attributes |-> IF l.tag.isStart THEN l.tag.attributes ELSE <<>>,
                     selfClosing |-> l.tag.isStart /\ l.tag.selfClosing]
<1>1. Formed(k) /\ k.state = "data"
    BY AbandonedIs
<1>2. Emit(m, token)
    BY DEF EmitTag
<1>3. OwnToken(token)
    BY DEF OwnToken, Formed
<1> HIDE DEF token, k
<1>4. Formed(m) /\ m.state = "data"
    BY <1>1 DEF Formed, IsLexer, LexerFields
<1> HIDE DEF m
<1>5. IsLexer(Settled(m)) /\ Settled(m).tag = m.tag /\ Settled(m).state = "data"
    BY <1>4, SettledIs DEF Formed
<1>6. lexer'.tag = m.tag /\ lexer'.state = "data" /\ input' = input /\ Told
    BY <1>2, <1>3, <1>5 DEF Emit, Told, IsLexer, LexerFields
<1>7. TagsAre(lexer'.state, lexer'.pos, lexer'.tag)
    BY <1>4, <1>6, NoPart DEF TagsAre, Formed, EndStates
<1> QED BY <1>6, <1>7, TagsNext, TokensNext

\* Text comes out while a tag is given up.
LEMMA OwnFlush ==
    ASSUME TokensOwn, NEW l, Formed(l), l.state \in RawStates, EmitTemporary(l)
    PROVE  OwnInv'
<1> DEFINE m == [[l EXCEPT !.pos = l.mark] EXCEPT !.again = FALSE,
                    !.flush = IF 1 < Len(l.temp) THEN 2 ELSE 0]
           token == [type |-> CharType(l.temp[1]), char |-> l.temp[1]]
<1>1. Emit(m, token)
    BY DEF EmitTemporary, FlushFrom, EmitChar, Formed, IsLexer, LexerFields
<1>2. OwnToken(token)
    BY DEF OwnToken, CharType
<1> HIDE DEF token
<1>3. IsLexer(m) /\ m.tag = l.tag /\ m.state = l.state
    BY DEF Formed, IsLexer, LexerFields
<1> HIDE DEF m
<1>4. IsLexer(Settled(m)) /\ Settled(m).tag = l.tag /\ Settled(m).state = l.state
    BY <1>3, SettledIs
<1>5. lexer'.tag = l.tag /\ lexer'.state = l.state /\ input' = input /\ Told
    BY <1>1, <1>2, <1>4 DEF Emit, Told, IsLexer, LexerFields
<1>6. TagsAre(lexer'.state, lexer'.pos, lexer'.tag)
    BY <1>5, NoPart DEF TagsAre, Formed
<1> QED BY <1>5, <1>6, TagsNext, TokensNext

(* What is known where a tag is read, and of the lexer in another state. *)
LEMMA OwnHere ==
    ASSUME IInv, OwnInv, NEW s, At(s)
    PROVE  /\ Formed(lexer) /\ TagIs(s, lexer.pos, lexer.tag) /\ TokensOwn /\ lexer.state = s
           /\ lexer.again = FALSE
           /\ lexer.pos \in Nat \ {0} /\ {c, Lower(c), Unnulled(c), Lower(Unnulled(c))} \subseteq TagSymbols
           /\ \A t : /\ Formed(To(t)) /\ To(t).state = t /\ To(t).pos = lexer.pos
                     /\ To(t).again = FALSE /\ To(t).tag = lexer.tag
<1>1. IsLexer(lexer) /\ lexer.again = FALSE /\ lexer.state = s /\ IsInput
    BY DEF IInv, Parts, At
<1>2. lexer.pos \in Nat \ {0} /\ c \in Symbols
    BY <1>1, CharIsSymbol DEF IsLexer, c
<1>3. Formed(lexer) /\ TagIs(s, lexer.pos, lexer.tag) /\ TokensOwn
    BY <1>1 DEF OwnInv, TagsAre, Formed
<1>4. \A t : /\ IsLexer(To(t)) /\ To(t).state = t /\ To(t).pos = lexer.pos
             /\ To(t).again = FALSE /\ To(t).tag = lexer.tag
    BY <1>1 DEF To, IsLexer, LexerFields
<1>5. \A t : Formed(To(t))
    BY <1>3, <1>4 DEF Formed
<1> QED BY <1>1, <1>2, <1>3, <1>4, <1>5, TagSymbol

\* Where the iterator goes.
LEMMA Onward ==
    ASSUME IInv, NEW l, IsLexer(l)
    PROVE  /\ l.again => Settled(l).pos = l.pos
           /\ ~l.again /\ CharAt(l.pos) # EOF => Settled(l).pos = l.pos + 1
           /\ Settled(l).pos \in Nat \ {0}
           /\ IsLexer(Again(l)) /\ Again(l).again /\ Again(l).state = l.state
           /\ Again(l).pos = l.pos /\ Again(l).tag = l.tag
<1>1. l.pos \in Nat \ {0} /\ IsInput
    BY DEF IsLexer, IInv
<1>2. CharAt(l.pos) # EOF => l.pos <= Len(input)
    BY <1>1, AtTheEnd DEF IsInput
<1>3. IsLexer(Settled(l))
    BY SettledIs
<1>4. IsLexer(Again(l)) /\ Again(l).again /\ Again(l).state = l.state /\ Again(l).pos = l.pos
      /\ Again(l).tag = l.tag
    BY DEF Again, IsLexer, LexerFields
<1> QED BY <1>2, <1>3, <1>4, SettledIs DEF IsLexer

\* A step to where no attribute is read.
LEMMA OwnOut ==
    ASSUME TokensOwn, NEW l, Formed(l), NextChar(l),
           l.state \in EndStates \cup EndTagNameStates \cup {"tag name"}
    PROVE  OwnInv'
BY OwnNext, NoPart DEF Formed, TagsAre

\* The end of the input inside a tag.
LEMMA OwnCutOff ==
    ASSUME IInv, OwnInv, NEW s, At(s), TagCutOff \/ ValueCutOff
    PROVE  OwnInv'
<1> DEFINE l == AbandonTag(To("data"))
<1>1. Formed(To("data")) /\ To("data").state = "data" /\ TokensOwn
    BY OwnHere
<1>2. Formed(l) /\ l.state = "data"
    BY <1>1, AbandonedIs
<1>3. NextChar(l) \/ NextChar(Again(l))
    BY DEF TagCutOff, ValueCutOff
<1> HIDE DEF l
<1>4. Formed(Again(l)) /\ Again(l).state = "data"
    BY <1>2, Onward DEF Formed
<1> QED BY <1>1, <1>2, <1>3, <1>4, OwnOut DEF EndStates

\* What is said of a tag, state by state.
LEMMA BeforeNameIs ==
    ASSUME NEW p, NEW t, NEW s \in {"before attr name", "self closing"}
    PROVE  TagIs(s, p, t) <=> t.buffer = <<>> /\ t.from <= p /\ NoEquals(t.from, p)
BY DEF TagIs, NameStates, InValue, ValueNames

\* What TagIs says in one state: in the name of an attribute,
LEMMA InNameIs ==
    ASSUME NEW p, NEW t
    PROVE  TagIs("attr name", p, t) <=> t.from < p /\ NoEquals(t.from, p)
BY DEF TagIs, NameStates, InValue, ValueNames

\* after it,
LEMMA AfterNameIs ==
    ASSUME NEW p, NEW t
    PROVE  TagIs("after attr name", p, t) <=>
            /\ t.buffer = <<>> /\ t.from <= p /\ NoEquals(t.from, p)
            /\ ~t.drop => t.attributes # <<>> /\ LastFrom(t) < p /\ NoEquals(LastFrom(t), p)
BY DEF TagIs, NameStates, InValue, ValueNames

\* after its "=",
LEMMA BeforeValueIs ==
    ASSUME NEW p, NEW t
    PROVE  TagIs("before attr value", p, t) <=>
            /\ t.buffer = <<>>
            /\ ~t.drop => t.attributes # <<>> /\ OneEquals(LastFrom(t), p)
BY DEF TagIs, NameStates, InValue, ValueNames

\* and in its value or after it.
LEMMA InValueIs ==
    ASSUME NEW p, NEW t
    PROVE  /\ TagIs("attr value unquoted", p, t) <=>
                (~t.drop =>
                    /\ t.attributes # <<>>
                    /\ OneEquals(LastFrom(t), IF t.buffer = <<>> THEN p ELSE t.from))
           /\ \A s \in {"attr value double quoted", "attr value single quoted",
                       "after attr value quoted"} :
                TagIs(s, p, t) <=>
                    (~t.drop => t.attributes # <<>> /\ OneEquals(LastFrom(t), t.from))
           /\ TagIs("char ref in attr value", p, t) <=>
                /\ CharAt(p) = "&"
                /\ ~t.drop =>
                    /\ t.attributes # <<>>
                    /\ OneEquals(LastFrom(t),
                           IF t.buffer = <<>> /\ t.valueState = "attr value unquoted"
                           THEN p ELSE t.from)
<1> USE DEF TagIs, NameStates, InValue, ValueNames, IsUnquoted
<1>1. TagIs("attr value unquoted", p, t) <=>
            (~t.drop =>
                /\ t.attributes # <<>>
                /\ OneEquals(LastFrom(t), IF t.buffer = <<>> THEN p ELSE t.from))
    OBVIOUS
<1>2. \A s \in {"attr value double quoted", "attr value single quoted", "after attr value quoted"} :
            TagIs(s, p, t) <=>
                (~t.drop => t.attributes # <<>> /\ OneEquals(LastFrom(t), t.from))
    OBVIOUS
<1>3. TagIs("char ref in attr value", p, t) <=>
            /\ CharAt(p) = "&"
            /\ ~t.drop =>
                /\ t.attributes # <<>>
                /\ OneEquals(LastFrom(t), IF t.buffer = <<>> /\ t.valueState = "attr value unquoted"
                                         THEN p ELSE t.from)
    OBVIOUS
<1> QED BY <1>1, <1>2, <1>3

\* One place further on.
LEMMA Further ==
    ASSUME NEW p \in Nat
    PROVE  /\ p <= p + 1 /\ p < p + 1 /\ NoEquals(p, p + 1)
           /\ \A from \in Nat : (from <= p => from <= p + 1 /\ from < p + 1) /\ (from < p => from < p + 1)
BY EqualsNone

(* A step over one symbol. *)
LEMMA OwnStep ==
    ASSUME IInv, OwnInv, NEW s, At(s), c # EOF, NEW l, Formed(l), l.pos = lexer.pos, l.again = FALSE,
           TagIs(l.state, lexer.pos + 1, l.tag), NextChar(l)
    PROVE  OwnInv'
<1>1. Settled(l).pos = lexer.pos + 1
    BY Onward DEF Formed, c
<1>2. TokensOwn
    BY DEF OwnInv
<1> QED BY <1>1, <1>2, OwnNext DEF Formed, TagsAre

\* The same place is looked at again.
LEMMA OwnAgain ==
    ASSUME IInv, OwnInv, NEW l, Formed(l), TagIs(l.state, l.pos, l.tag), NextChar(Again(l))
    PROVE  OwnInv'
<1> DEFINE m == Again(l)
<1>1. /\ IsLexer(m) /\ m.again /\ m.state = l.state /\ m.pos = l.pos /\ m.tag = l.tag
      /\ NextChar(m)
    BY Onward DEF Formed
<1> HIDE DEF m
<1>2. Settled(m).pos = l.pos
    BY <1>1, Onward
<1>3. TokensOwn
    BY DEF OwnInv
<1> QED BY <1>1, <1>2, <1>3, OwnNext DEF Formed, TagsAre

\* The end of a tag name.
LEMMA NameEndedOwn ==
    ASSUME IInv, OwnInv, NEW s, At(s), NameEnded
    PROVE  OwnInv'
<1>1. ASSUME NEW t
      PROVE  LET m == FinishTagName(To(t))
             IN  /\ Formed(m) /\ m.state = t /\ m.pos = lexer.pos /\ m.again = FALSE
                 /\ m.tag.buffer = <<>> /\ m.tag.from = lexer.pos
  <2> DEFINE k == To(t)
  <2>1. Formed(k) /\ k.state = t /\ k.pos = lexer.pos /\ k.again = FALSE
      BY OwnHere
  <2> HIDE DEF k
  <2>2. LET m == FinishTagName(k)
        IN  /\ Formed(m) /\ m.state = t /\ m.pos = lexer.pos /\ m.again = FALSE
            /\ m.tag.buffer = <<>> /\ m.tag.from = lexer.pos
      BY <2>1, FinishTagNameIs
  <2> QED BY <2>2 DEF k
<1>2. ASSUME NEW t \in {"before attr name", "self closing"}, c # EOF, NextChar(FinishTagName(To(t)))
      PROVE  OwnInv'
  <2> DEFINE m == FinishTagName(To(t))
  <2>1. /\ Formed(m) /\ m.state = t /\ m.pos = lexer.pos /\ m.again = FALSE
        /\ m.tag.buffer = <<>> /\ m.tag.from = lexer.pos /\ NextChar(m)
      BY <1>1, <1>2
  <2> HIDE DEF m
  <2>2. lexer.pos \in Nat
      BY OwnHere
  <2>3. TagIs(t, lexer.pos + 1, m.tag)
    <3>1. m.tag.from <= lexer.pos + 1 /\ NoEquals(m.tag.from, lexer.pos + 1)
        BY <2>1, <2>2, Further, Zenon
    <3> QED BY <2>1, <3>1, BeforeNameIs
  <2> QED BY <1>2, <2>1, <2>3, OwnStep
<1>3. CASE EmitTag(FinishTagName(To("data")))
  <2>1. TokensOwn
      BY DEF OwnInv
  <2> QED BY <1>1, <1>3, <2>1, OwnEmit
<1> QED BY <1>2, <1>3 DEF NameEnded, EOF

\* handle_tag_name_state: the name of the tag ends and no attribute has begun.
LEMMA TagNameOwn ==
    ASSUME IInv, OwnInv, TagName
    PROVE  OwnInv'
<1>1. At("tag name")
    BY DEF TagName
<1>2. CASE NextChar(AppendTag(lexer, Lower(Unnulled(c)), TRUE))
  <2>1. Formed(lexer) /\ lexer.state = "tag name" /\ Lower(Unnulled(c)) \in TagSymbols /\ TokensOwn
      BY <1>1, OwnHere
  <2>2. Formed(AppendTag(lexer, Lower(Unnulled(c)), TRUE))
        /\ AppendTag(lexer, Lower(Unnulled(c)), TRUE).state = "tag name"
      BY <2>1, AppendTagIs
  <2> QED BY <1>2, <2>1, <2>2, OwnOut
<1> QED BY <1>1, <1>2, NameEndedOwn, OwnCutOff DEF TagName

(* Between the parts of a tag, without a symbol for the tag. *)
LEMMA PassOwn ==
    ASSUME IInv, OwnInv, NEW s, At(s), c # EOF, NEW t, NextChar(To(t)) \/ (NextChar(lexer) /\ t = s),
           TagIs(t, lexer.pos + 1, lexer.tag)
    PROVE  OwnInv'
<1>1. /\ Formed(lexer) /\ lexer.state = s /\ lexer.again = FALSE
      /\ Formed(To(t)) /\ To(t).state = t /\ To(t).pos = lexer.pos /\ To(t).again = FALSE
      /\ To(t).tag = lexer.tag
    BY OwnHere
<1> HIDE DEF Formed
<1>2. CASE NextChar(To(t))
    BY <1>1, <1>2, OwnStep
<1>3. CASE NextChar(lexer) /\ t = s
    BY <1>1, <1>3, OwnStep
<1> QED BY <1>2, <1>3

\* The count of "=" is the same after a symbol other than it.
LEMMA NoneMore ==
    ASSUME IInv, OwnInv, NEW s, At(s), c # "=", c # EOF, NEW from \in Nat
    PROVE  /\ NoEquals(from, lexer.pos) => NoEquals(from, lexer.pos + 1)
           /\ OneEquals(from, lexer.pos) => OneEquals(from, lexer.pos + 1)
<1>1. lexer.pos \in Nat /\ IsInput
    BY OwnHere DEF IInv
<1> QED BY <1>1, EqualsSkip DEF NoEquals, OneEquals, c

\* "/" and ">" in a tag.
LEMMA AttributeFollowsOwn ==
    ASSUME IInv, OwnInv, NEW s \in {"before attr name", "after attr name"}, At(s), AttributeFollows
    PROVE  OwnInv'
<1>1. CASE c = "/" /\ NextChar(To("self closing"))
  <2>1. TagIs(s, lexer.pos, lexer.tag) /\ lexer.pos \in Nat /\ lexer.tag.from \in Nat
      BY OwnHere DEF Formed, IsTag
  <2>2. /\ lexer.tag.buffer = <<>> /\ lexer.tag.from <= lexer.pos
        /\ NoEquals(lexer.tag.from, lexer.pos)
      BY <2>1, BeforeNameIs, AfterNameIs
  <2>3. c # "=" /\ c # EOF
      BY <1>1 DEF EOF
  <2>4. NoEquals(lexer.tag.from, lexer.pos + 1)
      BY <2>1, <2>2, <2>3, NoneMore
  <2>5. TagIs("self closing", lexer.pos + 1, lexer.tag)
    <3>1. lexer.tag.from <= lexer.pos + 1
        BY <2>1, <2>2, Further, Zenon
    <3> QED BY <2>2, <2>4, <3>1, BeforeNameIs
  <2> QED BY <1>1, <2>3, <2>5, PassOwn
<1>2. CASE EmitTag(To("data"))
  <2>1. Formed(To("data")) /\ To("data").state = "data" /\ TokensOwn
      BY OwnHere
  <2> QED BY <1>2, <2>1, OwnEmit
<1> QED BY <1>1, <1>2 DEF AttributeFollows

\* The first symbol of an attribute's name.
LEMMA AttributeBeginsOwn ==
    ASSUME IInv, OwnInv, NEW s \in {"before attr name", "after attr name"}, At(s), NEW none,
           EOF \in none, AttributeBegins(none)
    PROVE  OwnInv'
<1>1. TagIs(s, lexer.pos, lexer.tag) /\ lexer.pos \in Nat /\ lexer.tag.from \in Nat
    BY OwnHere DEF Formed, IsTag
<1>2. /\ lexer.tag.buffer = <<>> /\ lexer.tag.from <= lexer.pos
      /\ NoEquals(lexer.tag.from, lexer.pos)
    BY <1>1, BeforeNameIs, AfterNameIs
<1> DEFINE k == To("attr name")
<1>3. Formed(k) /\ k.state = "attr name" /\ k.pos = lexer.pos /\ k.again = FALSE /\ k.tag = lexer.tag
    BY OwnHere
<1>4. {c, Lower(c)} \subseteq TagSymbols
    BY OwnHere
<1> HIDE DEF k
<1>5. CASE c = NUL /\ NextChar(AppendTemporary(k, <<Replacement>>))
  <2> DEFINE d == k.temp \o <<Replacement>>
             m == [k EXCEPT !.temp = d]
  <2>1. NextChar(m)
      BY <1>5 DEF AppendTemporary
  <2>2. d \in Seq(Symbols)
    <3>1. Replacement \in Symbols
        BY DEF Symbols
    <3>2. <<Replacement>> \in Seq(Symbols) /\ k.temp \in Seq(Symbols)
        BY <1>3, <3>1, OneSymbol DEF Formed, IsLexer
    <3> QED BY <3>2, ConcatProperties
  <2> HIDE DEF d
  <2>3. IsLexer(m) /\ m.state = "attr name" /\ m.pos = lexer.pos /\ m.again = FALSE /\ m.tag = lexer.tag
      BY <1>3, <2>2 DEF Formed, IsLexer, LexerFields
  <2> HIDE DEF m
  <2>4. Formed(m)
      BY <1>3, <2>3 DEF Formed
  <2>5. c # "=" /\ c # EOF
      BY <1>5 DEF EOF, NUL
  <2>6. NoEquals(lexer.tag.from, lexer.pos + 1)
      BY <1>1, <1>2, <2>5, NoneMore
  <2>7. TagIs("attr name", lexer.pos + 1, lexer.tag)
    <3>1. lexer.tag.from < lexer.pos + 1
        BY <1>1, <1>2, Further, Zenon
    <3> QED BY <2>6, <3>1, InNameIs
  <2> QED BY <2>1, <2>3, <2>4, <2>5, <2>7, OwnStep
<1>6. CASE c # EOF /\ NextChar(AppendTag(k, Lower(c), TRUE))
  <2> DEFINE m == AppendTag(k, Lower(c), TRUE)
  <2>1. /\ Formed(m) /\ m.state = "attr name" /\ m.pos = lexer.pos /\ m.again = FALSE
        /\ m.tag.from = lexer.pos /\ NextChar(m)
    <3>1. Lower(c) \in TagSymbols /\ k.tag.buffer = <<>>
        BY <1>2, <1>3, <1>4
    <3> HIDE DEF Formed
    <3> QED BY <1>3, <1>6, <3>1, AppendTagIs
  <2> HIDE DEF m
  <2>2. TagIs("attr name", lexer.pos + 1, m.tag)
    <3>1. m.tag.from < lexer.pos + 1 /\ NoEquals(m.tag.from, lexer.pos + 1)
        BY <1>1, <2>1, Further, Zenon
    <3> QED BY <3>1, InNameIs
  <2> QED BY <1>6, <2>1, <2>2, OwnStep
<1> QED BY <1>5, <1>6 DEF AttributeBegins, k

\* handle_before_attr_name_state: spaces move the beginning of the name along.
LEMMA BeforeAttrNameOwn ==
    ASSUME IInv, OwnInv, BeforeAttrName
    PROVE  OwnInv'
<1>1. At("before attr name")
    BY DEF BeforeAttrName
<1>2. /\ TagIs("before attr name", lexer.pos, lexer.tag)
      /\ lexer.pos \in Nat /\ lexer.tag.from \in Nat
    BY <1>1, OwnHere DEF Formed, IsTag
<1>3. CASE c = " " /\ NextChar(lexer)
  <2>1. /\ lexer.tag.buffer = <<>> /\ lexer.tag.from <= lexer.pos
        /\ NoEquals(lexer.tag.from, lexer.pos)
      BY <1>2, BeforeNameIs
  <2>2. c # "=" /\ c # EOF
      BY <1>3 DEF EOF
  <2>3. lexer.tag.from <= lexer.pos + 1 /\ NoEquals(lexer.tag.from, lexer.pos + 1)
      BY <1>1, <1>2, <2>1, <2>2, NoneMore, Further, Zenon
  <2>4. TagIs("before attr name", lexer.pos + 1, lexer.tag)
      BY <2>1, <2>3, BeforeNameIs
  <2> QED BY <1>1, <1>3, <2>2, <2>4, PassOwn
<1> QED BY <1>1, <1>3, AttributeFollowsOwn, AttributeBeginsOwn, OwnCutOff DEF BeforeAttrName

\* The name of an attribute.
LEMMA NameFinished ==
    ASSUME IInv, OwnInv, At("attr name"), NEW t
    PROVE  LET m == FinishAttributeName(To(t))
           IN  /\ Formed(m) /\ m.state = t /\ m.pos = lexer.pos /\ m.again = FALSE
               /\ m.tag.buffer = <<>> /\ m.tag.from = lexer.pos
               /\ ~m.tag.drop => m.tag.attributes # <<>> /\ LastFrom(m.tag) = lexer.tag.from
<1> DEFINE k == To(t)
<1>1. Formed(k) /\ k.state = t /\ k.pos = lexer.pos /\ k.again = FALSE /\ k.tag = lexer.tag
    BY OwnHere
<1> HIDE DEF k
<1>2. LET m == FinishAttributeName(k)
      IN  /\ Formed(m) /\ m.state = t /\ m.pos = lexer.pos /\ m.again = FALSE
          /\ m.tag.buffer = <<>> /\ m.tag.from = lexer.pos
          /\ ~m.tag.drop => m.tag.attributes # <<>> /\ LastFrom(m.tag) = lexer.tag.from
    BY <1>1, FinishAttributeNameIs
<1> QED BY <1>2 DEF k

\* handle_attr_name_state: the name ends at a space, "/", "=" or ">"; none of its symbols is
\* "=".
LEMMA AttrNameOwn ==
    ASSUME IInv, OwnInv, AttrName
    PROVE  OwnInv'
<1>1. At("attr name")
    BY DEF AttrName
<1>2. /\ Formed(lexer) /\ lexer.state = "attr name" /\ lexer.again = FALSE /\ TokensOwn
      /\ TagIs("attr name", lexer.pos, lexer.tag) /\ lexer.pos \in Nat /\ lexer.tag.from \in Nat
      /\ Lower(Unnulled(c)) \in TagSymbols
    BY <1>1, OwnHere DEF Formed, IsTag
<1>3. lexer.tag.from < lexer.pos /\ NoEquals(lexer.tag.from, lexer.pos)
    BY <1>2, InNameIs
<1>4. CASE c = " " /\ NextChar(FinishAttributeName(To("after attr name")))
  <2> DEFINE m == FinishAttributeName(To("after attr name"))
  <2>1. /\ Formed(m) /\ m.state = "after attr name" /\ m.pos = lexer.pos /\ m.again = FALSE
        /\ m.tag.buffer = <<>> /\ m.tag.from = lexer.pos /\ NextChar(m)
        /\ ~m.tag.drop => m.tag.attributes # <<>> /\ LastFrom(m.tag) = lexer.tag.from
      BY <1>1, <1>4, NameFinished
  <2> HIDE DEF m
  <2>2. c # "=" /\ c # EOF
      BY <1>4 DEF EOF
  <2>3. /\ lexer.pos <= lexer.pos + 1 /\ NoEquals(lexer.pos, lexer.pos + 1)
        /\ lexer.tag.from < lexer.pos + 1 /\ NoEquals(lexer.tag.from, lexer.pos + 1)
      BY <1>1, <1>2, <1>3, <2>2, NoneMore, Further, Zenon
  <2>4. TagIs("after attr name", lexer.pos + 1, m.tag)
      BY <2>1, <2>3, AfterNameIs
  <2> QED BY <1>1, <2>1, <2>2, <2>4, OwnStep
<1>5. CASE c = "/" /\ NextChar(FinishAttributeName(To("self closing")))
  <2> DEFINE m == FinishAttributeName(To("self closing"))
  <2>1. /\ Formed(m) /\ m.state = "self closing" /\ m.pos = lexer.pos /\ m.again = FALSE
        /\ m.tag.buffer = <<>> /\ m.tag.from = lexer.pos /\ NextChar(m)
      BY <1>1, <1>5, NameFinished
  <2> HIDE DEF m
  <2>2. /\ lexer.pos <= lexer.pos + 1 /\ NoEquals(lexer.pos, lexer.pos + 1)
      BY <1>2, Further, Zenon
  <2>3. TagIs("self closing", lexer.pos + 1, m.tag)
      BY <2>1, <2>2, BeforeNameIs
  <2> QED BY <1>1, <1>5, <2>1, <2>3, OwnStep DEF EOF
<1>6. CASE c = "=" /\ NextChar(FinishAttributeName(To("before attr value")))
  <2> DEFINE m == FinishAttributeName(To("before attr value"))
  <2>1. /\ Formed(m) /\ m.state = "before attr value" /\ m.pos = lexer.pos /\ m.again = FALSE
        /\ m.tag.buffer = <<>> /\ NextChar(m)
        /\ ~m.tag.drop => m.tag.attributes # <<>> /\ LastFrom(m.tag) = lexer.tag.from
      BY <1>1, <1>6, NameFinished
  <2> HIDE DEF m
  <2>2. OneEquals(lexer.tag.from, lexer.pos + 1)
      BY <1>2, <1>3, <1>6, EqualsFound DEF c
  <2>3. TagIs("before attr value", lexer.pos + 1, m.tag)
      BY <2>1, <2>2, BeforeValueIs
  <2> QED BY <1>1, <1>6, <2>1, <2>3, OwnStep DEF EOF
<1>7. CASE EmitTag(FinishAttributeName(To("data")))
    BY <1>1, <1>2, <1>7, NameFinished, OwnEmit
<1>8. CASE c \notin NameEnds \cup {"=", EOF} /\ NextChar(AppendTag(lexer, Lower(Unnulled(c)), TRUE))
  <2> DEFINE m == AppendTag(lexer, Lower(Unnulled(c)), TRUE)
  <2>1. /\ Formed(m) /\ m.state = "attr name" /\ m.pos = lexer.pos /\ m.again = FALSE
        /\ m.tag.from = IF lexer.tag.buffer = <<>> THEN lexer.pos ELSE lexer.tag.from
        /\ NextChar(m)
      BY <1>2, <1>8, AppendTagIs
  <2> HIDE DEF m
  <2>2. c # "=" /\ c # EOF
      BY <1>8
  <2>3. /\ lexer.pos < lexer.pos + 1 /\ NoEquals(lexer.pos, lexer.pos + 1)
        /\ lexer.tag.from < lexer.pos + 1 /\ NoEquals(lexer.tag.from, lexer.pos + 1)
      BY <1>1, <1>2, <1>3, <2>2, NoneMore, Further, Zenon
  <2>4. TagIs("attr name", lexer.pos + 1, m.tag)
      BY <2>1, <2>3, InNameIs
  <2> QED BY <1>1, <2>1, <2>2, <2>4, OwnStep
<1> QED BY <1>1, <1>4, <1>5, <1>6, <1>7, <1>8, OwnCutOff DEF AttrName

\* The last attribute begins somewhere.
LEMMA LastFromIs ==
    ASSUME NEW t, t.attributes \in Seq(Attribute), t.attributes # <<>>
    PROVE  LastFrom(t) \in Nat
<1>1. Len(t.attributes) \in 1 .. Len(t.attributes)
    BY EmptySeq, LenProperties
<1>2. t.attributes[Len(t.attributes)] \in Attribute
    BY <1>1, ElementOfSeq
<1> QED BY <1>2 DEF LastFrom, Attribute

\* handle_after_attr_name_state: an "=" gives the last attribute its value, anything else begins
\* another one.
LEMMA AfterAttrNameOwn ==
    ASSUME IInv, OwnInv, AfterAttrName
    PROVE  OwnInv'
<1>1. At("after attr name")
    BY DEF AfterAttrName
<1>2. /\ TagIs("after attr name", lexer.pos, lexer.tag)
      /\ lexer.pos \in Nat /\ lexer.tag.from \in Nat
      /\ lexer.tag.attributes # <<>> => LastFrom(lexer.tag) \in Nat
  <2>1. /\ lexer.tag.attributes \in Seq(Attribute)
        /\ TagIs("after attr name", lexer.pos, lexer.tag)
        /\ lexer.pos \in Nat /\ lexer.tag.from \in Nat
      BY <1>1, OwnHere DEF Formed, IsTag
  <2> QED BY <2>1, LastFromIs
<1>3. /\ lexer.tag.buffer = <<>> /\ lexer.tag.from <= lexer.pos
      /\ NoEquals(lexer.tag.from, lexer.pos)
      /\ ~lexer.tag.drop =>
            /\ lexer.tag.attributes # <<>> /\ LastFrom(lexer.tag) < lexer.pos
            /\ NoEquals(LastFrom(lexer.tag), lexer.pos)
    BY <1>2, AfterNameIs
<1>4. CASE c = " " /\ NextChar(lexer)
  <2>1. c # "=" /\ c # EOF
      BY <1>4 DEF EOF
  <2>2. lexer.tag.from <= lexer.pos + 1 /\ NoEquals(lexer.tag.from, lexer.pos + 1)
      BY <1>1, <1>2, <1>3, <2>1, NoneMore, Further, Zenon
  <2>3. ASSUME ~lexer.tag.drop
        PROVE  LastFrom(lexer.tag) < lexer.pos + 1 /\ NoEquals(LastFrom(lexer.tag), lexer.pos + 1)
      BY <1>1, <1>2, <1>3, <2>1, <2>3, NoneMore, Further, Zenon
  <2>4. TagIs("after attr name", lexer.pos + 1, lexer.tag)
      BY <1>3, <2>2, <2>3, AfterNameIs
  <2> QED BY <1>1, <1>4, <2>1, <2>4, PassOwn
<1>5. CASE c = "=" /\ NextChar(To("before attr value"))
  <2>1. ~lexer.tag.drop => OneEquals(LastFrom(lexer.tag), lexer.pos + 1)
      BY <1>2, <1>3, <1>5, EqualsFound DEF c
  <2>2. TagIs("before attr value", lexer.pos + 1, lexer.tag)
      BY <1>3, <2>1, BeforeValueIs
  <2> QED BY <1>1, <1>5, <2>2, PassOwn DEF EOF
<1> QED BY <1>1, <1>4, <1>5, AttributeFollowsOwn, AttributeBeginsOwn, OwnCutOff DEF AfterAttrName

-----------------------------------------------------------------------------
(* The value of an attribute. *)
LEMMA AppendOnto ==
    ASSUME IInv, OwnInv, NEW s, At(s), NEW x, x \in TagSymbols, NEW t
    PROVE  \A l \in {To(t), lexer} :
                LET m == AppendTag(l, x, TRUE)
                IN  /\ Formed(m) /\ m.state = l.state /\ m.pos = lexer.pos /\ m.again = FALSE
                    /\ m.tag.buffer # <<>> /\ m.tag.drop = lexer.tag.drop
                    /\ m.tag.from = IF lexer.tag.buffer = <<>> THEN lexer.pos ELSE lexer.tag.from
                    /\ m.tag.attributes = lexer.tag.attributes
                    /\ LastFrom(m.tag) = LastFrom(lexer.tag)
<1> TAKE l \in {To(t), lexer}
<1>1. Formed(l) /\ l.pos = lexer.pos /\ l.again = FALSE /\ l.tag = lexer.tag
  <2>1. CASE l = lexer
      BY <2>1, OwnHere
  <2>2. CASE l = To(t)
      BY <2>2, OwnHere
  <2> QED BY <2>1, <2>2
<1> DEFINE m == AppendTag(l, x, TRUE)
<1>2. /\ Formed(m) /\ m.state = l.state /\ m.pos = l.pos /\ m.again = l.again
      /\ m.tag.buffer # <<>>
      /\ m.tag.from = IF l.tag.buffer = <<>> THEN l.pos ELSE l.tag.from
      /\ m.tag.attributes = l.tag.attributes /\ m.tag.drop = l.tag.drop
    BY <1>1, AppendHere
<1> HIDE DEF m
<1>3. LastFrom(m.tag) = LastFrom(lexer.tag)
    BY <1>1, <1>2 DEF LastFrom
<1> QED BY <1>1, <1>2, <1>3 DEF m

\* handle_before_attr_value_state: spaces between the "=" and the value hold no second "=".
LEMMA BeforeAttrValueOwn ==
    ASSUME IInv, OwnInv, BeforeAttrValue
    PROVE  OwnInv'
<1>1. At("before attr value")
    BY DEF BeforeAttrValue
<1>2. /\ TagIs("before attr value", lexer.pos, lexer.tag) /\ TokensOwn /\ Unnulled(c) \in TagSymbols
      /\ lexer.pos \in Nat
      /\ lexer.tag.attributes # <<>> => LastFrom(lexer.tag) \in Nat
      /\ \A t : /\ Formed(To(t)) /\ To(t).state = t /\ To(t).pos = lexer.pos
                /\ To(t).again = FALSE /\ To(t).tag = lexer.tag
  <2>1. /\ TagIs("before attr value", lexer.pos, lexer.tag) /\ TokensOwn
        /\ lexer.pos \in Nat /\ Unnulled(c) \in TagSymbols /\ lexer.tag.attributes \in Seq(Attribute)
        /\ \A t : /\ Formed(To(t)) /\ To(t).state = t /\ To(t).pos = lexer.pos
                  /\ To(t).again = FALSE /\ To(t).tag = lexer.tag
      BY <1>1, OwnHere DEF Formed, IsTag
  <2> QED BY <2>1, LastFromIs
<1>3. /\ lexer.tag.buffer = <<>>
      /\ ~lexer.tag.drop => lexer.tag.attributes # <<>> /\ OneEquals(LastFrom(lexer.tag), lexer.pos)
    BY <1>2, BeforeValueIs
<1>4. CASE c = " " /\ NextChar(lexer)
  <2>1. c # "=" /\ c # EOF
      BY <1>4 DEF EOF
  <2>2. ~lexer.tag.drop => OneEquals(LastFrom(lexer.tag), lexer.pos + 1)
      BY <1>1, <1>2, <1>3, <2>1, NoneMore, Zenon
  <2>3. TagIs("before attr value", lexer.pos + 1, lexer.tag)
      BY <1>3, <2>2, BeforeValueIs
  <2> QED BY <1>1, <1>4, <2>1, <2>3, PassOwn
<1>5. ASSUME NEW t \in {"attr value double quoted", "attr value single quoted"}, c # EOF,
             NextChar([To(t) EXCEPT !.tag.from = lexer.pos])
      PROVE  OwnInv'
  <2> DEFINE k == To(t)
             m == [k EXCEPT !.tag.from = lexer.pos]
  <2>1. Formed(k) /\ k.state = t /\ k.pos = lexer.pos /\ k.again = FALSE /\ k.tag = lexer.tag
      BY <1>2
  <2>2. NextChar(m)
      BY <1>5
  <2> HIDE DEF k
  <2>3. /\ IsLexer(m) /\ m.state = t /\ m.pos = lexer.pos /\ m.again = FALSE
        /\ m.tag.from = lexer.pos /\ m.tag.buffer = lexer.tag.buffer /\ m.tag.drop = lexer.tag.drop
        /\ m.tag.attributes = lexer.tag.attributes /\ DOMAIN m.tag = TagFields
      BY <2>1 DEF Formed, IsLexer, LexerFields, TagFields
  <2> HIDE DEF m
  <2>4. Formed(m)
      BY <1>2, <2>1, <2>3 DEF Formed, IsTag
  <2>5. LastFrom(m.tag) = LastFrom(lexer.tag)
      BY <2>3 DEF LastFrom
  <2>6. TagIs(t, lexer.pos + 1, m.tag)
      BY <1>3, <2>3, <2>5, InValueIs
  <2> QED BY <1>1, <1>5, <2>2, <2>3, <2>4, <2>6, OwnStep
<1>6. CASE NextChar(Again(To("attr value unquoted")))
  <2> DEFINE k == To("attr value unquoted")
  <2>1. /\ Formed(k) /\ k.state = "attr value unquoted" /\ k.pos = lexer.pos /\ k.tag = lexer.tag
        /\ NextChar(Again(k))
      BY <1>2, <1>6
  <2> HIDE DEF k
  <2>2. TagIs("attr value unquoted", lexer.pos, lexer.tag)
      BY <1>3, InValueIs
  <2> QED BY <2>1, <2>2, OwnAgain
<1>7. CASE EmitTag(To("data"))
    BY <1>2, <1>7, OwnEmit
<1>8. CASE c # EOF /\ NextChar(AppendTag(To("attr value unquoted"), Unnulled(c), TRUE))
  <2> DEFINE k == To("attr value unquoted")
             m == AppendTag(k, Unnulled(c), TRUE)
  <2>1. /\ Formed(m) /\ m.state = k.state /\ m.pos = lexer.pos /\ m.again = FALSE
        /\ m.tag.buffer # <<>> /\ m.tag.drop = lexer.tag.drop
        /\ m.tag.from = IF lexer.tag.buffer = <<>> THEN lexer.pos ELSE lexer.tag.from
        /\ m.tag.attributes = lexer.tag.attributes /\ LastFrom(m.tag) = LastFrom(lexer.tag)
      BY <1>1, <1>2, AppendOnto, ZenonT(40)
  <2>2. NextChar(m) /\ k.state = "attr value unquoted"
      BY <1>2, <1>8
  <2> HIDE DEF m, k
  <2>3. TagIs(m.state, lexer.pos + 1, m.tag)
      BY <1>3, <2>1, <2>2, InValueIs
  <2> QED BY <1>1, <1>8, <2>1, <2>2, <2>3, OwnStep
<1>9. c \in Quotes => ValueStates[c] \in {"attr value double quoted", "attr value single quoted"} /\ c # EOF
    BY DEF Quotes, ValueStates, EOF
<1> QED BY <1>1, <1>4, <1>5, <1>6, <1>7, <1>8, <1>9, OwnCutOff DEF BeforeAttrValue

\* A character reference in a value is read where it begins.
LEMMA ToCharRefOwn ==
    ASSUME IInv, OwnInv, NEW s, s \in ValueNames, At(s), ToCharRef
    PROVE  OwnInv'
<1> DEFINE k == To("char ref in attr value")
           m == [k EXCEPT !.tag.valueState = lexer.state]
<1>1. Formed(k) /\ k.state = "char ref in attr value" /\ k.pos = lexer.pos /\ k.tag = lexer.tag
    BY OwnHere
<1>2. NextChar(Again(m)) /\ CharAt(lexer.pos) = "&"
    BY DEF ToCharRef, c
<1> HIDE DEF k
<1>3. /\ IsLexer(m) /\ m.state = "char ref in attr value" /\ m.pos = lexer.pos
      /\ m.tag.from = lexer.tag.from /\ m.tag.buffer = lexer.tag.buffer
      /\ m.tag.drop = lexer.tag.drop /\ m.tag.attributes = lexer.tag.attributes
      /\ m.tag.valueState = s /\ DOMAIN m.tag = TagFields
    BY <1>1, OwnHere DEF Formed, IsLexer, LexerFields, TagFields
<1> HIDE DEF m
<1>4. Formed(m)
    BY <1>1, <1>3 DEF Formed, IsTag
<1>5. LastFrom(m.tag) = LastFrom(lexer.tag)
    BY <1>3 DEF LastFrom
<1>6. TagIs(s, lexer.pos, lexer.tag)
    BY OwnHere
<1>7. TagIs("char ref in attr value", lexer.pos, m.tag)
  <2>1. CASE s = "attr value unquoted"
      BY <1>2, <1>3, <1>5, <1>6, <2>1, InValueIs
  <2>2. CASE s \in {"attr value double quoted", "attr value single quoted"}
      BY <1>2, <1>3, <1>5, <1>6, <2>2, InValueIs
  <2> QED BY <2>1, <2>2 DEF ValueNames
<1> QED BY <1>2, <1>3, <1>4, <1>7, OwnAgain

\* handle_attr_value_*_quoted_state: the value is stored at its closing quote.
LEMMA AttrValueQuotedOwn ==
    ASSUME IInv, OwnInv, NEW quote, quote \in Quotes, AttrValueQuoted(quote)
    PROVE  OwnInv'
<1> DEFINE s == ValueStates[quote]
<1>1. s \in {"attr value double quoted", "attr value single quoted"} /\ s \in ValueNames /\ quote # EOF
    BY DEF Quotes, ValueStates, ValueNames, EOF
<1>2. At(s)
    BY DEF AttrValueQuoted
<1>3. \/ c = quote /\ NextChar(To("after attr value quoted"))
      \/ ToCharRef \/ ValueCutOff
      \/ c \notin {quote, "&", EOF} /\ NextChar(AppendTag(lexer, Unnulled(c), FALSE))
    BY DEF AttrValueQuoted
<1> HIDE DEF s
<1>4. /\ Formed(lexer) /\ lexer.state = s /\ lexer.again = FALSE /\ Unnulled(c) \in TagSymbols
      /\ TagIs(s, lexer.pos, lexer.tag)
    BY <1>2, OwnHere
<1>5. ~lexer.tag.drop =>
        lexer.tag.attributes # <<>> /\ OneEquals(LastFrom(lexer.tag), lexer.tag.from)
    BY <1>1, <1>4, InValueIs
<1>6. CASE c = quote /\ NextChar(To("after attr value quoted"))
  <2>1. TagIs("after attr value quoted", lexer.pos + 1, lexer.tag)
      BY <1>5, InValueIs
  <2> QED BY <1>1, <1>2, <1>6, <2>1, PassOwn
<1>7. CASE c # EOF /\ NextChar(AppendTag(lexer, Unnulled(c), FALSE))
  <2> DEFINE m == AppendTag(lexer, Unnulled(c), FALSE)
  <2>1. /\ Formed(m) /\ m.state = s /\ m.pos = lexer.pos /\ m.again = FALSE
        /\ m.tag.from = lexer.tag.from /\ m.tag.drop = lexer.tag.drop
        /\ m.tag.attributes = lexer.tag.attributes /\ NextChar(m)
      BY <1>4, <1>7, AppendTagIs
  <2> HIDE DEF m
  <2>2. LastFrom(m.tag) = LastFrom(lexer.tag)
      BY <2>1 DEF LastFrom
  <2>3. TagIs(s, lexer.pos + 1, m.tag)
      BY <1>1, <1>5, <2>1, <2>2, InValueIs
  <2> QED BY <1>2, <1>7, <2>1, <2>3, OwnStep
<1> QED BY <1>1, <1>2, <1>3, <1>6, <1>7, ToCharRefOwn, OwnCutOff

\* handle_attr_value_unquoted_state: the value is stored at the space or ">" after it.
LEMMA AttrValueUnquotedOwn ==
    ASSUME IInv, OwnInv, AttrValueUnquoted
    PROVE  OwnInv'
<1>1. At("attr value unquoted")
    BY DEF AttrValueUnquoted
<1>2. /\ Formed(lexer) /\ lexer.state = "attr value unquoted" /\ lexer.again = FALSE
      /\ Unnulled(c) \in TagSymbols /\ TokensOwn /\ lexer.pos \in Nat
      /\ TagIs("attr value unquoted", lexer.pos, lexer.tag)
      /\ \A t : /\ Formed(To(t)) /\ To(t).state = t /\ To(t).pos = lexer.pos
                /\ To(t).again = FALSE /\ To(t).tag = lexer.tag
    BY <1>1, OwnHere
<1>3. ~lexer.tag.drop =>
        /\ lexer.tag.attributes # <<>>
        /\ OneEquals(LastFrom(lexer.tag), IF lexer.tag.buffer = <<>> THEN lexer.pos ELSE lexer.tag.from)
    BY <1>2, InValueIs
<1>4. ASSUME NEW t
      PROVE  LET m == FinishAttributeValue(To(t))
             IN  /\ Formed(m) /\ m.state = t /\ m.pos = lexer.pos /\ m.again = FALSE
                 /\ m.tag.buffer = <<>> /\ m.tag.from = lexer.pos
  <2> DEFINE k == To(t)
  <2>1. Formed(k) /\ k.state = t /\ k.pos = lexer.pos /\ k.tag = lexer.tag /\ k.again = FALSE
      BY <1>2
  <2> HIDE DEF k
  <2>2. LET m == FinishAttributeValue(k)
        IN  /\ Formed(m) /\ m.state = t /\ m.pos = lexer.pos /\ m.again = FALSE
            /\ m.tag.buffer = <<>> /\ m.tag.from = lexer.pos
      BY <1>3, <2>1, FinishAttributeValueIs
  <2> QED BY <2>2 DEF k
<1>5. CASE c = " " /\ NextChar(FinishAttributeValue(To("before attr name")))
  <2> DEFINE m == FinishAttributeValue(To("before attr name"))
  <2>1. /\ Formed(m) /\ m.state = "before attr name" /\ m.pos = lexer.pos /\ m.again = FALSE
        /\ m.tag.buffer = <<>> /\ m.tag.from = lexer.pos /\ NextChar(m)
      BY <1>4, <1>5
  <2> HIDE DEF m
  <2>2. lexer.pos <= lexer.pos + 1 /\ NoEquals(lexer.pos, lexer.pos + 1)
      BY <1>2, Further, Zenon
  <2>3. TagIs("before attr name", lexer.pos + 1, m.tag)
      BY <2>1, <2>2, BeforeNameIs
  <2> QED BY <1>1, <1>5, <2>1, <2>3, OwnStep DEF EOF
<1>6. CASE EmitTag(FinishAttributeValue(To("data")))
    BY <1>2, <1>4, <1>6, OwnEmit
<1>7. CASE c # EOF /\ NextChar(AppendTag(lexer, Unnulled(c), TRUE))
  <2> DEFINE m == AppendTag(lexer, Unnulled(c), TRUE)
  <2>1. /\ Formed(m) /\ m.state = lexer.state /\ m.pos = lexer.pos /\ m.again = FALSE
        /\ m.tag.buffer # <<>> /\ m.tag.drop = lexer.tag.drop
        /\ m.tag.from = IF lexer.tag.buffer = <<>> THEN lexer.pos ELSE lexer.tag.from
        /\ m.tag.attributes = lexer.tag.attributes /\ LastFrom(m.tag) = LastFrom(lexer.tag)
      BY <1>1, <1>2, AppendOnto
  <2>2. NextChar(m) /\ lexer.state = "attr value unquoted"
      BY <1>2, <1>7
  <2> HIDE DEF m
  <2>3. TagIs(m.state, lexer.pos + 1, m.tag)
      BY <1>3, <2>1, <2>2, InValueIs
  <2> QED BY <1>1, <1>7, <2>1, <2>2, <2>3, OwnStep
<1>8. "attr value unquoted" \in ValueNames
    BY DEF ValueNames
<1> QED BY <1>1, <1>5, <1>6, <1>7, <1>8, ToCharRefOwn, OwnCutOff DEF AttrValueUnquoted

\* handle_after_attr_value_quoted_state: another attribute may begin at once.
LEMMA AfterAttrValueQuotedOwn ==
    ASSUME IInv, OwnInv, AfterAttrValueQuoted
    PROVE  OwnInv'
<1>1. At("after attr value quoted")
    BY DEF AfterAttrValueQuoted
<1>2. /\ TokensOwn /\ lexer.pos \in Nat
      /\ TagIs("after attr value quoted", lexer.pos, lexer.tag)
      /\ \A t : /\ Formed(To(t)) /\ To(t).state = t /\ To(t).pos = lexer.pos
                /\ To(t).again = FALSE /\ To(t).tag = lexer.tag
    BY <1>1, OwnHere
<1>3. ~lexer.tag.drop =>
        lexer.tag.attributes # <<>> /\ OneEquals(LastFrom(lexer.tag), lexer.tag.from)
    BY <1>2, InValueIs
<1>4. ASSUME NEW t
      PROVE  LET m == FinishAttributeValue(To(t))
             IN  /\ Formed(m) /\ m.state = t /\ m.pos = lexer.pos /\ m.again = FALSE
                 /\ m.tag.buffer = <<>> /\ m.tag.from = lexer.pos
  <2> DEFINE k == To(t)
  <2>1. Formed(k) /\ k.state = t /\ k.pos = lexer.pos /\ k.tag = lexer.tag /\ k.again = FALSE
      BY <1>2
  <2> HIDE DEF k
  <2>2. LET m == FinishAttributeValue(k)
        IN  /\ Formed(m) /\ m.state = t /\ m.pos = lexer.pos /\ m.again = FALSE
            /\ m.tag.buffer = <<>> /\ m.tag.from = lexer.pos
      BY <1>3, <2>1, FinishAttributeValueIs
  <2> QED BY <2>2 DEF k
<1>5. ASSUME NEW t \in {"before attr name", "self closing"}, c # EOF,
             NextChar(FinishAttributeValue(To(t)))
      PROVE  OwnInv'
  <2> DEFINE m == FinishAttributeValue(To(t))
  <2>1. /\ Formed(m) /\ m.state = t /\ m.pos = lexer.pos /\ m.again = FALSE
        /\ m.tag.buffer = <<>> /\ m.tag.from = lexer.pos /\ NextChar(m)
      BY <1>4, <1>5
  <2> HIDE DEF m
  <2>2. lexer.pos <= lexer.pos + 1 /\ NoEquals(lexer.pos, lexer.pos + 1)
      BY <1>2, Further, Zenon
  <2>3. TagIs(t, lexer.pos + 1, m.tag)
      BY <2>1, <2>2, BeforeNameIs
  <2> QED BY <1>1, <1>5, <2>1, <2>3, OwnStep
<1>6. CASE EmitTag(FinishAttributeValue(To("data")))
    BY <1>2, <1>4, <1>6, OwnEmit
<1>7. CASE NextChar(Again(AbandonTag(FinishAttributeValue(To("data")))))
  <2> DEFINE k == FinishAttributeValue(To("data"))
             l == AbandonTag(k)
  <2>1. Formed(k) /\ k.state = "data"
      BY <1>4
  <2> HIDE DEF k
  <2>2. Formed(l) /\ l.state = "data"
      BY <2>1, AbandonedIs
  <2>3. NextChar(Again(l))
      BY <1>7 DEF k
  <2> HIDE DEF l
  <2>4. Formed(Again(l)) /\ Again(l).state = "data"
      BY <2>2, Onward DEF Formed
  <2> QED BY <1>2, <2>3, <2>4, OwnOut DEF EndStates
<1>8. CASE NextChar(Again(FinishAttributeValue(To("before attr name"))))
  <2> DEFINE m == FinishAttributeValue(To("before attr name"))
  <2>1. /\ Formed(m) /\ m.state = "before attr name" /\ m.pos = lexer.pos
        /\ m.tag.buffer = <<>> /\ m.tag.from = lexer.pos /\ NextChar(Again(m))
      BY <1>4, <1>8
  <2> HIDE DEF m
  <2>2. lexer.pos <= lexer.pos /\ NoEquals(lexer.pos, lexer.pos)
    <3>1. \A p \in Nat : p <= p
        OBVIOUS
    <3> QED BY <1>2, <3>1, EqualsNone, Zenon
  <2>3. TagIs(m.state, m.pos, m.tag)
      BY <2>1, <2>2, BeforeNameIs
  <2> QED BY <2>1, <2>3, OwnAgain
<1> QED BY <1>5, <1>6, <1>7, <1>8 DEF AfterAttrValueQuoted, EOF

\* handle_self_closing_start_tag_state: a "/" that closes nothing is passed over.
LEMMA SelfClosingOwn ==
    ASSUME IInv, OwnInv, SelfClosing
    PROVE  OwnInv'
<1>1. At("self closing")
    BY DEF SelfClosing
<1>2. /\ TokensOwn /\ TagIs("self closing", lexer.pos, lexer.tag)
      /\ \A t : /\ Formed(To(t)) /\ To(t).state = t /\ To(t).pos = lexer.pos
                /\ To(t).again = FALSE /\ To(t).tag = lexer.tag
    BY <1>1, OwnHere
<1>3. CASE EmitTag([To("data") EXCEPT !.tag.selfClosing = TRUE])
  <2> DEFINE k == To("data")
             m == [k EXCEPT !.tag.selfClosing = TRUE]
  <2>1. Formed(k) /\ k.state = "data" /\ EmitTag(m)
      BY <1>2, <1>3
  <2> HIDE DEF k
  <2>2. /\ IsLexer(m) /\ m.state = "data" /\ m.tag.attributes = k.tag.attributes
        /\ m.tag.buffer = k.tag.buffer /\ m.tag.from = k.tag.from /\ m.tag.drop = k.tag.drop
        /\ DOMAIN m.tag = TagFields
      BY <2>1 DEF Formed, IsLexer, LexerFields, TagFields
  <2> HIDE DEF m
  <2>3. Formed(m)
      BY <2>1, <2>2 DEF Formed, IsTag
  <2> QED BY <1>2, <2>1, <2>2, <2>3, OwnEmit
<1>4. CASE NextChar(Again(To("before attr name")))
  <2> DEFINE m == To("before attr name")
  <2>1. Formed(m) /\ m.state = "before attr name" /\ m.pos = lexer.pos /\ m.tag = lexer.tag
        /\ NextChar(Again(m))
      BY <1>2, <1>4
  <2> HIDE DEF m
  <2>2. TagIs("before attr name", lexer.pos, lexer.tag)
      BY <1>2, BeforeNameIs
  <2> QED BY <2>1, <2>2, OwnAgain
<1> QED BY <1>1, <1>3, <1>4, OwnCutOff DEF SelfClosing

-----------------------------------------------------------------------------
(* Character references: there is neither "=" nor "<" in them. *)

\* A reference ends at or after the place where it is looked for, and there is
\* neither "=" nor "<" up to there.
LEMMA NoneUpTo ==
    ASSUME IsInput, NEW p \in Nat \ {0}, NEW set, {EOF, "=", "<"} \cap set = {}, p <= Len(input) + 1
    PROVE  /\ EndOf(p, set) \in Nat /\ p <= EndOf(p, set) /\ EndOf(p, set) <= Len(input) + 1
           /\ \A r \in p .. EndOf(p, set) - 1 : CharAt(r) \notin {"=", "<"}
<1> DEFINE Stops == {q \in p .. Len(input) + 1 : CharAt(q) \notin set}
<1>1. Stops \subseteq Nat /\ Len(input) + 1 \in Stops
    BY AtTheEnd DEF IsInput
<1>2. PICK q \in Stops : \A r \in Stops : q <= r
    BY <1>1, LeastNumber
<1>3. \A r \in p .. q - 1 : CharAt(r) \in set
    BY <1>1, <1>2 DEF IsInput
<1>4. \E e \in p .. Len(input) + 1 :
          /\ CharAt(e) \notin set
          /\ \A r \in p .. e - 1 : CharAt(r) \in set
    BY <1>2, <1>3
<1>5. EndOf(p, set) \in p .. Len(input) + 1 /\ \A r \in p .. EndOf(p, set) - 1 : CharAt(r) \in set
    BY <1>4 DEF EndOf
<1> QED BY <1>5 DEF IsInput

(* What a reference at p is like. *)
ReferredTo == {"<", "u", Replacement}
Crosses(p, ref) ==
    /\ ref.pos \in Nat \ {0} /\ p <= ref.pos
    /\ \A r \in p .. ref.pos - 1 : r <= Len(input) /\ CharAt(r) \notin {"=", "<"}
    /\ ref.first = NoChar => ref.pos = p
    /\ ref.first # NoChar => ref.first \in TagSymbols
    /\ ref.second # NoChar => ref.second \in TagSymbols
    /\ ref.first # NoChar => p + 2 <= ref.pos /\ ref.first \in ReferredTo
    /\ ref.second \in {NoChar, "v"}

\* An "&" that begins no reference is passed over alone,
LEMMA NoReferenceCrosses ==
    ASSUME NEW p \in Nat \ {0}
    PROVE  Crosses(p, NoReference(p))
BY DEF Crosses, NoReference, NoChar

\* a numeric reference has digits and perhaps ";",
LEMMA NumericCrosses ==
    ASSUME IsInput, NEW p \in Nat \ {0}, CharAt(p) = "&", CharAt(p + 1) = "#"
    PROVE  Crosses(p, NumericReference(p))
<1> DEFINE from == NumberAt(p)
           to   == EndOf(from, DigitsAt(p))
           found(end) == [first |-> CodePoint(from, to), second |-> NoChar, pos |-> end]
<1>1. Len(input) \in Nat
    BY DEF IsInput
<1>2. p + 1 <= Len(input)
    BY <1>1 DEF CharAt, EOF
<1>3. CharAt(p + 2) = "x" => p + 2 <= Len(input)
    BY <1>1 DEF CharAt, EOF
<1>4. from \in Nat \ {0} /\ p + 2 <= from /\ from <= p + 3 /\ from <= Len(input) + 1
      /\ (from = p + 3 => CharAt(p + 2) = "x")
    BY <1>1, <1>2, <1>3 DEF NumberAt, Hexadecimal
<1>5. {EOF, "=", "<"} \cap DigitsAt(p) = {}
    BY DEF DigitsAt, Digits, EOF
<1>6. /\ to \in Nat /\ from <= to /\ to <= Len(input) + 1
      /\ \A r \in from .. to - 1 : CharAt(r) \notin {"=", "<"}
    BY <1>4, <1>5, NoneUpTo
<1>7. CharAt(to) = ";" => to <= Len(input)
    BY <1>1, <1>6 DEF CharAt, EOF
<1>8. NumericReference(p) = NoReference(p) \/ NumericReference(p) = found(IF CharAt(to) = ";" THEN to + 1 ELSE to)
    BY Zenon DEF NumericReference
<1> DEFINE closed == CharAt(to) = ";"
<1>0. closed => to <= Len(input) /\ CharAt(to) \notin {"=", "<"}
    BY <1>7
<1> HIDE DEF closed
<1>9. ASSUME NEW end, end = to \/ (end = to + 1 /\ closed) PROVE Crosses(p, found(end))
  <2>1. /\ found(end).pos = end /\ found(end).second = NoChar
        /\ found(end).first \in {Replacement, "u"} /\ found(end).first \in ReferredTo
      BY DEF CodePoint, ReferredTo
  <2>2. {Replacement, "u"} \subseteq TagSymbols /\ NoChar \notin {Replacement, "u"}
      BY DEF TagSymbols, Symbols, NoChar, Replacement
  <2> HIDE DEF found, from, to
  <2>3. end \in Nat \ {0} /\ p + 2 <= end /\ p <= end /\ end <= Len(input) + 1
      BY <1>0, <1>1, <1>4, <1>6, <1>9
  <2>4. ASSUME NEW r \in p .. end - 1 PROVE r <= Len(input) /\ CharAt(r) \notin {"=", "<"}
    <3>1. r <= Len(input)
        BY <1>1, <2>3
    <3>2. CASE r < from
      <4>1. r = p \/ r = p + 1 \/ (r = p + 2 /\ from = p + 3)
          BY <1>4, <3>2
      <4> QED BY <1>4, <3>1, <4>1
    <3>3. CASE from <= r /\ r < to
        BY <1>4, <1>6, <3>1, <3>3
    <3>4. CASE to <= r
      <4>1. r = to /\ closed
          BY <1>6, <1>9, <3>4
      <4> QED BY <1>0, <3>1, <4>1
    <3> QED BY <1>4, <1>6, <3>2, <3>3, <3>4
  <2> QED BY <2>1, <2>2, <2>3, <2>4 DEF Crosses, ReferredTo
<1>10. \/ NumericReference(p) = NoReference(p) \/ NumericReference(p) = found(to)
       \/ closed /\ NumericReference(p) = found(to + 1)
    BY <1>8, Zenon DEF closed
<1> HIDE DEF found, to
<1> QED BY <1>9, <1>10, NoReferenceCrosses, Zenon

\* and none of the names holds one of them (consume_named_ref),
LEMMA NamedCrosses ==
    ASSUME IsInput, NEW p \in Nat \ {0}, CharAt(p) = "&", NEW inAttribute
    PROVE  Crosses(p, NamedReference(p, inAttribute))
<1> DEFINE Reference(first, second, pos) == [first |-> first, second |-> second, pos |-> pos]
<1>1. \/ NamedReference(p, inAttribute) = NoReference(p)
      \/ /\ CharAt(p + 1) = "acE" /\ CharAt(p + 2) = ";"
         /\ NamedReference(p, inAttribute) = Reference("u", "v", p + 3)
      \/ /\ CharAt(p + 1) = "lt" /\ CharAt(p + 2) = ";"
         /\ NamedReference(p, inAttribute) = Reference("<", NoChar, p + 3)
      \/ /\ CharAt(p + 1) = "lt"
         /\ NamedReference(p, inAttribute) = Reference("<", NoChar, p + 2)
    BY Zenon DEF NamedReference
<1>2. Len(input) \in Nat
    BY DEF IsInput
<1>3. {"u", "v", "<"} \subseteq TagSymbols /\ NoChar \notin {"u", "v", "<"}
    BY DEF TagSymbols, Symbols, NoChar
<1>4. ASSUME CharAt(p + 1) \in {"acE", "lt"} PROVE Crosses(p, Reference("<", NoChar, p + 2))
  <2>1. p + 1 <= Len(input)
      BY <1>2, <1>4 DEF CharAt, EOF
  <2>2. \A r \in p .. (p + 2) - 1 : r = p \/ r = p + 1
      OBVIOUS
  <2>3. {CharAt(p), CharAt(p + 1)} \cap {"=", "<"} = {}
      BY <1>4
  <2>4. \A r \in p .. (p + 2) - 1 : r <= Len(input)
      BY <1>2, <2>1, <2>2
  <2>5. \A r \in p .. (p + 2) - 1 : CharAt(r) \notin {"=", "<"}
      BY <2>2, <2>3
  <2> QED BY <1>3, <2>4, <2>5 DEF Crosses, ReferredTo
<1>5. ASSUME CharAt(p + 1) \in {"acE", "lt"}, CharAt(p + 2) = ";", NEW first \in {"u", "<"},
             NEW second \in {"v", NoChar}
      PROVE  Crosses(p, Reference(first, second, p + 3))
  <2>1. p + 2 <= Len(input)
      BY <1>2, <1>5 DEF CharAt, EOF
  <2>2. \A r \in p .. (p + 3) - 1 : r = p \/ r = p + 1 \/ r = p + 2
      OBVIOUS
  <2>3. {CharAt(p), CharAt(p + 1), CharAt(p + 2)} \cap {"=", "<"} = {}
      BY <1>5
  <2>4. \A r \in p .. (p + 3) - 1 : r <= Len(input)
      BY <1>2, <2>1, <2>2
  <2>5. \A r \in p .. (p + 3) - 1 : CharAt(r) \notin {"=", "<"}
      BY <2>2, <2>3
  <2> QED BY <1>3, <2>4, <2>5 DEF Crosses, ReferredTo
<1> QED BY <1>1, <1>4, <1>5, NoReferenceCrosses

\* so that a character reference never passes over an "=" or a "<" (consume_char_ref).
LEMMA CharRefCrosses ==
    ASSUME IsInput, NEW p \in Nat \ {0}, CharAt(p) = "&", NEW allowed, NEW inAttribute
    PROVE  Crosses(p, ConsumeCharRef(p, allowed, inAttribute))
BY NoReferenceCrosses, NumericCrosses, NamedCrosses DEF ConsumeCharRef

(* A value with at least one symbol belongs to its attribute, wherever the *)
(* iterator goes on from.                                                  *)
Begun(l, unquoted) ==
    ~l.tag.drop =>
        /\ l.tag.attributes # <<>>
        /\ OneEquals(LastFrom(l.tag),
              IF l.tag.buffer = <<>> /\ unquoted THEN l.pos ELSE l.tag.from)

\* A symbol appended to a value leaves its beginning where it was.
LEMMA ValueGrows ==
    ASSUME NEW l, Formed(l), NEW x, x \in TagSymbols, NEW unquoted \in BOOLEAN, Begun(l, unquoted)
    PROVE  LET m == AppendTag(l, x, unquoted)
           IN  /\ Formed(m) /\ m.state = l.state /\ m.pos = l.pos /\ m.again = l.again
               /\ m.tag.buffer # <<>> /\ Begun(m, unquoted)
<1> DEFINE m == AppendTag(l, x, unquoted)
<1>1. /\ Formed(m) /\ m.state = l.state /\ m.pos = l.pos /\ m.again = l.again
      /\ m.tag.buffer # <<>>
      /\ m.tag.from = IF l.tag.buffer = <<>> /\ unquoted THEN l.pos ELSE l.tag.from
      /\ m.tag.attributes = l.tag.attributes /\ m.tag.drop = l.tag.drop
    BY AppendTagIs
<1> HIDE DEF m
<1>2. LastFrom(m.tag) = LastFrom(l.tag)
    BY <1>1 DEF LastFrom
<1>3. Begun(m, unquoted)
    BY <1>1, <1>2 DEF Begun
<1> QED BY <1>1, <1>3 DEF m

\* What is under way of a value that has begun satisfies the invariant.
LEMMA ValueIs ==
    ASSUME NEW m, m.tag.buffer # <<>>, m.state \in ValueNames, NEW unquoted, Begun(m, unquoted), NEW p
    PROVE  TagIs(m.state, p, m.tag)
<1>1. ~m.tag.drop => m.tag.attributes # <<>> /\ OneEquals(LastFrom(m.tag), m.tag.from)
    BY DEF Begun
<1>2. CASE m.state = "attr value unquoted"
    BY <1>1, <1>2, InValueIs
<1>3. CASE m.state \in {"attr value double quoted", "attr value single quoted"}
    BY <1>1, <1>3, InValueIs
<1> QED BY <1>2, <1>3 DEF ValueNames

\* handle_char_ref_in_attr_value_state: what the reference stands for is appended and the state
\* returns.
LEMMA CharRefInAttrValueOwn ==
    ASSUME IInv, OwnInv, CharRefInAttrValue
    PROVE  OwnInv'
<1> DEFINE state == lexer.tag.valueState
           unquoted == state = "attr value unquoted"
           ref  == ConsumeCharRef(lexer.pos, QuoteOf[state], TRUE)
           back == [To(state) EXCEPT !.mark = lexer.pos, !.pos = ref.pos]
           first == AppendTag(back, ref.first, unquoted)
           second == AppendSecond(first, ref.second, unquoted)
<1>1. At("char ref in attr value")
    BY DEF CharRefInAttrValue
<1>2. /\ TagIs("char ref in attr value", lexer.pos, lexer.tag) /\ lexer.pos \in Nat \ {0}
      /\ Formed(To(state)) /\ To(state).state = state /\ To(state).again = FALSE
      /\ To(state).tag = lexer.tag /\ TokensOwn
    BY <1>1, OwnHere
<1>3. state \in ValueNames /\ unquoted \in BOOLEAN
    BY <1>1 DEF IInv, Parts, TagInv, At
<1>4. /\ CharAt(lexer.pos) = "&"
      /\ ~lexer.tag.drop =>
            /\ lexer.tag.attributes # <<>>
            /\ OneEquals(LastFrom(lexer.tag),
                  IF lexer.tag.buffer = <<>> /\ unquoted THEN lexer.pos ELSE lexer.tag.from)
    BY <1>2, InValueIs
<1>5. \/ ref.first = NoChar /\ NextChar(AppendTag(back, "&", unquoted))
      \/ ref.first # NoChar /\ NextChar(Again(second))
    BY DEF CharRefInAttrValue
<1>6. Crosses(lexer.pos, ref) /\ IsInput
    BY <1>2, <1>4, CharRefCrosses DEF IInv
<1> HIDE DEF ref, unquoted
<1>7. /\ Formed(back) /\ back.state = state /\ back.pos = ref.pos /\ back.again = FALSE
      /\ back.tag = lexer.tag
  <2> DEFINE k == To(state)
  <2>1. Formed(k) /\ k.state = state /\ k.again = FALSE /\ k.tag = lexer.tag
      BY <1>2
  <2>2. back = [k EXCEPT !.mark = lexer.pos, !.pos = ref.pos]
      OBVIOUS
  <2> HIDE DEF k, back, state
  <2>3. ref.pos \in Nat \ {0}
      BY <1>6 DEF Crosses
  <2>4. /\ IsLexer(back) /\ back.state = state /\ back.pos = ref.pos /\ back.again = FALSE
        /\ back.tag = lexer.tag
      BY <1>2, <2>1, <2>2, <2>3 DEF Formed, IsLexer, LexerFields
  <2> QED BY <2>1, <2>4 DEF Formed
<1> HIDE DEF back, state
<1>8. \A from \in Nat : OneEquals(from, lexer.pos) => OneEquals(from, ref.pos)
  <2>1. ASSUME NEW from \in Nat PROVE EqualsSigns(from, ref.pos) = EqualsSigns(from, lexer.pos)
      BY <1>2, <1>6, EqualsOn DEF Crosses
  <2> QED BY <2>1 DEF OneEquals
<1>9. lexer.tag.attributes # <<>> => LastFrom(lexer.tag) \in Nat
    BY <1>2, LastFromIs DEF Formed, IsTag
<1>10. Begun(back, unquoted)
    BY <1>4, <1>7, <1>8, <1>9 DEF Begun
<1>11. CASE ref.first = NoChar /\ NextChar(AppendTag(back, "&", unquoted))
  <2> DEFINE m == AppendTag(back, "&", unquoted)
  <2>1. "&" \in TagSymbols
      BY DEF TagSymbols
  <2>2. /\ Formed(m) /\ m.state = state /\ m.pos = ref.pos /\ m.again = FALSE
        /\ m.tag.buffer # <<>> /\ Begun(m, unquoted) /\ NextChar(m)
      BY <1>3, <1>7, <1>10, <1>11, <2>1, ValueGrows
  <2> HIDE DEF m
  <2>3. m.pos = lexer.pos
      BY <1>6, <1>11, <2>2 DEF Crosses
  <2>4. TagIs(m.state, lexer.pos + 1, m.tag)
      BY <1>3, <2>2, ValueIs
  <2>5. c # EOF
      BY <1>4 DEF c, EOF
  <2> QED BY <1>1, <2>2, <2>3, <2>4, <2>5, OwnStep
<1>12. CASE ref.first # NoChar /\ NextChar(Again(second))
  <2>1. ref.first \in TagSymbols /\ (ref.second # NoChar => ref.second \in TagSymbols)
      BY <1>6, <1>12 DEF Crosses
  <2>2. /\ Formed(first) /\ first.state = state /\ first.tag.buffer # <<>> /\ Begun(first, unquoted)
      BY <1>3, <1>7, <1>10, <2>1, ValueGrows
  <2> HIDE DEF first
  <2>3. /\ Formed(second) /\ second.state = state /\ second.tag.buffer # <<>>
        /\ Begun(second, unquoted)
    <3>1. CASE ref.second = NoChar
        BY <2>2, <3>1 DEF AppendSecond
    <3>2. CASE ref.second # NoChar
      <4>1. second = AppendTag(first, ref.second, unquoted)
          BY <3>2 DEF AppendSecond
      <4> HIDE DEF second
      <4> QED BY <1>3, <2>1, <2>2, <3>2, <4>1, ValueGrows
    <3> QED BY <3>1, <3>2
  <2>4. NextChar(Again(second))
      BY <1>12
  <2> HIDE DEF second
  <2>5. TagIs(second.state, second.pos, second.tag)
      BY <1>3, <2>3, ValueIs
  <2> QED BY <2>3, <2>4, <2>5, OwnAgain
<1> QED BY <1>5, <1>11, <1>12

-----------------------------------------------------------------------------
(* Where a tag begins. *)
LEMMA Started ==
    ASSUME IInv, OwnInv, NEW s, At(s), NEW t, NEW isStart \in BOOLEAN
    PROVE  LET m == StartNewTag(To(t), isStart)
           IN  Formed(m) /\ m.state = t
<1> DEFINE k == To(t)
           m == StartNewTag(k, isStart)
<1>1. Formed(k) /\ k.state = t
    BY OwnHere
<1>2. <<Lower(c)>> \in Seq(TagSymbols)
  <2>1. Lower(c) \in TagSymbols
      BY OwnHere
  <2> QED BY <2>1
<1> HIDE DEF k
<1>3. /\ IsLexer(m) /\ m.state = t /\ DOMAIN m.tag = TagFields /\ m.tag.attributes = <<>>
      /\ m.tag.buffer = <<Lower(c)>> /\ m.tag.from = k.pos /\ m.tag.drop = FALSE
  <2>1. IsLexer(k) /\ k.state = t
      BY <1>1 DEF Formed
  <2> DEFINE low == <<Lower(c)>>
             new == [k.tag EXCEPT !.open = TRUE, !.attributes = <<>>, !.drop = FALSE,
                                  !.isStart = isStart, !.selfClosing = FALSE,
                                  !.buffer = low, !.from = k.pos]
  <2>2. m = [k EXCEPT !.tag = new]
      BY Zenon DEF StartNewTag
  <2> HIDE DEF low
  <2>3. /\ DOMAIN new = TagFields /\ new.open = TRUE /\ new.isStart = isStart /\ new.attributes = <<>>
        /\ new.buffer = low /\ new.from = k.pos /\ new.drop = FALSE
      BY <2>1 DEF IsLexer, TagFields
  <2> HIDE DEF new, m
  <2>4. /\ IsLexer(m) /\ m.state = t /\ m.tag = new
      BY <2>1, <2>2, <2>3 DEF IsLexer, LexerFields
  <2> QED BY <2>3, <2>4 DEF low
<1> HIDE DEF m
<1>4. m.tag.from \in Nat /\ m.tag.buffer \in Seq(TagSymbols) /\ m.tag.attributes \in Seq(Attribute)
    BY <1>1, <1>2, <1>3 DEF Formed, IsLexer
<1>5. IsTag(m.tag)
    BY <1>3, <1>4 DEF IsTag
<1>6. Own(m.tag.attributes)
    BY <1>3 DEF Own
<1> QED BY <1>3, <1>5, <1>6 DEF Formed, m, k

\* start_new_tag: the tag begins with no attributes.
LEMMA TagBeginsOwn ==
    ASSUME IInv, OwnInv, NEW s, At(s), NEW isStart \in BOOLEAN,
           NextChar(StartNewTag(To("tag name"), isStart))
    PROVE  OwnInv'
<1> DEFINE m == StartNewTag(To("tag name"), isStart)
<1>1. Formed(m) /\ m.state = "tag name" /\ NextChar(m)
    BY Started
<1> HIDE DEF m
<1>2. TokensOwn
    BY DEF OwnInv
<1> QED BY <1>1, <1>2, OwnOut

\* handle_tag_open_state and handle_end_tag_open_state.
LEMMA TagOpensOwn ==
    ASSUME IInv, OwnInv, TagOpen \/ EndTagOpenState
    PROVE  OwnInv'
<1>1. PICK s \in {"tag open", "end tag open"} : At(s)
    BY DEF TagOpen, EndTagOpenState
<1>2. lexer.state \notin AttributeStates \cup EndTagNameStates
  <2>1. s \notin AttributeStates \cup EndTagNameStates
      BY States
  <2> QED BY <1>1, <2>1 DEF At
<1>3. /\ \A t : /\ Light(To(t)) /\ Light(ClearTemporary(To(t)))
                /\ \A x : /\ Light(AppendTemporary(To(t), x))
                          /\ Light(AppendTemporary(ClearTemporary(To(t)), x))
    BY LightHere, LightChanges
<1>4. \/ Calm
      \/ NextChar(StartNewTag(To("tag name"), TRUE))
      \/ NextChar(StartNewTag(To("tag name"), FALSE))
  <2>1. CASE TagOpen
      BY <1>3, <2>1, LightNext, LightTemporary DEF TagOpen
  <2>2. CASE EndTagOpenState
      BY <1>3, <2>2, LightNext, LightTemporary DEF EndTagOpenState
  <2> QED BY <2>1, <2>2
<1>5. IInv'
    BY TagOpenSound, EndTagOpenStateSound
<1>6. CASE Calm
    BY <1>2, <1>5, <1>6, CalmNext
<1> QED BY <1>1, <1>4, <1>6, TagBeginsOwn

(* An end tag in raw text. *)
LEMMA KeptOwn ==
    ASSUME NEW l, Formed(l), NEW ss \in Seq(Symbols)
    PROVE  Formed(AppendTemporary(l, ss)) /\ AppendTemporary(l, ss).state = l.state
<1> DEFINE d == l.temp \o ss
           m == [l EXCEPT !.temp = d]
<1>1. d \in Seq(Symbols)
    BY ConcatProperties DEF Formed, IsLexer
<1> HIDE DEF d
<1>2. IsLexer(m) /\ m.tag = l.tag /\ m.state = l.state
    BY <1>1 DEF Formed, IsLexer, LexerFields
<1>3. m = AppendTemporary(l, ss)
    BY DEF AppendTemporary, d
<1> HIDE DEF m
<1> QED BY <1>2, <1>3 DEF Formed

\* The end tags of raw text begin the same way,
LEMMA RawEndTagOpenOwn ==
    ASSUME IInv, OwnInv, NEW state, state \in RawStates, RawEndTagOpen(state)
    PROVE  OwnInv'
<1>1. At(EndTagOpen[state])
    BY DEF RawEndTagOpen
<1>2. TokensOwn /\ Formed(To(state)) /\ To(state).state = state
    BY <1>1, OwnHere
<1>3. CASE NextChar(AppendTemporary(StartNewTag(To(EndTagName[state]), FALSE), <<c>>))
  <2> DEFINE k == StartNewTag(To(EndTagName[state]), FALSE)
             m == AppendTemporary(k, <<c>>)
  <2>1. Formed(k) /\ k.state = EndTagName[state]
      BY <1>1, Started
  <2>2. <<c>> \in Seq(Symbols)
      BY CharIsSymbol, OneSymbol DEF IInv, Parts, IsLexer, c
  <2> HIDE DEF k
  <2>3. Formed(m) /\ m.state = EndTagName[state] /\ NextChar(m)
      BY <1>3, <2>1, <2>2, KeptOwn DEF k
  <2> HIDE DEF m
  <2> QED BY <1>2, <2>3, OwnOut, RawNames
<1>4. CASE EmitTemporary(To(state))
    BY <1>2, <1>4, OwnFlush
<1> QED BY <1>3, <1>4 DEF RawEndTagOpen

\* and go on as tags only if they have the name of the last start tag.
LEMMA RawEndTagNameOwn ==
    ASSUME IInv, OwnInv, NEW state, state \in RawStates, RawEndTagName(state)
    PROVE  OwnInv'
<1>1. At(EndTagName[state])
    BY DEF RawEndTagName
<1>2. /\ TokensOwn /\ Formed(To(state)) /\ To(state).state = state
      /\ Formed(lexer) /\ lexer.state = EndTagName[state] /\ Lower(c) \in TagSymbols
    BY <1>1, OwnHere
<1>3. CASE NextChar(AppendTemporary(AppendTag(lexer, Lower(c), TRUE), <<c>>))
  <2> DEFINE k == AppendTag(lexer, Lower(c), TRUE)
             m == AppendTemporary(k, <<c>>)
  <2>1. Formed(k) /\ k.state = EndTagName[state]
      BY <1>2, AppendHere
  <2>2. <<c>> \in Seq(Symbols)
      BY CharIsSymbol, OneSymbol DEF IInv, Parts, IsLexer, c
  <2> HIDE DEF k
  <2>3. Formed(m) /\ m.state = EndTagName[state] /\ NextChar(m)
      BY <1>3, <2>1, <2>2, KeptOwn DEF k
  <2> HIDE DEF m
  <2> QED BY <1>2, <2>3, OwnOut, RawNames
<1>4. CASE EmitTemporary(AbandonTag(To(state)))
  <2> DEFINE m == AbandonTag(To(state))
  <2>1. Formed(m) /\ m.state = state /\ EmitTemporary(m)
      BY <1>2, <1>4, AbandonedIs
  <2> HIDE DEF m
  <2> QED BY <1>2, <2>1, OwnFlush
<1> QED BY <1>1, <1>3, <1>4, NameEndedOwn DEF RawEndTagName

-----------------------------------------------------------------------------
(* The invariant. *)
LEMMA OwnInit == Init => OwnInv
<1> SUFFICES ASSUME Init PROVE OwnInv
    OBVIOUS
<1>1. lexer = InitialLexer /\ tokens = <<>>
    BY DEF Init
<1>2. /\ lexer.state = "data" /\ DOMAIN lexer.tag = TagFields /\ lexer.tag.attributes = <<>>
      /\ lexer.tag.buffer = <<>> /\ lexer.tag.from = 1 /\ lexer.tag.drop = FALSE
    BY <1>1 DEF InitialLexer, TagFields
<1>3. IsTag(lexer.tag)
  <2>1. lexer.tag.attributes \in Seq(Attribute) /\ lexer.tag.buffer \in Seq(TagSymbols)
      BY <1>2
  <2>2. lexer.tag.from \in Nat /\ lexer.tag.drop \in BOOLEAN
    <3>1. lexer.tag.from = 1 /\ lexer.tag.drop = FALSE
        BY <1>2
    <3>2. 1 \in Nat
        OBVIOUS
    <3> QED BY <3>1, <3>2, Zenon
  <2> QED BY <1>2, <2>1, <2>2, Zenon DEF IsTag
<1>4. Own(lexer.tag.attributes)
    BY <1>2 DEF Own
<1>5. TagIs(lexer.state, lexer.pos, lexer.tag)
    BY <1>2, NoPart DEF EndStates
<1>6. TokensOwn
  <2>1. tokens \in Seq({}) /\ DOMAIN tokens = {}
      BY <1>1
  <2> QED BY <2>1 DEF TokensOwn
<1> QED BY <1>3, <1>4, <1>5, <1>6 DEF OwnInv, TagsAre

\* The parser notes the state it switched to, and leaves token and tag alone.
LEMMA ReactOwn ==
    ASSUME IInv, OwnInv, React
    PROVE  OwnInv'
<1>1. PICK state \in Switches(Last(tokens)), foreign \in Foreigns(Last(tokens)) :
        /\ lexer'  = [lexer EXCEPT !.state = state, !.foreign = foreign]
        /\ tokens' = [tokens EXCEPT ![Len(tokens)].then = state]
    BY DEF React
<1>2. input' = input /\ IsLexer(lexer) /\ ~lexer.tag.open
    BY DEF React, IInv, Parts
<1>3. /\ lexer'.tag = lexer.tag /\ lexer'.pos = lexer.pos /\ lexer'.state = state
    BY <1>1, <1>2 DEF IsLexer, LexerFields
<1>4. state = lexer.state \/ state \in EndStates
    BY <1>1, TextStates DEF Switches, EndStates
<1>5. TagIs(state, lexer.pos, lexer.tag)
    BY <1>4, NoPart DEF OwnInv, TagsAre
<1>6. TagsAre(lexer'.state, lexer'.pos, lexer'.tag)
    BY <1>3, <1>5 DEF OwnInv, TagsAre
<1>7. PICK S : tokens \in Seq(S)
    BY DEF OwnInv, TokensOwn
<1>8. \A from, to : EqualsSigns(from, to)' = EqualsSigns(from, to)
    BY <1>2 DEF EqualsSigns
<1> DEFINE n   == Len(tokens)
           t   == [tokens[n] EXCEPT !.then = state]
           new == [tokens EXCEPT ![n] = t]
<1>9. tokens' = new
    BY <1>1
<1>10. /\ DOMAIN new = DOMAIN tokens
       /\ \A i \in DOMAIN tokens : i # n => new[i] = tokens[i]
       /\ n \in DOMAIN tokens => new[n] = t
    OBVIOUS
<1>11. \E T : new \in Seq(T)
  <2>1. tokens \in Seq(S \cup {t}) /\ t \in S \cup {t} /\ DOMAIN tokens = 1 .. n /\ n \in Nat
      BY <1>7, LenProperties
  <2>2. CASE n \in 1 .. n
      BY <2>1, <2>2, ExceptSeq
  <2>3. CASE n \notin 1 .. n
    <3>1. new = tokens
        BY <2>1, <2>3
    <3> QED BY <1>7, <3>1
  <2> QED BY <2>2, <2>3
<1>12. ASSUME NEW i \in DOMAIN tokens, OwnToken(tokens[i])
       PROVE  OwnToken(new[i])
  <2>1. CASE i # n
      BY <1>10, <1>12, <2>1
  <2>2. CASE i = n
    <3> DEFINE old == tokens[n]
    <3>1. t = [old EXCEPT !.then = state] /\ OwnToken(old)
        BY <1>12, <2>2
    <3> HIDE DEF old, t
    <3>2. "type" \in DOMAIN old /\ DOMAIN t = DOMAIN old /\ t.type = old.type
          /\ ("attributes" \in DOMAIN old => t.attributes = old.attributes)
        BY <3>1 DEF OwnToken
    <3>3. OwnToken(t)
        BY <3>1, <3>2 DEF OwnToken
    <3> QED BY <1>10, <2>2, <3>3
  <2> QED BY <2>1, <2>2
<1> HIDE DEF new
<1>13. ASSUME NEW i \in DOMAIN tokens' PROVE OwnToken(tokens[i])'
  <2>1. OwnToken(new[i])
      BY <1>9, <1>10, <1>12, <1>13 DEF OwnInv, TokensOwn
  <2>2. \A x : x = tokens'[i] /\ OwnToken(x) => OwnToken(tokens[i])'
      BY <1>8 DEF OwnToken, Own, OneEquals
  <2> QED BY <1>9, <2>1, <2>2
<1>14. TokensOwn'
    BY <1>9, <1>11, <1>13 DEF TokensOwn
<1> QED BY <1>2, <1>6, <1>14, TagsNext

\* Every step of the tokenizer keeps the invariant,
LEMMA OwnHolds ==
    ASSUME IInv, IInv', OwnInv, Next
    PROVE  OwnInv'
<1>1. ASSUME Calm, Outside PROVE OwnInv'
    BY <1>1, CalmNext DEF Outside
<1>2. CASE BufferedChar \/ FlushTemporary
  <2>1. lexer.state \notin AttributeStates \cup EndTagNameStates
    <3>1. CASE BufferedChar
      <4>1. lexer.state \in EndStates
          BY <3>1 DEF BufferedChar, IInv, Parts, ExtraInv
      <4> QED BY <4>1, OutsideTags DEF QuietStates
    <3>2. CASE FlushTemporary
        BY <3>2 DEF FlushTemporary, IInv, Parts, FlushInv, KeptStates
    <3> QED BY <1>2, <3>1, <3>2
  <2> QED BY <1>1, <1>2, <2>1, FlushCalm DEF Outside
<1>3. CASE TextState
  <2>1. CASE \E state \in RawStates : RawEndTagOpen(state) \/ RawEndTagName(state)
      BY <2>1, RawEndTagOpenOwn, RawEndTagNameOwn
  <2> QED BY <1>1, <1>3, <2>1, TextCalm, LessThanCalm, ScriptCalm DEF TextState
<1>4. CASE TagState
    BY <1>4, TagOpensOwn, TagNameOwn, BeforeAttrNameOwn, AttrNameOwn, AfterAttrNameOwn,
       BeforeAttrValueOwn, AttrValueUnquotedOwn, CharRefInAttrValueOwn, AttrValueQuotedOwn,
       AfterAttrValueQuotedOwn, SelfClosingOwn
       DEF TagState
<1>5. CASE MarkupState
    BY <1>1, <1>5, CommentCalm, DoctypeCalm DEF MarkupState
<1>6. CASE React
    BY <1>6, ReactOwn
<1> QED BY <1>2, <1>3, <1>4, <1>5, <1>6 DEF Next

\* stuttering steps as well;
LEMMA OwnSound == IInv /\ OwnInv /\ [Next]_vars => OwnInv'
<1> SUFFICES ASSUME IInv, OwnInv, [Next]_vars PROVE OwnInv'
    OBVIOUS
<1>1. IInv'
    BY NextSound
<1>2. CASE UNCHANGED vars
  <2>1. lexer' = lexer /\ input' = input /\ tokens' = tokens
      BY <1>2 DEF vars
  <2>2. TagsAre(lexer'.state, lexer'.pos, lexer'.tag)
      BY <2>1 DEF OwnInv
  <2> QED BY <2>1, <2>2, TagsNext, TokensNext DEF OwnInv, Told
<1> QED BY <1>1, <1>2, OwnHolds

\* and it implies the property.
LEMMA OwnImplies == OwnInv => AttributesAreOwn
<1> SUFFICES ASSUME OwnInv, NEW i \in DOMAIN tokens, tokens[i].type = "start",
                    NEW j \in DOMAIN tokens[i].attributes
             PROVE  LET attributes == tokens[i].attributes
                    IN  /\ \A k \in DOMAIN attributes :
                            attributes[j].name = attributes[k].name => j = k
                        /\ attributes[j].value # <<>> =>
                            Cardinality(EqualsSigns(attributes[j].from, attributes[j].valueFrom)) = 1
    BY DEF AttributesAreOwn
<1>1. Own(tokens[i].attributes)
    BY DEF OwnInv, TokensOwn, OwnToken
<1>2. \A from, to : OneEquals(from, to) => Cardinality(EqualsSigns(from, to)) = 1
    BY FS_Singleton DEF OneEquals
<1> QED BY <1>1, <1>2 DEF Own

\* Whatever the document: no start tag that the parser gets has two attributes of
\* one name, and each value is that of its own name, with one "=" from the one to
\* the other; a second attribute of a name goes with its value
\* (finish_attribute_name, finish_attribute_value, _drop_next_attr_value).
THEOREM AttributesKeepTheirValues == Spec => []AttributesAreOwn
<1>1. Init => IInv /\ OwnInv
    BY InitSound, OwnInit
<1>2. IInv /\ OwnInv /\ [Next]_vars => (IInv /\ OwnInv)'
    BY NextSound, OwnSound
<1>3. IInv /\ OwnInv => AttributesAreOwn
    BY OwnImplies
<1> QED BY <1>1, <1>2, <1>3, PTL DEF Spec

-----------------------------------------------------------------------------
(* The states in which a symbol becomes a token. *)
RefStates   == {"char ref in data", "char ref in rcdata"}
PlainStates ==
    EndStates \cup
    {"script escaped start", "script escaped start dash", "script escaped",
     "script escaped dash", "script escaped dash dash", "script double escaped start",
     "script double escaped", "script double escaped dash", "script double escaped dash dash",
     "script double escaped lt", "script double escaped end", "cdata"}
CharStates  == PlainStates \cup RefStates

(* What has been passed over since the last token begins with "<": "]]>" is *)
(* put behind the start of the next token at once.                          *)
IsOpen(p)         == CharAt(p) = "<"
Skipped(from, to) == from <= to /\ IsPassedOver(from, to) /\ (from < to => IsOpen(from))

TextFrom(start, p)  == CharAt(p) = EOF \/ Skipped(start, p)
OpensAt(start, p)   == Skipped(start, p) /\ IsOpen(p)
Declares(start, p)  == start + 2 <= p /\ OpensAt(start, p - 2) /\ CharAt(p - 1) = "!"

Placed(s, p, start, mark) ==
    /\ s \in CharStates => TextFrom(start, p)
    /\ s \in RefStates => CharAt(p) = "&"
    /\ s = "cdata" => Skipped(start, p)
    /\ s \in KeptStates => OpensAt(start, mark) /\ mark < p
    /\ s \in AttributeStates => start < p /\ IsOpen(start)
    /\ s = "markup declaration" => Declares(start, p)

IsAt(p, start) == start \in Nat \ {0} /\ p \in Nat \ {0} /\ start <= p /\ p <= Len(input) + 1

(* The lexer between two tokens. *)
Covers(l) ==
    /\ IsAt(l.pos, l.start) /\ Placed(l.state, l.pos, l.start, l.mark)
    /\ l.flush # 0 => l.state \in PlainStates /\ l.start = l.pos
    /\ l.extra # NoChar => l.extra = "v" /\ l.start = l.pos

LastTo == IF tokens = <<>> THEN 1 ELSE tokens[Len(tokens)].to

TokenIsCovered(t) ==
    /\ {"type", "from", "to", "then"} \subseteq DOMAIN t
    /\ IsChar(t) => "char" \in DOMAIN t /\ CharIsFound(t)
    /\ t.type \in {"start", "end"} => TagIsFound(t)
    /\ t.type = "eof" => t.to = Len(input) + 1

TokensCovered ==
    /\ \A i \in DOMAIN tokens : TokenIsCovered(tokens[i])
    /\ \A i \in DOMAIN tokens : i # Len(tokens) => tokens[i].type # "eof"
    /\ \A i \in DOMAIN tokens :
         IsPassedOver(IF i = 1 THEN 1 ELSE tokens[i - 1].to, tokens[i].from)

IsTokens == \E S : tokens \in Seq(S)

CoverInv ==
    /\ Covers(lexer)
    /\ turn = "parser" => lexer.start = lexer.pos
    /\ IsTokens /\ TokensCovered
    /\ LastTo \in Nat /\ LastTo <= lexer.start /\ IsPassedOver(LastTo, lexer.start)
    /\ Lexing => ~Finished

-----------------------------------------------------------------------------
(* What is passed over. *)

\* The marks that have no token have three symbols each.
LEMMA MarkIs ==
    ASSUME NEW mark \in PassedOver
    PROVE  Len(mark) = 3 /\ DOMAIN mark = 1 .. 3
BY DEF PassedOver

\* Nothing is passed over between a place and itself.
LEMMA SkippedNone ==
    ASSUME NEW p \in Nat
    PROVE  IsPassedOver(p, p) /\ Skipped(p, p)
<1>1. p .. p - 1 = {}
    OBVIOUS
<1> QED BY <1>1 DEF IsPassedOver, Skipped

\* What is passed over up to a place and from there on is passed over as a whole.
LEMMA PassedOn ==
    ASSUME NEW from \in Nat, NEW mid \in Nat, NEW to \in Nat, from <= mid, mid <= to,
           IsPassedOver(from, mid), IsPassedOver(mid, to)
    PROVE  IsPassedOver(from, to)
<1> SUFFICES ASSUME NEW p \in from .. to - 1
             PROVE  \E mark \in PassedOver, q \in p - 2 .. p :
                      from <= q /\ p < q + Len(mark) /\ q + Len(mark) <= to /\ Matches(q, mark)
    BY DEF IsPassedOver
<1>1. CASE p < mid
  <2>1. p \in from .. mid - 1
      BY <1>1
  <2>2. PICK mark \in PassedOver, q \in p - 2 .. p :
            from <= q /\ p < q + Len(mark) /\ q + Len(mark) <= mid /\ Matches(q, mark)
      BY <2>1 DEF IsPassedOver
  <2>3. Len(mark) = 3
      BY MarkIs
  <2>4. from <= q /\ p < q + Len(mark) /\ q + Len(mark) <= to
      BY <2>2, <2>3
  <2> QED BY <2>2, <2>4
<1>2. CASE p >= mid
  <2>1. p \in mid .. to - 1
      BY <1>2
  <2>2. PICK mark \in PassedOver, q \in p - 2 .. p :
            mid <= q /\ p < q + Len(mark) /\ q + Len(mark) <= to /\ Matches(q, mark)
      BY <2>1 DEF IsPassedOver
  <2>3. Len(mark) = 3
      BY MarkIs
  <2>4. from <= q /\ p < q + Len(mark) /\ q + Len(mark) <= to
      BY <2>2, <2>3
  <2> QED BY <2>2, <2>4
<1> QED BY <1>1, <1>2

\* A mark is passed over.
LEMMA MarkPassed ==
    ASSUME NEW p \in Nat, NEW mark \in PassedOver, Matches(p, mark)
    PROVE  IsPassedOver(p, p + 3)
<1>1. Len(mark) = 3
    BY MarkIs
<1> SUFFICES ASSUME NEW r \in p .. (p + 3) - 1
             PROVE  \E m \in PassedOver, q \in r - 2 .. r :
                      p <= q /\ r < q + Len(m) /\ q + Len(m) <= p + 3 /\ Matches(q, m)
    BY DEF IsPassedOver
<1>2. p \in r - 2 .. r /\ p <= p /\ r < p + Len(mark) /\ p + Len(mark) <= p + 3
    BY <1>1
<1> QED BY <1>2

\* What begins with "<" goes on with a mark.
LEMMA SkippedOn ==
    ASSUME NEW start \in Nat, NEW p \in Nat, OpensAt(start, p),
           NEW mark \in PassedOver, Matches(p, mark)
    PROVE  Skipped(start, p + 3)
<1>1. IsPassedOver(p, p + 3)
    BY MarkPassed
<1>2. start <= p /\ p <= p + 3 /\ p + 3 \in Nat
    BY DEF OpensAt, Skipped
<1>3. IsPassedOver(start, p + 3)
    BY <1>1, <1>2, PassedOn DEF OpensAt, Skipped
<1>4. IsOpen(start)
    BY <1>2 DEF OpensAt, Skipped
<1> QED BY <1>2, <1>3, <1>4 DEF Skipped

\* Whatever is skipped before "<", it begins with "<".
LEMMA OpensHere ==
    ASSUME NEW start \in Nat, NEW p \in Nat, OpensAt(start, p)
    PROVE  IsOpen(start) /\ start <= p
BY DEF OpensAt, Skipped

-----------------------------------------------------------------------------
(* Steps. *)

\* The document stays the same, and with it what is said of it.
LEMMA SameText ==
    ASSUME input' = input
    PROVE  /\ \A from, to : IsPassedOver(from, to)' <=> IsPassedOver(from, to)
           /\ \A p : CharAt(p)' = CharAt(p)
BY DEF IsPassedOver, Matches, CharAt

\* What is said of the lexer after a step is said of it in the next state.
LEMMA CoversNext ==
    ASSUME input' = input, Covers(lexer')
    PROVE  Covers(lexer)'
<1>1. \A from, to : Skipped(from, to)' <=> Skipped(from, to)
    BY SameText DEF Skipped, IsOpen
<1>2. /\ \A from, to : TextFrom(from, to)' <=> TextFrom(from, to)
      /\ \A from, to : OpensAt(from, to)' <=> OpensAt(from, to)
      /\ \A p : IsOpen(p)' <=> IsOpen(p)
      /\ \A p : CharAt(p)' = CharAt(p)
    BY <1>1, SameText DEF TextFrom, OpensAt, IsOpen
<1>3. \A from, to : Declares(from, to)' <=> Declares(from, to)
    BY <1>2 DEF Declares
<1>4. Placed(lexer.state, lexer.pos, lexer.start, lexer.mark)'
    BY <1>1, <1>2, <1>3 DEF Covers, Placed
<1>5. IsAt(lexer.pos, lexer.start)'
    BY DEF Covers, IsAt
<1> QED BY <1>4, <1>5 DEF Covers

\* So is what is said of a token.
LEMMA TokenNext ==
    ASSUME input' = input, NEW i, TokenIsCovered(tokens'[i])
    PROVE  TokenIsCovered(tokens[i])'
<1>1. \A token : CharIsFound(token)' <=> CharIsFound(token)
    BY SameText DEF CharIsFound
<1>2. \A token : TagIsFound(token)' <=> TagIsFound(token)
    BY DEF TagIsFound, TextOfToken
<1> QED BY <1>1, <1>2 DEF TokenIsCovered, CharIsFound, TagIsFound, TextOfToken

\* Without a token more all stay as they are,
LEMMA TokensKept ==
    ASSUME input' = input, tokens' = tokens, IsTokens, TokensCovered
    PROVE  IsTokens' /\ TokensCovered' /\ LastTo' = LastTo
<1>1. IsTokens' /\ LastTo' = LastTo
    BY DEF IsTokens, LastTo
<1>2. \A i \in DOMAIN tokens : TokenIsCovered(tokens[i])'
    BY TokenNext DEF TokensCovered
<1>3. \A i \in DOMAIN tokens :
         IsPassedOver(IF i = 1 THEN 1 ELSE tokens[i - 1].to, tokens[i].from)'
    BY SameText DEF TokensCovered
<1> QED BY <1>1, <1>2, <1>3 DEF TokensCovered

\* and one more begins where nothing but marks is passed over.
LEMMA TokensGrown ==
    ASSUME input' = input, IsTokens, TokensCovered, ~Finished,
           NEW t, TokenIsCovered(t), IsPassedOver(LastTo, t.from), tokens' = Append(tokens, t)
    PROVE  /\ IsTokens' /\ TokensCovered' /\ LastTo' = t.to
           /\ t.type # "eof" => ~Finished'
<1>1. PICK S : tokens \in Seq(S)
    BY DEF IsTokens
<1> DEFINE n == Len(tokens)
           T == S \cup {t}
<1>2. tokens \in Seq(T) /\ t \in T
    BY <1>1
<1>3. /\ tokens' \in Seq(T) /\ Len(tokens') = n + 1 /\ tokens'[n + 1] = t
      /\ \A i \in 1 .. n : tokens'[i] = tokens[i]
    BY <1>2, AppendProperties
<1>4. DOMAIN tokens = 1 .. n /\ DOMAIN tokens' = 1 .. n + 1 /\ n \in Nat
    BY <1>2, <1>3, LenProperties
<1>5. IsTokens'
    BY <1>3 DEF IsTokens
<1>6. tokens' # <<>>
    BY <1>3, <1>4, EmptySeq
<1>7. LastTo' = t.to
    BY <1>3, <1>6 DEF LastTo
<1>8. t.type # "eof" => ~Finished'
    BY <1>3, <1>6 DEF Finished, Last
<1>9. ASSUME NEW i \in DOMAIN tokens' PROVE TokenIsCovered(tokens[i])'
  <2>1. TokenIsCovered(tokens'[i])
    <3>1. CASE i = n + 1
        BY <1>3, <3>1
    <3>2. CASE i # n + 1
      <4>1. i \in 1 .. n
          BY <1>4, <1>9, <3>2
      <4> QED BY <1>3, <1>4, <4>1 DEF TokensCovered
    <3> QED BY <3>1, <3>2
  <2> QED BY <2>1, TokenNext
<1>10. ASSUME NEW i \in DOMAIN tokens', i # Len(tokens') PROVE tokens'[i].type # "eof"
  <2>1. i \in 1 .. n
      BY <1>3, <1>4, <1>10
  <2>2. tokens'[i] = tokens[i]
      BY <1>3, <2>1
  <2>3. CASE i = n
    <3>1. tokens # <<>> /\ Last(tokens) = tokens[i]
        BY <1>4, <2>1, <2>3, EmptySeq DEF Last
    <3> QED BY <2>2, <3>1 DEF Finished
  <2>4. CASE i # n
      BY <1>4, <2>1, <2>2, <2>4 DEF TokensCovered
  <2> QED BY <2>3, <2>4
<1>11. ASSUME NEW i \in DOMAIN tokens'
       PROVE  IsPassedOver(IF i = 1 THEN 1 ELSE tokens'[i - 1].to, tokens'[i].from)
  <2>1. CASE i = n + 1
    <3>1. (IF i = 1 THEN 1 ELSE tokens'[i - 1].to) = LastTo
      <4>1. CASE i = 1
        <5>1. tokens = <<>>
            BY <1>1, <1>4, <2>1, <4>1, EmptySeq
        <5> QED BY <4>1, <5>1 DEF LastTo
      <4>2. CASE i # 1
        <5>1. tokens # <<>> /\ i - 1 \in 1 .. n /\ i - 1 = n
            BY <1>4, <2>1, <4>2, EmptySeq
        <5> QED BY <1>3, <4>2, <5>1 DEF LastTo
      <4> QED BY <4>1, <4>2
    <3> QED BY <1>3, <2>1, <3>1
  <2>2. CASE i # n + 1
    <3>1. i \in 1 .. n
        BY <1>4, <1>11, <2>2
    <3>2. tokens'[i] = tokens[i]
        BY <1>3, <3>1
    <3>3. i # 1 => tokens'[i - 1] = tokens[i - 1]
      <4>1. i # 1 => i - 1 \in 1 .. n
          BY <1>4, <3>1
      <4> QED BY <1>3, <4>1
    <3>4. IsPassedOver(IF i = 1 THEN 1 ELSE tokens[i - 1].to, tokens[i].from)
        BY <1>4, <3>1 DEF TokensCovered
    <3> QED BY <3>2, <3>3, <3>4
  <2> QED BY <2>1, <2>2
<1>12. ASSUME NEW i \in DOMAIN tokens'
       PROVE  IsPassedOver(IF i = 1 THEN 1 ELSE tokens[i - 1].to, tokens[i].from)'
    BY <1>11, <1>12, SameText
<1>13. TokensCovered'
    BY <1>9, <1>10, <1>12 DEF TokensCovered
<1> QED BY <1>5, <1>7, <1>8, <1>13

\* A step without a token.
LEMMA CoverStep ==
    ASSUME CoverInv, Lexing, NEW l, NextChar(l), Covers(Settled(l)),
           Settled(l).start = lexer.start
    PROVE  CoverInv'
<1>1. lexer' = Settled(l) /\ input' = input /\ tokens' = tokens /\ turn' = turn
    BY DEF NextChar
<1>2. Covers(lexer)'
    BY <1>1, CoversNext
<1>3. IsTokens' /\ TokensCovered' /\ LastTo' = LastTo
    BY <1>1, TokensKept DEF CoverInv
<1>4. (LastTo \in Nat /\ LastTo <= lexer.start)'
    BY <1>1, <1>3 DEF CoverInv
<1>5. IsPassedOver(LastTo, lexer.start)'
  <2>1. IsPassedOver(LastTo', lexer'.start)
      BY <1>1, <1>3 DEF CoverInv
  <2> QED BY <1>1, <2>1, SameText
<1>6. ~Finished'
    BY <1>1 DEF CoverInv, Finished
<1> QED BY <1>1, <1>2, <1>3, <1>4, <1>5, <1>6 DEF CoverInv, Lexing

(* The states that may follow on a token at once. *)
Loosens(s) == s \notin RefStates \cup KeptStates \cup AttributeStates \cup {"markup declaration"}

\* The states of text are such, and so is that of the bogus doctype.
LEMMA Loosened ==
    /\ \A s \in PlainStates : Loosens(s)
    /\ Loosens("bogus doctype")
<1>1. \A s \in PlainStates \cup {"bogus doctype"} : s \notin KeptStates \cup AttributeStates
  <2>1. PlainStates \subseteq QuietStates
      BY DEF PlainStates, QuietStates
  <2>2. "bogus doctype" \in DoctypeStates
      BY States
  <2> QED BY <2>1, <2>2, QuietApart, DoctypeApart
<1>2. \A s \in PlainStates \cup {"bogus doctype"} :
          s \notin RefStates /\ s # "markup declaration"
    BY DEF PlainStates, EndStates, RefStates
<1> QED BY <1>1, <1>2 DEF Loosens

\* Right after a token nothing is passed over.
LEMMA CoversLoose ==
    ASSUME NEW s, Loosens(s), NEW p \in Nat, NEW mark
    PROVE  Placed(s, p, p, mark)
<1>1. Skipped(p, p)
    BY SkippedNone
<1> QED BY <1>1 DEF Loosens, Placed, TextFrom

\* A step with a token.
LEMMA CoverEmit ==
    ASSUME CoverInv, Lexing, NEW l, NEW token, Emit(l, token),
           DOMAIN l = LexerFields, l.start = lexer.start, Loosens(l.state),
           Settled(l).pos \in Nat \ {0}, Settled(l).pos <= Len(input) + 1,
           l.flush # 0 => l.state \in PlainStates, l.extra \in {NoChar, "v"},
           TokenIsCovered(Located(token, lexer.start, Settled(l).pos))
    PROVE  CoverInv'
<1> DEFINE k == Settled(l)
           m == [k EXCEPT !.start = k.pos]
           t == Located(token, lexer.start, k.pos)
<1>1. lexer' = m /\ input' = input /\ tokens' = Append(tokens, t) /\ turn' = "parser"
    BY DEF Emit
<1>2. /\ DOMAIN k = LexerFields /\ k.state = l.state /\ k.flush = l.flush /\ k.extra = l.extra
      /\ k.mark = l.mark
    BY DEF Settled, Advance, LexerFields
<1>3. t.from = lexer.start /\ t.to = k.pos
    BY DEF Located
<1>4. k.pos \in Nat \ {0} /\ k.pos <= Len(input) + 1 /\ TokenIsCovered(t)
    OBVIOUS
<1> HIDE DEF k, t
<1>5. /\ m.state = l.state /\ m.flush = l.flush /\ m.extra = l.extra /\ m.start = k.pos
      /\ m.pos = k.pos
    BY <1>2 DEF LexerFields
<1> HIDE DEF m
<1>6. Covers(m)
  <2>1. Placed(m.state, m.pos, m.start, m.mark)
      BY <1>4, <1>5, CoversLoose
  <2>2. IsAt(m.pos, m.start)
      BY <1>4, <1>5 DEF IsAt
  <2> QED BY <1>5, <2>1, <2>2 DEF Covers
<1>7. Covers(lexer)'
    BY <1>1, <1>6, CoversNext
<1>8. IsTokens' /\ TokensCovered' /\ LastTo' = k.pos
    BY <1>1, <1>3, <1>4, TokensGrown DEF CoverInv
<1>9. (LastTo \in Nat /\ LastTo <= lexer.start)'
    BY <1>1, <1>4, <1>5, <1>8
<1>10. IsPassedOver(LastTo, lexer.start)'
  <2>1. IsPassedOver(LastTo', lexer'.start)
      BY <1>1, <1>4, <1>5, <1>8, SkippedNone
  <2> QED BY <1>1, <2>1, SameText
<1> QED BY <1>1, <1>5, <1>7, <1>8, <1>9, <1>10 DEF CoverInv, Lexing

-----------------------------------------------------------------------------
(* What a handler makes of the lexer: nothing is kept back, the token starts *)
(* where it did, and the iterator stands where it did or further on.         *)
Going(l) ==
    /\ DOMAIN l = LexerFields /\ l.start = lexer.start /\ l.flush = 0 /\ l.extra = NoChar
    /\ l.pos \in Nat \ {0} /\ lexer.pos <= l.pos /\ l.pos <= Len(input) + 1
Held(l) == Going(l) /\ l.pos = lexer.pos

\* Where the iterator is after a step.
LEMMA SettledAt ==
    ASSUME IsInput, NEW l, DOMAIN l = LexerFields, l.pos \in Nat \ {0}, l.pos <= Len(input) + 1
    PROVE  LET k == Settled(l)
           IN  /\ k.pos \in Nat \ {0} /\ l.pos <= k.pos /\ k.pos <= Len(input) + 1
               /\ k.start = l.start /\ k.state = l.state /\ k.flush = l.flush
               /\ k.extra = l.extra /\ k.mark = l.mark
               /\ l.again = TRUE => k.pos = l.pos
               /\ l.again = FALSE /\ CharAt(l.pos) # EOF => k.pos = l.pos + 1
               /\ CharAt(l.pos) = EOF => k.pos = l.pos
<1> DEFINE k == Settled(l)
<1>1. Len(input) \in Nat
    BY DEF IsInput
<1>2. CharAt(l.pos) = EOF <=> l.pos > Len(input)
    BY AtTheEnd
<1>3. /\ k.start = l.start /\ k.state = l.state /\ k.flush = l.flush
      /\ k.extra = l.extra /\ k.mark = l.mark
      /\ k.pos = l.pos \/ (l.pos <= Len(input) /\ k.pos = l.pos + 1)
      /\ l.again = TRUE => k.pos = l.pos
      /\ l.again = FALSE /\ l.pos <= Len(input) => k.pos = l.pos + 1
    BY DEF Settled, Advance, LexerFields
<1> HIDE DEF k
<1>4. k.pos \in Nat \ {0} /\ l.pos <= k.pos /\ k.pos <= Len(input) + 1
    BY <1>1, <1>3
<1>5. l.again = FALSE /\ CharAt(l.pos) # EOF => k.pos = l.pos + 1
    BY <1>1, <1>2, <1>3
<1>6. CharAt(l.pos) = EOF => k.pos = l.pos
    BY <1>1, <1>2, <1>3
<1> QED BY <1>3, <1>4, <1>5, <1>6 DEF k

\* It passes a symbol, unless it is to look at it again.
LEMMA SettledOn ==
    ASSUME IsInput, NEW l, DOMAIN l = LexerFields, l.pos \in Nat \ {0}, l.pos <= Len(input) + 1,
           l.again = FALSE, CharAt(l.pos) # EOF
    PROVE  Settled(l).pos = l.pos + 1
<1>1. Len(input) \in Nat
    BY DEF IsInput
<1>2. l.pos <= Len(input)
    BY <1>1, AtTheEnd
<1>3. Settled(l) = Advance(l)
    BY DEF Settled
<1>4. Advance(l).pos = l.pos + 1
    BY <1>2 DEF Advance, LexerFields
<1> QED BY <1>3, <1>4

\* A step without a token to where the text up to the iterator is as the state wants it.
LEMMA StepTo ==
    ASSUME CoverInv, IsInput, Lexing, NEW l, NextChar(l), Going(l),
           Placed(l.state, Settled(l).pos, lexer.start, l.mark)
    PROVE  CoverInv'
<1>1. /\ Settled(l).pos \in Nat \ {0} /\ l.pos <= Settled(l).pos
      /\ Settled(l).pos <= Len(input) + 1
      /\ Settled(l).start = lexer.start /\ Settled(l).state = l.state /\ Settled(l).flush = 0
      /\ Settled(l).extra = NoChar /\ Settled(l).mark = l.mark
    BY SettledAt DEF Going
<1>2. IsAt(Settled(l).pos, Settled(l).start)
    BY <1>1 DEF IsAt, CoverInv, Covers, Going
<1>3. Covers(Settled(l))
    BY <1>1, <1>2 DEF Covers
<1> QED BY <1>1, <1>3, CoverStep

(* The states of comments and doctypes, of which nothing is said. *)
IsFree(s) == Loosens(s) /\ s \notin CharStates

\* A step to one of them.
LEMMA FreeNext ==
    ASSUME CoverInv, IInv, Lexing, NEW l, NextChar(l), Going(l), IsFree(l.state)
    PROVE  CoverInv'
<1>1. l.state # "cdata"
    BY DEF IsFree, CharStates, PlainStates
<1>2. Placed(l.state, Settled(l).pos, lexer.start, l.mark)
    BY <1>1 DEF Placed, IsFree, Loosens, CharStates
<1> QED BY <1>2, StepTo DEF IInv

\* Where the iterator is, and the start of the next token.
LEMMA PlacesHere ==
    ASSUME CoverInv, IInv
    PROVE  /\ IsInput /\ Len(input) \in Nat /\ DOMAIN lexer = LexerFields /\ lexer.again = FALSE
           /\ lexer.start \in Nat \ {0} /\ lexer.pos \in Nat \ {0} /\ lexer.mark \in Nat \ {0}
           /\ lexer.start <= lexer.pos /\ lexer.pos <= Len(input) + 1
BY DEF CoverInv, Covers, IsAt, IInv, IsInput, Parts, IsLexer

(* Where a tag is under way or may become one. *)
InOpen == lexer.start < lexer.pos /\ IsOpen(lexer.start)

\* What is under way in a tag or in a word kept back began with "<".
LEMMA TagOrKept ==
    ASSUME CoverInv, IInv, lexer.state \in AttributeStates \cup KeptStates
    PROVE  InOpen
<1>1. CASE lexer.state \in AttributeStates
    BY <1>1 DEF CoverInv, Covers, Placed, InOpen
<1>2. CASE lexer.state \in KeptStates
  <2>1. OpensAt(lexer.start, lexer.mark) /\ lexer.mark < lexer.pos
      BY <1>2 DEF CoverInv, Covers, Placed
  <2>2. lexer.start \in Nat /\ lexer.mark \in Nat /\ lexer.pos \in Nat
      BY DEF CoverInv, Covers, IsAt, IInv, Parts, IsLexer
  <2>3. IsOpen(lexer.start) /\ lexer.start <= lexer.mark
      BY <2>1, <2>2, OpensHere
  <2> QED BY <2>1, <2>2, <2>3 DEF InOpen
<1> QED BY <1>1, <1>2

\* A step from there to a part of a tag.
LEMMA TagNext ==
    ASSUME CoverInv, IInv, Lexing, NEW l, NextChar(l), Going(l), l.state \in AttributeStates, InOpen
    PROVE  CoverInv'
<1>1. /\ l.state \notin CharStates \cup KeptStates
      /\ l.state # "cdata" /\ l.state # "markup declaration"
  <2>1. l.state \notin PlainStates
      BY Loosened DEF Loosens
  <2>2. l.state \notin RefStates /\ l.state # "markup declaration"
      BY States DEF RefStates
  <2>3. "cdata" \in PlainStates
      BY DEF PlainStates
  <2> QED BY <2>1, <2>2, <2>3, AttributeApart DEF CharStates
<1>2. lexer.start < Settled(l).pos
  <2>1. l.pos <= Settled(l).pos /\ Settled(l).pos \in Nat
      BY SettledAt DEF IInv, Going
  <2> QED BY <2>1 DEF Going, InOpen, CoverInv, Covers, IsAt
<1>3. Placed(l.state, Settled(l).pos, lexer.start, l.mark)
    BY <1>1, <1>2 DEF Placed, InOpen, CharStates
<1> QED BY <1>3, StepTo DEF IInv

\* A step in text that looks at the symbol again.
LEMMA TextAgain ==
    ASSUME CoverInv, IInv, Lexing, NEW l, NextChar(l), Held(l), l.again = TRUE,
           lexer.state \in CharStates, l.state \in CharStates \ {"cdata"},
           l.state \in RefStates => c = "&"
    PROVE  CoverInv'
<1>1. TextFrom(lexer.start, lexer.pos)
    BY DEF CoverInv, Covers, Placed
<1>2. Settled(l).pos = lexer.pos
    BY SettledAt DEF IInv, Held, Going
<1>3. l.state \notin KeptStates \cup AttributeStates /\ l.state # "markup declaration"
  <2>1. CASE l.state \in PlainStates
      BY <2>1, Loosened DEF Loosens
  <2>2. CASE l.state \in RefStates
    <3>1. l.state \in QuietStates
        BY <2>2 DEF RefStates, QuietStates
    <3> QED BY <2>2, <3>1, QuietApart DEF RefStates
  <2> QED BY <2>1, <2>2 DEF CharStates
<1>4. Placed(l.state, lexer.pos, lexer.start, l.mark)
    BY <1>1, <1>3 DEF Placed, c
<1> QED BY <1>2, <1>4, StepTo DEF IInv, Held

\* The end of the input where no token of its own ends there.
LEMMA EndNext ==
    ASSUME CoverInv, IInv, Lexing, NEW l, NextChar(l), Held(l), c = EOF, l.state = "data"
    PROVE  CoverInv'
<1>1. "data" \in PlainStates /\ "data" \notin RefStates
    BY DEF PlainStates, EndStates, RefStates
<1>2. "data" \notin KeptStates \cup AttributeStates
    BY <1>1, Loosened DEF Loosens
<1>3. Settled(l).pos = lexer.pos
    BY SettledAt DEF IInv, Held, Going, c
<1>4. Placed("data", lexer.pos, lexer.start, l.mark)
    BY <1>1, <1>2 DEF Placed, TextFrom, c
<1> QED BY <1>3, <1>4, StepTo DEF IInv, Held

(* Where something is kept back. *)
LEMMA KeptOnly ==
    \A s \in KeptStates :
        s \notin CharStates \cup AttributeStates /\ s # "cdata" /\ s # "markup declaration"
<1>1. \A s \in KeptStates : s \notin PlainStates /\ s \notin RefStates
  <2>1. PlainStates \cup RefStates \subseteq QuietStates
      BY DEF PlainStates, RefStates, QuietStates
  <2> QED BY <2>1, QuietApart
<1>2. "cdata" \in PlainStates
    BY DEF PlainStates
<1>3. "markup declaration" \notin KeptStates
    BY States DEF KeptStates, OpenStates
<1>4. \A s \in KeptStates : s \notin AttributeStates
    BY AttributeApart
<1> QED BY <1>1, <1>2, <1>3, <1>4 DEF CharStates

\* A step that goes on to keep symbols back from the same mark.
LEMMA KeptNextCovers ==
    ASSUME CoverInv, IInv, Lexing, NEW l, NextChar(l), Held(l), l.state \in KeptStates,
           OpensAt(lexer.start, l.mark), l.mark < Settled(l).pos
    PROVE  CoverInv'
<1>1. Placed(l.state, Settled(l).pos, lexer.start, l.mark)
    BY KeptOnly DEF Placed, CharStates
<1> QED BY <1>1, StepTo DEF IInv, Held

\* "<" in text is kept back,
LEMMA OpenedNext ==
    ASSUME CoverInv, IInv, Lexing, NEW l, NextChar(l), Held(l), l.again = FALSE,
           lexer.state \in CharStates, c = "<", l.state \in KeptStates, l.mark = lexer.pos
    PROVE  CoverInv'
<1>1. CharAt(lexer.pos) # EOF
    BY DEF c, EOF
<1>2. OpensAt(lexer.start, lexer.pos)
    BY <1>1 DEF CoverInv, Covers, Placed, TextFrom, OpensAt, IsOpen, c
<1>3. /\ IsInput /\ DOMAIN l = LexerFields /\ l.pos \in Nat \ {0} /\ l.pos <= Len(input) + 1
      /\ l.pos = lexer.pos
    BY DEF IInv, Held, Going
<1>4. Settled(l).pos = l.pos + 1
    BY <1>1, <1>3, SettledOn
<1>5. l.mark < Settled(l).pos
    BY <1>3, <1>4
<1> QED BY <1>2, <1>5, KeptNextCovers

\* and more symbols after it.
LEMMA KeptOn ==
    ASSUME CoverInv, IInv, Lexing, NEW l, NextChar(l), Held(l),
           lexer.state \in KeptStates, l.state \in KeptStates, l.mark = lexer.mark
    PROVE  CoverInv'
<1>1. OpensAt(lexer.start, lexer.mark) /\ lexer.mark < lexer.pos
    BY DEF CoverInv, Covers, Placed
<1>2. l.pos <= Settled(l).pos /\ Settled(l).pos \in Nat
    BY SettledAt DEF IInv, Held, Going
<1>3. l.mark < Settled(l).pos
    BY <1>1, <1>2 DEF Held, Going, IInv, Parts, IsLexer
<1> QED BY <1>1, <1>3, KeptNextCovers

-----------------------------------------------------------------------------
(* The text of a token. *)
LEMMA SliceIs ==
    ASSUME IsInput, NEW from \in Nat \ {0}, NEW to \in Nat, from <= to, to <= Len(input)
    PROVE  LET text == SubSeq(input, from, to)
           IN  /\ Len(text) = to - from + 1
               /\ text[1] = input[from] /\ text[to - from + 1] = input[to]
               /\ text \in Seq(STRING)
<1>1. \A i \in from .. to : input[i] \in STRING
    BY ElementOfSeq DEF IsInput
<1> DEFINE text == SubSeq(input, from, to)
<1>2. text \in Seq(STRING) /\ Len(text) = to - from + 1
      /\ \A i \in 1 .. to - from + 1 : text[i] = input[from + i - 1]
    BY <1>1, SubSeqProperties
<1> HIDE DEF text
<1>3. 1 \in 1 .. to - from + 1 /\ to - from + 1 \in 1 .. to - from + 1
    OBVIOUS
<1>4. from + 1 - 1 = from /\ from + (to - from + 1) - 1 = to
    OBVIOUS
<1> QED BY <1>2, <1>3, <1>4 DEF text

\* A tag goes from "<" to ">".
LEMMA TagText ==
    ASSUME IsInput, NEW start \in Nat \ {0}, NEW p \in Nat, start < p, p <= Len(input),
           input[start] = "<", input[p] = ">", NEW t, t.from = start, t.to = p + 1
    PROVE  TagIsFound(t)
<1> DEFINE text == SubSeq(input, start, p)
<1>1. (p + 1) - 1 = p /\ start <= p
    OBVIOUS
<1>2. TextOfToken(t) = text
    BY <1>1 DEF TextOfToken
<1>3. Len(text) = p - start + 1 /\ text[1] = "<" /\ text[p - start + 1] = ">"
    BY <1>1, SliceIs
<1> HIDE DEF text
<1>4. Len(text) >= 2 /\ Last(text) = ">"
    BY <1>3 DEF Last
<1> QED BY <1>2, <1>3, <1>4 DEF TagIsFound

\* A character is the symbol itself, after marks that have no token.
LEMMA CharText ==
    ASSUME IsInput, NEW start \in Nat \ {0}, NEW p \in Nat, p <= Len(input), Skipped(start, p),
           NEW t, t.from = start, t.to = p + 1, t.char \in {CharAt(p), Unnulled(CharAt(p))}
    PROVE  CharIsFound(t)
<1> DEFINE text == SubSeq(input, p, p)
<1>1. start <= p /\ (p + 1) - 1 = p /\ p - p + 1 = 1 /\ p \in start .. (p + 1) - 1
    BY DEF Skipped
<1>2. p \in Nat \ {0} /\ p <= p
    BY <1>1
<1>3. Len(text) = 1 /\ text[1] = input[p] /\ text \in Seq(STRING)
    BY <1>1, <1>2, SliceIs
<1>4. SubSeq(input, p, t.to - 1) = text
    BY <1>1
<1> HIDE DEF text
<1>5. text = <<input[p]>>
    BY <1>3
<1>6. CharAt(p) = input[p]
    BY DEF CharAt
<1>7. StandsFor(text, t.char)
    BY <1>5, <1>6 DEF StandsFor, Unnulled
<1>8. IsPassedOver(start, p)
    BY DEF Skipped
<1> QED BY <1>1, <1>4, <1>7, <1>8 DEF CharIsFound

-----------------------------------------------------------------------------
(* Tokens. *)

\* A tag is handed over (emit_current_tag).
LEMMA TagOut ==
    ASSUME CoverInv, IInv, Lexing, NEW l, EmitTag(l), Held(l), l.again = FALSE,
           l.state = "data", c = ">", InOpen
    PROVE  CoverInv'
<1> DEFINE name == IF l.tag.isStart THEN l.tag.name ELSE l.last
           k == AbandonTag(l)
           m == [k EXCEPT !.last = name]
           token == [type |-> IF l.tag.isStart THEN "start" ELSE "end", name |-> l.tag.name,
                     attributes |-> IF l.tag.isStart THEN l.tag.attributes ELSE <<>>,
                     selfClosing |-> l.tag.isStart /\ l.tag.selfClosing]
           t == Located(token, lexer.start, Settled(m).pos)
<1>1. Emit(m, token)
  <2>1. k.last = l.last
      BY DEF AbandonTag, Held, Going, LexerFields
  <2>2. m = [AbandonTag(l) EXCEPT !.last = IF l.tag.isStart THEN l.tag.name ELSE @]
      BY <2>1
  <2> QED BY <2>2 DEF EmitTag
<1>2. /\ DOMAIN token = {"type", "name", "attributes", "selfClosing"}
      /\ token.type \in {"start", "end"}
    OBVIOUS
<1>3. /\ DOMAIN m = LexerFields /\ m.start = lexer.start /\ m.flush = 0 /\ m.extra = NoChar
      /\ m.pos = lexer.pos /\ m.state = "data" /\ m.again = FALSE
    BY DEF AbandonTag, Held, Going, LexerFields
<1> HIDE DEF m, token
<1>4. /\ lexer.pos \in Nat \ {0} /\ lexer.pos <= Len(input) /\ input[lexer.pos] = ">"
      /\ lexer.start \in Nat \ {0} /\ lexer.start < lexer.pos /\ IsInput /\ Len(input) \in Nat
      /\ input[lexer.start] = "<"
  <2>1. /\ lexer.pos \in Nat \ {0} /\ lexer.start \in Nat \ {0} /\ lexer.start < lexer.pos
        /\ IsInput /\ Len(input) \in Nat
      BY DEF CoverInv, Covers, IsAt, InOpen, IInv, IsInput
  <2>2. lexer.pos <= Len(input) /\ input[lexer.pos] = ">"
      BY DEF c, CharAt, EOF
  <2>3. input[lexer.start] = "<"
      BY DEF InOpen, IsOpen, CharAt, EOF
  <2> QED BY <2>1, <2>2, <2>3
<1>5. Settled(m).pos = lexer.pos + 1
  <2>1. CharAt(m.pos) # EOF
      BY <1>3 DEF c, EOF
  <2>2. DOMAIN m = LexerFields /\ m.pos \in Nat \ {0} /\ m.pos <= Len(input) + 1
      BY <1>3, <1>4
  <2> QED BY <1>3, <1>4, <2>1, <2>2, SettledOn
<1>6. /\ t.from = lexer.start /\ t.to = lexer.pos + 1 /\ t.type = token.type
      /\ {"type", "from", "to", "then"} \subseteq DOMAIN t
    BY <1>2, <1>5 DEF Located
<1> HIDE DEF t
<1>7. TokenIsCovered(t)
  <2>1. TagIsFound(t)
      BY <1>4, <1>6, TagText
  <2> QED BY <1>2, <1>6, <2>1 DEF TokenIsCovered, IsChar
<1>8. Loosens("data")
    BY Loosened DEF PlainStates, EndStates
<1>9. lexer.pos + 1 \in Nat \ {0} /\ lexer.pos + 1 <= Len(input) + 1
    BY <1>4
<1> QED BY <1>1, <1>3, <1>5, <1>7, <1>8, <1>9, CoverEmit DEF t

\* A symbol is handed over with text that it stands for.
LEMMA CharEmit ==
    ASSUME CoverInv, Lexing, NEW l, NEW s, EmitChar(l, s), DOMAIN l = LexerFields,
           l.start = lexer.start, l.state \in PlainStates, l.extra \in {NoChar, "v"},
           Settled(l).pos \in Nat \ {0}, Settled(l).pos <= Len(input) + 1, s # EOF,
           \A t : t.from = lexer.start /\ t.to = Settled(l).pos /\ t.char = s => CharIsFound(t)
    PROVE  CoverInv'
<1> DEFINE token == [type |-> CharType(s), char |-> s]
           t == Located(token, lexer.start, Settled(l).pos)
<1>1. Emit(l, token)
    BY DEF EmitChar
<1>2. /\ t.from = lexer.start /\ t.to = Settled(l).pos /\ t.char = s /\ t.type = CharType(s)
      /\ {"type", "from", "to", "then", "char"} \subseteq DOMAIN t
    BY DEF Located
<1>3. CharType(s) \in {"whitespace", "null", "character"}
    BY DEF CharType
<1> HIDE DEF t, token
<1>4. TokenIsCovered(t)
    BY <1>2, <1>3 DEF TokenIsCovered
<1> QED BY <1>1, <1>4, Loosened, CoverEmit DEF t

\* The end of the input is a token of its own.
LEMMA EndOut ==
    ASSUME CoverInv, IInv, Lexing, NEW l, EmitChar(l, EOF), Held(l), c = EOF,
           l.state \in PlainStates
    PROVE  CoverInv'
<1> DEFINE token == [type |-> CharType(EOF), char |-> EOF]
           t == Located(token, lexer.start, Settled(l).pos)
<1>1. Emit(l, token)
    BY DEF EmitChar
<1>2. /\ t.from = lexer.start /\ t.to = Settled(l).pos /\ t.type = CharType(EOF)
      /\ {"type", "from", "to", "then"} \subseteq DOMAIN t
    BY DEF Located
<1>3. CharType(EOF) = "eof"
    BY DEF CharType, EOF, NUL
<1> HIDE DEF t, token
<1>4. lexer.pos \in Nat \ {0} /\ lexer.pos <= Len(input) + 1 /\ IsInput /\ Len(input) \in Nat
    BY DEF CoverInv, Covers, IsAt, IInv, IsInput
<1>5. Settled(l).pos = lexer.pos
    BY <1>4, SettledAt DEF Held, Going, c
<1>6. lexer.pos > Len(input)
    BY <1>4, AtTheEnd DEF c
<1>7. lexer.pos = Len(input) + 1
    BY <1>4, <1>6
<1>8. TokenIsCovered(t)
    BY <1>2, <1>3, <1>5, <1>7 DEF TokenIsCovered, IsChar
<1>9. DOMAIN l = LexerFields /\ l.start = lexer.start /\ l.flush = 0 /\ l.extra = NoChar
    BY DEF Held, Going
<1> QED BY <1>1, <1>4, <1>5, <1>8, <1>9, Loosened, CoverEmit DEF t

\* A symbol of text is handed over (emit_current_char, emit_replacement_char).
LEMMA CharOut ==
    ASSUME CoverInv, IInv, Lexing, NEW l, NEW s, EmitChar(l, s), Held(l), l.again = FALSE,
           lexer.state \in CharStates, l.state \in PlainStates, s \in {c, Unnulled(c)}
    PROVE  CoverInv'
<1>1. CASE c = EOF
  <2>1. s = EOF
      BY <1>1 DEF Unnulled, EOF, NUL
  <2> QED BY <1>1, <2>1, EndOut
<1>2. CASE c # EOF
  <2>1. s # EOF
      BY <1>2 DEF Unnulled, EOF, NUL, Replacement
  <2>2. Skipped(lexer.start, lexer.pos)
      BY <1>2 DEF CoverInv, Covers, Placed, TextFrom, c
  <2>3. /\ lexer.pos \in Nat \ {0} /\ lexer.pos <= Len(input) + 1 /\ IsInput /\ Len(input) \in Nat
        /\ lexer.start \in Nat \ {0} /\ DOMAIN l = LexerFields /\ l.start = lexer.start
        /\ l.pos = lexer.pos /\ l.extra = NoChar
      BY DEF CoverInv, Covers, IsAt, IInv, IsInput, Held, Going
  <2>4. lexer.pos <= Len(input)
      BY <1>2, <2>3, AtTheEnd DEF c
  <2>5. Settled(l).pos = lexer.pos + 1
      BY <1>2, <2>3, SettledOn DEF c
  <2>6. ASSUME NEW t, t.from = lexer.start, t.to = Settled(l).pos, t.char = s
        PROVE  CharIsFound(t)
      BY <2>2, <2>3, <2>4, <2>5, <2>6, CharText DEF c
  <2>7. lexer.pos + 1 \in Nat \ {0} /\ lexer.pos + 1 <= Len(input) + 1
      BY <2>3, <2>4
  <2> QED BY <2>1, <2>3, <2>5, <2>6, <2>7, CharEmit
<1> QED BY <1>1, <1>2

-----------------------------------------------------------------------------
(* What was kept back, and character references. *)

\* What is kept back begins with "<", with a symbol more too.
LEMMA KeptFirst ==
    ASSUME CoverInv, IInv, NEW s \in KeptStates, At(s)
    PROVE  lexer.temp[1] = "<" /\ \A x \in Symbols : (lexer.temp \o <<x>>)[1] = "<"
<1>1. lexer.temp # <<>> /\ IsFound(lexer) /\ lexer.temp \in Seq(Symbols) /\ lexer.mark \in Nat
      /\ lexer.state = s
    BY KeptHere DEF IsLexer
<1>2. 1 \in 1 .. Len(lexer.temp)
    BY <1>1, EmptySeq, LenProperties
<1>3. CharAt(lexer.mark) = "<"
    BY <1>1 DEF CoverInv, Covers, Placed, OpensAt, IsOpen
<1>4. CharAt(lexer.mark + 1 - 1) = lexer.temp[1]
    BY <1>1, <1>2 DEF IsFound
<1>5. lexer.mark + 1 - 1 = lexer.mark
    BY <1>1
<1>6. lexer.temp[1] = "<"
    BY <1>3, <1>4, <1>5
<1>7. ASSUME NEW x \in Symbols PROVE (lexer.temp \o <<x>>)[1] = lexer.temp[1]
    BY <1>1, <1>2, OneSymbol, ConcatProperties
<1> QED BY <1>6, <1>7

\* The iterator goes back to the mark, and the "<" there goes out (emit_temporary_buffer).
LEMMA TemporaryOut ==
    ASSUME CoverInv, IInv, NEW s \in KeptStates, At(s), NEW l, EmitTemporary(l),
           DOMAIN l = LexerFields, l.start = lexer.start, l.mark = lexer.mark, l.extra = NoChar,
           l.state \in PlainStates, l.temp[1] = "<"
    PROVE  CoverInv'
<1> DEFINE flush == IF 1 < Len(l.temp) THEN 1 + 1 ELSE 0
           k == [l EXCEPT !.pos = l.mark]
           m == [k EXCEPT !.again = FALSE, !.flush = flush]
<1>1. k.temp = l.temp
    BY DEF LexerFields
<1>2. EmitChar(m, "<") /\ Lexing
    BY <1>1 DEF EmitTemporary, FlushFrom, At
<1> HIDE DEF flush
<1>3. /\ DOMAIN m = LexerFields /\ m.start = lexer.start /\ m.pos = lexer.mark /\ m.again = FALSE
      /\ m.extra = NoChar /\ m.state \in PlainStates
    BY DEF LexerFields
<1> HIDE DEF m
<1>4. /\ Skipped(lexer.start, lexer.mark) /\ CharAt(lexer.mark) = "<" /\ lexer.mark < lexer.pos
      /\ lexer.mark \in Nat \ {0} /\ lexer.start \in Nat \ {0} /\ IsInput /\ Len(input) \in Nat
  <2>1. lexer.state = s
      BY DEF At
  <2>2. OpensAt(lexer.start, lexer.mark) /\ lexer.mark < lexer.pos
      BY <2>1 DEF CoverInv, Covers, Placed
  <2> QED BY <2>2, PlacesHere DEF OpensAt, IsOpen
<1>5. lexer.mark <= Len(input)
    BY <1>4 DEF CharAt, EOF
<1>6. Settled(m).pos = lexer.mark + 1
  <2>1. CharAt(m.pos) # EOF
      BY <1>3, <1>4 DEF EOF
  <2>2. m.pos \in Nat \ {0} /\ m.pos <= Len(input) + 1
      BY <1>3, <1>4, <1>5
  <2> QED BY <1>3, <1>4, <2>1, <2>2, SettledOn
<1>7. ASSUME NEW t, t.from = lexer.start, t.to = Settled(m).pos, t.char = "<"
      PROVE  CharIsFound(t)
    BY <1>4, <1>5, <1>6, <1>7, CharText
<1>8. lexer.mark + 1 \in Nat \ {0} /\ lexer.mark + 1 <= Len(input) + 1
    BY <1>4, <1>5
<1>9. "<" # EOF
    BY DEF EOF
<1> QED BY <1>2, <1>3, <1>6, <1>7, <1>8, <1>9, CharEmit

\* The next symbol of the buffer goes out (maybe_emit_from_temporary_buffer).
LEMMA FlushOut ==
    ASSUME CoverInv, IInv, FlushTemporary
    PROVE  CoverInv'
<1> DEFINE i == lexer.flush
           flush == IF i < Len(lexer.temp) THEN i + 1 ELSE 0
           m == [lexer EXCEPT !.again = FALSE, !.flush = flush]
<1>1. Lexing /\ i # 0 /\ lexer.extra = NoChar /\ EmitChar(m, lexer.temp[i])
    BY DEF FlushTemporary, FlushFrom
<1>2. /\ lexer.state \in PlainStates /\ lexer.start = lexer.pos
      /\ lexer.pos \in Nat \ {0} /\ lexer.pos <= Len(input) + 1 /\ IsInput /\ Len(input) \in Nat
    BY <1>1 DEF CoverInv, Covers, IsAt, IInv, IsInput
<1>3. CharAt(lexer.pos) = lexer.temp[i] /\ lexer.temp[i] # EOF
  <2>1. i \in 1 .. Len(lexer.temp) /\ lexer.mark + i - 1 = lexer.pos /\ IsFound(lexer)
      BY <1>1 DEF IInv, Parts, FlushInv
  <2> QED BY <2>1 DEF IsFound
<1> HIDE DEF flush
<1>4. /\ DOMAIN m = LexerFields /\ m.start = lexer.pos /\ m.pos = lexer.pos /\ m.again = FALSE
      /\ m.extra = NoChar /\ m.state = lexer.state
    BY <1>1, <1>2 DEF IInv, Parts, IsLexer, LexerFields
<1> HIDE DEF m, i
<1>5. lexer.pos <= Len(input)
    BY <1>2, <1>3, AtTheEnd
<1>6. Settled(m).pos = lexer.pos + 1
    BY <1>2, <1>3, <1>4, SettledOn
<1>7. ASSUME NEW t, t.from = lexer.start, t.to = Settled(m).pos, t.char = lexer.temp[i]
      PROVE  CharIsFound(t)
    BY <1>2, <1>3, <1>5, <1>6, <1>7, SkippedNone, CharText
<1>8. lexer.pos + 1 \in Nat \ {0} /\ lexer.pos + 1 <= Len(input) + 1
    BY <1>2, <1>5
<1> QED BY <1>1, <1>2, <1>3, <1>4, <1>6, <1>7, <1>8, CharEmit

\* The second code point of a reference goes out: it has no text of its own (gumbo_lex).
LEMMA BufferedOut ==
    ASSUME CoverInv, IInv, BufferedChar
    PROVE  CoverInv'
<1> DEFINE k == [lexer EXCEPT !.extra = NoChar]
           m == Again(k)
<1>1. Lexing /\ lexer.extra # NoChar /\ EmitChar(m, lexer.extra)
    BY DEF BufferedChar
<1>2. /\ lexer.extra = "v" /\ lexer.start = lexer.pos
      /\ lexer.pos \in Nat \ {0} /\ lexer.pos <= Len(input) + 1
    BY <1>1 DEF CoverInv, Covers, IsAt
<1>3. lexer.state \in PlainStates
    BY <1>1 DEF IInv, Parts, ExtraInv, PlainStates
<1>4. /\ DOMAIN m = LexerFields /\ m.start = lexer.pos /\ m.pos = lexer.pos /\ m.again = TRUE
      /\ m.extra = NoChar /\ m.state = lexer.state
    BY <1>2 DEF IInv, Parts, IsLexer, LexerFields, Again
<1> HIDE DEF m
<1>5. Settled(m).pos = lexer.pos
    BY <1>2, <1>4, SettledAt DEF IInv
<1>6. ASSUME NEW t, t.from = lexer.start, t.to = Settled(m).pos, t.char = "v"
      PROVE  CharIsFound(t)
    BY <1>2, <1>5, <1>6 DEF CharIsFound
<1>7. "v" # EOF
    BY DEF EOF
<1> QED BY <1>1, <1>2, <1>3, <1>4, <1>5, <1>6, <1>7, CharEmit

\* A reference stands for what it refers to.
LEMMA ReferenceText ==
    ASSUME IsInput, NEW start \in Nat \ {0}, NEW p \in Nat, NEW to \in Nat, p + 2 <= to,
           to <= Len(input) + 1, Skipped(start, p), CharAt(p) = "&",
           NEW t, t.from = start, t.to = to, t.char \in ReferredTo
    PROVE  CharIsFound(t)
<1> DEFINE q == to - 1
           text == SubSeq(input, p, q)
<1>1. /\ start <= p /\ IsPassedOver(start, p) /\ Len(input) \in Nat
    BY DEF Skipped, IsInput
<1>2. p \in Nat \ {0} /\ q \in Nat /\ p + 1 <= q /\ p <= q /\ q <= Len(input) /\ p <= Len(input)
    BY <1>1
<1>3. input[p] = "&"
    BY <1>2 DEF CharAt
<1>4. SubSeq(input, p, t.to - 1) = text /\ p \in start .. t.to - 1
    BY <1>1, <1>2
<1>5. Len(text) = q - p + 1 /\ text[1] = "&" /\ text \in Seq(STRING)
    BY <1>2, <1>3, SliceIs
<1> HIDE DEF text, q
<1>6. Len(text) > 1
    BY <1>2, <1>5
<1>7. text # <<>> /\ Head(text) = "&"
    BY <1>5, <1>6, HeadTailProperties
<1>8. StandsFor(text, t.char)
    BY <1>6, <1>7 DEF StandsFor, ReferredTo
<1> QED BY <1>1, <1>4, <1>8 DEF CharIsFound

\* A reference in text is handed over, or the "&" if there is none (emit_char_ref).
LEMMA ReferenceOut ==
    ASSUME CoverInv, IInv, NEW s \in RefStates, At(s), NEW t \in PlainStates, EmitCharRef(To(t))
    PROVE  CoverInv'
<1> DEFINE ref == ConsumeCharRef(lexer.pos, " ", FALSE)
           at  == [To(t) EXCEPT !.mark = lexer.pos]
           past == [at EXCEPT !.pos = ref.pos, !.extra = ref.second]
           m == Again(past)
<1>1. /\ Lexing /\ lexer.state = s /\ lexer.flush = 0 /\ lexer.extra = NoChar
      /\ lexer.again = FALSE /\ DOMAIN lexer = LexerFields
    BY DEF At, IInv, Parts, IsLexer
<1>2. /\ lexer.pos \in Nat \ {0} /\ lexer.pos <= Len(input) + 1 /\ IsInput /\ Len(input) \in Nat
      /\ lexer.start \in Nat \ {0} /\ c = "&" /\ lexer.state \in CharStates
  <2>1. c = "&" /\ lexer.state \in CharStates
      BY <1>1 DEF CoverInv, Covers, Placed, c, CharStates
  <2> QED BY <2>1, PlacesHere
<1>3. Skipped(lexer.start, lexer.pos)
    BY <1>2 DEF CoverInv, Covers, Placed, TextFrom, c, EOF
<1>4. /\ DOMAIN at = LexerFields /\ at.start = lexer.start /\ at.pos = lexer.pos
      /\ at.again = FALSE /\ at.flush = 0 /\ at.extra = NoChar /\ at.state = t
    BY <1>1 DEF To, LexerFields
<1>5. \/ ref.first = NoChar /\ EmitChar(at, "&")
      \/ ref.first # NoChar /\ EmitChar(m, ref.first)
    BY <1>1 DEF EmitCharRef, To, LexerFields
<1>6. Crosses(lexer.pos, ref)
    BY <1>2, CharRefCrosses DEF c
<1> HIDE DEF at, ref
<1>7. CASE ref.first = NoChar /\ EmitChar(at, "&")
  <2>1. Held(at)
      BY <1>2, <1>4 DEF Held, Going
  <2> QED BY <1>1, <1>2, <1>4, <1>7, <2>1, CharOut
<1>8. CASE ref.first # NoChar /\ EmitChar(m, ref.first)
  <2>1. /\ DOMAIN m = LexerFields /\ m.start = lexer.start /\ m.pos = ref.pos /\ m.again = TRUE
        /\ m.extra = ref.second /\ m.state = t
      BY <1>4 DEF Again, LexerFields
  <2> HIDE DEF m
  <2>2. /\ ref.pos \in Nat \ {0} /\ lexer.pos + 2 <= ref.pos /\ ref.first \in ReferredTo
        /\ ref.second \in {NoChar, "v"}
      BY <1>6, <1>8 DEF Crosses
  <2>3. ref.pos <= Len(input) + 1
    <3>1. ref.pos - 1 \in lexer.pos .. ref.pos - 1
        BY <1>2, <2>2
    <3>2. ref.pos - 1 <= Len(input)
        BY <1>6, <3>1 DEF Crosses
    <3> QED BY <1>2, <2>2, <3>2
  <2>4. Settled(m).pos = ref.pos
      BY <1>2, <2>1, <2>2, <2>3, SettledAt
  <2>5. ASSUME NEW u, u.from = lexer.start, u.to = Settled(m).pos, u.char = ref.first
        PROVE  CharIsFound(u)
    <3>1. CharAt(lexer.pos) = "&" /\ u.to = ref.pos /\ u.char \in ReferredTo
        BY <1>2, <2>2, <2>4, <2>5 DEF c
    <3> QED BY <1>2, <1>3, <2>2, <2>3, <2>5, <3>1, ReferenceText
  <2>6. ref.first # EOF
      BY <2>2 DEF ReferredTo, EOF, Replacement
  <2> QED BY <1>1, <1>8, <2>1, <2>2, <2>3, <2>4, <2>5, <2>6, CharEmit
<1> QED BY <1>5, <1>7, <1>8

-----------------------------------------------------------------------------
(* What the handlers do to the lexer. *)

\* A comment or a doctype is handed over, wherever it ends.
LEMMA OtherOut ==
    ASSUME CoverInv, IInv, Lexing, NEW l, NEW token, Emit(l, token), Going(l), Loosens(l.state),
           "type" \in DOMAIN token, token.type \in {"comment", "doctype"}
    PROVE  CoverInv'
<1> DEFINE t == Located(token, lexer.start, Settled(l).pos)
<1>1. t.type = token.type /\ {"type", "from", "to", "then"} \subseteq DOMAIN t
    BY DEF Located
<1> HIDE DEF t
<1>2. TokenIsCovered(t)
    BY <1>1 DEF TokenIsCovered, IsChar
<1>3. /\ DOMAIN l = LexerFields /\ l.start = lexer.start /\ l.flush = 0 /\ l.extra = NoChar
      /\ l.pos \in Nat \ {0} /\ l.pos <= Len(input) + 1
    BY DEF Going
<1>4. Settled(l).pos \in Nat \ {0} /\ Settled(l).pos <= Len(input) + 1
    BY <1>3, SettledAt DEF IInv
<1> QED BY <1>2, <1>3, <1>4, CoverEmit DEF t

(* Where it was, in state s, and whether to look at the symbol again. *)
Stays(l, s, again) ==
    /\ DOMAIN l = LexerFields /\ l.state = s /\ l.again = again
    /\ l.start = lexer.start /\ l.pos = lexer.pos /\ l.flush = 0 /\ l.extra = NoChar

\* The lexer at the start of a step.
LEMMA StaysHere ==
    ASSUME CoverInv, IInv, NEW s, At(s)
    PROVE  /\ Lexing /\ lexer.state = s /\ Stays(lexer, s, FALSE)
           /\ \A t : Stays(To(t), t, FALSE) /\ To(t).mark = lexer.mark /\ To(t).temp = lexer.temp
<1>1. /\ Lexing /\ lexer.state = s /\ lexer.flush = 0 /\ lexer.extra = NoChar
      /\ lexer.again = FALSE /\ DOMAIN lexer = LexerFields
    BY PlacesHere DEF At
<1> QED BY <1>1 DEF Stays, To, LexerFields

\* Such a lexer has the iterator where it is.
LEMMA StaysHeld ==
    ASSUME CoverInv, IInv, NEW l, NEW s, NEW again, Stays(l, s, again)
    PROVE  Held(l) /\ Going(l) /\ l.state = s /\ l.again = again
BY PlacesHere DEF Stays, Held, Going

\* The buffer, the doctype,
LEMMA StaysChanges ==
    ASSUME NEW l, NEW s, NEW again, Stays(l, s, again)
    PROVE  /\ Stays(Again(l), s, TRUE) /\ Stays(ClearTemporary(l), s, again)
           /\ Stays(Quirks(l), s, again) /\ Stays(FinishDoctypeName(l), s, again)
           /\ Stays(FinishPublicId(l), s, again) /\ Stays(FinishSystemId(l), s, again)
           /\ \A ss : Stays(AppendTemporary(l, ss), s, again)
           /\ \A x : /\ Stays([l EXCEPT !.script = x], s, again)
                     /\ Stays([l EXCEPT !.doctype.open = x], s, again)
                     /\ Stays([l EXCEPT !.doctype.quirks = x], s, again)
                     /\ Stays([l EXCEPT !.doctype = x], s, again)
BY DEF Stays, LexerFields, Again, ClearTemporary, AppendTemporary, Quirks,
       FinishDoctypeName, FinishPublicId, FinishSystemId

\* and the tag do not matter.
LEMMA StaysTag ==
    ASSUME NEW l, NEW s, NEW again, Stays(l, s, again)
    PROVE  /\ Stays(AbandonTag(l), s, again) /\ Stays(FinishTagName(l), s, again)
           /\ Stays(FinishAttributeName(l), s, again) /\ Stays(FinishAttributeValue(l), s, again)
           /\ \A x, fromHere : Stays(AppendTag(l, x, fromHere), s, again)
           /\ \A isStart : Stays(StartNewTag(l, isStart), s, again)
           /\ \A x : /\ Stays([l EXCEPT !.tag.from = x], s, again)
                     /\ Stays([l EXCEPT !.tag.selfClosing = x], s, again)
                     /\ Stays([l EXCEPT !.tag.valueState = x], s, again)
<1> USE DEF Stays, LexerFields
<1>1. \A x : Stays([l EXCEPT !.tag = x], s, again)
    OBVIOUS
<1>2. Stays(AbandonTag(l), s, again)
    BY DEF AbandonTag
<1>3. Stays(FinishTagName(l), s, again)
    BY DEF FinishTagName, ReinitializeTagBuffer
<1>4. Stays(FinishAttributeName(l), s, again)
    BY DEF FinishAttributeName, ReinitializeTagBuffer
<1>5. Stays(FinishAttributeValue(l), s, again)
    BY DEF FinishAttributeValue, ReinitializeTagBuffer
<1>6. \A x, fromHere : Stays(AppendTag(l, x, fromHere), s, again)
    BY DEF AppendTag
<1>7. \A isStart : Stays(StartNewTag(l, isStart), s, again)
    BY DEF StartNewTag
<1>8. \A x : /\ Stays([l EXCEPT !.tag.from = x], s, again)
             /\ Stays([l EXCEPT !.tag.selfClosing = x], s, again)
             /\ Stays([l EXCEPT !.tag.valueState = x], s, again)
    OBVIOUS
<1> QED BY <1>2, <1>3, <1>4, <1>5, <1>6, <1>7, <1>8

\* A word of n symbols is at the iterator, and past it the step goes on in s.
WordHere(word, n) == Len(word) = n /\ DOMAIN word = 1 .. n /\ Match(word) /\ word[n] # EOF

WordPast(l, s, word, n) ==
    /\ Going(Past(l, word)) /\ Past(l, word).state = s
    /\ Settled(Past(l, word)).pos = lexer.pos + n

\* A word of the input is passed.
LEMMA PastStays ==
    ASSUME CoverInv, IInv, NEW l, NEW s, NEW again, Stays(l, s, again),
           NEW word, NEW n \in Nat \ {0}, WordHere(word, n)
    PROVE  WordPast(l, s, word, n)
<1> USE DEF WordHere, WordPast
<1> DEFINE m == Past(l, word)
<1>1. /\ DOMAIN m = LexerFields /\ m.start = lexer.start /\ m.flush = 0 /\ m.extra = NoChar
      /\ m.pos = lexer.pos + n /\ m.state = s /\ m.again = TRUE
    BY DEF Past, Stays, LexerFields
<1> HIDE DEF m
<1>2. n \in DOMAIN word
    OBVIOUS
<1>3. CharAt(lexer.pos + n - 1) # EOF
    BY <1>2 DEF Match, Matches
<1>4. /\ lexer.pos + n - 1 \in Nat \ {0} /\ lexer.pos + n \in Nat \ {0} /\ IsInput
      /\ Len(input) \in Nat /\ lexer.pos <= lexer.pos + n
    BY PlacesHere
<1>5. lexer.pos + n - 1 <= Len(input)
    BY <1>3, <1>4, AtTheEnd
<1>6. lexer.pos + n <= Len(input) + 1
  <2>1. \A p, k, len \in Nat : p + k - 1 <= len => p + k <= len + 1
      OBVIOUS
  <2>2. lexer.pos \in Nat /\ n \in Nat /\ Len(input) \in Nat
      BY PlacesHere
  <2> HIDE DEF m
  <2> QED BY <1>5, <2>1, <2>2
<1>7. Settled(m).pos = m.pos
    BY <1>1, <1>4, <1>6, SettledAt
<1> QED BY <1>1, <1>4, <1>6, <1>7 DEF Going, m

-----------------------------------------------------------------------------
(* The steps of text. *)

\* A symbol is handed over, whatever else changes.
LEMMA CharStep ==
    ASSUME CoverInv, IInv, NEW s \in CharStates, At(s), NEW t \in PlainStates,
           NEW l, Stays(l, t, FALSE), NEW x \in {c, Unnulled(c)}, EmitChar(l, x)
    PROVE  CoverInv'
<1>1. Lexing /\ lexer.state \in CharStates
    BY DEF At
<1>2. Held(l) /\ l.state = t /\ l.again = FALSE
    BY StaysHeld
<1> QED BY <1>1, <1>2, CharOut

\* "<" is kept back.
LEMMA OpenedStep ==
    ASSUME CoverInv, IInv, NEW s \in CharStates, At(s), c = "<", NEW t \in KeptStates,
           NextChar(Opened(t))
    PROVE  CoverInv'
<1> DEFINE l == Opened(t)
<1>1. Lexing /\ lexer.state \in CharStates
    BY DEF At
<1>2. Stays(l, t, FALSE)
    BY StaysHere, StaysChanges DEF Opened
<1>3. l.mark = lexer.pos
  <2>1. DOMAIN To(t) = LexerFields /\ To(t).pos = lexer.pos
      BY StaysHere DEF Stays
  <2> DEFINE k == To(t)
  <2> HIDE DEF k
  <2>2. DOMAIN k = LexerFields /\ k.pos = lexer.pos
      BY <2>1 DEF k
  <2>3. AppendTemporary(ClearTemporary(k), <<"<">>).mark = lexer.pos
      BY <2>2 DEF AppendTemporary, ClearTemporary, LexerFields
  <2> QED BY <2>3 DEF Opened, k
<1>4. NextChar(l)
    OBVIOUS
<1> HIDE DEF l
<1>5. Held(l) /\ l.state = t /\ l.again = FALSE
    BY <1>2, StaysHeld
<1> QED BY <1>1, <1>3, <1>4, <1>5, OpenedNext

\* The symbol is looked at again in another state of text.
LEMMA AgainStep ==
    ASSUME CoverInv, IInv, NEW s \in CharStates, At(s), NEW t \in CharStates \ {"cdata"},
           t \in RefStates => c = "&", NextChar(Again(To(t)))
    PROVE  CoverInv'
<1>1. Lexing /\ lexer.state \in CharStates
    BY DEF At
<1>2. Stays(Again(To(t)), t, TRUE)
    BY StaysHere, StaysChanges
<1>3. Held(Again(To(t))) /\ Again(To(t)).state = t /\ Again(To(t)).again = TRUE
    BY <1>2, StaysHeld
<1> QED BY <1>1, <1>3, TextAgain

\* The end of the input, back in the data state.
LEMMA EndStep ==
    ASSUME CoverInv, IInv, NEW s, At(s), c = EOF, NEW l, NEW again, Stays(l, "data", again),
           NextChar(l)
    PROVE  CoverInv'
<1>1. Lexing
    BY DEF At
<1>2. Held(l) /\ l.state = "data"
    BY StaysHeld
<1> QED BY <1>1, <1>2, EndNext

\* The states of text and of what follows "<".
LEMMA TextNames ==
    /\ {"data", "rcdata", "rawtext", "script", "plaintext", "cdata",
        "script escaped start", "script escaped start dash", "script escaped",
        "script escaped dash", "script escaped dash dash", "script double escaped start",
        "script double escaped", "script double escaped dash", "script double escaped dash dash",
        "script double escaped lt", "script double escaped end"} \subseteq PlainStates
    /\ {"char ref in data", "char ref in rcdata"} = RefStates
    /\ PlainStates \subseteq CharStates /\ RefStates \subseteq CharStates
    /\ OpenStates \subseteq KeptStates
    /\ \A t \in PlainStates : t \notin RefStates
BY DEF PlainStates, EndStates, RefStates, CharStates, KeptStates

\* Data and RCDATA (handle_data_state, handle_rcdata_state).
LEMMA DataCovers ==
    ASSUME CoverInv, IInv, DataState \/ Rcdata \/ CharRefInData \/ CharRefInRcdata
    PROVE  CoverInv'
<1>1. ASSUME NEW s \in PlainStates, At(s), NEW x \in {c, Unnulled(c)}, EmitChar(lexer, x)
      PROVE  CoverInv'
    BY <1>1, StaysHere, TextNames, CharStep
<1>2. ASSUME NEW s \in PlainStates, At(s), NEW t \in RefStates, c = "&", NextChar(Again(To(t)))
      PROVE  CoverInv'
  <2>1. t \in CharStates \ {"cdata"}
      BY DEF RefStates, CharStates
  <2> QED BY <1>2, <2>1, TextNames, AgainStep
<1>3. ASSUME NEW s \in PlainStates, At(s), NEW t \in OpenStates, c = "<", NextChar(Opened(t))
      PROVE  CoverInv'
    BY <1>3, TextNames, OpenedStep
<1>4. CASE DataState
    BY <1>1, <1>2, <1>3, <1>4, TextNames DEF DataState, OpenStates
<1>5. CASE Rcdata
    BY <1>1, <1>2, <1>3, <1>5, TextNames DEF Rcdata, OpenStates
<1>6. CASE CharRefInData \/ CharRefInRcdata
    BY <1>6, TextNames, ReferenceOut DEF CharRefInData, CharRefInRcdata
<1> QED BY <1>4, <1>5, <1>6

\* Text without references.
LEMMA RawCovers ==
    ASSUME CoverInv, IInv, RawText("rawtext") \/ RawText("script") \/ Plaintext
    PROVE  CoverInv'
<1>1. ASSUME NEW s \in PlainStates, At(s), EmitChar(lexer, Unnulled(c))
      PROVE  CoverInv'
    BY <1>1, StaysHere, TextNames, CharStep
<1>2. ASSUME NEW s \in RawStates \cap PlainStates, RawText(s) PROVE CoverInv'
  <2>1. LessThan[s] \in KeptStates
      BY RawNames, TextNames
  <2> QED BY <1>1, <1>2, <2>1, TextNames, OpenedStep DEF RawText
<1>3. {"rawtext", "script"} \subseteq RawStates \cap PlainStates
    BY TextNames DEF RawStates
<1> QED BY <1>1, <1>2, <1>3, TextNames DEF Plaintext

\* Escaped script data (handle_script_escaped_*, handle_script_double_escaped_*).
LEMMA ScriptCovers ==
    ASSUME CoverInv, IInv,
           \/ EscapedStart \/ EscapedStartDash \/ Escaped \/ EscapedDash \/ EscapedDashDash
           \/ DoubleEscapedStart \/ DoubleEscaped \/ DoubleEscapedDash \/ DoubleEscapedDashDash
           \/ DoubleEscapedLessThan \/ DoubleEscapedEnd
    PROVE  CoverInv'
<1>1. ASSUME NEW s \in PlainStates, At(s), NEW x \in {c, Unnulled(c)}, EmitChar(lexer, x)
      PROVE  CoverInv'
    BY <1>1, StaysHere, TextNames, CharStep
<1>2. ASSUME NEW s \in PlainStates, At(s), NEW t \in PlainStates, NEW x \in {c, Unnulled(c)},
             EmitChar(To(t), x)
      PROVE  CoverInv'
    BY <1>2, StaysHere, TextNames, CharStep
<1>3. ASSUME NEW s \in PlainStates, At(s), NEW t \in PlainStates \ {"cdata"}, NextChar(Again(To(t)))
      PROVE  CoverInv'
    BY <1>3, TextNames, AgainStep
<1>4. ASSUME NEW s \in PlainStates, At(s), EscapedOpens PROVE CoverInv'
    BY <1>4, TextNames, OpenedStep DEF EscapedOpens, OpenStates
<1>5. ASSUME NEW s \in PlainStates, At(s), DoubleOpens PROVE CoverInv'
    BY <1>2, <1>5, TextNames DEF DoubleOpens
<1>6. ASSUME NEW s \in PlainStates, At(s), c = EOF, NextChar(To("data")) PROVE CoverInv'
    BY <1>6, StaysHere, EndStep
<1>7. ASSUME NEW s \in PlainStates, At(s), NEW t \in PlainStates, NEW d \in PlainStates,
             AfterDash(t, d, EscapedOpens) \/ AfterDash(t, d, DoubleOpens)
      PROVE  CoverInv'
    BY <1>2, <1>4, <1>5, <1>6, <1>7 DEF AfterDash
<1>8. ASSUME NEW s \in PlainStates, At(s), NEW t \in PlainStates \ {"cdata"},
             NEW u \in PlainStates \ {"cdata"}, NameOfScript(t, u)
      PROVE  CoverInv'
  <2>1. CASE EmitChar(To(IF lexer.script = <<"script">> THEN t ELSE u), c)
      BY <1>2, <1>8, <2>1
  <2>2. CASE EmitChar([lexer EXCEPT !.script = Append(@, Lower(c))], c)
    <3> DEFINE x == Append(lexer.script, Lower(c))
    <3>1. EmitChar([lexer EXCEPT !.script = x], c)
        BY <2>2
    <3> HIDE DEF x
    <3>2. Stays([lexer EXCEPT !.script = x], s, FALSE)
        BY <1>8, StaysHere, StaysChanges
    <3> QED BY <1>8, <3>1, <3>2, TextNames, CharStep
  <2>3. CASE NextChar(Again(To(u)))
      BY <1>3, <1>8, <2>3
  <2> QED BY <1>8, <2>1, <2>2, <2>3 DEF NameOfScript
<1>9. CASE EscapedStart \/ EscapedStartDash
    BY <1>2, <1>3, <1>9, TextNames DEF EscapedStart, EscapedStartDash
<1>10. CASE Escaped \/ DoubleEscaped
    BY <1>1, <1>2, <1>4, <1>5, <1>6, <1>10, TextNames DEF Escaped, DoubleEscaped
<1>11. CASE EscapedDash \/ EscapedDashDash
    BY <1>2, <1>7, <1>11, TextNames DEF EscapedDash, EscapedDashDash
<1>12. CASE DoubleEscapedDash \/ DoubleEscapedDashDash
    BY <1>2, <1>7, <1>12, TextNames DEF DoubleEscapedDash, DoubleEscapedDashDash
<1>13. CASE DoubleEscapedLessThan
  <2>1. CASE EmitChar([To("script double escaped end") EXCEPT !.script = <<>>], c)
    <3>1. Stays([To("script double escaped end") EXCEPT !.script = <<>>],
                "script double escaped end", FALSE)
        BY <1>13, StaysHere, StaysChanges DEF DoubleEscapedLessThan
    <3> QED BY <1>13, <2>1, <3>1, TextNames, CharStep DEF DoubleEscapedLessThan
  <2> QED BY <1>3, <1>13, <2>1, TextNames DEF DoubleEscapedLessThan
<1>14. CASE DoubleEscapedStart \/ DoubleEscapedEnd
    BY <1>8, <1>14, TextNames DEF DoubleEscapedStart, DoubleEscapedEnd
<1> QED BY <1>9, <1>10, <1>11, <1>12, <1>13, <1>14

-----------------------------------------------------------------------------
(* The steps where something is kept back. *)

\* Neither the tag nor the buffer moves the mark.
LEMMA MarkStays ==
    ASSUME NEW l, DOMAIN l = LexerFields
    PROVE  /\ Again(l).mark = l.mark /\ Again(l).temp = l.temp
           /\ AbandonTag(l).mark = l.mark /\ AbandonTag(l).temp = l.temp
           /\ \A isStart : StartNewTag(l, isStart).mark = l.mark
           /\ \A x, fromHere : AppendTag(l, x, fromHere).mark = l.mark
           /\ \A ss : /\ AppendTemporary(l, ss).mark = l.mark
                      /\ AppendTemporary(l, ss).temp = l.temp \o ss
<1> USE DEF LexerFields
<1>1. Again(l).mark = l.mark /\ Again(l).temp = l.temp
    BY DEF Again
<1>2. AbandonTag(l).mark = l.mark /\ AbandonTag(l).temp = l.temp
    BY DEF AbandonTag
<1>3. \A isStart : StartNewTag(l, isStart).mark = l.mark
    BY DEF StartNewTag
<1>4. \A x, fromHere : AppendTag(l, x, fromHere).mark = l.mark
    BY DEF AppendTag
<1>5. \A ss : /\ AppendTemporary(l, ss).mark = l.mark
              /\ AppendTemporary(l, ss).temp = l.temp \o ss
    BY DEF AppendTemporary
<1> QED BY <1>1, <1>2, <1>3, <1>4, <1>5

\* A symbol more in the buffer changes nothing else.
LEMMA MoreKept ==
    ASSUME NEW k, NEW s, NEW again, Stays(k, s, again), k.mark = lexer.mark, NEW x
    PROVE  LET l == AppendTemporary(k, <<x>>)
           IN  Stays(l, s, again) /\ l.mark = lexer.mark /\ l.temp = k.temp \o <<x>>
<1>1. DOMAIN k = LexerFields
    BY DEF Stays
<1>2. \A ss : AppendTemporary(k, ss).mark = k.mark /\ AppendTemporary(k, ss).temp = k.temp \o ss
    BY <1>1, MarkStays
<1>3. \A ss : Stays(AppendTemporary(k, ss), s, again)
    BY StaysChanges
<1> QED BY <1>2, <1>3

\* One more symbol is kept back.
LEMMA KeptStep ==
    ASSUME CoverInv, IInv, NEW s \in KeptStates, At(s), NEW t \in KeptStates, NEW l, NEW again,
           Stays(l, t, again), l.mark = lexer.mark, NextChar(l)
    PROVE  CoverInv'
<1>1. Lexing /\ lexer.state \in KeptStates
    BY DEF At
<1>2. Held(l) /\ l.state = t
    BY StaysHeld
<1> QED BY <1>1, <1>2, KeptOn

\* What was kept back goes out.
LEMMA OutStep ==
    ASSUME CoverInv, IInv, NEW s \in KeptStates, At(s), NEW t \in PlainStates, NEW l, NEW again,
           Stays(l, t, again), l.mark = lexer.mark, l.temp[1] = "<", EmitTemporary(l)
    PROVE  CoverInv'
BY TemporaryOut DEF Stays

\* It does so as it is,
LEMMA PlainOutStep ==
    ASSUME CoverInv, IInv, NEW s \in KeptStates, At(s), NEW t \in PlainStates,
           \/ EmitTemporary(To(t)) \/ EmitTemporary(Again(To(t)))
           \/ EmitTemporary(AbandonTag(To(t)))
    PROVE  CoverInv'
<1>1. Stays(To(t), t, FALSE) /\ To(t).mark = lexer.mark /\ To(t).temp = lexer.temp
      /\ DOMAIN To(t) = LexerFields
    BY StaysHere DEF Stays
<1>2. Stays(Again(To(t)), t, TRUE) /\ Stays(AbandonTag(To(t)), t, FALSE)
    BY <1>1, StaysChanges, StaysTag
<1>3. lexer.temp[1] = "<"
    BY KeptFirst
<1> QED BY <1>1, <1>2, <1>3, MarkStays, OutStep

\* or with a symbol more.
LEMMA MoreOutStep ==
    ASSUME CoverInv, IInv, NEW s \in KeptStates, At(s), NEW t \in PlainStates, NEW x \in Symbols,
           \/ EmitTemporary(AppendTemporary(To(t), <<x>>))
           \/ \E y : EmitTemporary([AppendTemporary(To(t), <<x>>) EXCEPT !.script = y])
    PROVE  CoverInv'
<1> DEFINE l == AppendTemporary(To(t), <<x>>)
<1>1. Stays(To(t), t, FALSE) /\ To(t).mark = lexer.mark /\ To(t).temp = lexer.temp
      /\ DOMAIN To(t) = LexerFields
    BY StaysHere DEF Stays
<1>2. Stays(l, t, FALSE) /\ l.mark = lexer.mark /\ l.temp = lexer.temp \o <<x>>
  <2> DEFINE k == To(t)
  <2>1. Stays(k, t, FALSE) /\ k.mark = lexer.mark /\ k.temp = lexer.temp
      BY <1>1
  <2> HIDE DEF k
  <2>2. LET m == AppendTemporary(k, <<x>>)
        IN  Stays(m, t, FALSE) /\ m.mark = lexer.mark /\ m.temp = k.temp \o <<x>>
      BY <2>1, MoreKept
  <2> QED BY <2>1, <2>2 DEF k
<1>3. l.temp[1] = "<"
    BY <1>2, KeptFirst
<1>4. CASE EmitTemporary(l)
    BY <1>2, <1>3, <1>4, OutStep
<1>5. ASSUME NEW y, EmitTemporary([l EXCEPT !.script = y]) PROVE CoverInv'
  <2> DEFINE m == [l EXCEPT !.script = y]
  <2> HIDE DEF l
  <2>1. Stays(m, t, FALSE)
      BY <1>2, StaysChanges
  <2>2. m.mark = lexer.mark /\ m.temp[1] = "<"
      BY <1>2, <1>3 DEF Stays, LexerFields
  <2>3. EmitTemporary(m)
      BY <1>5
  <2> HIDE DEF m
  <2> QED BY <2>1, <2>2, <2>3, OutStep
<1> QED BY <1>4, <1>5

\* "</" where an end tag would end the text.
LEMMA ToEndTagCovers ==
    ASSUME CoverInv, IInv, NEW s \in RawStates, At(LessThan[s]), ToEndTag(s)
    PROVE  CoverInv'
<1> DEFINE t == EndTagOpen[s]
           l == AppendTemporary(To(t), <<"/">>)
<1>1. LessThan[s] \in KeptStates /\ t \in KeptStates
    BY RawNames, TextNames DEF KeptStates
<1>2. Stays(To(t), t, FALSE) /\ To(t).mark = lexer.mark /\ DOMAIN To(t) = LexerFields
    BY <1>1, StaysHere DEF Stays
<1>3. Stays(l, t, FALSE) /\ l.mark = lexer.mark
    BY <1>2, StaysChanges, MarkStays
<1>4. NextChar(l)
    BY DEF ToEndTag
<1> HIDE DEF l, t
<1> QED BY <1>1, <1>3, <1>4, KeptStep

\* "<" in raw text (handle_rcdata_lt_state and those like it).
LEMMA LessThanCovers ==
    ASSUME CoverInv, IInv,
           \/ RawLessThan("rcdata") \/ RawLessThan("rawtext") \/ ScriptLessThan \/ EscapedLessThan
    PROVE  CoverInv'
<1>1. ASSUME NEW s \in RawStates \cap PlainStates, RawLessThan(s) PROVE CoverInv'
  <2>1. LessThan[s] \in KeptStates
      BY RawNames, TextNames
  <2> QED BY <1>1, <2>1, ToEndTagCovers, PlainOutStep DEF RawLessThan
<1>2. /\ {"rcdata", "rawtext", "script", "script escaped"} \subseteq RawStates \cap PlainStates
      /\ LessThan["script"] = "script lt" /\ LessThan["script escaped"] = "script escaped lt"
      /\ {"script lt", "script escaped lt"} \subseteq KeptStates
    BY TextNames DEF RawStates, LessThan, OpenStates
<1>3. CASE ScriptLessThan
  <2>1. CASE EmitTemporary(AppendTemporary(To("script escaped start"), <<"!">>))
    <3>1. "!" \in Symbols
        BY DEF Symbols
    <3> QED BY <1>2, <1>3, <2>1, <3>1, TextNames, MoreOutStep DEF ScriptLessThan
  <2> QED BY <1>2, <1>3, <2>1, ToEndTagCovers, PlainOutStep DEF ScriptLessThan
<1>4. CASE EscapedLessThan
  <2>1. CASE EmitTemporary([AppendTemporary(To("script double escaped start"), <<c>>)
                                EXCEPT !.script = <<Lower(c)>>])
    <3>1. c \in Symbols
        BY PlacesHere, CharIsSymbol DEF c
    <3> QED BY <1>2, <1>4, <2>1, <3>1, TextNames, MoreOutStep DEF EscapedLessThan
  <2> QED BY <1>2, <1>4, <2>1, ToEndTagCovers, PlainOutStep DEF EscapedLessThan
<1> QED BY <1>1, <1>2, <1>3, <1>4

\* An end tag in raw text is kept back until its name is known.
LEMMA EndTagOpenCovers ==
    ASSUME CoverInv, IInv, NEW s \in RawStates, RawEndTagOpen(s)
    PROVE  CoverInv'
<1> DEFINE t == EndTagName[s]
           k == StartNewTag(To(t), FALSE)
           l == AppendTemporary(k, <<c>>)
<1>1. At(EndTagOpen[s]) /\ EndTagOpen[s] \in KeptStates /\ t \in KeptStates
    BY RawNames DEF RawEndTagOpen, KeptStates
<1>2. s \in PlainStates
    BY TextNames DEF RawStates
<1>3. Stays(To(t), t, FALSE) /\ To(t).mark = lexer.mark /\ DOMAIN To(t) = LexerFields
    BY <1>1, StaysHere DEF Stays
<1>4. Stays(k, t, FALSE) /\ k.mark = lexer.mark
    BY <1>3, StaysTag, MarkStays
<1> HIDE DEF k
<1>5. Stays(l, t, FALSE) /\ l.mark = lexer.mark
    BY <1>4, MoreKept
<1>6. NextChar(l) \/ EmitTemporary(To(s))
    BY DEF RawEndTagOpen, k
<1> HIDE DEF l, t
<1> QED BY <1>1, <1>2, <1>5, <1>6, KeptStep, PlainOutStep

\* The tag is over, from any part of it.
LEMMA EndedStep ==
    ASSUME CoverInv, IInv, NEW s \in AttributeStates \cup KeptStates, At(s), c = ">",
           NEW l, Stays(l, "data", FALSE), EmitTag(l)
    PROVE  CoverInv'
<1>1. Lexing /\ InOpen
    BY TagOrKept DEF At
<1>2. Held(l) /\ l.state = "data" /\ l.again = FALSE
    BY StaysHeld
<1> QED BY <1>1, <1>2, TagOut

\* It goes on with another part.
LEMMA PartStep ==
    ASSUME CoverInv, IInv, NEW s \in AttributeStates \cup KeptStates, At(s),
           NEW t \in AttributeStates, NEW l, NEW again, Stays(l, t, again), NextChar(l)
    PROVE  CoverInv'
<1>1. Lexing /\ InOpen
    BY TagOrKept DEF At
<1>2. Going(l) /\ l.state = t
    BY StaysHeld
<1> QED BY <1>1, <1>2, TagNext

\* The end of a tag name.
LEMMA NameEndedCovers ==
    ASSUME CoverInv, IInv, NEW s \in AttributeStates \cup KeptStates, At(s), NameEnded
    PROVE  CoverInv'
<1>1. \A t : Stays(FinishTagName(To(t)), t, FALSE)
    BY StaysHere, StaysTag
<1>2. {"before attr name", "self closing"} \subseteq AttributeStates
    BY States
<1> QED BY <1>1, <1>2, PartStep, EndedStep DEF NameEnded

\* The name of an end tag in raw text, and what becomes of it.
LEMMA EndTagNameCovers ==
    ASSUME CoverInv, IInv, NEW s \in RawStates, RawEndTagName(s)
    PROVE  CoverInv'
<1> DEFINE t == EndTagName[s]
           k == AppendTag(lexer, Lower(c), TRUE)
           l == AppendTemporary(k, <<c>>)
<1>1. At(t) /\ t \in KeptStates
    BY RawNames DEF RawEndTagName, KeptStates
<1>2. s \in PlainStates
    BY TextNames DEF RawStates
<1>3. Stays(lexer, t, FALSE) /\ DOMAIN lexer = LexerFields
    BY <1>1, StaysHere DEF Stays
<1>4. Stays(k, t, FALSE) /\ k.mark = lexer.mark
  <2>1. \A x, fromHere : Stays(AppendTag(lexer, x, fromHere), t, FALSE)
      BY <1>3, StaysTag
  <2>2. \A x, fromHere : AppendTag(lexer, x, fromHere).mark = lexer.mark
      BY <1>3, MarkStays
  <2> QED BY <2>1, <2>2
<1> HIDE DEF k
<1>5. Stays(l, t, FALSE) /\ l.mark = lexer.mark
    BY <1>4, MoreKept
<1>6. NextChar(l) \/ NameEnded \/ EmitTemporary(AbandonTag(To(s)))
    BY DEF RawEndTagName, k
<1> HIDE DEF l, t
<1> QED BY <1>1, <1>2, <1>5, <1>6, KeptStep, PlainOutStep, NameEndedCovers

-----------------------------------------------------------------------------
(* The steps of tags. *)

\* Places next to one another.
LEMMA NextTo ==
    ASSUME NEW start \in Nat, NEW mark \in Nat, NEW p \in Nat
    PROVE  /\ mark + 1 = p /\ start <= mark =>
                (p + 1) - 2 = mark /\ (p + 1) - 1 = p /\ start + 2 <= p + 1
           /\ mark + 2 = p => mark + 3 = p + 1
           /\ mark + 1 - 1 = mark /\ mark + 2 - 1 = mark + 1
OBVIOUS

\* The place behind three symbols.
LEMMA OneMore ==
    ASSUME NEW mark \in Nat, NEW p \in Nat, mark + 2 = p
    PROVE  mark + 3 = p + 1
OBVIOUS

\* Places before and behind the two symbols of "<!".
LEMMA TwoBefore ==
    ASSUME NEW start \in Nat, NEW p \in Nat, start + 2 <= p
    PROVE  p - 2 \in Nat /\ (p - 2) + 1 = p - 1 /\ (p - 2) + 2 = p /\ (p - 2) + 3 = p + 1
OBVIOUS

\* Places behind the three symbols of "]]>".
LEMMA ThreeOn ==
    ASSUME NEW p \in Nat
    PROVE  /\ p + 3 - 1 \in Nat \ {0} /\ p + 3 \in Nat \ {0} /\ p <= p + 3
           /\ \A n \in Nat : p + 3 - 1 <= n => p + 3 <= n + 1
OBVIOUS

\* The third place of three.
LEMMA ThirdOfThree == 3 \in 1 .. 3
OBVIOUS

\* The places of two symbols.
LEMMA FirstTwo == 1 \in 1 .. 2 /\ 2 \in 1 .. 2
OBVIOUS

\* A word of three symbols is found where its symbols are.
LEMMA ThreeMatch ==
    ASSUME NEW p \in Nat, NEW x, NEW y, NEW z,
           CharAt(p) = x, CharAt(p + 1) = y, CharAt(p + 2) = z
    PROVE  Matches(p, <<x, y, z>>)
<1> DEFINE word == <<x, y, z>>
<1>1. DOMAIN word = 1 .. 3 /\ word[1] = x /\ word[2] = y /\ word[3] = z
    OBVIOUS
<1> HIDE DEF word
<1>2. p + 1 - 1 = p /\ p + 2 - 1 = p + 1 /\ p + 3 - 1 = p + 2
    OBVIOUS
<1>3. \A i \in 1 .. 3 : CharAt(p + i - 1) = word[i]
  <2>1. \A i \in 1 .. 3 : i = 1 \/ i = 2 \/ i = 3
      OBVIOUS
  <2> QED BY <1>1, <1>2, <2>1
<1>4. Matches(p, word)
    BY <1>1, <1>3 DEF Matches
<1> QED BY <1>4 DEF word

\* What comes right after "<" (handle_tag_open_state): a declaration begins with "<!",
LEMMA DeclaresCovers ==
    ASSUME CoverInv, IInv, At("tag open"), c = "!",
           NextChar(ClearTemporary(To("markup declaration")))
    PROVE  CoverInv'
<1> DEFINE t == "markup declaration"
           l == ClearTemporary(To(t))
<1> HIDE DEF l
<1>1. "tag open" \in KeptStates
    BY TextNames DEF OpenStates
<1>2. Lexing /\ lexer.state \in KeptStates /\ lexer.state = "tag open"
    BY <1>1 DEF At
<1>3. OpensAt(lexer.start, lexer.mark)
    BY <1>2 DEF CoverInv, Covers, Placed
<1>4. lexer.temp = <<"<">>
    BY <1>2 DEF IInv, Parts, TempInv, OpenStates
<1>5. lexer.mark + 1 = lexer.pos
  <2>1. Len(<<"<">>) = 1
      OBVIOUS
  <2> QED BY <1>1, <1>4, <2>1, KeptHere
<1>6. Stays(l, t, FALSE)
    BY StaysHere, StaysChanges DEF l
<1>7. NextChar(l)
    BY DEF l
<1>8. Going(l) /\ l.state = t /\ l.again = FALSE
    BY <1>6, StaysHeld
<1>9. CharAt(lexer.pos) # EOF /\ CharAt(lexer.pos) = "!"
    BY DEF c, EOF
<1>10. /\ IsInput /\ DOMAIN l = LexerFields /\ l.pos \in Nat \ {0} /\ l.pos <= Len(input) + 1
       /\ l.pos = lexer.pos
    BY <1>6, <1>8 DEF IInv, Stays, Going
<1>11. Settled(l).pos = lexer.pos + 1
  <2>1. CharAt(l.pos) # EOF
      BY <1>9, <1>10
  <2>2. Settled(l).pos = l.pos + 1
      BY <1>8, <1>10, <2>1, SettledOn
  <2> QED BY <1>10, <2>2
<1>12. Declares(lexer.start, lexer.pos + 1)
  <2>1. lexer.start <= lexer.mark /\ lexer.start \in Nat /\ lexer.mark \in Nat /\ lexer.pos \in Nat
      BY <1>3, PlacesHere, OpensHere
  <2>2. (lexer.pos + 1) - 2 = lexer.mark /\ (lexer.pos + 1) - 1 = lexer.pos
        /\ lexer.start + 2 <= lexer.pos + 1
      BY <1>5, <2>1, NextTo
  <2> QED BY <1>3, <1>9, <2>2 DEF Declares
<1>13. t \notin CharStates \cup KeptStates \cup AttributeStates /\ t # "cdata"
  <2>1. t \notin PlainStates
      BY Loosened DEF Loosens
  <2>2. t \notin RefStates
      BY DEF RefStates
  <2>3. t \notin KeptStates
      BY KeptOnly
  <2>4. t \notin AttributeStates
      BY States
  <2> QED BY <2>1, <2>2, <2>3, <2>4 DEF CharStates
<1>14. Placed(t, lexer.pos + 1, lexer.start, l.mark)
    BY <1>12, <1>13 DEF Placed, CharStates
<1> QED BY <1>2, <1>7, <1>8, <1>11, <1>14, StepTo DEF IInv

\* a bogus comment with "<?" or with "</" and something else,
LEMMA BogusCovers ==
    ASSUME CoverInv, IInv, NEW s, At(s), NEW x,
           NextChar(AppendTemporary(ClearTemporary(To("bogus comment")), <<x>>))
    PROVE  CoverInv'
<1> DEFINE k == ClearTemporary(To("bogus comment"))
           l == AppendTemporary(k, <<x>>)
<1>1. Stays(k, "bogus comment", FALSE)
    BY StaysHere, StaysChanges
<1> HIDE DEF k
<1>2. Stays(l, "bogus comment", FALSE)
    BY <1>1, StaysChanges
<1>3. NextChar(l)
    BY DEF k
<1> HIDE DEF l
<1>4. IsFree("bogus comment")
  <2>1. "bogus comment" \in QuietStates
      BY DEF QuietStates
  <2>2. "bogus comment" \notin RefStates \cup PlainStates
      BY DEF RefStates, PlainStates, EndStates
  <2> QED BY <2>1, <2>2, QuietApart DEF IsFree, Loosens, CharStates
<1>5. Going(l) /\ l.state = "bogus comment" /\ Lexing
    BY <1>2, StaysHeld DEF At
<1> QED BY <1>3, <1>4, <1>5, FreeNext

\* a tag with a letter;
LEMMA TagStartCovers ==
    ASSUME CoverInv, IInv, NEW s \in KeptStates, At(s), NEW isStart,
           NextChar(StartNewTag(To("tag name"), isStart))
    PROVE  CoverInv'
<1>1. Stays(To("tag name"), "tag name", FALSE)
    BY StaysHere
<1>2. Stays(StartNewTag(To("tag name"), isStart), "tag name", FALSE)
    BY <1>1, StaysTag
<1>3. "tag name" \in AttributeStates
    BY States
<1> QED BY <1>2, <1>3, PartStep

\* the rest is text.
LEMMA TagOpenCovers ==
    ASSUME CoverInv, IInv, TagOpen
    PROVE  CoverInv'
<1>1. At("tag open") /\ "tag open" \in KeptStates /\ "end tag open" \in KeptStates
    BY TextNames, States DEF TagOpen, OpenStates, KeptStates
<1>2. CASE NextChar(AppendTemporary(To("end tag open"), <<"/">>))
  <2> DEFINE k == To("end tag open")
             l == AppendTemporary(k, <<"/">>)
  <2>1. Stays(k, "end tag open", FALSE) /\ k.mark = lexer.mark
      BY <1>1, StaysHere
  <2> HIDE DEF k
  <2>2. Stays(l, "end tag open", FALSE) /\ l.mark = lexer.mark
      BY <2>1, MoreKept
  <2>3. NextChar(l)
      BY <1>2 DEF k
  <2> HIDE DEF l
  <2> QED BY <1>1, <2>2, <2>3, KeptStep
<1>3. "data" \in PlainStates
    BY TextNames
<1> QED BY <1>1, <1>2, <1>3, DeclaresCovers, BogusCovers, TagStartCovers, PlainOutStep DEF TagOpen

\* "</>" is passed over.
LEMMA EmptyEndCovers ==
    ASSUME CoverInv, IInv, At("end tag open"), c = ">", NextChar(To("data"))
    PROVE  CoverInv'
<1> DEFINE l == To("data")
           word == <<"<", "/", ">">>
<1> HIDE DEF l, word
<1>1. "end tag open" \in EndTagOpenStates /\ "end tag open" \in KeptStates
    BY States DEF KeptStates
<1>2. Lexing /\ lexer.state = "end tag open"
    BY DEF At
<1>3. OpensAt(lexer.start, lexer.mark)
    BY <1>1, <1>2 DEF CoverInv, Covers, Placed
<1>4. lexer.temp = <<"<", "/">>
    BY <1>1, <1>2 DEF IInv, Parts, TempInv
<1>5. /\ lexer.start \in Nat /\ lexer.mark \in Nat /\ lexer.pos \in Nat
    BY PlacesHere
<1>6. lexer.mark + 2 = lexer.pos /\ CharAt(lexer.mark) = "<" /\ CharAt(lexer.mark + 1) = "/"
  <2>1. Len(<<"<", "/">>) = 2 /\ <<"<", "/">>[1] = "<" /\ <<"<", "/">>[2] = "/"
      OBVIOUS
  <2>2. /\ lexer.mark + Len(lexer.temp) = lexer.pos
        /\ \A i \in 1 .. Len(lexer.temp) : CharAt(lexer.mark + i - 1) = lexer.temp[i]
      BY <1>1, KeptHere DEF IsFound
  <2>3. Len(lexer.temp) = 2 /\ lexer.temp[1] = "<" /\ lexer.temp[2] = "/"
      BY <1>4, <2>1
  <2>4. lexer.mark + 1 - 1 = lexer.mark /\ lexer.mark + 2 - 1 = lexer.mark + 1
      BY <1>5, NextTo
  <2>5. 1 \in 1 .. 2 /\ 2 \in 1 .. 2
      BY FirstTwo
  <2> QED BY <2>2, <2>3, <2>4, <2>5
<1>7. word \in PassedOver
    BY DEF PassedOver, word
<1>8. Matches(lexer.mark, word)
    BY <1>5, <1>6, ThreeMatch DEF c, word
<1>9. Skipped(lexer.start, lexer.mark + 3)
    BY <1>3, <1>5, <1>7, <1>8, SkippedOn
<1>10. lexer.mark + 3 = lexer.pos + 1
  <2>1. lexer.mark + 2 = lexer.pos
      BY <1>6, Zenon
  <2> QED BY <1>5, <2>1, OneMore, Zenon
<1>11. Stays(l, "data", FALSE)
    BY StaysHere DEF l
<1>12. NextChar(l)
    BY DEF l
<1>13. Going(l) /\ l.state = "data" /\ l.again = FALSE
    BY <1>11, StaysHeld
<1>14. /\ IsInput /\ DOMAIN l = LexerFields /\ l.pos \in Nat \ {0} /\ l.pos <= Len(input) + 1
       /\ l.pos = lexer.pos
    BY <1>11, <1>13 DEF IInv, Stays, Going
<1>15. Settled(l).pos = lexer.pos + 1
  <2>1. CharAt(l.pos) # EOF
      BY <1>14 DEF c, EOF
  <2>2. Settled(l).pos = l.pos + 1
      BY <1>13, <1>14, <2>1, SettledOn
  <2> QED BY <1>14, <2>2
<1>16. "data" \notin RefStates \cup KeptStates \cup AttributeStates
    BY TextNames, Loosened DEF Loosens
<1>17. Placed("data", lexer.pos + 1, lexer.start, l.mark)
    BY <1>9, <1>10, <1>16 DEF Placed, TextFrom
<1> QED BY <1>2, <1>12, <1>13, <1>15, <1>17, StepTo DEF IInv

\* Behind "</": a tag, a mark that has no token, or text (handle_end_tag_open_state).
LEMMA EndTagOpenStateCovers ==
    ASSUME CoverInv, IInv, EndTagOpenState
    PROVE  CoverInv'
<1>1. At("end tag open") /\ "end tag open" \in KeptStates /\ "data" \in PlainStates
    BY TextNames, States DEF EndTagOpenState, KeptStates
<1> QED BY <1>1, EmptyEndCovers, BogusCovers, TagStartCovers, PlainOutStep DEF EndTagOpenState

\* The end of the input inside a tag.
LEMMA CutOffCovers ==
    ASSUME CoverInv, IInv, NEW s, At(s), TagCutOff \/ ValueCutOff
    PROVE  CoverInv'
<1> DEFINE l == AbandonTag(To("data"))
<1>1. Stays(To("data"), "data", FALSE)
    BY StaysHere
<1>2. Stays(l, "data", FALSE)
    BY <1>1, StaysTag
<1>3. c = EOF /\ (NextChar(l) \/ NextChar(Again(l)))
    BY DEF TagCutOff, ValueCutOff
<1> HIDE DEF l
<1>4. Stays(Again(l), "data", TRUE)
    BY <1>2, StaysChanges
<1> QED BY <1>2, <1>3, <1>4, EndStep

\* A tag whose parts are all there, or another part of it.
LEMMA AttributeFollowsCovers ==
    ASSUME CoverInv, IInv, NEW s \in AttributeStates, At(s), AttributeFollows
    PROVE  CoverInv'
<1>1. \A t : Stays(To(t), t, FALSE)
    BY StaysHere
<1>2. "self closing" \in AttributeStates
    BY States
<1> QED BY <1>1, <1>2, PartStep, EndedStep DEF AttributeFollows

\* The name of an attribute begins; it is part of the tag.
LEMMA AttributeBeginsCovers ==
    ASSUME CoverInv, IInv, NEW s \in AttributeStates, At(s), NEW none, AttributeBegins(none)
    PROVE  CoverInv'
<1> DEFINE k == To("attr name")
<1>1. Stays(k, "attr name", FALSE)
    BY StaysHere
<1>2. "attr name" \in AttributeStates
    BY States
<1>3. \/ NextChar(AppendTemporary(k, <<Replacement>>))
      \/ NextChar(AppendTag(k, Lower(c), TRUE))
    BY DEF AttributeBegins
<1> HIDE DEF k
<1>4. Stays(AppendTemporary(k, <<Replacement>>), "attr name", FALSE)
    BY <1>1, StaysChanges
<1>5. Stays(AppendTag(k, Lower(c), TRUE), "attr name", FALSE)
    BY <1>1, StaysTag
<1> QED BY <1>2, <1>3, <1>4, <1>5, PartStep

\* Names of tags and of attributes.
LEMMA NamesCover ==
    ASSUME CoverInv, IInv, TagName \/ BeforeAttrName \/ AttrName \/ AfterAttrName
    PROVE  CoverInv'
<1>1. ASSUME NEW s \in AttributeStates, At(s),
             \/ NextChar(lexer) \/ NextChar(AppendTag(lexer, Lower(Unnulled(c)), TRUE))
      PROVE  CoverInv'
  <2>1. Stays(lexer, s, FALSE)
      BY <1>1, StaysHere
  <2>2. Stays(AppendTag(lexer, Lower(Unnulled(c)), TRUE), s, FALSE)
      BY <2>1, StaysTag
  <2> QED BY <1>1, <2>1, <2>2, PartStep
<1>2. {"tag name", "before attr name", "attr name", "after attr name", "self closing",
       "before attr value"} \subseteq AttributeStates
    BY States
<1>3. CASE TagName
    BY <1>1, <1>2, <1>3, NameEndedCovers, CutOffCovers DEF TagName
<1>4. CASE BeforeAttrName
    BY <1>1, <1>2, <1>4, AttributeFollowsCovers, AttributeBeginsCovers, CutOffCovers
       DEF BeforeAttrName
<1>5. CASE AttrName
  <2>1. At("attr name")
      BY <1>5 DEF AttrName
  <2>2. ASSUME NEW t PROVE Stays(FinishAttributeName(To(t)), t, FALSE)
    <3>1. Stays(To(t), t, FALSE)
        BY <2>1, StaysHere
    <3> QED BY <3>1, StaysTag
  <2>3. ASSUME NEW t \in {"after attr name", "self closing", "before attr value"},
               NextChar(FinishAttributeName(To(t)))
        PROVE  CoverInv'
      BY <1>2, <2>1, <2>2, <2>3, PartStep
  <2>4. ASSUME c = ">", EmitTag(FinishAttributeName(To("data"))) PROVE CoverInv'
      BY <1>2, <2>1, <2>2, <2>4, EndedStep
  <2> QED BY <1>1, <1>2, <1>5, <2>1, <2>3, <2>4, CutOffCovers DEF AttrName
<1>6. CASE AfterAttrName
  <2>1. At("after attr name")
      BY <1>6 DEF AfterAttrName
  <2>2. ASSUME NextChar(To("before attr value")) PROVE CoverInv'
      BY <1>2, <2>1, <2>2, StaysHere, PartStep
  <2> QED BY <1>1, <1>2, <1>6, <2>1, <2>2, AttributeFollowsCovers, AttributeBeginsCovers,
             CutOffCovers DEF AfterAttrName
<1> QED BY <1>3, <1>4, <1>5, <1>6

\* Values of attributes, but for references in them.
LEMMA BeforeAttrValueCovers ==
    ASSUME CoverInv, IInv, BeforeAttrValue
    PROVE  CoverInv'
<1>1. /\ At("before attr value")
      /\ {"before attr value", "attr value unquoted"} \subseteq AttributeStates
    BY States DEF BeforeAttrValue
<1>2. /\ \A t : Stays(To(t), t, FALSE)
      /\ Stays(lexer, "before attr value", FALSE)
    BY <1>1, StaysHere
<1>3. CASE NextChar(lexer)
    BY <1>1, <1>2, <1>3, PartStep
<1>4. CASE c \in Quotes /\ NextChar([To(ValueStates[c]) EXCEPT !.tag.from = lexer.pos])
  <2> DEFINE t == ValueStates[c]
             k == To(t)
             m == [k EXCEPT !.tag.from = lexer.pos]
  <2>1. t \in AttributeStates
      BY <1>4, ValueNamesAre
  <2>2. Stays(k, t, FALSE) /\ NextChar(m)
      BY <1>2, <1>4
  <2> HIDE DEF k, t
  <2>3. Stays(m, t, FALSE)
      BY <2>2, StaysTag
  <2> HIDE DEF m
  <2> QED BY <1>1, <2>1, <2>2, <2>3, PartStep
<1>5. CASE NextChar(Again(To("attr value unquoted")))
  <2>1. Stays(Again(To("attr value unquoted")), "attr value unquoted", TRUE)
      BY <1>2, StaysChanges
  <2> QED BY <1>1, <1>5, <2>1, PartStep
<1>6. CASE c = ">" /\ EmitTag(To("data"))
    BY <1>1, <1>2, <1>6, EndedStep
<1>7. CASE NextChar(AppendTag(To("attr value unquoted"), Unnulled(c), TRUE))
  <2> DEFINE k == To("attr value unquoted")
  <2>1. Stays(k, "attr value unquoted", FALSE) /\ NextChar(AppendTag(k, Unnulled(c), TRUE))
      BY <1>2, <1>7
  <2> HIDE DEF k
  <2>2. Stays(AppendTag(k, Unnulled(c), TRUE), "attr value unquoted", FALSE)
      BY <2>1, StaysTag
  <2> QED BY <1>1, <2>1, <2>2, PartStep
<1> QED BY <1>1, <1>3, <1>4, <1>5, <1>6, <1>7, CutOffCovers DEF BeforeAttrValue

\* A reference in a value begins, in the tag too.
LEMMA ToCharRefCovers ==
    ASSUME CoverInv, IInv, NEW s \in AttributeStates, At(s), ToCharRef
    PROVE  CoverInv'
<1> DEFINE t == "char ref in attr value"
           k == To(t)
           m == [k EXCEPT !.tag.valueState = lexer.state]
<1>1. Stays(k, t, FALSE) /\ NextChar(Again(m)) /\ t \in AttributeStates
    BY StaysHere, States DEF ToCharRef
<1> HIDE DEF k
<1>2. Stays(m, t, FALSE)
    BY <1>1, StaysTag
<1> HIDE DEF m
<1>3. Stays(Again(m), t, TRUE)
    BY <1>2, StaysChanges
<1> QED BY <1>1, <1>3, PartStep

\* The states of values.
LEMMA ValuesCover ==
    ASSUME CoverInv, IInv, AttrValueUnquoted \/ \E quote \in Quotes : AttrValueQuoted(quote)
    PROVE  CoverInv'
<1>1. ASSUME NEW s \in AttributeStates, At(s), NEW fromHere,
             NextChar(AppendTag(lexer, Unnulled(c), fromHere))
      PROVE  CoverInv'
  <2>1. Stays(lexer, s, FALSE)
      BY <1>1, StaysHere
  <2>2. Stays(AppendTag(lexer, Unnulled(c), fromHere), s, FALSE)
      BY <2>1, StaysTag
  <2> QED BY <1>1, <2>2, PartStep
<1>2. {"attr value unquoted", "before attr name", "after attr value quoted"}
        \subseteq AttributeStates
    BY States
<1>3. ASSUME NEW quote \in Quotes, AttrValueQuoted(quote) PROVE CoverInv'
  <2> DEFINE s == ValueStates[quote]
  <2>1. At(s) /\ s \in AttributeStates
      BY <1>3, ValueNamesAre DEF AttrValueQuoted
  <2>2. ASSUME NextChar(To("after attr value quoted")) PROVE CoverInv'
      BY <1>2, <2>1, <2>2, StaysHere, PartStep
  <2>3. \/ NextChar(To("after attr value quoted")) \/ ToCharRef \/ ValueCutOff
        \/ NextChar(AppendTag(lexer, Unnulled(c), FALSE))
      BY <1>3 DEF AttrValueQuoted
  <2> HIDE DEF s
  <2> QED BY <1>1, <2>1, <2>2, <2>3, ToCharRefCovers, CutOffCovers
<1>4. CASE AttrValueUnquoted
  <2>1. At("attr value unquoted")
      BY <1>4 DEF AttrValueUnquoted
  <2>2. ASSUME NEW t PROVE Stays(FinishAttributeValue(To(t)), t, FALSE)
    <3>1. Stays(To(t), t, FALSE)
        BY <2>1, StaysHere
    <3> QED BY <3>1, StaysTag
  <2>3. ASSUME NextChar(FinishAttributeValue(To("before attr name"))) PROVE CoverInv'
      BY <1>2, <2>1, <2>2, <2>3, PartStep
  <2>4. ASSUME c = ">", EmitTag(FinishAttributeValue(To("data"))) PROVE CoverInv'
      BY <1>2, <2>1, <2>2, <2>4, EndedStep
  <2> QED BY <1>1, <1>2, <1>4, <2>1, <2>3, <2>4, ToCharRefCovers, CutOffCovers
             DEF AttrValueUnquoted
<1> QED BY <1>3, <1>4

\* What follows on a value, and on "/".
LEMMA AfterValueCovers ==
    ASSUME CoverInv, IInv, AfterAttrValueQuoted \/ SelfClosing
    PROVE  CoverInv'
<1>1. {"before attr name", "self closing", "after attr value quoted"} \subseteq AttributeStates
    BY States
<1>2. CASE AfterAttrValueQuoted
  <2>1. At("after attr value quoted")
      BY <1>2 DEF AfterAttrValueQuoted
  <2>2. ASSUME NEW t PROVE Stays(FinishAttributeValue(To(t)), t, FALSE)
    <3>1. Stays(To(t), t, FALSE)
        BY <2>1, StaysHere
    <3> QED BY <3>1, StaysTag
  <2>3. ASSUME NEW t \in {"before attr name", "self closing"},
               \/ NextChar(FinishAttributeValue(To(t)))
               \/ NextChar(Again(FinishAttributeValue(To(t))))
        PROVE  CoverInv'
    <3> DEFINE k == FinishAttributeValue(To(t))
    <3>1. Stays(k, t, FALSE) /\ (NextChar(k) \/ NextChar(Again(k)))
        BY <2>2, <2>3
    <3> HIDE DEF k
    <3>2. Stays(Again(k), t, TRUE)
        BY <3>1, StaysChanges
    <3> QED BY <1>1, <2>1, <3>1, <3>2, PartStep
  <2>4. ASSUME c = ">", EmitTag(FinishAttributeValue(To("data"))) PROVE CoverInv'
      BY <1>1, <2>1, <2>2, <2>4, EndedStep
  <2>5. ASSUME c = EOF, NextChar(Again(AbandonTag(FinishAttributeValue(To("data")))))
        PROVE  CoverInv'
    <3> DEFINE k == FinishAttributeValue(To("data"))
               m == AbandonTag(k)
    <3>1. Stays(k, "data", FALSE) /\ NextChar(Again(m))
        BY <2>2, <2>5
    <3> HIDE DEF k
    <3>2. Stays(m, "data", FALSE)
        BY <3>1, StaysTag
    <3> HIDE DEF m
    <3>3. Stays(Again(m), "data", TRUE)
        BY <3>2, StaysChanges
    <3> QED BY <2>1, <2>5, <3>1, <3>3, EndStep
  <2> QED BY <1>2, <2>3, <2>4, <2>5 DEF AfterAttrValueQuoted
<1>3. CASE SelfClosing
  <2>1. At("self closing")
      BY <1>3 DEF SelfClosing
  <2>2. ASSUME c = ">", EmitTag([To("data") EXCEPT !.tag.selfClosing = TRUE]) PROVE CoverInv'
    <3> DEFINE k == To("data")
               m == [k EXCEPT !.tag.selfClosing = TRUE]
    <3>1. Stays(k, "data", FALSE) /\ EmitTag(m)
        BY <2>1, <2>2, StaysHere
    <3> HIDE DEF k
    <3>2. Stays(m, "data", FALSE)
        BY <3>1, StaysTag
    <3> HIDE DEF m
    <3> QED BY <1>1, <2>1, <2>2, <3>1, <3>2, EndedStep
  <2>3. ASSUME NextChar(Again(To("before attr name"))) PROVE CoverInv'
    <3>1. Stays(Again(To("before attr name")), "before attr name", TRUE)
        BY <2>1, StaysHere, StaysChanges
    <3> QED BY <1>1, <2>1, <2>3, <3>1, PartStep
  <2> QED BY <1>3, <2>1, <2>2, <2>3, CutOffCovers DEF SelfClosing
<1> QED BY <1>2, <1>3

(* With the iterator further on, in state t. *)
Goes(l, t) == Going(l) /\ l.state = t

\* What is done to the buffer of the tag leaves both as they are.
LEMMA GoesChanges ==
    ASSUME NEW l, NEW t, Goes(l, t)
    PROVE  /\ Goes(Again(l), t)
           /\ \A x, fromHere : /\ Goes(AppendTag(l, x, fromHere), t)
                               /\ Goes(AppendSecond(l, x, fromHere), t)
<1> USE DEF Goes, Going, LexerFields
<1>1. Goes(Again(l), t)
    BY DEF Again
<1>2. \A x, fromHere : Goes(AppendTag(l, x, fromHere), t)
    BY DEF AppendTag
<1>3. \A x, fromHere : Goes(AppendSecond(l, x, fromHere), t)
    BY <1>2 DEF AppendSecond
<1> QED BY <1>1, <1>2, <1>3

\* A reference in a value: the iterator is past it (handle_char_ref_in_attr_value_state).
LEMMA CharRefInAttrValueCovers ==
    ASSUME CoverInv, IInv, OwnInv, CharRefInAttrValue
    PROVE  CoverInv'
<1> DEFINE t    == lexer.tag.valueState
           unquoted == t = "attr value unquoted"
           ref  == ConsumeCharRef(lexer.pos, QuoteOf[t], TRUE)
           k    == To(t)
           back == [k EXCEPT !.mark = lexer.pos, !.pos = ref.pos]
           one  == AppendTag(back, ref.first, unquoted)
           two  == AppendSecond(one, ref.second, unquoted)
<1>1. /\ At("char ref in attr value") /\ "char ref in attr value" \in AttributeStates
      /\ Lexing /\ lexer.state = "char ref in attr value" /\ t \in ValueNames
  <2>1. At("char ref in attr value") /\ lexer.state = "char ref in attr value" /\ Lexing
      BY DEF CharRefInAttrValue, At
  <2> QED BY <2>1, States DEF IInv, Parts, TagInv
<1>2. t \in AttributeStates /\ InOpen
    BY <1>1, ValueNamesAre, TagOrKept
<1>3. \/ NextChar(AppendTag(back, "&", unquoted))
      \/ NextChar(Again(two))
    BY DEF CharRefInAttrValue
<1>4. Goes(k, t)
  <2>1. Stays(k, t, FALSE)
      BY <1>1, StaysHere
  <2> HIDE DEF k, t
  <2>2. Going(k) /\ k.state = t
      BY <2>1, StaysHeld
  <2> QED BY <2>2 DEF Goes
<1>5. Crosses(lexer.pos, ref)
  <2>1. TagIs("char ref in attr value", lexer.pos, lexer.tag)
      BY <1>1, OwnHere
  <2>2. CharAt(lexer.pos) = "&"
      BY <1>1, <2>1, InValueIs
  <2>3. IsInput /\ lexer.pos \in Nat \ {0}
      BY PlacesHere
  <2> QED BY <2>2, <2>3, CharRefCrosses
<1> HIDE DEF t, ref, k, unquoted
<1>6. /\ ref.pos \in Nat \ {0} /\ lexer.pos <= ref.pos /\ ref.pos <= Len(input) + 1
  <2>1. ref.pos \in Nat \ {0} /\ lexer.pos <= ref.pos
        /\ \A r \in lexer.pos .. ref.pos - 1 : r <= Len(input)
      BY <1>5 DEF Crosses
  <2>2. lexer.pos \in Nat /\ Len(input) \in Nat /\ lexer.pos <= Len(input) + 1
      BY PlacesHere
  <2>3. CASE ref.pos = lexer.pos
      BY <2>1, <2>2, <2>3
  <2>4. CASE ref.pos # lexer.pos
    <3>1. ref.pos - 1 \in lexer.pos .. ref.pos - 1
        BY <2>1, <2>2, <2>4
    <3>2. ref.pos - 1 <= Len(input)
        BY <2>1, <3>1
    <3> QED BY <2>1, <2>2, <3>2
  <2> QED BY <2>1, <2>3, <2>4
<1>7. Goes(back, t)
    BY <1>4, <1>6 DEF Goes, Going, LexerFields
<1> HIDE DEF back
<1>8. Goes(AppendTag(back, "&", unquoted), t) /\ Goes(one, t)
    BY <1>7, GoesChanges
<1> HIDE DEF one
<1>9. Goes(two, t)
    BY <1>8, GoesChanges
<1> HIDE DEF two
<1>10. Goes(Again(two), t)
    BY <1>9, GoesChanges
<1>11. ASSUME NEW l, Goes(l, t), NextChar(l) PROVE CoverInv'
    BY <1>1, <1>2, <1>11, TagNext DEF Goes
<1> QED BY <1>3, <1>8, <1>10, <1>11

-----------------------------------------------------------------------------
(* The steps of comments and doctypes. *)
CommentStates ==
    {"bogus comment", "comment start", "comment start dash", "comment", "comment end dash",
     "comment end", "comment end bang"}

\* Comments and doctypes may begin anywhere.
LEMMA FreeStates ==
    /\ \A s \in CommentStates \cup DoctypeStates : IsFree(s)
    /\ Loosens("data") /\ Loosens("bogus doctype")
<1>1. CommentStates \subseteq QuietStates
    BY DEF CommentStates, QuietStates
<1>2. \A s \in CommentStates : s \notin RefStates \cup PlainStates
    BY DEF CommentStates, RefStates, PlainStates, EndStates
<1>3. \A s \in CommentStates : IsFree(s)
  <2>1. "markup declaration" \notin CommentStates
      BY DEF CommentStates
  <2> QED BY <1>1, <1>2, <2>1, QuietApart DEF IsFree, Loosens, CharStates
<1>4. \A s \in DoctypeStates : IsFree(s)
  <2>1. \A s \in DoctypeStates : s \notin QuietStates
      BY QuietApart
  <2>2. RefStates \cup PlainStates \subseteq QuietStates
      BY DEF RefStates, PlainStates, QuietStates
  <2>3. "markup declaration" \notin DoctypeStates
      BY States DEF IdStates
  <2> QED BY <2>1, <2>2, <2>3, DoctypeApart DEF IsFree, Loosens, CharStates
<1> QED BY <1>3, <1>4, Loosened, TextNames

\* A step from one of them to another,
LEMMA FreeStep ==
    ASSUME CoverInv, IInv, NEW s, At(s), NEW t \in CommentStates \cup DoctypeStates,
           NEW l, NEW again, Stays(l, t, again), NextChar(l)
    PROVE  CoverInv'
<1>1. Lexing /\ IsFree(t)
    BY FreeStates DEF At
<1>2. Going(l) /\ l.state = t
    BY StaysHeld
<1> QED BY <1>1, <1>2, FreeNext

\* and one that hands a doctype or a comment over.
LEMMA OverStep ==
    ASSUME CoverInv, IInv, NEW s, At(s), NEW t \in {"data", "bogus doctype"},
           NEW l, NEW again, Stays(l, t, again), EmitDoctype(l) \/ EmitComment(l)
    PROVE  CoverInv'
<1>1. Lexing /\ Loosens(t)
    BY FreeStates DEF At
<1>2. CASE EmitDoctype(l)
  <2> DEFINE m == [l EXCEPT !.doctype = NoDoctype]
             token == [type |-> "doctype", doctype |-> l.doctype]
  <2>1. Stays(m, t, again)
      BY StaysChanges
  <2>2. Going(m) /\ m.state = t
      BY <2>1, StaysHeld
  <2>3. "type" \in DOMAIN token /\ token.type = "doctype" /\ Emit(m, token)
      BY <1>2 DEF EmitDoctype
  <2> HIDE DEF m, token
  <2> QED BY <1>1, <2>2, <2>3, OtherOut
<1>3. CASE EmitComment(l)
  <2> DEFINE m == ClearTemporary(l)
             token == [type |-> "comment", text |-> l.temp]
  <2>1. Stays(m, t, again)
      BY StaysChanges
  <2>2. Going(m) /\ m.state = t
      BY <2>1, StaysHeld
  <2>3. "type" \in DOMAIN token /\ token.type = "comment" /\ Emit(m, token)
      BY <1>3 DEF EmitComment
  <2> HIDE DEF m, token
  <2> QED BY <1>1, <2>2, <2>3, OtherOut
<1> QED BY <1>2, <1>3

\* What the handlers do to the lexer.
LEMMA FreeChanges ==
    ASSUME CoverInv, IInv, NEW s, At(s)
    PROVE  /\ Stays(lexer, s, FALSE) /\ \A x : Stays(AppendTemporary(lexer, x), s, FALSE)
           /\ \A x, y : Stays(AppendTemporary([lexer EXCEPT !.doctype.quirks = x], y), s, FALSE)
           /\ \A t : /\ Stays(To(t), t, FALSE) /\ Stays(Quirks(To(t)), t, FALSE)
                     /\ Stays(Again(Quirks(To(t))), t, TRUE)
                     /\ Stays(Again(ClearTemporary(To(t))), t, TRUE)
                     /\ Stays(FinishDoctypeName(To(t)), t, FALSE)
                     /\ Stays(FinishDoctypeName(Quirks(To(t))), t, FALSE)
           /\ \A t, x : /\ Stays(AppendTemporary(To(t), x), t, FALSE)
                        /\ Stays(AppendTemporary(Quirks(To(t)), x), t, FALSE)
           /\ \A t, x, y :
                Stays(AppendTemporary([To(t) EXCEPT !.doctype.quirks = x], y), t, FALSE)
<1>1. Stays(lexer, s, FALSE) /\ \A t : Stays(To(t), t, FALSE)
    BY StaysHere
<1>2. \A x : Stays([lexer EXCEPT !.doctype.quirks = x], s, FALSE)
    BY <1>1, StaysChanges
<1>3. \A t : Stays(Quirks(To(t)), t, FALSE) /\ Stays(ClearTemporary(To(t)), t, FALSE)
    BY <1>1, StaysChanges
<1>4. \A t, x : Stays([To(t) EXCEPT !.doctype.quirks = x], t, FALSE)
    BY <1>1, StaysChanges
<1>5. \A x : Stays(AppendTemporary(lexer, x), s, FALSE)
    BY <1>1, StaysChanges
<1>6. \A x, y : Stays(AppendTemporary([lexer EXCEPT !.doctype.quirks = x], y), s, FALSE)
    BY <1>2, StaysChanges
<1>7. \A t : /\ Stays(Again(Quirks(To(t))), t, TRUE) /\ Stays(Again(ClearTemporary(To(t))), t, TRUE)
             /\ Stays(FinishDoctypeName(To(t)), t, FALSE)
             /\ Stays(FinishDoctypeName(Quirks(To(t))), t, FALSE)
    BY <1>1, <1>3, StaysChanges
<1>8. \A t, x : /\ Stays(AppendTemporary(To(t), x), t, FALSE)
                /\ Stays(AppendTemporary(Quirks(To(t)), x), t, FALSE)
    BY <1>1, <1>3, StaysChanges
<1>9. \A t, x, y : Stays(AppendTemporary([To(t) EXCEPT !.doctype.quirks = x], y), t, FALSE)
    BY <1>4, StaysChanges
<1> QED BY <1>1, <1>3, <1>5, <1>6, <1>7, <1>8, <1>9

\* Comments.
LEMMA CommentsCover ==
    ASSUME CoverInv, IInv,
           \/ CommentStart \/ CommentStartDash \/ Comment
           \/ CommentEndDash \/ CommentEnd \/ CommentEndBang
    PROVE  CoverInv'
<1>1. ASSUME NEW s, At(s), NEW ends, CommentOver(ends) PROVE CoverInv'
    BY <1>1, FreeChanges, OverStep DEF CommentOver
<1>2. ASSUME NEW s, At(s), NEW ss, InComment(ss) PROVE CoverInv'
  <2> DEFINE x == Append(ss, Unnulled(c))
  <2>1. NextChar(AppendTemporary(To("comment"), x)) /\ "comment" \in CommentStates
      BY <1>2 DEF InComment, CommentStates
  <2> HIDE DEF x
  <2> QED BY <1>2, <2>1, FreeChanges, FreeStep
<1>3. ASSUME NEW s, At(s), NEW t \in CommentStates,
             NextChar(To(t)) \/ \E x : NextChar(AppendTemporary(To(t), x))
      PROVE  CoverInv'
    BY <1>3, FreeChanges, FreeStep
<1>4. ASSUME NEW s \in CommentStates, At(s), NEW x, NextChar(AppendTemporary(lexer, x))
      PROVE  CoverInv'
    BY <1>4, FreeChanges, FreeStep
<1>5. CASE CommentStart \/ CommentStartDash \/ Comment
    BY <1>1, <1>2, <1>3, <1>5 DEF CommentStart, CommentStartDash, Comment, CommentStates
<1>6. CASE CommentEndDash \/ CommentEnd \/ CommentEndBang
    BY <1>1, <1>2, <1>3, <1>4, <1>6 DEF CommentEndDash, CommentEnd, CommentEndBang, CommentStates
<1> QED BY <1>5, <1>6

\* A comment up to ">", with the iterator there (handle_bogus_comment_state).
LEMMA BogusCommentCovers ==
    ASSUME CoverInv, IInv, BogusComment
    PROVE  CoverInv'
<1> DEFINE k == To("data")
           rest(end) == [i \in 1 .. end - lexer.pos |-> Unnulled(CharAt(lexer.pos + i - 1))]
           l(end)    == [k EXCEPT !.pos = end]
<1>1. At("bogus comment") /\ Lexing
    BY DEF BogusComment, At
<1>2. PICK end \in lexer.pos .. Len(input) + 1 : EmitComment(AppendTemporary(l(end), rest(end)))
    BY DEF BogusComment
<1>3. Going(k) /\ k.state = "data"
    BY <1>1, StaysHere, StaysHeld
<1>4. end \in Nat \ {0} /\ lexer.pos <= end /\ end <= Len(input) + 1
  <2>1. lexer.pos \in Nat \ {0} /\ Len(input) \in Nat
      BY PlacesHere
  <2> QED BY <1>2, <2>1
<1> HIDE DEF rest, k
<1>5. Going(l(end)) /\ l(end).state = "data"
    BY <1>3, <1>4 DEF Going, LexerFields
<1> HIDE DEF l
<1> DEFINE m == AppendTemporary(l(end), rest(end))
           n == ClearTemporary(m)
           token == [type |-> "comment", text |-> m.temp]
<1>6. Going(m) /\ m.state = "data"
    BY <1>5 DEF Going, AppendTemporary, LexerFields
<1>7. Emit(n, token)
    BY <1>2 DEF EmitComment
<1>8. "type" \in DOMAIN token /\ token.type = "comment"
    OBVIOUS
<1> HIDE DEF m
<1>9. Going(n) /\ n.state = "data"
    BY <1>6 DEF Going, ClearTemporary, LexerFields
<1> HIDE DEF n, token
<1> QED BY <1>1, <1>7, <1>8, <1>9, FreeStates, OtherOut

\* A word that is one symbol is passed.
LEMMA OneWordPast ==
    ASSUME CoverInv, IInv, NEW l, NEW s, NEW again, Stays(l, s, again), NEW x, c = x, x # EOF
    PROVE  /\ Going(Past(l, <<x>>)) /\ Past(l, <<x>>).state = s
           /\ Settled(Past(l, <<x>>)).pos = lexer.pos + 1
<1> DEFINE word == <<x>>
<1>1. Len(word) = 1 /\ DOMAIN word = 1 .. 1 /\ word[1] = x /\ 1 \in Nat \ {0}
    OBVIOUS
<1> HIDE DEF word
<1>2. Match(word)
  <2>1. lexer.pos + 1 - 1 = lexer.pos
      BY PlacesHere
  <2>2. \A i \in 1 .. 1 : i = 1
      OBVIOUS
  <2> QED BY <1>1, <2>1, <2>2 DEF Match, Matches, c
<1>3. WordHere(word, 1)
  <2>1. word[1] # EOF
      BY <1>1
  <2> QED BY <1>1, <1>2, <2>1, Zenon DEF WordHere
<1>4. WordPast(l, s, word, 1)
  <2>1. 1 \in Nat \ {0}
      OBVIOUS
  <2> QED BY <1>3, <2>1, PastStays, Zenon
<1> QED BY <1>4 DEF word, WordPast

\* So are two symbols.
LEMMA TwoPast ==
    ASSUME CoverInv, IInv, NEW l, NEW s, NEW again, Stays(l, s, again), NEW x, NEW y,
           Match(<<x, y>>), y # EOF
    PROVE  Going(Past(l, <<x, y>>)) /\ Past(l, <<x, y>>).state = s
<1> DEFINE word == <<x, y>>
<1>1. Len(word) = 2 /\ DOMAIN word = 1 .. 2 /\ word[2] = y /\ 2 \in Nat \ {0}
    OBVIOUS
<1>2. Match(word)
    OBVIOUS
<1> HIDE DEF word
<1>3. WordHere(word, 2)
  <2>1. word[2] # EOF
      BY <1>1
  <2> QED BY <1>1, <1>2, <2>1, Zenon DEF WordHere
<1>4. WordPast(l, s, word, 2)
  <2>1. 2 \in Nat \ {0}
      OBVIOUS
  <2> QED BY <1>3, <2>1, PastStays, Zenon
<1> QED BY <1>4 DEF word, WordPast

\* Names of doctypes.
LEMMA DoctypeNamesCover ==
    ASSUME CoverInv, IInv, DoctypeState \/ BeforeDoctypeName \/ DoctypeName \/ AfterDoctypeName
    PROVE  CoverInv'
<1>1. ASSUME NEW s, At(s), NEW ends, DoctypeOver \/ DoctypeCutOff(ends) PROVE CoverInv'
    BY <1>1, FreeChanges, OverStep DEF DoctypeOver, DoctypeCutOff
<1>2. ASSUME NEW s \in DoctypeStates, At(s),
             \/ DoctypeBlank \/ \E x : NextChar(AppendTemporary(lexer, x))
             \/ \E x, y : NextChar(AppendTemporary([lexer EXCEPT !.doctype.quirks = x], y))
      PROVE  CoverInv'
    BY <1>2, FreeChanges, FreeStep DEF DoctypeBlank
<1>3. ASSUME NEW s, At(s), NEW t \in DoctypeStates,
             \/ NextChar(To(t)) \/ NextChar(Quirks(To(t))) \/ NextChar(Again(Quirks(To(t))))
             \/ NextChar(FinishDoctypeName(To(t)))
             \/ \E x : NextChar(AppendTemporary(Quirks(To(t)), x))
             \/ \E x, y : NextChar(AppendTemporary([To(t) EXCEPT !.doctype.quirks = x], y))
      PROVE  CoverInv'
    BY <1>3, FreeChanges, FreeStep
<1>4. ASSUME NEW s, At(s),
             \/ EmitDoctype(FinishDoctypeName(To("data")))
             \/ EmitDoctype(FinishDoctypeName(Quirks(To("data"))))
      PROVE  CoverInv'
    BY <1>4, FreeChanges, OverStep
<1>5. {"doctype", "before doctype name", "doctype name", "after doctype name", "bogus doctype",
       "after doctype public keyword", "after doctype system keyword"} \subseteq DoctypeStates
    BY States DEF IdStates
<1>6. CASE DoctypeState
    BY <1>1, <1>3, <1>5, <1>6 DEF DoctypeState
<1>7. CASE BeforeDoctypeName
    BY <1>1, <1>2, <1>3, <1>5, <1>7 DEF BeforeDoctypeName
<1>8. CASE DoctypeName
    BY <1>2, <1>3, <1>4, <1>5, <1>8 DEF DoctypeName
<1>9. CASE AfterDoctypeName
  <2>1. ASSUME NEW word \in {"public", "system"}, NEW t \in DoctypeStates, c = word,
               NextChar(Past(To(t), <<word>>))
        PROVE  CoverInv'
    <3> DEFINE k == To(t)
    <3>1. At("after doctype name") /\ Lexing
        BY <1>9 DEF AfterDoctypeName, At
    <3>2. Stays(k, t, FALSE)
        BY <3>1, StaysHere
    <3> HIDE DEF k
    <3>3. Going(Past(k, <<word>>)) /\ Past(k, <<word>>).state = t
      <4>1. word # EOF
          BY DEF EOF
      <4> QED BY <2>1, <3>2, <4>1, OneWordPast
    <3> QED BY <2>1, <3>1, <3>3, FreeStates, FreeNext DEF k
  <2> QED BY <1>1, <1>2, <1>3, <1>5, <1>9, <2>1 DEF AfterDoctypeName
<1> QED BY <1>6, <1>7, <1>8, <1>9

\* Their identifiers.
LEMMA DoctypeIdsCover ==
    ASSUME CoverInv, IInv,
           \/ AfterDoctypePublicKeyword \/ BeforeDoctypePublicId \/ AfterDoctypeSystemKeyword
           \/ BeforeDoctypeSystemId \/ AfterDoctypePublicId \/ BetweenDoctypeIds
           \/ AfterDoctypeSystemId \/ BogusDoctype
    PROVE  CoverInv'
<1>1. ASSUME NEW s, At(s), NEW ends, DoctypeOver \/ DoctypeCutOff(ends) PROVE CoverInv'
    BY <1>1, FreeChanges, OverStep DEF DoctypeOver, DoctypeCutOff
<1>2. ASSUME NEW s \in DoctypeStates, At(s), DoctypeBlank \/ NextChar(lexer) PROVE CoverInv'
    BY <1>2, FreeChanges, FreeStep DEF DoctypeBlank
<1>3. ASSUME NEW s, At(s), NEW t \in DoctypeStates, NextChar(To(t)) \/ NextChar(Quirks(To(t)))
      PROVE  CoverInv'
    BY <1>3, FreeChanges, FreeStep
<1>4. ASSUME NEW s, At(s), EmitDoctype(To("data")) \/ EmitDoctype(Quirks(To("bogus doctype")))
      PROVE  CoverInv'
    BY <1>4, FreeChanges, OverStep
<1>5. ASSUME NEW s, At(s), IdBegins(PublicIdQuoted) \/ IdBegins(SystemIdQuoted) PROVE CoverInv'
    BY <1>3, <1>5, QuotedNames DEF IdBegins
<1>6. ASSUME NEW s, At(s), c = EOF, NextChar(Again(Quirks(To("data")))) PROVE CoverInv'
    BY <1>6, FreeChanges, EndStep
<1>7. {"after doctype public keyword", "before doctype public id", "after doctype public id",
       "between doctype ids", "after doctype system keyword", "before doctype system id",
       "after doctype system id", "bogus doctype"} \subseteq DoctypeStates
    BY States DEF IdStates
<1>8. CASE AfterDoctypePublicKeyword \/ BeforeDoctypePublicId
    BY <1>1, <1>2, <1>3, <1>4, <1>5, <1>7, <1>8
       DEF AfterDoctypePublicKeyword, BeforeDoctypePublicId
<1>9. CASE AfterDoctypeSystemKeyword \/ BeforeDoctypeSystemId
    BY <1>1, <1>2, <1>3, <1>5, <1>7, <1>9
       DEF AfterDoctypeSystemKeyword, BeforeDoctypeSystemId
<1>10. CASE AfterDoctypePublicId
    BY <1>1, <1>3, <1>5, <1>6, <1>7, <1>10 DEF AfterDoctypePublicId
<1>11. CASE BetweenDoctypeIds
    BY <1>1, <1>2, <1>4, <1>5, <1>7, <1>11 DEF BetweenDoctypeIds
<1>12. CASE AfterDoctypeSystemId \/ BogusDoctype
    BY <1>1, <1>2, <1>3, <1>4, <1>7, <1>12 DEF AfterDoctypeSystemId, BogusDoctype
<1> QED BY <1>8, <1>9, <1>10, <1>11, <1>12

\* An identifier in quotes.
LEMMA DoctypeIdCovers ==
    ASSUME CoverInv, IInv, NEW quote \in Quotes,
           \/ DoctypeId(PublicIdQuoted, quote, "after doctype public id")
           \/ DoctypeId(SystemIdQuoted, quote, "after doctype system id")
    PROVE  CoverInv'
<1>1. ASSUME NEW quoted, quoted[quote] \in DoctypeStates, NEW after \in DoctypeStates,
             DoctypeId(quoted, quote, after)
      PROVE  CoverInv'
  <2> DEFINE finished(l) == IF quoted = PublicIdQuoted THEN FinishPublicId(l) ELSE FinishSystemId(l)
             s == quoted[quote]
  <2>1. At(s) /\ s \in DoctypeStates
      BY <1>1 DEF DoctypeId
  <2>2. ASSUME NEW l, NEW t, Stays(l, t, FALSE) PROVE Stays(finished(l), t, FALSE)
      BY <2>2, StaysChanges
  <2>3. \/ NextChar(finished(To(after))) \/ EmitDoctype(finished(Quirks(To("data"))))
        \/ NextChar(AppendTemporary(lexer, <<Unnulled(c)>>))
      BY <1>1 DEF DoctypeId
  <2> HIDE DEF finished, s
  <2>4. CASE NextChar(finished(To(after)))
      BY <1>1, <2>1, <2>2, <2>4, FreeChanges, FreeStep
  <2>5. CASE EmitDoctype(finished(Quirks(To("data"))))
      BY <2>1, <2>2, <2>5, FreeChanges, OverStep
  <2>6. CASE NextChar(AppendTemporary(lexer, <<Unnulled(c)>>))
      BY <2>1, <2>6, FreeChanges, FreeStep
  <2> QED BY <2>3, <2>4, <2>5, <2>6
<1>2. {"after doctype public id", "after doctype system id"} \subseteq DoctypeStates
    BY States DEF IdStates
<1> QED BY <1>1, <1>2, QuotedNames

\* "<!" goes on with a comment, a doctype or a CDATA section
\* (handle_markup_declaration_state).
LEMMA CommentBegins ==
    ASSUME CoverInv, IInv, At("markup declaration"), Match(<<"-", "-">>),
           NextChar(Past(To("comment start"), <<"-", "-">>))
    PROVE  CoverInv'
<1> DEFINE k == To("comment start")
           l == Past(k, <<"-", "-">>)
<1>1. Stays(k, "comment start", FALSE) /\ Lexing /\ "-" # EOF
    BY StaysHere DEF EOF
<1>2. NextChar(l)
    OBVIOUS
<1> HIDE DEF k
<1>3. Going(l) /\ l.state = "comment start"
    BY <1>1, TwoPast
<1> HIDE DEF l
<1>4. IsFree("comment start")
    BY FreeStates DEF CommentStates
<1> QED BY <1>1, <1>2, <1>3, <1>4, FreeNext

\* One symbol is what the iterator is at.
LEMMA OneWordMatch ==
    ASSUME CoverInv, IInv, NEW x, Match(<<x>>)
    PROVE  c = x
<1> DEFINE word == <<x>>
<1>1. DOMAIN word = 1 .. 1 /\ word[1] = x
    OBVIOUS
<1>2. Match(word)
    OBVIOUS
<1> HIDE DEF word
<1>3. lexer.pos + 1 - 1 = lexer.pos /\ 1 \in 1 .. 1
    BY PlacesHere
<1> QED BY <1>1, <1>2, <1>3 DEF Match, Matches, c

\* "<!doctype" begins a doctype.
LEMMA DoctypeBegins ==
    ASSUME CoverInv, IInv, At("markup declaration"), Match(<<"doctype">>),
           NextChar([Past(To("doctype"), <<"doctype">>) EXCEPT !.doctype.open = TRUE])
    PROVE  CoverInv'
<1> DEFINE k == To("doctype")
           m == Past(k, <<"doctype">>)
           n == [m EXCEPT !.doctype.open = TRUE]
<1>1. Stays(k, "doctype", FALSE) /\ Lexing
    BY StaysHere
<1>2. c = "doctype" /\ "doctype" # EOF
    BY OneWordMatch DEF EOF
<1>3. NextChar(n)
    OBVIOUS
<1> HIDE DEF k
<1>4. Going(m) /\ m.state = "doctype"
    BY <1>1, <1>2, OneWordPast
<1> HIDE DEF m
<1>5. Going(n) /\ n.state = "doctype"
    BY <1>4 DEF Going, LexerFields
<1> HIDE DEF n
<1>6. IsFree("doctype")
    BY FreeStates DEF DoctypeStates, IdStates
<1> QED BY <1>1, <1>3, <1>5, <1>6, FreeNext

\* "<![CDATA[" begins a section, and is itself one of the marks that have no token.
LEMMA CdataBegins ==
    ASSUME CoverInv, IInv, At("markup declaration"), Match(<<"[CDATA[">>),
           NextChar(Past(To("cdata"), <<"[CDATA[">>))
    PROVE  CoverInv'
<1> DEFINE k == To("cdata")
           l == Past(k, <<"[CDATA[">>)
           mark == <<"<", "!", "[CDATA[">>
           p == lexer.pos - 2
<1>1. Stays(k, "cdata", FALSE) /\ Lexing /\ lexer.state = "markup declaration"
    BY StaysHere
<1>2. c = "[CDATA["
    BY OneWordMatch
<1>3. NextChar(l)
    OBVIOUS
<1>4. "[CDATA[" # EOF
    BY DEF EOF
<1>5. mark \in PassedOver
    BY DEF PassedOver
<1>6. Declares(lexer.start, lexer.pos)
    BY <1>1 DEF CoverInv, Covers, Placed
<1> HIDE DEF k, mark
<1>7. lexer.pos \in Nat /\ lexer.start \in Nat
    BY PlacesHere
<1>8. p \in Nat /\ p + 1 = lexer.pos - 1 /\ p + 2 = lexer.pos /\ p + 3 = lexer.pos + 1
  <2>1. lexer.start + 2 <= lexer.pos
      BY <1>6 DEF Declares
  <2> HIDE DEF l
  <2> QED BY <1>7, <2>1, TwoBefore
<1>9. OpensAt(lexer.start, p) /\ CharAt(lexer.pos - 1) = "!"
    BY <1>6 DEF Declares
<1> HIDE DEF p
<1>10. CharAt(p) = "<" /\ CharAt(p + 1) = "!" /\ CharAt(p + 2) = "[CDATA["
    BY <1>2, <1>8, <1>9 DEF OpensAt, IsOpen, c
<1>11. Matches(p, mark)
    BY <1>8, <1>10, ThreeMatch DEF mark
<1>12. Skipped(lexer.start, lexer.pos + 1)
  <2>1. Skipped(lexer.start, p + 3)
      BY <1>5, <1>7, <1>8, <1>9, <1>11, SkippedOn
  <2> QED BY <1>8, <2>1
<1>13. Going(l) /\ l.state = "cdata" /\ Settled(l).pos = lexer.pos + 1
    BY <1>1, <1>2, <1>4, OneWordPast
<1> HIDE DEF l
<1>14. "cdata" \notin RefStates \cup KeptStates \cup AttributeStates
  <2>1. "cdata" \in PlainStates
      BY TextNames
  <2> QED BY <2>1, Loosened DEF Loosens
<1>15. Placed("cdata", lexer.pos + 1, lexer.start, l.mark)
    BY <1>12, <1>14 DEF Placed, TextFrom
<1> QED BY <1>1, <1>3, <1>13, <1>15, StepTo DEF IInv

\* Behind "<!" (handle_markup_declaration_state).
LEMMA MarkupDeclarationCovers ==
    ASSUME CoverInv, IInv, MarkupDeclaration
    PROVE  CoverInv'
<1>1. At("markup declaration")
    BY DEF MarkupDeclaration
<1>2. CASE NextChar(Again(ClearTemporary(To("bogus comment"))))
  <2>1. "bogus comment" \in CommentStates
      BY DEF CommentStates
  <2> QED BY <1>1, <1>2, <2>1, FreeChanges, FreeStep
<1> QED BY <1>1, <1>2, CommentBegins, DoctypeBegins, CdataBegins DEF MarkupDeclaration

-----------------------------------------------------------------------------
(* CDATA sections. *)

\* The end of a section is passed over without a token.
LEMMA CoverMoved ==
    ASSUME CoverInv, Lexing, NEW l, NextChar(l), Covers(Settled(l)),
           IsPassedOver(lexer.start, Settled(l).start), lexer.start <= Settled(l).start
    PROVE  CoverInv'
<1>1. lexer' = Settled(l) /\ input' = input /\ tokens' = tokens /\ turn' = turn
    BY DEF NextChar
<1>2. Covers(lexer)'
    BY <1>1, CoversNext
<1>3. IsTokens' /\ TokensCovered' /\ LastTo' = LastTo
    BY <1>1, TokensKept DEF CoverInv
<1>4. /\ LastTo \in Nat /\ lexer.start \in Nat /\ Settled(l).start \in Nat
      /\ LastTo <= lexer.start /\ IsPassedOver(LastTo, lexer.start)
    BY DEF CoverInv, Covers, IsAt
<1>5. (LastTo \in Nat /\ LastTo <= lexer.start)'
  <2>1. LastTo <= Settled(l).start
      BY <1>4
  <2> QED BY <1>1, <1>3, <1>4, <2>1
<1>6. IsPassedOver(LastTo, lexer.start)'
  <2>1. IsPassedOver(LastTo', lexer'.start)
      BY <1>1, <1>3, <1>4, PassedOn
  <2> QED BY <1>1, <2>1, SameText
<1>7. ~Finished'
    BY <1>1 DEF CoverInv, Finished
<1> QED BY <1>1, <1>2, <1>3, <1>5, <1>6, <1>7 DEF CoverInv, Lexing

\* "]]>" is passed over where it is (handle_cdata_state).
LEMMA CdataCovers ==
    ASSUME CoverInv, IInv, Cdata
    PROVE  CoverInv'
<1> DEFINE end == IF c = EOF THEN lexer.pos ELSE lexer.pos + 3
           k == Again(To("data"))
           l == [k EXCEPT !.pos = end, !.start = end]
<1>1. At("cdata") /\ Lexing /\ lexer.state = "cdata" /\ "cdata" \in PlainStates
    BY TextNames DEF Cdata, At
<1>2. CASE EmitChar(lexer, c)
    BY <1>1, <1>2, StaysHere, TextNames, CharStep
<1>3. CASE CdataEnd /\ NextChar(l)
  <2>1. Stays(k, "data", TRUE)
      BY <1>1, FreeChanges, StaysHere, StaysChanges
  <2>2. Skipped(lexer.start, lexer.pos)
      BY <1>1 DEF CoverInv, Covers, Placed
  <2>3. /\ lexer.start \in Nat /\ lexer.pos \in Nat /\ lexer.pos \in Nat \ {0}
        /\ lexer.pos <= Len(input) + 1 /\ lexer.start <= lexer.pos /\ Len(input) \in Nat /\ IsInput
      BY PlacesHere
  <2>4. /\ end \in Nat \ {0} /\ lexer.pos <= end /\ end <= Len(input) + 1
        /\ IsPassedOver(lexer.pos, end)
    <3> HIDE DEF k, l
    <3>1. CASE c = EOF
      <4>1. end = lexer.pos
          BY <3>1
      <4> QED BY <2>3, <4>1, SkippedNone
    <3>2. CASE c # EOF
      <4> DEFINE mark == <<"]", "]", ">">>
      <4>1. end = lexer.pos + 3
          BY <3>2
      <4>2. Matches(lexer.pos, mark)
          BY <1>3, <3>2 DEF CdataEnd, Match
      <4>3. mark \in PassedOver /\ DOMAIN mark = 1 .. 3 /\ mark[3] # EOF
          BY DEF PassedOver, EOF
      <4> HIDE DEF mark, end
      <4>4. IsPassedOver(lexer.pos, end)
          BY <2>3, <4>1, <4>2, <4>3, MarkPassed
      <4>5. CharAt(lexer.pos + 3 - 1) # EOF
        <5>1. 3 \in 1 .. 3
            BY ThirdOfThree
        <5> QED BY <4>2, <4>3, <5>1 DEF Matches
      <4>6. lexer.pos + 3 - 1 \in Nat \ {0}
          BY <2>3, ThreeOn
      <4>7. lexer.pos + 3 - 1 <= Len(input)
          BY <2>3, <4>5, <4>6, AtTheEnd
      <4>8. lexer.pos + 3 \in Nat \ {0} /\ lexer.pos <= lexer.pos + 3
            /\ lexer.pos + 3 <= Len(input) + 1
          BY <2>3, <4>7, ThreeOn
      <4> QED BY <4>1, <4>4, <4>8
    <3> QED BY <3>1, <3>2
  <2>5. NextChar(l)
      BY <1>3
  <2> HIDE DEF end, k
  <2>6. /\ DOMAIN l = LexerFields /\ l.state = "data" /\ l.again = TRUE /\ l.start = end
        /\ l.pos = end /\ l.flush = 0 /\ l.extra = NoChar
      BY <2>1 DEF Stays, LexerFields
  <2> HIDE DEF l
  <2>7. /\ Settled(l).pos = end /\ Settled(l).start = end /\ Settled(l).state = "data"
        /\ Settled(l).flush = 0 /\ Settled(l).extra = NoChar
      BY <2>3, <2>4, <2>6, SettledAt
  <2>8. Covers(Settled(l))
    <3>1. IsAt(Settled(l).pos, Settled(l).start)
        BY <2>4, <2>7 DEF IsAt
    <3>2. Placed(Settled(l).state, Settled(l).pos, Settled(l).start, Settled(l).mark)
        BY <2>4, <2>7, FreeStates, CoversLoose
    <3> QED BY <2>7, <3>1, <3>2 DEF Covers
  <2>9. IsPassedOver(lexer.start, end) /\ lexer.start <= end
    <3>1. lexer.start <= end
        BY <2>3, <2>4
    <3> QED BY <2>2, <2>3, <2>4, <3>1, PassedOn DEF Skipped
  <2> QED BY <1>1, <2>5, <2>7, <2>8, <2>9, CoverMoved
<1> QED BY <1>2, <1>3 DEF Cdata

-----------------------------------------------------------------------------
(* The invariant. *)

\* At the start nothing has been read.
LEMMA CoverInit == Init => CoverInv
<1> SUFFICES ASSUME Init PROVE CoverInv
    OBVIOUS
<1>1. lexer = InitialLexer /\ tokens = <<>> /\ turn = "lexer" /\ IsInput
    BY InitSound DEF Init, IInv
<1>2. /\ lexer.state = "data" /\ lexer.pos = 1 /\ lexer.start = 1 /\ lexer.flush = 0
      /\ lexer.extra = NoChar
    BY <1>1 DEF InitialLexer
<1>3. IsAt(1, 1)
    BY <1>1 DEF IsAt, IsInput
<1>4. Placed("data", 1, 1, lexer.mark)
  <2>1. \A p \in Nat : Placed("data", p, p, lexer.mark)
      BY FreeStates, CoversLoose
  <2> QED BY <1>3, <2>1 DEF IsAt
<1>5. Covers(lexer)
    BY <1>2, <1>3, <1>4 DEF Covers
<1>6. IsTokens /\ TokensCovered
  <2>1. tokens \in Seq({}) /\ DOMAIN tokens = {}
      BY <1>1
  <2> QED BY <2>1 DEF IsTokens, TokensCovered
<1>7. LastTo = 1 /\ ~Finished
    BY <1>1 DEF LastTo, Finished
<1>8. LastTo \in Nat /\ LastTo <= lexer.start /\ IsPassedOver(LastTo, lexer.start)
  <2>1. \A p \in Nat : IsPassedOver(p, p)
      BY SkippedNone
  <2>2. 1 \in Nat /\ 1 <= 1
      BY <1>3 DEF IsAt
  <2> QED BY <1>2, <1>7, <2>1, <2>2
<1>9. turn # "parser"
    BY <1>1
<1> QED BY <1>5, <1>6, <1>7, <1>8, <1>9 DEF CoverInv

\* What the parser notes in a token leaves its text alone.
LEMMA NotedToken ==
    ASSUME NEW t, NEW state, TokenIsCovered(t)
    PROVE  LET u == [t EXCEPT !.then = state]
           IN  TokenIsCovered(u) /\ u.type = t.type /\ u.from = t.from /\ u.to = t.to
<1> DEFINE u == [t EXCEPT !.then = state]
<1>1. {"type", "from", "to", "then"} \subseteq DOMAIN t
    BY DEF TokenIsCovered
<1>2. /\ DOMAIN u = DOMAIN t /\ u.type = t.type /\ u.from = t.from /\ u.to = t.to
      /\ "char" \in DOMAIN t => u.char = t.char
    BY <1>1
<1> HIDE DEF u
<1>3. IsChar(u) <=> IsChar(t)
    BY <1>2 DEF IsChar
<1>4. IsChar(t) => CharIsFound(u)
    BY <1>2 DEF TokenIsCovered, CharIsFound
<1>5. TagIsFound(t) <=> TagIsFound(u)
    BY <1>2 DEF TagIsFound, TextOfToken
<1>6. TokenIsCovered(u)
    BY <1>1, <1>2, <1>3, <1>4, <1>5 DEF TokenIsCovered
<1> QED BY <1>2, <1>6 DEF u

\* Neither do the tokens before it change.
LEMMA NotedTokens ==
    ASSUME CoverInv, ~Finished, input' = input, NEW state,
           tokens' = [tokens EXCEPT ![Len(tokens)].then = state]
    PROVE  IsTokens' /\ TokensCovered' /\ LastTo' = LastTo /\ ~Finished'
<1> DEFINE n   == Len(tokens)
           t   == [tokens[n] EXCEPT !.then = state]
           new == [tokens EXCEPT ![n] = t]
<1>1. tokens' = new
    OBVIOUS
<1>2. PICK S : tokens \in Seq(S)
    BY DEF CoverInv, IsTokens
<1>3. DOMAIN tokens = 1 .. n /\ n \in Nat
    BY <1>2, LenProperties
<1>4. /\ DOMAIN new = DOMAIN tokens
      /\ \A i \in DOMAIN tokens : i # n => new[i] = tokens[i]
      /\ n \in DOMAIN tokens => new[n] = t
    OBVIOUS
<1>5. \E T : new \in Seq(T) /\ Len(new) = n
  <2>1. tokens \in Seq(S \cup {t}) /\ t \in S \cup {t}
      BY <1>2
  <2>2. CASE n \in 1 .. n
      BY <2>1, <2>2, ExceptSeq
  <2>3. CASE n \notin 1 .. n
    <3>1. new = tokens
        BY <1>2, <1>3, <2>3
    <3> QED BY <1>2, <3>1
  <2> QED BY <2>2, <2>3
<1>6. ASSUME NEW i \in DOMAIN tokens
      PROVE  /\ TokenIsCovered(new[i]) /\ new[i].type = tokens[i].type
             /\ new[i].from = tokens[i].from /\ new[i].to = tokens[i].to
  <2> HIDE DEF new
  <2>1. TokenIsCovered(tokens[i])
      BY DEF CoverInv, TokensCovered
  <2>2. CASE i # n
      BY <1>4, <2>1, <2>2
  <2>3. CASE i = n
    <3>1. new[i] = [tokens[i] EXCEPT !.then = state]
        BY <1>4, <2>3
    <3> DEFINE u == [tokens[i] EXCEPT !.then = state]
    <3>2. TokenIsCovered(u) /\ u.type = tokens[i].type /\ u.from = tokens[i].from
          /\ u.to = tokens[i].to
        BY <2>1, NotedToken
    <3> HIDE DEF u
    <3> QED BY <3>1, <3>2 DEF u
  <2> QED BY <2>2, <2>3
<1> HIDE DEF new, t
<1>7. IsTokens'
    BY <1>1, <1>5 DEF IsTokens
<1>8. tokens' = <<>> <=> tokens = <<>>
    BY <1>1, <1>2, <1>5, EmptySeq
<1>9. tokens # <<>> => n \in DOMAIN tokens
    BY <1>2, <1>3, EmptySeq
<1>10. LastTo' = LastTo
    BY <1>1, <1>5, <1>6, <1>8, <1>9 DEF LastTo
<1>11. ~Finished'
    BY <1>1, <1>5, <1>6, <1>8, <1>9 DEF Finished, Last
<1>12. ASSUME NEW i \in DOMAIN tokens' PROVE TokenIsCovered(tokens[i])'
    BY <1>1, <1>4, <1>6, <1>12, TokenNext
<1>13. ASSUME NEW i \in DOMAIN tokens', i # Len(tokens') PROVE tokens'[i].type # "eof"
    BY <1>1, <1>4, <1>5, <1>6, <1>13 DEF CoverInv, TokensCovered
<1>14. ASSUME NEW i \in DOMAIN tokens'
       PROVE  IsPassedOver(IF i = 1 THEN 1 ELSE tokens[i - 1].to, tokens[i].from)'
  <2>1. i \in DOMAIN tokens /\ (i # 1 => i - 1 \in DOMAIN tokens)
      BY <1>1, <1>3, <1>4, <1>14
  <2>2. IsPassedOver(IF i = 1 THEN 1 ELSE tokens[i - 1].to, tokens[i].from)
      BY <2>1 DEF CoverInv, TokensCovered
  <2>3. IsPassedOver(IF i = 1 THEN 1 ELSE tokens'[i - 1].to, tokens'[i].from)
      BY <1>1, <1>6, <2>1, <2>2
  <2> QED BY <2>3, SameText
<1> QED BY <1>7, <1>10, <1>11, <1>12, <1>13, <1>14 DEF TokensCovered

\* The parser may switch to the text of an element, at whose start the iterator is.
LEMMA ReactCovers ==
    ASSUME CoverInv, IInv, React
    PROVE  CoverInv'
<1>1. PICK state \in Switches(Last(tokens)), foreign \in Foreigns(Last(tokens)) :
        /\ lexer'  = [lexer EXCEPT !.state = state, !.foreign = foreign]
        /\ tokens' = [tokens EXCEPT ![Len(tokens)].then = state]
    BY DEF React
<1>2. /\ input' = input /\ DOMAIN lexer = LexerFields /\ turn' = "lexer" /\ ~Finished
      /\ lexer.start = lexer.pos
    BY DEF React, IInv, Parts, IsLexer, CoverInv
<1>3. /\ lexer'.pos = lexer.pos /\ lexer'.start = lexer.start /\ lexer'.mark = lexer.mark
      /\ lexer'.flush = lexer.flush /\ lexer'.extra = lexer.extra /\ lexer'.state = state
    BY <1>1, <1>2 DEF LexerFields
<1>4. state = lexer.state \/ state \in PlainStates
    BY <1>1, TextStates DEF Switches, PlainStates, EndStates
<1>5. Covers(lexer')
  <2>1. IsAt(lexer'.pos, lexer'.start) /\ lexer.pos \in Nat
      BY <1>3 DEF CoverInv, Covers, IsAt
  <2>2. Placed(state, lexer.pos, lexer.start, lexer.mark)
    <3>1. CASE state = lexer.state
        BY <3>1 DEF CoverInv, Covers
    <3>2. CASE state \in PlainStates
      <4>1. Placed(state, lexer.pos, lexer.pos, lexer.mark)
          BY <2>1, <3>2, Loosened, CoversLoose
      <4> QED BY <1>2, <4>1
    <3> QED BY <1>4, <3>1, <3>2
  <2>3. /\ lexer'.flush # 0 => lexer'.state \in PlainStates /\ lexer'.start = lexer'.pos
        /\ lexer'.extra # NoChar => lexer'.extra = "v" /\ lexer'.start = lexer'.pos
      BY <1>3, <1>4 DEF CoverInv, Covers
  <2>4. Placed(lexer'.state, lexer'.pos, lexer'.start, lexer'.mark)
      BY <1>3, <2>2
  <2> QED BY <2>1, <2>3, <2>4 DEF Covers
<1>6. Covers(lexer)'
    BY <1>2, <1>5, CoversNext
<1>7. IsTokens' /\ TokensCovered' /\ LastTo' = LastTo /\ ~Finished'
    BY <1>1, <1>2, NotedTokens
<1>8. IsPassedOver(LastTo, lexer.start)'
  <2>1. IsPassedOver(LastTo', lexer'.start)
      BY <1>3, <1>7 DEF CoverInv
  <2> QED BY <1>2, <2>1, SameText
<1>9. (LastTo \in Nat /\ LastTo <= lexer.start)'
    BY <1>3, <1>7 DEF CoverInv
<1> QED BY <1>2, <1>6, <1>7, <1>8, <1>9 DEF CoverInv

\* Every step of the tokenizer keeps the invariant,
LEMMA CoverHolds ==
    ASSUME CoverInv, IInv, OwnInv, Next
    PROVE  CoverInv'
<1>1. CASE BufferedChar \/ FlushTemporary
    BY <1>1, BufferedOut, FlushOut
<1>2. CASE TextState
    BY <1>2, DataCovers, RawCovers, ScriptCovers, LessThanCovers, EndTagOpenCovers,
       EndTagNameCovers DEF TextState
<1>3. CASE TagState
    BY <1>3, TagOpenCovers, EndTagOpenStateCovers, NamesCover, BeforeAttrValueCovers, ValuesCover,
       CharRefInAttrValueCovers, AfterValueCovers DEF TagState
<1>4. CASE MarkupState
    BY <1>4, BogusCommentCovers, MarkupDeclarationCovers, CommentsCover, DoctypeNamesCover,
       DoctypeIdsCover, DoctypeIdCovers, CdataCovers DEF MarkupState
<1>5. CASE React
    BY <1>5, ReactCovers
<1> QED BY <1>1, <1>2, <1>3, <1>4, <1>5 DEF Next

\* stuttering steps as well;
LEMMA CoverSound == IInv /\ OwnInv /\ CoverInv /\ [Next]_vars => CoverInv'
<1> SUFFICES ASSUME IInv, OwnInv, CoverInv, [Next]_vars PROVE CoverInv'
    OBVIOUS
<1>1. CASE UNCHANGED vars
  <2>1. lexer' = lexer /\ input' = input /\ tokens' = tokens /\ turn' = turn
      BY <1>1 DEF vars
  <2>2. Covers(lexer)'
      BY <2>1, CoversNext DEF CoverInv
  <2>3. IsTokens' /\ TokensCovered' /\ LastTo' = LastTo
      BY <2>1, TokensKept DEF CoverInv
  <2>4. IsPassedOver(LastTo, lexer.start)'
    <3>1. IsPassedOver(LastTo', lexer'.start)
        BY <2>1, <2>3 DEF CoverInv
    <3> QED BY <2>1, <3>1, SameText
  <2>5. (LastTo \in Nat /\ LastTo <= lexer.start)'
      BY <2>1, <2>3 DEF CoverInv
  <2>6. (Lexing => ~Finished)' /\ (turn = "parser" => lexer.start = lexer.pos)'
      BY <2>1 DEF CoverInv, Lexing, Finished
  <2> QED BY <2>2, <2>3, <2>4, <2>5, <2>6 DEF CoverInv
<1> QED BY <1>1, CoverHolds

\* and it implies the property.
LEMMA CoverImplies == CoverInv => TextIsCovered
<1> SUFFICES ASSUME CoverInv, NEW i \in DOMAIN tokens
             PROVE  /\ IsPassedOver(IF i = 1 THEN 1 ELSE tokens[i - 1].to, tokens[i].from)
                    /\ IsChar(tokens[i]) => CharIsFound(tokens[i])
                    /\ tokens[i].type \in {"start", "end"} => TagIsFound(tokens[i])
                    /\ tokens[i].type = "eof" => i = Len(tokens) /\ tokens[i].to = Len(input) + 1
    BY DEF TextIsCovered
<1> QED BY DEF CoverInv, TokensCovered, TokenIsCovered

\* Whatever the document: its text is in the tokens from its start to its end, with
\* nothing lost or read twice but "</>" and the marks of CDATA, however often the
\* iterator went back to its mark; a character is the text that it stands for, a tag
\* goes from "<" to ">", and the end comes last and at the end (finish_token,
\* emit_temporary_buffer, emit_char_ref; asserts of tokenizer.c at 554-556).
THEOREM NothingIsLost == Spec => []TextIsCovered
<1>1. Init => IInv /\ OwnInv /\ CoverInv
    BY InitSound, OwnInit, CoverInit
<1>2. IInv /\ OwnInv /\ CoverInv /\ [Next]_vars => (IInv /\ OwnInv /\ CoverInv)'
    BY NextSound, OwnSound, CoverSound
<1>3. IInv /\ OwnInv /\ CoverInv => TextIsCovered
    BY CoverImplies
<1> QED BY <1>1, <1>2, <1>3, PTL DEF Spec
=============================================================================
