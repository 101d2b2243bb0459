------------------------------- MODULE TopTod -------------------------------
(***************************************************************************)
(* toptod.tcl: the daily word counts of the logged channels.               *)
(*                                                                         *)
(* State of the script: three parallel lists in memory (nicks, counts,     *)
(* last lines), the file toptod.save (date, nicks, counts), and the        *)
(* history file that receives the file of an earlier day when the first    *)
(* line of a new day is saved.  Eggdrop runs one handler at a time; what   *)
(* interleaves is the order of lines, the midnight bind, the date change,  *)
(* restarts and crashes, and a crash may strike in the middle of a save.   *)
(*                                                                         *)
(* Queries (toptodpub and the savetohtml run on every line) only read the  *)
(* lists: module TopPage models them.                                      *)
(***************************************************************************)
EXTENDS TopRank

CONSTANTS
    todlogchannel,  \* sequence of logged channels
    Channels,       \* channels the bot is on, logged or not
    Bots,           \* names with the flag +b
    Niks,           \* names a line is counted under (handle, or nick if unknown)
    Matches,        \* [Niks -> Niks]: what the glob pattern of a name matches; the
                    \* name itself, except for names with a backslash
    Texts,          \* lines, after the clean-up of the text
    WordsOf,        \* [Texts -> Nat]: number of words
    Dash,           \* the line "-", also what resume puts in todlastcomlist
    NoText,         \* the empty last line of a new entry
    NoFile,         \* value of a file that does not exist
    MayFail,        \* whether opening a file for writing may fail
    MaxDay, MaxEntries, MaxWords, MaxHistory    \* bounds for model checking

LogChans == {todlogchannel[k] : k \in DOMAIN todlogchannel}
Keys     == LogChans \X Niks

ASSUME TopTodAssumption ==
    /\ todlogchannel \in Seq(Channels) /\ todlogchannel # <<>>
    /\ Matches \in [Niks -> Niks]
    /\ WordsOf \in [Texts -> Nat \ {0}]
    /\ Dash \in Texts /\ NoText \notin Texts
    /\ MayFail \in BOOLEAN
    /\ MaxDay \in Nat /\ {MaxEntries, MaxWords, MaxHistory} \subseteq Nat

\* A name whose lsearch pattern finds exactly itself.
Plain(n) == Matches[n] = n

VARIABLES
    today,          \* the date
    midnight,       \* the "00 00" time bind of today has not run yet
    up,             \* the bot runs
    todnicklist, todwordcount, todlastcomlist,
    savefile,       \* toptod.save
    history,        \* toptodhistory.save, one record per append
    said,           \* history variable: words counted today, per key
    exact           \* history variable: nothing has disturbed today's counts

lists == <<todnicklist, todwordcount, todlastcomlist>>
files == <<savefile, history>>
vars  == <<today, midnight, up, lists, files, said, exact>>

NoDate == 0                        \* first line of an empty file
Dates  == Nat
Counts == [w : Nat, i : Nat]
Record(d, nl, wc) == [date |-> d, nicks |-> nl, words |-> wc]
Records == [date : Dates, nicks : Seq(Keys), words : Seq(Counts)]
Zero == [k \in Keys |-> 0]

ASSUME NoFileAssumption == NoFile \notin Records

TypeOK ==
    /\ today \in Nat \ {0}
    /\ midnight \in BOOLEAN /\ up \in BOOLEAN /\ exact \in BOOLEAN
    /\ todnicklist \in Seq(Keys)
    /\ todwordcount \in Seq(Counts)
    /\ todlastcomlist \in Seq(Texts \cup {NoText})
    /\ savefile \in Records \cup {NoFile}
    /\ history \in Seq(Records)
    /\ said \in [Keys -> Nat]

(* Counting and saving.                                                    *)

\* Mutant of Hits: the search leaves out the channel prefix and finds nothing.
HitsWithoutChannel(c, n) == {}

\* Positions lsearch could return for the name n in channel c; it returns the first.
Hits(c, n) ==
    {p \in DOMAIN todnicklist : todnicklist[p] = <<c, Matches[n]>>}
First(S) == CHOOSE p \in S : \A q \in S : p <= q

\* todnicklist, todwordcount and todlastcomlist once c:n has an entry at Slot.
Slot(c, n) ==
    IF Hits(c, n) # {} THEN First(Hits(c, n)) ELSE Len(todnicklist) + 1
Nicks(c, n) ==
    IF Hits(c, n) # {} THEN todnicklist ELSE Append(todnicklist, <<c, n>>)
CountsWith(c, n) ==
    IF Hits(c, n) # {} THEN todwordcount
    ELSE Append(todwordcount, Count(0, Len(todnicklist)))
LastsWith(c, n) ==
    IF Hits(c, n) # {} THEN todlastcomlist ELSE Append(todlastcomlist, NoText)

\* A line equal to the previous line of its entry is not counted.
Repeated(c, n, t) == LastsWith(c, n)[Slot(c, n)] = t

NewCounts(c, n, t) ==
    LET p == Slot(c, n)
    IN  [CountsWith(c, n) EXCEPT ![p] = Count(@.w + WordsOf[t], p - 1)]
NewLasts(c, n, t) == [LastsWith(c, n) EXCEPT ![Slot(c, n)] = t]

\* Mutants of Archive: a file that could not be opened is appended as well; memory is
\* appended in place of the file; the record carries the date of the append.
ArchiveMissing ==
    IF savefile # NoFile => savefile.date # today
    THEN Append(history, savefile) ELSE history
ArchiveMemory ==
    IF savefile # NoFile /\ savefile.date # today
    THEN Append(history, Record(savefile.date, todnicklist, todwordcount)) ELSE history
ArchiveUnderToday ==
    IF savefile # NoFile /\ savefile.date # today
    THEN Append(history, [savefile EXCEPT !.date = today]) ELSE history

\* The first save of a day appends the file it finds to the history.
Archive ==
    IF savefile # NoFile /\ savefile.date # today
    THEN Append(history, savefile) ELSE history

\* savetoptod toptod.save w today; an open that fails leaves its file alone.
savetoptod(nl, wc) ==
    \E histOk \in {TRUE, ~MayFail}, saveOk \in {TRUE, ~MayFail} :
        /\ history' = IF histOk THEN Archive ELSE history
        /\ savefile' = IF saveOk THEN Record(today, nl, wc) ELSE savefile
        /\ exact' = (exact /\ histOk /\ saveOk)

Bounded(c, n, t) ==
    /\ Slot(c, n) <= MaxEntries /\ Len(Archive) <= MaxHistory
    /\ said[Nicks(c, n)[Slot(c, n)]] + WordsOf[t] <= MaxWords

\* Lines that are counted come from a logged channel, not from a bot, and differ
\* from the previous line of their entry; count_words_tod returns at others.
Counted(c, n, t) ==
    /\ c \in LogChans /\ n \notin Bots
    /\ ~Repeated(c, n, t)

CountLine(c, n, t) ==
    /\ up /\ Counted(c, n, t) /\ Bounded(c, n, t)
    /\ todnicklist' = Nicks(c, n)
    /\ todwordcount' = NewCounts(c, n, t)
    /\ todlastcomlist' = NewLasts(c, n, t)
    /\ savetoptod(Nicks(c, n), NewCounts(c, n, t))
    /\ said' = [said EXCEPT ![Nicks(c, n)[Slot(c, n)]] = @ + WordsOf[t]]
    /\ UNCHANGED <<today, midnight, up>>

-----------------------------------------------------------------------------
(* Midnight.  The date changes by itself.  The "00 00" bind runs during the *)
(* first minute of the day, after any lines that came in first, or never,   *)
(* when the bot is down or blocked for the whole minute.                    *)

NewDay ==
    /\ today < MaxDay /\ ~midnight
    /\ today' = today + 1
    /\ midnight' = TRUE
    /\ said' = Zero
    /\ exact' = (todnicklist = <<>>)
    /\ UNCHANGED <<up, lists, files>>

\* cleartod empties the lists in memory and leaves the file alone.
cleartod ==
    /\ up /\ midnight
    /\ midnight' = FALSE
    /\ todnicklist' = <<>> /\ todwordcount' = <<>> /\ todlastcomlist' = <<>>
    /\ exact' = (said = Zero)
    /\ UNCHANGED <<today, up, files, said>>

MissMinute ==
    /\ midnight
    /\ midnight' = FALSE
    /\ UNCHANGED <<today, up, lists, files, said, exact>>

-----------------------------------------------------------------------------
(* Restarts and crashes.                                                   *)

\* Mutants of Resumable: no check of the lengths; no check of the date.
ResumableUnequal == savefile # NoFile /\ savefile.date = today
ResumableAnyDay ==
    savefile # NoFile /\ Len(savefile.nicks) = Len(savefile.words)

\* resumetoptod: a file of today is loaded unless its two lists differ in length;
\* the last lines are not saved and come back as "-".
Resumable ==
    /\ savefile # NoFile
    /\ savefile.date = today
    /\ Len(savefile.nicks) = Len(savefile.words)

LoadLists ==
    /\ todnicklist' = IF Resumable THEN savefile.nicks ELSE <<>>
    /\ todwordcount' = IF Resumable THEN savefile.words ELSE <<>>
    /\ todlastcomlist' =
         IF Resumable THEN [p \in DOMAIN savefile.nicks |-> Dash] ELSE <<>>
    /\ exact' = (exact \/ said = Zero)
    /\ UNCHANGED <<today, midnight, files, said>>

Start  == ~up /\ up' = TRUE /\ LoadLists
Rehash == up /\ UNCHANGED up /\ LoadLists

LoseMemory ==
    /\ up' = FALSE
    /\ todnicklist' = <<>> /\ todwordcount' = <<>> /\ todlastcomlist' = <<>>

\* The process ends between two handlers.
Stop ==
    /\ up /\ LoseMemory
    /\ UNCHANGED <<today, midnight, files, said, exact>>

\* The process dies inside savetoptod: after the append to the history, after the
\* open that empties toptod.save, or with only the first m counts written.
CrashInSave(c, n, t) ==
    /\ up /\ Counted(c, n, t) /\ Bounded(c, n, t) /\ LoseMemory
    /\ history' = Archive
    /\ \/ savefile' = savefile
       \/ savefile' = Record(NoDate, <<>>, <<>>)
       \/ \E m \in 0 .. Len(NewCounts(c, n, t)) :
            savefile' = Record(today, Nicks(c, n), SubSeq(NewCounts(c, n, t), 1, m))
    /\ said' = [said EXCEPT ![Nicks(c, n)[Slot(c, n)]] = @ + WordsOf[t]]
    /\ exact' = FALSE
    /\ UNCHANGED <<today, midnight>>

-----------------------------------------------------------------------------
Init ==
    /\ today = 1 /\ midnight = FALSE /\ up = TRUE
    /\ todnicklist = <<>> /\ todwordcount = <<>> /\ todlastcomlist = <<>>
    /\ savefile = NoFile /\ history = <<>>
    /\ said = Zero /\ exact = TRUE

Next ==
    \/ \E c \in Channels, n \in Niks, t \in Texts :
         CountLine(c, n, t) \/ CrashInSave(c, n, t)
    \/ NewDay \/ cleartod \/ MissMinute
    \/ Start \/ Rehash \/ Stop

Spec == Init /\ [][Next]_vars

-----------------------------------------------------------------------------
(* Correctness.                                                            *)

\* The three lists stay parallel and the index inside each count is the position
\* of its entry, although lists are rebuilt from a file that a crash may have cut
\* short: toptodpub finds the nick of a sorted count through that index.
ListsAligned ==
    /\ Len(todwordcount) = Len(todnicklist)
    /\ Len(todlastcomlist) = Len(todnicklist)
    /\ \A p \in DOMAIN todwordcount : todwordcount[p].i = p - 1

\* A name never has two entries, so no one's words are split over two rows.
\* Names that do not match themselves as a pattern are left out: each of their
\* lines that finds no entry appends another one.
OneEntryPerNick ==
    \A p, q \in DOMAIN todnicklist :
        todnicklist[p] = todnicklist[q] /\ Plain(NickOf(todnicklist[p])) => p = q

\* Unless the midnight bind came late or not at all, or a save failed or was cut
\* by a crash, memory shows exactly the words counted today, across any restarts,
\* rehashes and archived days.
ExactToday ==
    exact /\ up =>
        \A k \in Keys : Plain(NickOf(k)) =>
            IF \E p \in DOMAIN todnicklist : todnicklist[p] = k
            THEN \A p \in DOMAIN todnicklist :
                    todnicklist[p] = k => todwordcount[p].w = said[k]
            ELSE said[k] = 0

\* The history is in the order of the days and holds past days only; a day can be
\* appended twice (a crash or a failed open between the append and the rewrite),
\* and then with the same contents.
HistoryOrdered ==
    \A i, j \in DOMAIN history :
        history[i].date # NoDate /\ history[j].date # NoDate =>
            /\ history[i].date < today
            /\ i < j => history[i].date <= history[j].date
            /\ history[i].date = history[j].date => history[i] = history[j]

\* No step replaces the file of an earlier day without that file being the last
\* record of the history, crash or not (opens do not fail: MayFail = FALSE).
HistoryKeepsDay ==
    [][savefile # NoFile /\ savefile' # savefile /\ savefile.date # today =>
         history' # <<>> /\ history'[Len(history')] = savefile]_vars
=============================================================================
