------------------------------- MODULE Readline -------------------------------
(***************************************************************************)
(* The line editor of the shell (readline.c) with its history and with the *)
(* completion of command.c, in the loop of shell_task, and the terminal    *)
(* that shows what the editor sends.                                       *)
(*                                                                         *)
(* A step is one key, from getchar_ex to the fflush before the next one:   *)
(* the terminals block for the first character, so EOF does not occur.     *)
(* A line is the string up to its terminator.  Of the bytes behind it the  *)
(* last one of the buffer is kept: it ends a recalled line of full length. *)
(* When the program leaves the buffer, what it reads and overwrites is     *)
(* another part of the task's stack, and the model goes no further.        *)
(***************************************************************************)
EXTENDS Integers, Sequences, FiniteSetsExt, SequencesExt

CONSTANTS
    Blank, Chars,   \* the space, and the characters that are typed (with it)
    Commands,       \* the names in the command table, in its order
    LineSize,       \* size of the line buffer, with the terminator (80)
    HistSize,       \* size of the history buffer (256)
    FirstLines,     \* the lines shell_task puts into the history
    Prompt,         \* what readline puts before the line
    Width,          \* columns of the terminal
    Outputs,        \* last rows that commands may leave on the terminal
    MaxLines        \* bound on the lines that enter the history

Nul == 0
Lines == {line \in Seq(Chars) : Len(line) < LineSize}

ASSUME ReadlineAssumption ==
    /\ Blank \in Chars /\ Nul \notin Chars /\ MaxLines \in Nat
    /\ LineSize \in Nat \ {0} /\ HistSize \in Nat /\ LineSize <= HistSize
    /\ Commands \in Seq(Seq(Chars \ {Blank})) /\ FirstLines \in Seq(Seq(Chars))
    /\ FirstLines # <<>>
    /\ \A i \in 1 .. Len(FirstLines) : Len(FirstLines[i]) \in 1 .. LineSize - 2
    /\ Prompt \in Seq(Range(Prompt)) /\ Width \in Nat /\ Len(Prompt) + LineSize <= Width

VARIABLES
    s,          \* the line
    last,       \* byte LineSize - 1 of its buffer: "nul", or another one, that
                \* was "old" when the task began or was "moved" there
    overrun,    \* a byte behind the buffer has been read or written
    cursor,     \* position of the cursor in it, from 0
    hline,      \* the history line that was recalled, from 0
    h,          \* rl_history: buf is its first len bytes; and lines
    term,       \* the row of the terminal, its cursor, and its insert mode
    entered     \* ghost: every line that had to go into the history

vars == <<s, last, overrun, cursor, hline, h, term, entered>>

-----------------------------------------------------------------------------
(* The terminal: ansi.h.  A parameter 0 of a sequence counts as 1.         *)

Fit(row) == [i \in 1 .. Width |-> IF i <= Len(row) THEN row[i] ELSE Blank]
Before(t) == SubSeq(t.row, 1, t.col)
Param(n) == IF n = 0 THEN 1 ELSE n

Left(t, n) == [t EXCEPT !.col = Max({0, @ - Param(n)})]
Right(t, n) == [t EXCEPT !.col = Min({Width - 1, @ + Param(n)})]
EraseEol(t) == [t EXCEPT !.row = Fit(Before(t))]
Del(t, n) == [t EXCEPT !.row = Fit(Before(t) \o SubSeq(@, t.col + Param(n) + 1, Width))]
Put(t, str) ==
    LET next == IF t.insert THEN t.col + 1 ELSE t.col + Len(str) + 1
    IN  [t EXCEPT !.row = Fit(Before(t) \o str \o SubSeq(@, next, Width)),
                  !.col = Min({Width - 1, @ + Len(str)})]
NewRow(t) == [t EXCEPT !.row = Fit(<<>>), !.col = 0]

\* A mutant: the cursor is always moved, by 0 columns too.
ReprintLeft(t, line, cur) ==
    Left(Put(EraseEol([t EXCEPT !.col = 0]), Prompt \o line), Len(line) - cur)

Reprint(t, line, cur) ==
    LET shown == Put(EraseEol([t EXCEPT !.col = 0]), Prompt \o line)
    IN  IF cur < Len(line) THEN Left(shown, Len(line) - cur) ELSE shown

-----------------------------------------------------------------------------
(* The history buffer                                                      *)

\* Returned for a line that is not there.
Null == <<Nul>>

\* Where line n begins: strlen finds the terminator of each line before it.
LineStart(buf, n) ==
    LET start[k \in 0 .. n] ==
            IF k = 0 THEN 0 ELSE Min({p \in start[k - 1] + 1 .. Len(buf) : buf[p] = Nul})
    IN  start[n]

\* The history with str behind what is left when its first lines are dropped.
Appended(hist, drop, str) ==
    [buf   |-> SubSeq(hist.buf, LineStart(hist.buf, drop) + 1, Len(hist.buf))
                   \o Append(str, Nul),
     lines |-> hist.lines + 1 - drop]

\* Bytes in use when str is added and the first lines are dropped.
Used(hist, drop, str) == Len(hist.buf) - LineStart(hist.buf, drop) + Len(str) + 1

\* A mutant: a byte is always left free.
hist_addLeavesOne(hist, str) ==
    Appended(hist, Min({n \in 0 .. hist.lines : Used(hist, n, str) < HistSize}), str)

\* Lines are dropped from the beginning until the new one fits.
hist_add(hist, str) ==
    IF Len(str) + 1 > HistSize THEN hist
    ELSE Appended(hist, Min({n \in 0 .. hist.lines : Used(hist, n, str) <= HistSize}), str)

hist_get(line) ==
    IF line \in 0 .. h.lines - 1
    THEN SubSeq(h.buf, LineStart(h.buf, line) + 1, LineStart(h.buf, line + 1) - 1)
    ELSE Null

\* The lines that hist_find returns for the text before the cursor.
Matching == {i \in 0 .. h.lines - 1 : IsPrefix(SubSeq(s, 1, cursor), hist_get(i))}

\* strncpy(s, hist_get(h, i), n-1), which puts no terminator behind n-1 bytes
Recalled(i) == SubSeq(hist_get(i), 1, Min({LineSize - 1, Len(hist_get(i))}))

-----------------------------------------------------------------------------
(* The keys.  A step sets the line, the cursor in it, the history line and *)
(* the terminal.                                                           *)

\* A store, or a search for the terminator, that gets as far as byte top.
Store(top, line, cur, hl, t) ==
    /\ ~overrun
    /\ IF top < LineSize
       THEN /\ s' = line /\ cursor' = cur /\ hline' = hl /\ term' = t
            /\ last' \in IF Len(line) = LineSize - 1 THEN {"nul"}
                        ELSE IF top = LineSize - 1 THEN {"nul", "moved"} ELSE {last}
            /\ UNCHANGED overrun
       ELSE overrun' = TRUE /\ UNCHANGED <<s, last, cursor, hline, term>>
    /\ UNCHANGED <<h, entered>>

Edit(line, cur, hl, t) == Store(Len(line), line, cur, hl, t)

Replace(top, line, cur, hl) == Store(top, line, cur, hl, Reprint(term, line, cur))

ReprintLine == Replace(Len(s), s, cursor, hline)

\* The end of line i in the buffer of s.
EndOf(i) == IF Len(Recalled(i)) = LineSize - 1 /\ last # "nul"
            THEN LineSize ELSE Len(Recalled(i))

Recall(i, cur) == Replace(EndOf(i), Recalled(i), cur, i)

PreviousHistory == hline >= 1 /\ Recall(hline - 1, Len(Recalled(hline - 1)))

NextHistory ==
    LET hl == Min({hline + 1, h.lines})
    IN  IF hl = h.lines THEN Replace(0, <<>>, 0, hl) ELSE Recall(hl, Len(Recalled(hl)))

ReverseSearch ==
    LET found == {i \in Matching : i < hline}
    IN  found # {} /\ Recall(Max(found), cursor)

ForwardSearch ==
    LET found == {i \in Matching : i > hline}
    IN  found # {} /\ Recall(Min(found), cursor)

BackwardChar == cursor > 0 /\ Edit(s, cursor - 1, hline, Left(term, 1))

ForwardChar == cursor < Len(s) /\ Edit(s, cursor + 1, hline, Right(term, 1))

BeginningOfLine ==
    Edit(s, 0, hline, IF cursor > 0 THEN Left(term, cursor) ELSE term)

EndOfLine ==
    LET n == Len(s) - cursor
    IN  Edit(s, Len(s), hline, IF n > 0 THEN Right(term, n) ELSE term)

KillLine == Edit(SubSeq(s, 1, cursor), cursor, hline, EraseEol(term))

KillBackwards ==
    Edit(SubSeq(s, cursor + 1, Len(s)), 0, hline,
         IF cursor > 0 THEN Del(Left(term, cursor), cursor) ELSE term)

DeleteChar ==
    cursor < Len(s) /\ Edit(RemoveAt(s, cursor + 1), cursor, hline, Del(term, 1))

BackwardDeleteChar ==
    cursor > 0 /\ Edit(RemoveAt(s, cursor), cursor - 1, hline, Del(Left(term, 1), 1))

\* A mutant: the terminator has no place.
InsertFull(c) ==
    /\ Len(s) <= LineSize - 1
    /\ Edit(InsertAt(s, cursor + 1, c), cursor + 1, hline, Put(term, <<c>>))

\* A character that no case names, or the last one of a key sequence that no
\* case names: the value of getchar_ex passes the test for control codes.
Insert(c) ==
    /\ Len(s) < LineSize - 1
    /\ Edit(InsertAt(s, cursor + 1, c), cursor + 1, hline, Put(term, <<c>>))

-----------------------------------------------------------------------------
(* cmd_completion                                                          *)

\* The places in the command table that one call after another finds.
cmd_find(text) == {i \in 1 .. Len(Commands) : IsPrefix(text, Commands[i])}

\* The table of completions ends with a new row.  The move that makes room for
\* the prefix takes as many bytes from behind the line as the prefix has.
Complete ==
    LET found    == cmd_find(SubSeq(s, 1, cursor))
        isUnique == Cardinality(found) = 1
        prefix   == LongestCommonPrefix({Commands[i] : i \in found})
        cmd_len  == Min({i \in 1 .. Len(s) + 1 : Append(s, Blank)[i] = Blank}) - 1
        rest     == SubSeq(s, cmd_len + 1, Len(s))
        line     == prefix \o rest \o (IF isUnique /\ rest = <<>> THEN <<Blank>> ELSE <<>>)
        cur      == IF isUnique /\ rest = <<>> THEN Len(line) ELSE Len(prefix)
        t        == IF isUnique THEN term ELSE NewRow(term)
    IN  IF found = {} THEN ReprintLine
        ELSE IF Len(rest) + Len(prefix) + 2 > LineSize
             THEN Edit(s, cursor, hline, Reprint(t, s, cursor))
             ELSE Store(Max({Len(line), Len(rest) + 2 * Len(prefix)}),
                        line, cur, hline, Reprint(t, line, cur))

-----------------------------------------------------------------------------
(* From "done" through shell_task to the first prompt of the next call:    *)
(* the command leaves the terminal at any place of a row.                  *)

Prompted(t) == Reprint([t EXCEPT !.insert = TRUE], <<>>, 0)

Shell(hist) ==
    /\ ~overrun
    /\ h' = hist /\ hline' = hist.lines
    /\ s' = <<>> /\ cursor' = 0 /\ UNCHANGED <<last, overrun>>
    /\ \E out \in Outputs, col \in 0 .. Width - 1 :
         term' = Prompted([row |-> Fit(out), col |-> col, insert |-> FALSE])

\* The line is appended to the history if it differs from the last one there.
AcceptLine ==
    /\ Len(entered) < Len(FirstLines) + MaxLines
    /\ IF s # <<>> /\ s # hist_get(h.lines - 1) THEN Shell(hist_add(h, s)) ELSE Shell(h)
    /\ entered' = IF s \in {<<>>, Last(entered)} THEN entered ELSE Append(entered, s)

RejectLine == Shell(h) /\ UNCHANGED entered

\* The history that shell_task begins with.
FirstHistory ==
    LET hist[n \in 0 .. Len(FirstLines)] ==
            IF n = 0 THEN [buf |-> <<>>, lines |-> 0]
            ELSE hist_add(hist[n - 1], FirstLines[n])
    IN  hist[Len(FirstLines)]

Init ==
    /\ s = <<>> /\ cursor = 0
    /\ last \in {"nul", "old"} /\ overrun = FALSE
    /\ h = FirstHistory
    /\ hline = h.lines
    /\ term = Prompted([row |-> Fit(<<>>), col |-> 0, insert |-> FALSE])
    /\ entered = FirstLines

Next ==
    \/ ReprintLine \/ PreviousHistory \/ NextHistory \/ ReverseSearch \/ ForwardSearch
    \/ Complete \/ BackwardChar \/ ForwardChar \/ BeginningOfLine \/ EndOfLine
    \/ KillLine \/ KillBackwards \/ DeleteChar \/ BackwardDeleteChar
    \/ AcceptLine \/ RejectLine \/ \E c \in Chars : Insert(c)

Spec == Init /\ [][Next]_vars

-----------------------------------------------------------------------------
(* Properties                                                              *)

\* The string ends inside its buffer, the cursor is in it, the history fits
\* into its buffer and is never empty (readline would compare the new line with
\* a null pointer), its lines are as many as it counts, and the line that was
\* recalled is one of them or the new one.  Until the first overrun, that is,
\* which this does not exclude.
TypeOK ==
    /\ s \in Lines /\ cursor \in 0 .. Len(s)
    /\ last \in {"nul", "old", "moved"} /\ overrun \in BOOLEAN
    /\ h.buf \in Seq(Chars \cup {Nul}) /\ Len(h.buf) <= HistSize /\ Last(h.buf) = Nul
    /\ h.lines = Cardinality({p \in 1 .. Len(h.buf) : h.buf[p] = Nul})
    /\ h.lines > 0 /\ hline \in 0 .. h.lines
    /\ term \in [row : [1 .. Width -> Chars \cup Range(Prompt)], col : 0 .. Width - 1,
                 insert : BOOLEAN]

\* Only the completion leaves the line buffer (against its "maximum line length
\* (including \\0)"), and a recall after a completion that has moved a byte to the
\* buffer's end.  No other key does, and although the buffer is not initialised
\* and strncpy ends no line of full length, the lines of full length have stored
\* the terminator before they came into the history.
OnlyCompletionOverruns ==
    [][overrun' => last = "moved" \/ Complete]_vars

\* Whatever was typed, recalled, completed or printed by a command, the
\* terminal shows the prompt and the line that would be executed, and its
\* cursor is where the next character goes: the shortcuts that send less than
\* the whole line agree with what they do to the buffer.
ScreenShowsLine ==
    /\ term.row = Fit(Prompt \o s)
    /\ term.col = Len(Prompt) + cursor
    /\ term.insert

\* The bytes a list of lines takes in the history buffer.
Bytes(lines) ==
    LET sum[n \in 0 .. Len(lines)] == IF n = 0 THEN 0 ELSE sum[n - 1] + Len(lines[n]) + 1
    IN  sum[Len(lines)]

\* The history holds the most recent of the lines that were entered, in their
\* order, and as many of them as fit: its buffer is not overrun, and no line is
\* dropped, cut or lost without need (the comment of hist_add: "one or more old
\* lines are deleted to make room for the new one").
HistoryIsRecent ==
    LET kept   == [i \in 1 .. h.lines |-> hist_get(i - 1)]
        recent(n) == SubSeq(entered, Len(entered) - n + 1, Len(entered))
    IN  /\ Len(h.buf) <= HistSize
        /\ Len(kept) <= Len(entered) /\ kept = recent(Len(kept))
        /\ Len(kept) < Len(entered) => Bytes(recent(Len(kept) + 1)) > HistSize
=============================================================================
