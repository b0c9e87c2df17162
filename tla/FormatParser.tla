---------------------------- MODULE FormatParser ----------------------------
(***************************************************************************)
(* The log pattern language: format_parser of src/util.cpp cuts a pattern  *)
(* into literals and items, LogFormatter::init of src/log.cpp makes a      *)
(* FormatItem of each, and the classes of src/format.h write them.         *)
(*                                                                         *)
(* A pattern is a sequence of characters.  The variable only enumerates    *)
(* patterns: it grows by one character at a time, and every property       *)
(* speaks of what the functions above make of it.  Positions count from 1, *)
(* in the code from 0.                                                     *)
(***************************************************************************)
EXTENDS Naturals, Sequences, FiniteSets, SequencesExt

CONSTANTS
    Letters,    \* the letters patterns are made of: isalpha
    Others,     \* the characters that are neither letters, '%', '{' nor '}'
    BufSize,    \* length of a time format whose result fits buf[64]
    MaxLen      \* bound: length of a pattern

Chars == Letters \cup Others \cup {"%", "{", "}"}

VARIABLE pattern

vars == <<pattern>>

Init == pattern = <<>>

Grow(c) ==
    /\ Len(pattern) < MaxLen
    /\ pattern' = Append(pattern, c)

Next == \E c \in Chars : Grow(c)

Spec == Init /\ [][Next]_vars

-----------------------------------------------------------------------------
(* The tuples of vec: type 0 is text, type 1 an item.                      *)
Literal(text) == [str |-> text, fmt |-> <<>>, type |-> 0]
Item(str, fmt) == [str |-> str, fmt |-> fmt, type |-> 1]
PatternError == Literal(<<"<<pattern_error>>">>)

(* The while loop that reads the item at position i of p: s holds n, str,  *)
(* fmt, fmt_begin, and whether fmt_status is 1.                            *)
RECURSIVE Scan(_, _, _)
Scan(p, i, s) ==
    CASE s.n > Len(p) -> s
      [] s.n <= Len(p) /\ ~s.inFmt /\ p[s.n] \notin Letters \cup {"{", "}"} ->
            [s EXCEPT !.str = SubSeq(p, i + 1, s.n - 1)]
      [] s.n <= Len(p) /\ ~s.inFmt /\ p[s.n] = "{" ->
            Scan(p, i, [s EXCEPT !.str = SubSeq(p, i + 1, s.n - 1),
                                 !.inFmt = TRUE, !.begin = s.n, !.n = @ + 1])
      [] s.n <= Len(p) /\ s.inFmt /\ p[s.n] = "}" ->
            [s EXCEPT !.fmt = SubSeq(p, s.begin + 1, s.n - 1),
                      !.inFmt = FALSE, !.n = @ + 1]
      [] OTHER ->
            Scan(p, i, [s EXCEPT !.n = @ + 1,
                                 !.str = IF s.n = Len(p) /\ @ = <<>>
                                         THEN SubSeq(p, i + 1, Len(p)) ELSE @])

ScanFrom(p, i) ==
    Scan(p, i, [n |-> i + 1, str |-> <<>>, fmt |-> <<>>, begin |-> 0,
                inFmt |-> FALSE])

(* The character at position i goes to nstr.  Of "%%" the first sign does, *)
(* and the second is then read as any other.                               *)
IsText(p, i) ==
    \/ p[i] # "%"
    \/ i < Len(p) /\ p[i + 1] = "%"

(* Mutant of After: the character after an item is skipped.                *)
AfterSkips(s) == s.n + 1

(* Where the for loop goes on after an item: i = n - 1, then ++i.          *)
After(s) == s.n

(* The for loop, at position i with the text nstr pending.                 *)
RECURSIVE Parse(_, _, _, _)
Parse(p, i, nstr, vec) ==
    LET pending == IF nstr = <<>> THEN <<>> ELSE <<Literal(nstr)>>
    IN  CASE i > Len(p) -> vec \o pending
          [] i <= Len(p) /\ IsText(p, i) ->
                Parse(p, i + 1, Append(nstr, p[i]), vec)
          [] OTHER ->
                LET s == ScanFrom(p, i)
                IN  IF s.inFmt
                    THEN Parse(p, i + 1, nstr, Append(vec, PatternError))
                    ELSE Parse(p, After(s), <<>>,
                               vec \o Append(pending, Item(s.str, s.fmt)))

format_parser(p) == Parse(p, 1, <<>>, <<>>)

-----------------------------------------------------------------------------
(* s_format_items: the letter of each FormatItem class and the getter of   *)
(* the LogEvent its format() writes.                                       *)
FormatItems ==
    [m |-> "content", p |-> "level", r |-> "elapse", c |-> "loggerName",
     t |-> "threadId", n |-> "newLine", d |-> "time", f |-> "file",
     l |-> "line", T |-> "tab", F |-> "fiberId", N |-> "threadName"]

(* Mutant of Known: only the first letter of the name is looked up.        *)
KnownByFirst(name) == name # <<>> /\ name[1] \in DOMAIN FormatItems

(* A name the map has: s_format_items.find(name) # end().                  *)
Known(name) == Len(name) = 1 /\ name[1] \in DOMAIN FormatItems

(* DateTimeFormatItem() replaces an empty format.                          *)
DefaultTime == <<"%Y-%m-%d %H:%M:%S">>

(* What the FormatItem that init() makes of a tuple writes for an event:   *)
(* StringFormatItem its text, DateTimeFormatItem the time as its format    *)
(* says, every other class a field, whatever its {format}.  The event's    *)
(* time is what strftime makes of the formats whose result fits buf[64];   *)
(* of any other it returns 0, which nobody reads, and leaves buf           *)
(* indeterminate: the event's buf.                                         *)
Written(tok, event) ==
    CASE tok.type = 0 -> tok.str
      [] tok.type = 1 /\ ~Known(tok.str) ->
            <<"<<error_format %">> \o tok.str \o <<">>">>
      [] tok.type = 1 /\ tok.str = <<"d">> ->
            LET format_ == IF tok.fmt = <<>> THEN DefaultTime ELSE tok.fmt
            IN  IF format_ \in DOMAIN event.time THEN event.time[format_]
                                                 ELSE event.buf
      [] OTHER -> event[FormatItems[tok.str[1]]]

(* LogFormatter::isError() after init().                                   *)
isError(p) ==
    \E k \in DOMAIN format_parser(p) :
        LET tok == format_parser(p)[k] IN tok.type = 1 /\ ~Known(tok.str)

(* LogFormatter::format.                                                   *)
format(p, event) ==
    FlattenSeq([k \in DOMAIN format_parser(p) |->
                   Written(format_parser(p)[k], event)])

-----------------------------------------------------------------------------
(* An event whose every field reads as the directive that writes it.  The  *)
(* formats of at most BufSize characters are those whose result fits.      *)
Quoting ==
    [fld \in {FormatItems[c] : c \in DOMAIN FormatItems} \cup {"buf"} |->
        CASE fld = "time" ->
                [f \in {g \in Seq(Chars) : Len(g) <= BufSize} \cup {DefaultTime} |->
                    IF f = DefaultTime THEN <<"%", "d">>
                    ELSE <<"%", "d", "{">> \o f \o <<"}">>]
          [] fld = "buf" -> <<"?">>
          [] OTHER ->
                <<"%", CHOOSE c \in DOMAIN FormatItems : FormatItems[c] = fld>>]

(* The end of the letters that follow position i.                          *)
NameEnd(p, i) ==
    CHOOSE e \in (i + 1)..(Len(p) + 1) :
        /\ e <= Len(p) => p[e] \notin Letters
        /\ \A k \in (i + 1)..(e - 1) : p[k] \in Letters

Name(p, i) == SubSeq(p, i + 1, NameEnd(p, i) - 1)

(* A pattern whose braces, if it has any, are the non-empty formats of %d, *)
(* and short enough for what strftime makes of them to fit.                *)
BracesAreDates(p) ==
    /\ \A k \in DOMAIN p :
          p[k] = "{" =>
             /\ k > 2 /\ p[k - 1] = "d" /\ p[k - 2] = "%"
             /\ k + 1 \in DOMAIN p /\ p[k + 1] # "}"
             /\ \E e \in (k + 2)..Len(p) :
                   /\ p[e] = "}" /\ e - k - 1 <= BufSize
                   /\ \A j \in (k + 1)..(e - 1) : p[j] \notin {"{", "}"}
    /\ Cardinality({k \in DOMAIN p : p[k] = "{"})
          = Cardinality({k \in DOMAIN p : p[k] = "}"})

(* A pattern that uses the form "%%" nowhere.                              *)
NoEscape(p) == \A k \in 2..Len(p) : p[k] = "%" => p[k - 1] # "%"

(* A line is the pattern with each directive replaced by its field, and    *)
(* nothing else: no character is dropped, doubled or moved.  Said with an  *)
(* event whose fields read as their directives: the line is the pattern    *)
(* itself.  Nothing is said of "%%", of which the code writes one sign and *)
(* reads the second as the start of a directive (src/util.cpp:29), though  *)
(* the comment at src/log.cpp:272 lists it as a form of its own; and of    *)
(* time formats whose result is longer than buf[64].                       *)
RendersAsWritten ==
    NoEscape(pattern) /\ BracesAreDates(pattern) /\ ~isError(pattern)
        => format(pattern, Quoting) = pattern

(* A pattern is refused exactly when a '%' starts an unknown name, of one  *)
(* letter or of several or of none.  A brace that is never closed is not   *)
(* refused: that directive writes <<pattern_error>>.                       *)
RefusedExactly ==
    NoEscape(pattern) /\ (\A k \in DOMAIN pattern : pattern[k] # "}") =>
        (isError(pattern) <=>
            \E i \in DOMAIN pattern :
                /\ pattern[i] = "%"
                /\ Name(pattern, i) \notin {<<c>> : c \in DOMAIN FormatItems}
                /\ \/ NameEnd(pattern, i) > Len(pattern)
                   \/ pattern[NameEnd(pattern, i)] # "{")
=============================================================================
