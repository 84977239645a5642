----------------------------- MODULE Normalization -----------------------------
(***************************************************************************)
(* DocumentNormalizer: the characters of a document as units that know     *)
(* where they come from, rewritten in stages, and the segments that map    *)
(* the result back.                                                        *)
(*                                                                         *)
(* Characters are kept by their role: "a" a lower-case letter, "A" an      *)
(* upper-case one, "^" a combining mark that composes with "a" to "e", "-",*)
(* "|", "f" for a Markdown fence, "0" a control character, " ", "n" and  *)
(* "r" for the two line ends, and "#" for the marker between two pages.    *)
(* A table is known by two bars, a heading by being all upper case.        *)
(* Positions are Python's, ranges half-open.                               *)
(***************************************************************************)
EXTENDS Cuts, FiniteSetsExt

CONSTANTS
    Scripts,         \* [text: sequence of characters, kind: "text", "markdown" or "pdf"]
    Rules,           \* NormalizationConfig: values to consider
    WrapLength,      \* 20 in the code: shorter lines are no wrapped text
    JoinLength       \* 3 in the code: letters on either side of a joined hyphen

VARIABLES
    script, rules,   \* the document, the configuration
    nstep,           \* where normalize is
    units,           \* what there is so far: [v, from, to, how], where how
                     \* holds the transformations, and "rough" for approximate
    rows,            \* lines still to be treated, each with its newline
    row,             \* index of the first of them
    fenced, blanks,  \* of _whitespace
    dropped,         \* blank_lines_removed
    guarded,         \* protected: indices of preformatted lines
    marks,           \* annotations: [kind, from, to, line]
    segments         \* [from, to, ofrom, oto, line, how]

normVars == <<script, rules, nstep, units, rows, row, fenced, blanks, dropped, guarded, marks, segments>>

Original == script.text

Indices == [i \in 1..Len(Original) |-> i]

Concat(lists) == FoldLeft(LAMBDA a, b : a \o b, <<>>, lists)

Chars(us) == Concat([i \in DOMAIN us |-> us[i].v])

Letters == {"a", "A", "e"}

-------------------------------------------------------------------------------
(* _initial_units: "\r\n" and "\r" become "\n". *)
InitialUnits ==
    LET swallowed(i) == rules.newlines /\ i > 1 /\ Original[i] = "n" /\ Original[i - 1] = "r"
        pair(i) == i < Len(Original) /\ Original[i + 1] = "n"
        kept == SelectSeq(Indices, LAMBDA i : ~swallowed(i))
        unit(i) ==
            IF rules.newlines /\ Original[i] = "r"
            THEN [v |-> <<"n">>, from |-> i - 1, to |-> IF pair(i) THEN i + 1 ELSE i,
                  how |-> IF pair(i) THEN {"newline", "rough"} ELSE {"newline"}]
            ELSE [v |-> <<Original[i]>>, from |-> i - 1, to |-> i, how |-> {}]
    IN  [k \in DOMAIN kept |-> unit(kept[k])]

(* One group of a character and its combining marks, composed: all its     *)
(* units get the range of the group.                                       *)
ComposedGroup(g) ==
    IF ~(Len(g) > 1 /\ g[1].v = <<"a">>) THEN g
    ELSE [k \in 1..Len(g) - 1 |->
            [v |-> IF k = 1 THEN <<"e">> ELSE g[k + 1].v, from |-> g[1].from, to |-> Last(g).to,
             how |-> UNION {g[i].how : i \in DOMAIN g} \cup {"unicode", "rough"}]]

(* _unicode *)
Composed ==
    LET grow(groups, u) ==
            IF groups # <<>> /\ u.v = <<"^">>
            THEN Append(Front(groups), Append(Last(groups), u)) ELSE Append(groups, <<u>>)
        groups == FoldLeft(grow, <<>>, units)
    IN  Concat([i \in DOMAIN groups |-> ComposedGroup(groups[i])])

(* _controls: a control character is written out. *)
Marked ==
    [i \in DOMAIN units |->
        IF units[i].v # <<"0">> THEN units[i]
        ELSE [units[i] EXCEPT !.v = IF rules.visible THEN <<"<", "0", ">">> ELSE @,
                              !.how = @ \cup IF rules.visible THEN {"control", "rough"} ELSE {"control"}]]

(* _split_lines: a line and its newline, which the last one lacks. *)
SplitLines(us) ==
    LET put(lines, u) ==
            IF u.v = <<"n">> THEN [lines EXCEPT ![Len(lines)].end = <<u>>] \o <<[line |-> <<>>, end |-> <<>>]>>
            ELSE [lines EXCEPT ![Len(lines)].line = Append(@, u)]
    IN  FoldLeft(put, <<[line |-> <<>>, end |-> <<>>]>>, us)

-------------------------------------------------------------------------------
(* What kind of line a text is. *)

Ink(text) == {i \in DOMAIN text : text[i] # " "}

Stripped(text) == IF Ink(text) = {} THEN <<>> ELSE SubSeq(text, Min(Ink(text)), Max(Ink(text)))

Table(text) == Cardinality({i \in DOMAIN text : text[i] = "|"}) >= 2

Diagram(text) ==
    LET s == Stripped(text)
    IN  Len(s) >= 3 /\ 10 * Cardinality({i \in DOMAIN s : s[i] \in {"-", "|", "<", ">"}}) >= 4 * Len(s)

Fence(text) == script.kind = "markdown" /\ Ink(text) # {} /\ Stripped(text)[1] = "f"

Indented(text) == script.kind = "markdown" /\ Len(text) >= 4 /\ Ink(Take(text, 4)) = {}

List(text) == Len(Stripped(text)) >= 2 /\ Take(Stripped(text), 2) = <<"-", " ">>

Heading(text) ==
    LET letters == ToSet(text) \cap Letters
    IN  "#" \notin ToSet(text) /\ letters = {"A"} /\ Len(Stripped(text)) <= 80

-------------------------------------------------------------------------------
(* _normalize_line: trailing blanks go, and runs of blanks become one. *)
TrimmedLine(line) ==
    LET ink == {i \in DOMAIN line : line[i].v # <<" ">>}
    IN  IF ~rules.trim THEN line ELSE IF ink = {} THEN <<>> ELSE SubSeq(line, 1, Max(ink))

NormalLine(line) ==
    LET squeeze(out, u) ==
            IF u.v = <<" ">> /\ out # <<>> /\ Last(out).v = <<" ">>
            THEN Append(Front(out), [Last(out) EXCEPT !.to = u.to, !.how = @ \cup u.how \cup {"whitespace", "rough"}])
            ELSE Append(out, IF u.v = <<" ">> THEN [u EXCEPT !.how = @ \cup {"whitespace"}] ELSE u)
    IN  IF rules.horizontal THEN FoldLeft(squeeze, <<>>, TrimmedLine(line)) ELSE TrimmedLine(line)

Reads ==
    /\ nstep = "read"
    /\ units' = InitialUnits /\ nstep' = "unicode"
    /\ UNCHANGED <<script, rules, rows, row, fenced, blanks, dropped, guarded, marks, segments>>

Composes ==
    /\ nstep = "unicode"
    /\ units' = IF rules.unicode THEN Composed ELSE units
    /\ nstep' = "controls"
    /\ UNCHANGED <<script, rules, rows, row, fenced, blanks, dropped, guarded, marks, segments>>

MarksControls ==
    /\ nstep = "controls"
    /\ rows' = SplitLines(Marked) /\ row' = 0 /\ units' = <<>>
    /\ nstep' = "whitespace"
    /\ UNCHANGED <<script, rules, fenced, blanks, dropped, guarded, marks, segments>>

(* _whitespace, one line: preformatted lines stay, and too many blank ones *)
(* are left out.  protected has the index among all lines.                 *)
NormalizesLine ==
    /\ nstep = "whitespace" /\ rows # <<>>
    /\ LET line == Head(rows).line
           text == Chars(line)
           preserve == fenced \/ Fence(text) \/ Indented(text) \/ Table(text) \/ Diagram(text)
           new == IF preserve THEN line ELSE NormalLine(line)
           drop == Ink(Chars(new)) = {} /\ blanks >= rules.maxBlank
       IN  /\ guarded' = IF preserve THEN guarded \cup {row} ELSE guarded
           /\ blanks' = IF Ink(Chars(new)) = {} THEN blanks + 1 ELSE 0
           /\ dropped' = IF drop THEN dropped + 1 ELSE dropped
           /\ units' = IF drop THEN units ELSE units \o new \o Head(rows).end
           /\ fenced' = (fenced # Fence(text))
    /\ rows' = Tail(rows) /\ row' = row + 1
    /\ UNCHANGED <<script, rules, nstep, marks, segments>>

(* Only a PDF is repaired. *)
BeginsRepair ==
    /\ nstep = "whitespace" /\ rows = <<>>
    /\ IF script.kind = "pdf"
       THEN rows' = SplitLines(units) /\ row' = 0 /\ units' = <<>> /\ nstep' = "repair"
       ELSE nstep' = "annotate" /\ UNCHANGED <<rows, row, units>>
    /\ UNCHANGED <<script, rules, fenced, blanks, dropped, guarded, marks, segments>>

RightInk(text) == IF Ink(text) = {} THEN <<>> ELSE SubSeq(text, 1, Max(Ink(text)))

(* _hyphen_join: a word cut by a hyphen at the end of the line. *)
Hyphenated(left, right) ==
    LET l == RightInk(left)
        run == {n \in 0..Len(right) : \A i \in 1..n : right[i] = "a"}
    IN  /\ rules.hyphens /\ Len(l) > JoinLength /\ Last(l) = "-"
        /\ \A i \in Len(l) - JoinLength..Len(l) - 1 : l[i] \in {"a", "A"}
        /\ Max(run) >= JoinLength /\ (Max(run) < Len(right) => right[Max(run) + 1] \notin Letters)
        /\ ~List(left) /\ ~List(right)

(* _likely_wrap *)
Wrapped(left, right) ==
    LET l == RightInk(left) r == Stripped(right)
    IN  /\ rules.wraps /\ r # <<>> /\ Len(l) >= WrapLength /\ r[1] \in {"a", "e"}
        /\ ~(\E t \in {left, right} : List(t) \/ Heading(t) \/ Table(t))

(* The line without its hyphen, and nothing in its place. *)
HyphenJoin(line, end, next) ==
    LET at == Max({i \in DOMAIN line : line[i].v # <<" ">>})
    IN  SubSeq(line, 1, at - 1)
        \o <<[v |-> <<>>, from |-> line[at].from, to |-> Last(end).to,
              how |-> line[at].how \cup end[1].how \cup {"hyphen", "rough"}]>> \o next

SpaceJoin(line, end, next) ==
    line \o <<[v |-> <<" ">>, from |-> end[1].from, to |-> end[1].to, how |-> end[1].how \cup {"wrap", "rough"}]>> \o next

(* _repair_lines, one line, or two of them joined. *)
RepairsLine ==
    /\ nstep = "repair" /\ rows # <<>>
    /\ LET this == rows[1]
           next == rows[2]
           left == Chars(this.line)
           right == Chars(next.line)
           hyphen == Hyphenated(left, right)
       IN  IF \/ Len(rows) = 1 \/ {row, row + 1} \cap guarded # {}
              \/ "#" \in ToSet(left) \cup ToSet(right)
              \/ ~(hyphen \/ Wrapped(left, right))
           THEN /\ units' = units \o this.line \o this.end
                /\ rows' = Tail(rows) /\ row' = row + 1
           ELSE /\ units' = units \o (IF hyphen THEN HyphenJoin(this.line, this.end, next.line)
                                      ELSE SpaceJoin(this.line, this.end, next.line)) \o next.end
                /\ rows' = Drop(rows, 2) /\ row' = row + 2
    /\ UNCHANGED <<script, rules, nstep, fenced, blanks, dropped, guarded, marks, segments>>

(* Too much output fails. *)
Repaired ==
    /\ nstep = "repair" /\ rows = <<>>
    /\ nstep' = IF Len(units) > rules.maxOutput THEN "failed" ELSE "annotate"
    /\ UNCHANGED <<script, rules, units, rows, row, fenced, blanks, dropped, guarded, marks, segments>>

-------------------------------------------------------------------------------
(* Where a unit starts in the output. *)
Offset[i \in Nat] == IF i <= 1 THEN 0 ELSE Offset[i - 1] + Len(units[i - 1].v)

Size == Offset[Len(units) + 1]

(* _normalized_range *)
NormalizedRange(from, to) ==
    LET hit == {i \in DOMAIN units : units[i].to > from /\ units[i].from < to}
    IN  IF hit = {} THEN <<Size, Size>> ELSE <<Offset[Min(hit)], Offset[Max(hit) + 1]>>

(* The lines of str.splitlines, for which "\r" ends one too. *)
PlainLines ==
    LET put(lines, i) ==
            IF Original[i] = "n" /\ i > 1 /\ Original[i - 1] = "r" THEN lines
            ELSE IF Original[i] \in {"n", "r"} THEN Append(lines, <<>>)
            ELSE [lines EXCEPT ![Len(lines)] = Append(@, Original[i])]
        all == FoldLeft(put, << <<>> >>, Indices)
    IN  IF Last(all) = <<>> THEN Front(all) ELSE all

(* Where the lines start that end in "\n" only. *)
LineStarts == InTurn({0} \cup {i \in 1..Len(Original) : Original[i] = "n"})

LineEnd(start) ==
    LET ends == {i \in start + 1..Len(Original) : Original[i] = "n"}
    IN  IF ends = {} THEN Len(Original) ELSE Min(ends) - 1

KindOf(text) ==
    IF List(text) THEN "list" ELSE IF Table(text) THEN "table"
    ELSE IF Heading(text) THEN "heading" ELSE "none"

(* Mutant of Annotates: the range is left as it is in the original. *)
Annotates_Unmapped ==
    /\ nstep = "annotate"
    /\ LET lines == PlainLines
           found == {k \in DOMAIN lines : KindOf(lines[k]) # "none" /\ k <= Len(LineStarts)}
       IN  marks' = {LET start == LineStarts[k]
                     IN  [kind |-> KindOf(lines[k]), from |-> start, to |-> LineEnd(start), line |-> k] : k \in found}
    /\ nstep' = "segment"
    /\ UNCHANGED <<script, rules, units, rows, row, fenced, blanks, dropped, guarded, segments>>

(* _structural_annotations and _annotate_line: a line is found in one      *)
(* numbering and looked up in the other, and its range is then moved to    *)
(* the output.                                                             *)
Annotates ==
    /\ nstep = "annotate"
    /\ LET lines == PlainLines
           found == {k \in DOMAIN lines : KindOf(lines[k]) # "none" /\ k <= Len(LineStarts)}
       IN  marks' = {LET start == LineStarts[k]
                         range == NormalizedRange(start, LineEnd(start))
                     IN  [kind |-> KindOf(lines[k]), from |-> range[1], to |-> range[2], line |-> k] : k \in found}
    /\ nstep' = "segment"
    /\ UNCHANGED <<script, rules, units, rows, row, fenced, blanks, dropped, guarded, segments>>

(* _source_location *)
LineOf(at) == Cardinality({i \in 1..at : Original[i] = "n"}) + 1

(* _segments: neighbours with the same history and place become one. *)
Segments ==
    /\ nstep = "segment"
    /\ LET candidate(i) == LET u == units[i] IN
               [from |-> Offset[i], to |-> Offset[i + 1], ofrom |-> u.from, oto |-> u.to, how |-> u.how,
                lines |-> <<LineOf(u.from), LineOf(Most(u.from, u.to - 1))>>]
           same(a, b) == a.to = b.from /\ a.oto = b.ofrom /\ a.lines = b.lines /\ a.how = b.how
           put(list, i) == LET new == candidate(i) IN
               IF list # <<>> /\ same(Last(list), new)
               THEN Append(Front(list), [Last(list) EXCEPT !.to = new.to, !.oto = new.oto])
               ELSE Append(list, new)
       IN  segments' = FoldLeft(put, <<>>, [i \in DOMAIN units |-> i])
    /\ nstep' = "coalesce"
    /\ UNCHANGED <<script, rules, units, rows, row, fenced, blanks, dropped, guarded, marks>>

(* Two by two, until there are no more than the limit. *)
Coalesces ==
    /\ nstep = "coalesce" /\ Len(segments) > rules.maxSegments
    /\ segments' = [k \in 1..(Len(segments) + 1) \div 2 |->
           LET left == segments[2 * k - 1]
               right == segments[2 * k]
           IN  IF 2 * k > Len(segments) THEN left
               ELSE [left EXCEPT !.to = right.to, !.ofrom = Least(@, right.ofrom),
                                 !.oto = Most(@, right.oto), !.how = @ \cup right.how \cup {"rough"}]]
    /\ UNCHANGED <<script, rules, nstep, units, rows, row, fenced, blanks, dropped, guarded, marks>>

Normalized ==
    /\ nstep = "coalesce" /\ Len(segments) <= rules.maxSegments
    /\ nstep' = "done"
    /\ UNCHANGED <<script, rules, units, rows, row, fenced, blanks, dropped, guarded, marks, segments>>

NoScript == [text |-> <<>>, kind |-> "text"]
NoRules == [newlines |-> FALSE, unicode |-> FALSE, visible |-> FALSE, horizontal |-> FALSE, trim |-> FALSE,
            maxBlank |-> 0, hyphens |-> FALSE, wraps |-> FALSE, maxSegments |-> 1, maxOutput |-> 1]

NormalizationFresh ==
    /\ units = <<>> /\ rows = <<>> /\ row = 0 /\ fenced = FALSE /\ blanks = 0 /\ dropped = 0
    /\ guarded = {} /\ marks = {} /\ segments = <<>>

NormalizationIdle == script = NoScript /\ rules = NoRules /\ nstep = "off" /\ NormalizationFresh

NormalizationInit == script \in Scripts /\ rules \in Rules /\ nstep = "read" /\ NormalizationFresh

NormalizationNext ==
    \/ Reads \/ Composes \/ MarksControls \/ NormalizesLine \/ BeginsRepair \/ RepairsLine \/ Repaired
    \/ Annotates \/ Segments \/ Coalesces \/ Normalized

NormalizationSpec == NormalizationInit /\ [][NormalizationNext]_normVars

-------------------------------------------------------------------------------
(* Properties. *)

NormalizationTypeOK ==
    /\ script \in Scripts \cup {NoScript} /\ rules \in Rules \cup {NoRules}
    /\ \A i \in DOMAIN units : 0 <= units[i].from /\ units[i].from < units[i].to /\ units[i].to <= Len(Original)
    /\ row \in Nat /\ blanks \in Nat /\ dropped \in Nat /\ guarded \subseteq Nat
    /\ \A i \in DOMAIN segments : segments[i].from <= segments[i].to

Output == Chars(units)

(* Rows of tables of plain characters, which should stay as they are. *)
PlainTables == {t \in ToSet(PlainLines) : Table(t) /\ ToSet(t) \subseteq {"a", "A", "-", "|", " "}}

OutputLines ==
    LET lines == SplitLines(units) IN {Chars(lines[i].line) : i \in DOMAIN lines}

(* "PDF line repair never crosses page, heading, list, table, URL/path, or *)
(* code boundaries" (docs/normalization.md:20-21).                         *)
TablesStayWhole ==
    nstep = "done" /\ (rules.newlines \/ "r" \notin ToSet(Original)) => PlainTables \subseteq OutputLines

(* The segments tile the output and lead back in order: what a segment     *)
(* covers in the original includes what its units came from.               *)
SegmentsLeadBack ==
    /\ segments # <<>> => segments[1].from = 0 /\ Last(segments).to = Size
    /\ \A k \in 1..Len(segments) - 1 : segments[k].to = segments[k + 1].from
    /\ \A i \in DOMAIN units : \E k \in DOMAIN segments :
           /\ segments[k].from <= Offset[i] /\ Offset[i + 1] <= segments[k].to
           /\ segments[k].ofrom <= units[i].from /\ units[i].to <= segments[k].oto
    /\ Len(segments) <= rules.maxSegments

(* All stages together: nothing but blanks and line ends is dropped, the   *)
(* order is kept, segments lead back, tables stay if no blank line was     *)
(* removed, and the mark of a table is on a table, if lines end in "\n".   *)
NothingIsLost ==
    nstep = "done" =>
        /\ \A i \in 1..Len(Original) :
               \/ Original[i] \in {" ", "n", "r"}
               \/ \E k \in DOMAIN units : units[k].from < i /\ i <= units[k].to
        /\ \A i \in 1..Len(units) - 1 : units[i].from <= units[i + 1].from
        /\ SegmentsLeadBack
        /\ dropped = 0 => TablesStayWhole
        /\ "r" \notin ToSet(Original) =>
               \A mk \in marks : mk.kind = "table" => Table(SubSeq(Output, mk.from + 1, mk.to))
===============================================================================
