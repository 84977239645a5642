------------------------------- MODULE Chunking --------------------------------
(***************************************************************************)
(* DocumentChunker: a normalized text is cut into blocks at paragraphs,    *)
(* structures and pages, blocks over the limits are split, neighbours are  *)
(* packed into chunks, and chunks take over the end of the one before.     *)
(*                                                                         *)
(* Of a character the model keeps its role: "a" belongs to a word, "." and *)
(* "-" are tokens of their own, of which "." may end a sentence, " " is    *)
(* white space and "P" the empty line that ends a paragraph.  Positions    *)
(* are Python's: text[i] is text[i + 1] here, and ranges are half-open.    *)
(***************************************************************************)
EXTENDS Cuts, FiniteSetsExt

CONSTANTS
    Papers,          \* [text, marks, pages]: see PaperAssumption
    ChunkConfigs     \* configurations to consider

ASSUME PaperAssumption ==
    \A p \in Papers :
        /\ p.text \in Seq({"a", ".", "-", " ", "P"})
        \* Annotations: the heading, table, list and code regions.
        /\ p.marks \subseteq [kind: {"heading", "table", "code"}, from: Nat, to: Nat, level: Nat]
        /\ \A mk \in p.marks : mk.from <= mk.to
        \* Segments with their page, 0 for none; segments are contiguous.
        /\ p.pages \in Seq([from: Nat, to: Nat, page: Nat])

ASSUME ChunkConfigAssumption ==
    \A c \in ChunkConfigs :
        /\ c.tokens \in Nat /\ c.target \in 1..c.tokens /\ c.overlap \in 0..c.tokens - 1
        /\ c.chars \in Nat \ {0} /\ c.ratio \in 0..50

VARIABLES
    paper,           \* the document
    knobs,           \* ChunkingConfig
    cstep,           \* where chunk is
    blocks,          \* blocks still to be split, then to be packed
    whole,           \* expanded: the blocks as they were split
    spans,           \* chunks, the last one still open while packing
    overlapped       \* chunks that have been given their overlap

chunkingVars == <<paper, knobs, cstep, blocks, whole, spans, overlapped>>

NoPaper == [text |-> <<>>, marks |-> {}, pages |-> <<>>]
NoKnobs == [strategy |-> "window", target |-> 1, tokens |-> 1, chars |-> 1, overlap |-> 0,
            ratio |-> 0, pages |-> FALSE, keep |-> FALSE, merge |-> FALSE,
            maxBlocks |-> 1, maxChunks |-> 1]

Text == paper.text

Char(i) == Text[i + 1]

-------------------------------------------------------------------------------
(* Tokens of a stretch of the text: runs of word characters, and every     *)
(* other character that is not white space.  Each is named by its end.     *)
TokenEnds(from, to) ==
    {i \in from + 1..to : /\ Char(i - 1) \notin {" ", "P"}
                          /\ Char(i - 1) = "a" /\ i < to => Char(i) # "a"}

Count(from, to) == Cardinality(TokenEnds(from, to))

(* Where the n-th last token of a stretch starts. *)
TokenStart(from, to, n) ==
    LET end == CHOOSE i \in TokenEnds(from, to) : Cardinality({x \in TokenEnds(from, to) : x >= i}) = n
    IN  IF Char(end - 1) # "a" THEN end - 1
        ELSE CHOOSE i \in from..end - 1 :
                 /\ \A x \in i..end - 1 : Char(x) = "a"
                 /\ i > from => Char(i - 1) # "a"

WithinLimit(from, to) == to - from <= knobs.chars /\ Count(from, to) <= knobs.tokens

Meets(from, to, otherFrom, otherTo) ==
    IF from = to \/ otherFrom = otherTo THEN from <= otherFrom /\ otherFrom <= to
    ELSE from < otherTo /\ otherFrom < to

Blank(from, to) == \A i \in from..to - 1 : Char(i) \in {" ", "P"}

-------------------------------------------------------------------------------
(* _blocks. *)

Marks(kind) == {m \in paper.marks : m.kind = kind}

(* Neighbouring tables, or code regions, with nothing between them count   *)
(* as one: the boundaries between them fall away.                          *)
Joined(kind) ==
    LET order == Ordered(Marks(kind), LAMBDA mk : mk.from)
        join(ranges, mk) ==
            IF ranges # <<>> /\ Blank(Last(ranges)[2], mk.from)
            THEN [ranges EXCEPT ![Len(ranges)] = <<@[1], Most(@[2], mk.to)>>]
            ELSE Append(ranges, <<mk.from, mk.to>>)
    IN  ToSet(FoldLeft(join, <<>>, order))

StructuralRanges ==
    Joined("table") \cup Joined("code") \cup {<<mk.from, mk.to>> : mk \in Marks("heading")}

PageStarts ==
    {paper.pages[i].from : i \in {j \in DOMAIN paper.pages :
        /\ paper.pages[j].page # 0
        /\ \E k \in 1..j - 1 : /\ paper.pages[k].page \notin {0, paper.pages[j].page}
                               /\ \A l \in k + 1..j - 1 : paper.pages[l].page = 0}}

Boundaries ==
    LET paragraphs == {i \in 1..Len(Text) : Char(i - 1) = "P" /\ (i < Len(Text) => Char(i) # "P")}
        structures == IF knobs.strategy # "structure" THEN {}
                      ELSE UNION {{r[1], r[2]} : r \in StructuralRanges}
                           \cup IF knobs.pages THEN PageStarts ELSE {}
    IN  {0, Len(Text)} \cup ((paragraphs \cup structures) \cap 0..Len(Text))

(* The headings above a place: each cuts the path to its level. *)
HeadingPath(at) ==
    LET above == Ordered({h \in Marks("heading") : h.from <= at}, LAMBDA h : h.from)
    IN  FoldLeft(LAMBDA path, h : Append(Take(path, h.level - 1), h.from), <<>>, above)

(* A block with what _enrich and _heading_paths say of it. *)
Block(from, to) ==
    [from |-> from, to |-> to,
     kinds |-> {mk.kind : mk \in {x \in paper.marks : Meets(from, to, x.from, x.to)}},
     pages |-> {s.page : s \in {x \in ToSet(paper.pages) : Meets(from, to, x.from, x.to)}} \ {0},
     path |-> IF knobs.strategy = "window" THEN <<>> ELSE HeadingPath(from)]

Semantic(b) == \E i \in b.from..b.to - 1 : Char(i) = "a"

Combined(list, first, last, path) ==
    [from |-> list[first].from, to |-> list[last].to, kinds |-> UNION {list[i].kinds : i \in first..last},
     pages |-> UNION {list[i].pages : i \in first..last}, path |-> path]

(* _attach_nonsemantic_blocks: what has no letter goes with the block      *)
(* before it that has, or else with the first one that has.                *)
Attached(list) ==
    LET seeds == InTurn({i \in DOMAIN list : Semantic(list[i])})
        first(k) == IF k = 1 THEN 1 ELSE seeds[k]
        last(k) == IF k = Len(seeds) THEN Len(list) ELSE seeds[k + 1] - 1
    IN  IF seeds = <<>> THEN list
        ELSE [k \in DOMAIN seeds |-> Combined(list, first(k), last(k), list[seeds[k]].path)]

Blocks ==
    IF knobs.strategy = "window" THEN <<Block(0, Len(Text))>>
    ELSE LET cuts == InTurn(Boundaries)
         IN  Attached([i \in 1..Len(cuts) - 1 |-> Block(cuts[i], cuts[i + 1])])

-------------------------------------------------------------------------------
Starts ==
    /\ cstep = "start"
    /\ IF Text = <<>> THEN cstep' = "done" /\ UNCHANGED blocks
       ELSE /\ blocks' = Blocks
            /\ cstep' = IF Len(Blocks) > knobs.maxBlocks THEN "failed" ELSE "split"
    /\ UNCHANGED <<paper, knobs, whole, spans, overlapped>>

(* Ends of sentences within a block. *)
SentenceEnds(b) ==
    {i \in b.from + 2..b.to : /\ Blank(i - 1, i) /\ (i < b.to => ~Blank(i, i + 1))
                              /\ \E s \in b.from..i - 2 : Char(s) = "." /\ Blank(s + 1, i)}

(* _maximum_end: as far as the characters go, or the tokens. *)
MaximumEnd(b, at) ==
    LET far == Least(b.to, at + knobs.chars)
    IN  IF Count(at, far) <= knobs.tokens THEN far
        ELSE CHOOSE i \in TokenEnds(at, far) :
                 Cardinality({x \in TokenEnds(at, far) : x <= i}) = knobs.tokens

(* One piece of a block over the limits, to the last sentence that fits if *)
(* there is one; the rest is cut again.                                    *)
Piece(b) ==
    LET end == MaximumEnd(b, b.from)
        ends == {i \in SentenceEnds(b) : i <= end}
    IN  IF ends # {} THEN Max(ends) ELSE end

(* Mutant of Splits: the piece goes on after its last character. *)
Splits_Skips ==
    /\ cstep = "split" /\ blocks # <<>>
    /\ LET b == Head(blocks)
           end == Piece(b)
       IN  IF WithinLimit(b.from, b.to)
           THEN whole' = Append(whole, b) /\ blocks' = Tail(blocks)
           ELSE /\ whole' = Append(whole, [b EXCEPT !.to = end])
                /\ blocks' = IF end >= b.to - 1 THEN Tail(blocks)
                             ELSE <<[b EXCEPT !.from = end + 1]>> \o Tail(blocks)
    /\ UNCHANGED <<paper, knobs, cstep, spans, overlapped>>

(* _split_large_block, piece by piece. *)
Splits ==
    /\ cstep = "split" /\ blocks # <<>>
    /\ LET b == Head(blocks)
           end == Piece(b)
       IN  IF WithinLimit(b.from, b.to)
           THEN whole' = Append(whole, b) /\ blocks' = Tail(blocks)
           ELSE /\ whole' = Append(whole, [b EXCEPT !.to = end])
                /\ blocks' = IF end = b.to THEN Tail(blocks)
                             ELSE <<[b EXCEPT !.from = end]>> \o Tail(blocks)
    /\ UNCHANGED <<paper, knobs, cstep, spans, overlapped>>

BeginsPacking ==
    /\ cstep = "split" /\ blocks = <<>>
    /\ cstep' = "pack" /\ blocks' = whole
    /\ UNCHANGED <<paper, knobs, whole, spans, overlapped>>

(* What belongs to different pages, sections or top-level headings. *)
Unrelated(a, b) ==
    \/ a.pages # {} /\ b.pages # {} /\ a.pages # b.pages
    \/ a.path # <<>> /\ b.path # <<>> /\ Head(a.path) # Head(b.path)

HardBoundary(a, b) ==
    \/ knobs.pages /\ a.pages # {} /\ b.pages # {} /\ a.pages # b.pages
    \/ a.path # <<>> /\ b.path # <<>> /\ Head(a.path) # Head(b.path)
    \/ knobs.keep /\ \E k \in {"table", "code"} : (k \in a.kinds) # (k \in b.kinds)
    \/ ~knobs.merge /\ a.path # b.path

(* _pack: the next block joins the open chunk, or opens one. *)
Packs ==
    /\ cstep = "pack" /\ blocks # <<>>
    /\ LET b == Head(blocks)
           open == Last(spans)
           new == [from |-> b.from, to |-> b.to, own |-> b.from, blocks |-> <<b>>]
       IN  IF \/ spans = <<>>
              \/ HardBoundary(Last(open.blocks), b) \/ ~WithinLimit(open.from, b.to)
              \/ Count(open.from, open.to) >= knobs.target \/ "heading" \in b.kinds
           THEN spans' = Append(spans, new)
           ELSE spans' = Append(Front(spans), [open EXCEPT !.to = b.to, !.blocks = Append(@, b)])
    /\ blocks' = Tail(blocks)
    /\ UNCHANGED <<paper, knobs, cstep, whole, overlapped>>

BeginsOverlap ==
    /\ cstep = "pack" /\ blocks = <<>>
    /\ cstep' = "overlap" /\ overlapped' = 1
    /\ UNCHANGED <<paper, knobs, blocks, whole, spans>>

(* Tokens a chunk may take over from the one before it, which may itself   *)
(* have taken over some.                                                   *)
Overlap(prev, cur) ==
    LET count == Count(cur.from, cur.to)
        share == (count * knobs.ratio) \div (100 - knobs.ratio)
        wanted == Least(Least(knobs.overlap, Most(0, Count(prev.from, prev.to) - 1)), share)
    IN  IF \/ Unrelated(Last(prev.blocks), Head(cur.blocks))
           \/ \E i \in DOMAIN prev.blocks : {"table", "code"} \cap prev.blocks[i].kinds # {}
           \/ wanted = 0
        THEN 0
        ELSE IF Count(TokenStart(prev.from, prev.to, wanted), cur.to) > knobs.tokens
             THEN Least(wanted, Most(0, knobs.tokens - count))
             ELSE wanted

Overlaps ==
    /\ cstep = "overlap" /\ overlapped < Len(spans)
    /\ LET prev == spans[overlapped]
           n == Overlap(prev, spans[overlapped + 1])
       IN  IF n = 0 THEN UNCHANGED spans
           ELSE spans' = [spans EXCEPT ![overlapped + 1].from = TokenStart(prev.from, prev.to, n)]
    /\ overlapped' = overlapped + 1
    /\ UNCHANGED <<paper, knobs, cstep, blocks, whole>>

(* Too many chunks fail; no part of them is returned. *)
Chunked ==
    /\ cstep = "overlap" /\ overlapped >= Len(spans)
    /\ cstep' = IF Len(spans) > knobs.maxChunks THEN "failed" ELSE "done"
    /\ UNCHANGED <<paper, knobs, blocks, whole, spans, overlapped>>

ChunkingIdle ==
    /\ paper = NoPaper /\ knobs = NoKnobs /\ cstep = "off"
    /\ blocks = <<>> /\ whole = <<>> /\ spans = <<>> /\ overlapped = 0

ChunkingInit ==
    /\ paper \in Papers /\ knobs \in ChunkConfigs /\ cstep = "start"
    /\ blocks = <<>> /\ whole = <<>> /\ spans = <<>> /\ overlapped = 0

ChunkingNext ==
    \/ Starts \/ Splits \/ BeginsPacking \/ Packs \/ BeginsOverlap \/ Overlaps \/ Chunked

-------------------------------------------------------------------------------
(* Properties. *)

ChunkingTypeOK ==
    /\ paper \in Papers \cup {NoPaper} /\ knobs \in ChunkConfigs \cup {NoKnobs}
    /\ cstep \in {"off", "start", "split", "pack", "overlap", "done", "failed"}
    /\ \A i \in DOMAIN spans : 0 <= spans[i].from /\ spans[i].from <= spans[i].own
    /\ overlapped \in 0..Len(spans) + 1

(* What a chunk has beyond its overlap continues the chunk before it, up   *)
(* to the end of the text: splitting, attaching and packing lose nothing   *)
(* and repeat nothing.                                                     *)
TextIsCovered ==
    /\ spans = <<>> <=> Text = <<>>
    /\ spans # <<>> => Head(spans).own = 0 /\ Last(spans).to = Len(Text)
    /\ \A i \in 1..Len(spans) - 1 : spans[i].to = spans[i + 1].own

(* The token limit holds with the overlap, the character limit without it; *)
(* the overlap takes at most its share, and nothing of a table or code.    *)
ChunkFits(c) ==
    /\ Count(c.from, c.to) <= knobs.tokens
    /\ c.to - c.own <= knobs.chars
    /\ Count(c.from, c.own) <= knobs.overlap
    /\ c.from < c.own => \A mk \in Marks("table") \cup Marks("code") : ~Meets(c.from, c.own, mk.from, mk.to)

(* Chunks of a document, in all four steps together: none of it is lost,   *)
(* and every chunk is within its limits.                                   *)
ChunksAreWhole ==
    cstep = "done" => TextIsCovered /\ \A i \in DOMAIN spans : ChunkFits(spans[i])
===============================================================================
