---------------------------- MODULE SmartSelect ----------------------------
(***************************************************************************)
(* The inline part of the Markdown smart-select provider                   *)
(* (markdown-language-features/src/features/smartSelect.ts).               *)
(*                                                                         *)
(* createInlineRange is a pure function of the cursor line and column.     *)
(* It is modelled as the operator CreateInlineRange, with JavaScript's     *)
(* substring, indexOf and lastIndexOf translated by what they do on a      *)
(* line of characters and vscode.Range by what its constructor does.      *)
(* A small editor drives the check: it types characters and moves the      *)
(* cursor, so that every line up to MaxLen characters, with every cursor  *)
(* column, is a reachable state on which the invariants are evaluated.     *)
(* The header and block part (SmartSelectBlocks) is driven by a second    *)
(* kind of state: one of the documents Docs, with the cursor moving over  *)
(* its lines.                                                              *)
(***************************************************************************)
EXTENDS Integers, Sequences, FiniteSets, SmartSelectBlocks

LOCAL Fn == INSTANCE Functions

CONSTANTS
    Chars,      \* characters a line is made of (markers and plain text)
    MaxLen      \* longest line considered

ASSUME {"*", "[", "]", "(", ")"} \subseteq Chars /\ MaxLen \in Nat

VARIABLES
    line,       \* document.lineAt(cursorPosition.line).text
    cursor,     \* cursorPosition.character (0-based, 0..Len(line))
    doc,        \* a document of Docs, or NoDoc while the editor runs
    cl          \* cursorPosition.line in doc

vars == <<line, cursor, doc, cl>>

-----------------------------------------------------------------------------
(* JavaScript string primitives; columns are 0-based as in the code.      *)

MinOf(a, b) == IF a <= b THEN a ELSE b
MaxOf(a, b) == IF a >= b THEN a ELSE b

\* s.substring(from, to) for 0 <= from <= to: indices clamped to the length.
Substring(s, from, to) == SubSeq(s, MinOf(from, Len(s)) + 1, MinOf(to, Len(s)))

\* The 0-based columns at which pat occurs in s.
Occurrences(s, pat) ==
    {i \in 0..(Len(s) - Len(pat)) : SubSeq(s, i + 1, i + Len(pat)) = pat}

\* s.indexOf(pat) and s.lastIndexOf(pat): -1 when pat does not occur.
IndexOf(s, pat) ==
    IF Occurrences(s, pat) = {} THEN -1
    ELSE CHOOSE i \in Occurrences(s, pat) : \A j \in Occurrences(s, pat) : i <= j
LastIndexOf(s, pat) ==
    IF Occurrences(s, pat) = {} THEN -1
    ELSE CHOOSE i \in Occurrences(s, pat) : \A j \in Occurrences(s, pat) : i >= j

\* new vscode.Range(l, a, l, b) on one line: the constructor orders the ends.
Range(a, b) == [start |-> MinOf(a, b), end |-> MaxOf(a, b)]

-----------------------------------------------------------------------------
(* createInlineRange.  A SelectionRange chain is a sequence of ranges,     *)
(* innermost first; the block range passed as parent follows it and is    *)
(* the whole line (createBlockRange always spans full lines).  <<>> is    *)
(* undefined.                                                               *)

\* lastIndexOf(open) in the text up to and including the cursor column.
StartOf(l, c, open) == LastIndexOf(Substring(l, 0, c + 1), open)

\* c + 1 + indexOf(close) in the text after the cursor column.
EndOf(l, c, close) == c + 1 + IndexOf(Substring(l, c + 1, Len(l)), close)

\* The bold case: "**" ... "**".
BoldRange(l, c) ==
    LET s == StartOf(l, c, <<"*", "*">>)
        e == EndOf(l, c, <<"*", "*">>)
    IN  IF ~(s >= 0 /\ e >= 0) THEN <<>>
        ELSE IF c > s /\ c < e THEN << Range(s + 2, e), Range(s, e) >>
        ELSE << Range(s, e) >>

\* A variant that always includes the closing character in the span.
PairRangeAlwaysClosing(l, c, open, close) ==
    LET s == StartOf(l, c, <<open>>)
        e == EndOf(l, c, <<close>>)
    IN  IF ~(s >= 0 /\ e >= 0) THEN <<>>
        ELSE IF c > s /\ c < e THEN << Range(s + 1, e), Range(s, e) >>
        ELSE << Range(s, e + 1) >>

\* The bracket and parenthesis cases share their shape: the content, then
\* the span; on the opening character the span includes the closing one.
PairRange(l, c, open, close) ==
    LET s == StartOf(l, c, <<open>>)
        e == EndOf(l, c, <<close>>)
    IN  IF ~(s >= 0 /\ e >= 0) THEN <<>>
        ELSE IF c > s /\ c < e THEN << Range(s + 1, e), Range(s, e) >>
        ELSE IF c = s THEN << Range(s, e + 1) >>
        ELSE << Range(s, e) >>

CreateInlineRange(l, c) ==
    IF BoldRange(l, c) # <<>> THEN BoldRange(l, c)
    ELSE IF PairRange(l, c, "[", "]") # <<>> THEN PairRange(l, c, "[", "]")
    ELSE PairRange(l, c, "(", ")")

-----------------------------------------------------------------------------
(* The documents of the header and block part: the tokens markdown-it     *)
(* produces for them (only opening tokens carry a map; inline and heading *)
(* tokens are kept, the code filters them) and the table of contents.    *)
(* A section runs to the line before the next header of the same or a    *)
(* higher level, or to the last line.                                     *)

Tok(type, s, e) == [type |-> type, s |-> s, e |-> e]
Sec(l, last) == [line |-> l, last |-> last]
Para(s, e) == << Tok("paragraph_open", s, e), Tok("inline", s, e) >>
Heading(l) == << Tok("heading_open", l, l + 1), Tok("inline", l, l + 1) >>
Doc(n, empty, toks, toc) == [n |-> n, empty |-> empty, toks |-> toks, toc |-> toc]

NoDoc == Doc(0, {}, <<>>, {})

Docs == {
    \* "- a" / "" / "- b": a loose list.
    Doc(3, {1}, << Tok("bullet_list_open", 0, 3), Tok("list_item_open", 0, 2) >> \o Para(0, 1)
                \o << Tok("list_item_open", 2, 3) >> \o Para(2, 3), {}),
    \* "- a" / "- b" / "": the last item takes the trailing blank line.
    Doc(3, {2}, << Tok("bullet_list_open", 0, 3), Tok("list_item_open", 0, 1) >> \o Para(0, 1)
                \o << Tok("list_item_open", 1, 3) >> \o Para(1, 2), {}),
    \* "- ```" / "  x" / "" / "y": a fence left open inside a list item.
    Doc(4, {2}, << Tok("bullet_list_open", 0, 3), Tok("list_item_open", 0, 3),
                   Tok("fence", 0, 3) >> \o Para(3, 4), {}),
    \* "```" / "a" / "b" / "```" and "```" / "a" / "```" / "".
    Doc(4, {}, << Tok("fence", 0, 4) >>, {}),
    Doc(4, {3}, << Tok("fence", 0, 3) >>, {}),
    \* "# A" / "## B" / "x" / "# C".
    Doc(4, {}, Heading(0) \o Heading(1) \o Para(2, 3) \o Heading(3),
        {Sec(0, 2), Sec(1, 2), Sec(3, 3)}),
    \* "# A" / "a" / "b" / "": a two-line paragraph.
    Doc(4, {3}, Heading(0) \o Para(1, 3), {Sec(0, 3)}),
    \* "# A" / "- a" / "- b" / "": a list in a section.
    Doc(4, {3}, Heading(0) \o << Tok("bullet_list_open", 1, 4), Tok("list_item_open", 1, 2) >>
                \o Para(1, 2) \o << Tok("list_item_open", 2, 4) >> \o Para(2, 3), {Sec(0, 3)}),
    \* "# A" / "x" / "## B" / "y": text before the first child header.
    Doc(4, {}, Heading(0) \o Para(1, 2) \o Heading(2) \o Para(3, 4), {Sec(0, 3), Sec(2, 3)})
}

-----------------------------------------------------------------------------
(* The inputs: either the editor types and moves over one line (doc is     *)
(* NoDoc), or the cursor moves over the lines of a document of Docs.      *)

Init ==
    \/ /\ line = <<>> /\ cursor = 0
       /\ doc = NoDoc /\ cl = 0
    \/ /\ line = <<>> /\ cursor = 0
       /\ doc \in Docs /\ cl \in 0..(doc.n - 1)

\* Typing a character at the cursor.
Type(ch) ==
    /\ doc = NoDoc
    /\ Len(line) < MaxLen
    /\ line' = SubSeq(line, 1, cursor) \o <<ch>> \o SubSeq(line, cursor + 1, Len(line))
    /\ cursor' = cursor + 1
    /\ UNCHANGED <<doc, cl>>

MoveLeft ==
    /\ doc = NoDoc
    /\ cursor > 0
    /\ cursor' = cursor - 1
    /\ UNCHANGED <<line, doc, cl>>

MoveRight ==
    /\ doc = NoDoc
    /\ cursor < Len(line)
    /\ cursor' = cursor + 1
    /\ UNCHANGED <<line, doc, cl>>

\* The cursor moves to another line of the document.
MoveLine(l) ==
    /\ doc # NoDoc
    /\ l # cl
    /\ cl' = l
    /\ UNCHANGED <<line, cursor, doc>>

Next ==
    \/ \E ch \in Chars : Type(ch)
    \/ MoveLeft
    \/ MoveRight
    \/ \E l \in 0..(doc.n - 1) : MoveLine(l)

Spec == Init /\ [][Next]_vars

-----------------------------------------------------------------------------
(* Properties of the chain createInlineRange returns at the cursor.       *)

Sel == CreateInlineRange(line, cursor)

Within(r, outer) == outer.start <= r.start /\ r.end <= outer.end

\* Every range of the chain lies inside the next one, and the outermost
\* inside the block range (the whole line) that createInlineRange is given
\* as parent; vscode.SelectionRange's constructor rejects a parent that
\* does not contain its child.
ChainNested ==
    /\ \A i \in 1..(Len(Sel) - 1) : Within(Sel[i], Sel[i + 1])
    /\ \A i \in 1..Len(Sel) : Within(Sel[i], Range(0, Len(line)))

-----------------------------------------------------------------------------
(* Properties of the chain provideSelectionRange returns on a document.   *)

Result == ProvideSelectionRange(doc, cl)

\* The sections enclosing the cursor line.
EnclosingSections == {h \in doc.toc : h.line <= cl /\ cl <= h.last}

\* Inside a header section the chain always reaches the whole outermost
\* section, whatever blocks lie in between: createBlockRange keeps the
\* header chain as parent as long as each block range nests in the one
\* before, which relies on the blocks being visited largest map first.
\* Outside any section the chain ends at the first line of the largest
\* enclosing block.
ChainReachesEnclosing ==
    doc # NoDoc /\ Result.ok /\ Result.rs # <<>> =>
        LET out == Result.rs[Len(Result.rs)]
        IN  IF EnclosingSections # {}
            THEN out = SectionRange(doc, CHOOSE h \in EnclosingSections :
                                            \A g \in EnclosingSections : h.line <= g.line)
            ELSE \A t \in Fn!Range(doc.toks) :
                    t.s <= cl /\ cl < t.e /\ IsBlockElement(t) => out.start[1] <= t.s

\* What the extension host accepts from a selection range provider: no
\* SelectionRange constructor throws (each parent contains its child), and
\* the innermost range contains the position it was asked for.  It rejects
\* the whole request otherwise.
ChainValid ==
    IF doc = NoDoc
    THEN Sel # <<>> => Sel[1].start <= cursor /\ cursor <= Sel[1].end
    ELSE /\ Result.ok
         /\ Result.rs # <<>> => RangeContains(Result.rs[1], Rng(<<cl, 0>>, <<cl, 0>>))
=============================================================================
