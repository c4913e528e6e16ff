------------------------- MODULE SmartSelectBlocks -------------------------
(***************************************************************************)
(* The header and block part of the Markdown smart-select provider         *)
(* (markdown-language-features/src/features/smartSelect.ts, lines 23-128  *)
(* and 187-223), as pure operators over an abstract document.             *)
(*                                                                         *)
(* A document d is a record:                                              *)
(*   d.n      its line count;                                             *)
(*   d.empty  the lines that are empty or whitespace (any other line is  *)
(*            one character of plain text: markers are the inline part's  *)
(*            business and are covered by SmartSelect's editor);          *)
(*   d.toks   the markdown-it block tokens in document order, each        *)
(*            [type, s, e] with token.map = [s, e);                       *)
(*   d.toc    the table of contents, each entry [line, last]: the header *)
(*            line and the last line of its section.                      *)
(* A position is <<line, character>>; a SelectionRange chain is a        *)
(* Result: ok is FALSE when a constructor threw, rs the ranges innermost *)
(* first (<<>> for undefined).                                            *)
(***************************************************************************)
EXTENDS Integers, Sequences, FiniteSets

LOCAL Ext == INSTANCE SequencesExt

\* Position order, as vscode.Position.isBefore / isBeforeOrEqual.
PosLE(p, q) == p[1] < q[1] \/ (p[1] = q[1] /\ p[2] <= q[2])

\* new vscode.Range(a, b): the constructor swaps ends given in reverse.
Rng(a, b) == IF PosLE(a, b) THEN [start |-> a, end |-> b] ELSE [start |-> b, end |-> a]

\* vscode.Range.contains(range).
RangeContains(outer, inner) == PosLE(outer.start, inner.start) /\ PosLE(inner.end, outer.end)

\* document.lineAt(l).text.length.
LineLen(d, l) == IF l \in d.empty THEN 0 ELSE 1

Ok(rs) == [ok |-> TRUE, rs |-> rs]
Threw == [ok |-> FALSE, rs |-> <<>>]

\* new vscode.SelectionRange(range, parent): throws unless the parent, when
\* given, contains the range; an exception of an earlier call propagates.
SR(range, parent) ==
    IF ~parent.ok THEN parent
    ELSE IF parent.rs # <<>> /\ ~RangeContains(parent.rs[1], range) THEN Threw
    ELSE Ok(<<range>> \o parent.rs)

-----------------------------------------------------------------------------
(* Headers: getHeadersForPosition, getFirstChildHeader, createHeaderRange. *)

SectionRange(d, h) == Rng(<<h.line, 0>>, <<h.last, LineLen(d, h.last)>>)

\* The enclosing headers, outermost (smallest line) first, as the sort by
\* header.line - position.line orders them.
HeadersForPosition(d, cl) ==
    Ext!SetToSortSeq({h \in d.toc : h.line <= cl /\ cl <= h.last},
                     LAMBDA a, b : a.line - cl < b.line - cl)

\* The end of the line before the first child header, or <<>>.
FirstChildHeader(d, h) ==
    LET children == {t \in d.toc : RangeContains(SectionRange(d, h), SectionRange(d, t))
                                   /\ t.line > h.line}
        first == CHOOSE t \in children : \A u \in children : t.line <= u.line
    IN  IF children = {} THEN <<>>
        ELSE << <<first.line - 1, LineLen(d, first.line - 1)>> >>

CreateHeaderRange(d, h, closest, onHeaderLine, parent, child) ==
    LET range == SectionRange(d, h)
        content == Rng(<<h.line + 1, 0>>, range.end)
    IN  IF onHeaderLine /\ closest /\ child # <<>>
        THEN SR(Rng(range.start, child[1]), SR(range, parent))
        ELSE IF onHeaderLine /\ closest THEN SR(range, parent)
        ELSE IF closest /\ child # <<>>
        THEN SR(Rng(content.start, child[1]), SR(content, SR(range, parent)))
        ELSE SR(content, SR(range, parent))

GetHeaderSelectionRange(d, cl) ==
    LET hs == HeadersForPosition(d, cl)
        onLine == \E h \in d.toc : h.line = cl
    IN  Ext!FoldLeft(LAMBDA acc, i :
                        CreateHeaderRange(d, hs[i], i = Len(hs), onLine, acc,
                                          FirstChildHeader(d, hs[i])),
                     Ok(<<>>), [i \in 1..Len(hs) |-> i])

-----------------------------------------------------------------------------
(* Blocks: getBlockTokensForPosition, createBlockRange, createFencedRange. *)

IsList(t) == t.type \in {"ordered_list_open", "list_item_open", "bullet_list_open"}

IsBlockElement(t) ==
    t.type \notin {"list_item_close", "paragraph_close", "bullet_list_close",
                   "inline", "heading_close", "heading_open"}

\* A visiting order with the comparator reversed: smallest map first.
BlockTokensSmallestFirst(d, cl) ==
    LET span(i) == d.toks[i].e - d.toks[i].s
        enc == {i \in DOMAIN d.toks : d.toks[i].s <= cl /\ cl < d.toks[i].e
                                      /\ IsBlockElement(d.toks[i])}
    IN  [k \in 1..Cardinality(enc) |->
            d.toks[Ext!SetToSortSeq(enc, LAMBDA i, j : span(i) < span(j) \/ (span(i) = span(j) /\ i < j))[k]]]

\* The enclosing block tokens, largest map first; the sort is stable, so
\* tokens with equal spans keep document order.
BlockTokensForPosition(d, cl) ==
    LET span(i) == d.toks[i].e - d.toks[i].s
        enc == {i \in DOMAIN d.toks : d.toks[i].s <= cl /\ cl < d.toks[i].e
                                      /\ IsBlockElement(d.toks[i])}
    IN  [k \in 1..Cardinality(enc) |->
            d.toks[Ext!SetToSortSeq(enc, LAMBDA i, j : span(i) > span(j) \/ (span(i) = span(j) /\ i < j))[k]]]

CreateFencedRange(d, t, cl, parent) ==
    LET startLine == t.s
        endLine == t.e - 1
        onFenceLine == cl = startLine \/ cl = endLine
        fence == Rng(<<startLine, 0>>, <<endLine, LineLen(d, endLine)>>)
        content == Rng(<<startLine + 1, 0>>, <<endLine - 1, LineLen(d, endLine - 1)>>)
    IN  IF endLine - startLine > 2 /\ ~onFenceLine THEN SR(content, SR(fence, parent))
        ELSE IF parent.ok /\ parent.rs # <<>> /\ parent.rs[1] = fence THEN parent
        ELSE SR(fence, parent)

CreateBlockRange(d, t, cl, parent) ==
    IF t.type = "fence" THEN CreateFencedRange(d, t, cl, parent)
    ELSE
    LET s0 == IF t.s \in d.empty THEN t.s + 1 ELSE t.s
        e0 == IF s0 = t.e THEN t.e ELSE t.e - 1
        twoLine == t.type = "paragraph_open" /\ t.e - t.s = 2
        startLine == IF twoLine THEN cl ELSE s0
        endLine == IF twoLine THEN cl ELSE IF IsList(t) /\ e0 \in d.empty THEN e0 - 1 ELSE e0
        range == Rng(<<startLine, 0>>, <<endLine, LineLen(d, endLine)>>)
        has == parent.ok /\ parent.rs # <<>>
    IN  IF ~parent.ok THEN parent
        ELSE IF has /\ RangeContains(parent.rs[1], range) /\ parent.rs[1] # range
        THEN Ok(<<range>> \o parent.rs)
        ELSE IF has /\ parent.rs[1] = range THEN parent
        ELSE Ok(<<range>>)

GetBlockSelectionRange(d, cl, header) ==
    LET bs == BlockTokensForPosition(d, cl)
        first == IF header.rs # <<>> \/ ~header.ok THEN header
                 ELSE CreateBlockRange(d, bs[1], cl, Ok(<<>>))
        rest == IF header.rs # <<>> \/ ~header.ok THEN bs ELSE Tail(bs)
    IN  IF bs = <<>> THEN Ok(<<>>)
        ELSE Ext!FoldLeft(LAMBDA acc, t : CreateBlockRange(d, t, cl, acc), first, rest)

\* provideSelectionRange on a line with no inline markers: the block range,
\* else the header range.  The header range is computed first, so an
\* exception there fails the request even when a block range exists.
ProvideSelectionRange(d, cl) ==
    LET header == GetHeaderSelectionRange(d, cl)
        block == GetBlockSelectionRange(d, cl, header)
    IN  IF ~header.ok THEN header
        ELSE IF block.rs # <<>> \/ ~block.ok THEN block
        ELSE header
=============================================================================
