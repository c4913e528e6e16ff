-------------------------- MODULE HtmlVirtualCode --------------------------
(***************************************************************************)
(* The HTML language server's Volar plugin                                 *)
(* (html-language-features/server/src/modes/languagePlugin.ts).            *)
(*                                                                         *)
(* createHtmlVirtualCode turns the embedded regions of an HTML document    *)
(* (getDocumentRegions, not in the repository) into embedded virtual      *)
(* codes: the classic scripts ("global scripts") become one JavaScript    *)
(* code, concatenated when there are several, plus a syntax-only code per *)
(* script; every other region with a language becomes a code of its own. *)
(* getServiceScript and getExtraServiceScripts then choose the codes the  *)
(* TypeScript service sees, and the file names it sees them under.         *)
(*                                                                         *)
(* A region is a record: lang ("" for no languageId), module (a module    *)
(* script), attr (an attribute value), start and length (its range in the *)
(* HTML), gstart (where that range begins in its content) and clen (the   *)
(* content's length).  An id is the list of its '_'-separated parts, as   *)
(* split('_') sees it; language ids contain no '_'.  A mapping is         *)
(* [src, gen, len, data], data the set of capabilities it enables.         *)
(*                                                                         *)
(* The state is an input generator only: a document is built one region  *)
(* at a time, and the properties are checked on every document built.    *)
(***************************************************************************)
EXTENDS Naturals, Sequences, FiniteSets, TLC

LOCAL Ext == INSTANCE SequencesExt

CONSTANTS
    Langs,          \* language ids getDocumentRegions can give, besides ""
    MaxRegions,     \* embedded regions per document
    MaxLength       \* longest region

ASSUME "javascript" \in Langs /\ "typescript" \in Langs

VARIABLE regions    \* documentRegions.getEmbeddedRegions(), in document order

AllCaps == {"verification", "completion", "semantic", "navigation", "structure", "format"}

\* The data of an attribute value's mapping (lines 194-196).
AttrCaps == {"completion", "semantic", "navigation", "structure"}

\* The data of the concatenated script's mappings (line 124).
MergedCaps == {"verification", "completion", "semantic", "navigation"}

\* A syntax-only code that also reports diagnostics.
SyntaxCapsVerifying == {"structure", "format", "verification"}

\* The data of a syntax-only script code's mapping (line 146).
SyntaxCaps == {"structure", "format"}

GlobalId == <<"global", "script">>

\* isGlobalScript: a classic (non-module) JavaScript region.
IsGlobalScript(r) == r.lang = "javascript" /\ ~r.module

Code(id, lang, maps, textLen) == [id |-> id, lang |-> lang, maps |-> maps, textLen |-> textLen]

OwnMapping(r, data) == [src |-> r.start, gen |-> r.gstart, len |-> r.length, data |-> data]

-----------------------------------------------------------------------------
(* getGlobalScriptVirtualCodes                                             *)

\* The mapping pushed after the script was appended to text.
MergedMappingAfterAppend(g, textLen) ==
    [src |-> g.start, gen |-> textLen + g.clen + g.gstart, len |-> g.length, data |-> MergedCaps]

\* The mapping of a script into the concatenated text, pushed before the
\* script's content is appended (lines 120-126).
MergedMapping(g, textLen) ==
    [src |-> g.start, gen |-> textLen + g.gstart, len |-> g.length, data |-> MergedCaps]

\* One iteration of the loop over the global scripts: the mapping, the
\* text, and the syntax code 'global_script_<n>_syntax' (lines 119-150).
GlobalStep(acc, g) ==
    [codes |-> Append(acc.codes, Code(<<"global", "script", ToString(acc.n), "syntax">>,
                                       g.lang, <<OwnMapping(g, SyntaxCaps)>>, g.clen)),
     maps  |-> Append(acc.maps, MergedMapping(g, acc.text)),
     text  |-> acc.text + g.clen,
     n     |-> acc.n + 1]

GlobalScriptVirtualCodes(rs) ==
    LET gs == SelectSeq(rs, IsGlobalScript)
        acc == Ext!FoldLeft(GlobalStep, [codes |-> <<>>, maps |-> <<>>, text |-> 0, n |-> 0], gs)
    IN  CASE Len(gs) = 1 -> <<Code(GlobalId, "javascript", <<OwnMapping(gs[1], AllCaps)>>, gs[1].clen)>>
          [] Len(gs) >= 2 -> Append(acc.codes, Code(GlobalId, "javascript", acc.maps, acc.text))
          [] OTHER -> <<>>

-----------------------------------------------------------------------------
(* getOtherLanguageVirtualCodes                                            *)

IsOtherLanguage(r) == r.lang # "" /\ ~IsGlobalScript(r)

\* indexMap[languageId] that is never incremented.
LangIndexUnincremented(rs, i) == 0

\* indexMap[languageId] when region i is reached: the earlier regions of
\* the same language that got a code (lines 175, 199).
LangIndex(rs, i) ==
    Cardinality({j \in 1..(i - 1) : IsOtherLanguage(rs[j]) /\ rs[j].lang = rs[i].lang})

OtherLanguageVirtualCodes(rs) ==
    LET others == {i \in DOMAIN rs : IsOtherLanguage(rs[i])}
        order == Ext!SetToSortSeq(others, <)
    IN  [k \in DOMAIN order |->
            LET r == rs[order[k]]
            IN  Code(<<r.lang, ToString(LangIndex(rs, order[k]))>>, r.lang,
                     <<OwnMapping(r, IF r.attr THEN AttrCaps ELSE AllCaps)>>, r.clen)]

\* The embeddedCodes of the root code (lines 81-84).
EmbeddedCodes(rs) == GlobalScriptVirtualCodes(rs) \o OtherLanguageVirtualCodes(rs)

-----------------------------------------------------------------------------
(* The TypeScript hooks, iterating forEachEmbeddedCode (root first, then   *)
(* its embedded codes in order; the root's id is 'root').                  *)

\* getServiceScript: the first code whose id is 'global_script'.
ServiceScript(codes) ==
    LET hits == SelectSeq(codes, LAMBDA c : c.id = GlobalId)
    IN  IF hits = <<>> THEN <<>> ELSE <<[code |-> hits[1], ext |-> "js", kind |-> 1]>>

\* The name fileName + '.' + id.split('_')[0] + ext.
ExtraFileNameFirstPart(c, ext) == <<c.id[1], ext>>

\* fileName + '.' + code.id.split('_')[1] + ext (lines 47, 55); the
\* fileName itself is common to all and left out.
ExtraFileName(c, ext) == <<c.id[2], ext>>

\* getExtraServiceScripts: codes whose id starts with 'javascript_' or
\* 'typescript_' (lines 42-63).
ExtraServiceScripts(codes) ==
    LET sel == SelectSeq(codes, LAMBDA c : Len(c.id) > 1 /\ c.id[1] \in {"javascript", "typescript"})
    IN  [k \in DOMAIN sel |->
            LET c == sel[k]
                ext == IF c.id[1] = "javascript" THEN ".js" ELSE ".ts"
            IN  [code |-> c, fileName |-> ExtraFileName(c, ext), ext |-> ext,
                 kind |-> IF ext = ".js" THEN 1 ELSE 3]]

-----------------------------------------------------------------------------
(* The input generator.                                                    *)

Regions ==
    {r \in [lang : Langs \cup {""}, module : BOOLEAN, attr : BOOLEAN,
            gstart : 0..1, length : 1..MaxLength, pad : 0..1] :
        /\ r.module => r.lang = "javascript" /\ ~r.attr
        /\ r.attr => r.lang # "typescript" /\ r.lang # ""}

\* The next region starts after the previous one; its content holds
\* gstart characters before the mapped range and pad after it.
Place(r) ==
    LET start == IF regions = <<>> THEN 0 ELSE regions[Len(regions)].start + regions[Len(regions)].length + 1
    IN  [lang |-> r.lang, module |-> r.module, attr |-> r.attr, start |-> start,
         length |-> r.length, gstart |-> r.gstart, clen |-> r.gstart + r.length + r.pad]

Init == regions = <<>>

AddRegion(r) ==
    /\ Len(regions) < MaxRegions
    /\ regions' = Append(regions, Place(r))

Next == \E r \in Regions : AddRegion(r)

Spec == Init /\ [][Next]_regions

Codes == EmbeddedCodes(regions)

-----------------------------------------------------------------------------
(* Properties.                                                              *)

\* Volar addresses embedded codes by id: no two embedded codes of a
\* document share an id, whatever mix of classic scripts, module scripts
\* and other languages it has (the shared indexMap of lines 127 and 175).
IdsUnique ==
    \A i, j \in DOMAIN Codes : i # j => Codes[i].id # Codes[j].id

\* The extra service scripts handed to TypeScript have distinct file names
\* (getExtraServiceScripts names them by the index part of the code id),
\* and none of them is the service script itself.
ExtraScriptsDistinct ==
    LET xs == ExtraServiceScripts(Codes)
        main == ServiceScript(Codes)
    IN  /\ \A i, j \in DOMAIN xs : i # j => xs[i].fileName # xs[j].fileName
        /\ \A i \in DOMAIN xs : main # <<>> => xs[i].code # main[1].code

\* Every region with a language gets each of its capabilities from exactly
\* one virtual code, so diagnostics, completions and formatting are
\* neither lost nor doubled when classic scripts are split into a merged
\* code and syntax-only codes; an attribute value of another language
\* gets no diagnostics and no formatting.
CapabilitiesOnce ==
    \A r \in Ext!ToSet(regions) : \A c \in AllCaps :
        LET serving == {ik \in UNION {{i} \X DOMAIN Codes[i].maps : i \in DOMAIN Codes} :
                            LET m == Codes[ik[1]].maps[ik[2]] IN m.src = r.start /\ c \in m.data}
            wanted == CASE r.lang = "" -> {}
                        [] IsOtherLanguage(r) /\ r.attr -> AttrCaps
                        [] OTHER -> AllCaps
        IN  Cardinality(serving) = IF c \in wanted THEN 1 ELSE 0

\* In the concatenated script each mapping lands inside the slice of the
\* text that holds its own script's content, as the concatenation lays it
\* out: the offset is read before the script is appended (lines 122, 126).
MergedMappingsInSlice ==
    LET gs == SelectSeq(regions, IsGlobalScript)
        off(k) == Ext!FoldLeft(LAMBDA a, g : a + g.clen, 0, SubSeq(gs, 1, k - 1))
        merged == SelectSeq(Codes, LAMBDA c : c.id = GlobalId)
    IN  Len(gs) >= 2 =>
            \A k \in DOMAIN gs :
                LET m == merged[1].maps[k]
                IN  off(k) <= m.gen /\ m.gen + m.len <= off(k) + gs[k].clen
=============================================================================
