--------------------------- MODULE JsWalkthrough ---------------------------
(***************************************************************************)
(* The JavaScript walkthrough commands                                     *)
(* (typescript-language-features/src/commands/jsWalkthrough.ts).          *)
(*                                                                         *)
(* "Create a JavaScript file" opens an untitled JavaScript document,      *)
(* remembers it as the walkthrough's example and shows it.  "Debug"       *)
(* looks for a document to debug (the example if it is visible, else any  *)
(* visible JavaScript editor, else a tab whose path ends in .mjs or .js),  *)
(* shows it, or creates a new example when none is found, and then starts *)
(* the debugger.  Each await is a step; several command invocations may    *)
(* be in flight, and the user opens, focuses and closes editors between    *)
(* any two steps.  Tab groups are flattened into one tab order.            *)
(***************************************************************************)
EXTENDS Naturals, Sequences

LOCAL Ext == INSTANCE SequencesExt

CONSTANTS
    MaxInvocations,     \* command invocations
    MaxExamples         \* example documents openTextDocument creates

\* Documents the user has: a path extension and a language.
UserDocs == {[name |-> "app", num |-> 0, lang |-> "javascript", ext |-> ".js"],
             [name |-> "main", num |-> 0, lang |-> "typescript", ext |-> ".ts"]}

\* openTextDocument({language: 'javascript'}) gives an untitled document,
\* whose path (Untitled-n) has no extension.
Example(n) == [name |-> "untitled", num |-> n, lang |-> "javascript", ext |-> ""]

Invocations == 1..MaxInvocations

VARIABLES
    example,    \* walkthroughState.exampleJsDocument: <<>> or <<doc>>
    created,    \* example documents created so far
    tabs,       \* open text tabs, in tabGroups order
    visible,    \* documents of window.visibleTextEditors
    active,     \* window.activeTextEditor's document: <<>> or <<doc>>
    inv         \* per invocation: [cmd, pc, doc]

vars == <<example, created, tabs, visible, active, inv>>

Init ==
    /\ example = <<>> /\ created = 0
    /\ tabs = <<>> /\ visible = {} /\ active = <<>>
    /\ inv = [i \in Invocations |-> [cmd |-> "none", pc |-> "idle", doc |-> <<>>]]

Set(i, cmd, pc, doc) == inv' = [inv EXCEPT ![i] = [cmd |-> cmd, pc |-> pc, doc |-> doc]]

\* showTextDocument(d): opens a tab if none, shows and focuses it.
Show(d) ==
    /\ tabs' = IF d \in Ext!ToSet(tabs) THEN tabs ELSE Append(tabs, d)
    /\ visible' = visible \cup {d}
    /\ active' = <<d>>

-----------------------------------------------------------------------------
(* createNewJSFile and debugJsFile.                                        *)

\* CreateNewJSFileCommand.execute: openTextDocument is awaited.
CreateCommand(i) ==
    /\ inv[i].pc = "idle"
    /\ Set(i, "create", "opening", <<>>)
    /\ UNCHANGED <<example, created, tabs, visible, active>>

\* openTextDocument resolves: the new document becomes the example and
\* showTextDocument is awaited (lines 41-46).
Opened(i) ==
    /\ inv[i].pc = "opening" /\ created < MaxExamples
    /\ created' = created + 1
    /\ example' = <<Example(created + 1)>>
    /\ Set(i, inv[i].cmd, "showing", <<Example(created + 1)>>)
    /\ UNCHANGED <<tabs, visible, active>>

\* tryFindRelevantDocument for one extension (lines 97-127).
FindRelevant(last, ext) ==
    LET byLast == {d \in visible : last # <<>> /\ d = last[1]}
        byLang == {d \in visible : d.lang = "javascript"}
        hidden == {k \in DOMAIN tabs : tabs[k].ext = ext}
    IN  CASE byLast # {} -> [kind |-> "visible", doc |-> CHOOSE d \in byLast : TRUE]
          [] byLang # {} -> [kind |-> "visible", doc |-> CHOOSE d \in byLang : TRUE]
          [] hidden # {} -> [kind |-> "hidden", doc |-> tabs[CHOOSE k \in hidden : \A j \in hidden : k <= j]]
          [] OTHER -> [kind |-> "not-found"]

\* The loop over ['.mjs', '.js'] (lines 60-65).
Search(last) ==
    IF FindRelevant(last, ".mjs").kind # "not-found" THEN FindRelevant(last, ".mjs")
    ELSE FindRelevant(last, ".js")

\* DebugJsFileCommand.execute: the search and the switch (lines 49-87).
\* A visible editor that is already active goes straight to the debug
\* commands; otherwise showTextDocument or createNewJSFile is awaited.
DebugCommand(i) ==
    /\ inv[i].pc = "idle"
    /\ LET r == Search(example)
       IN  CASE r.kind = "visible" /\ active = <<r.doc>> -> Set(i, "debug", "starting", <<r.doc>>)
             [] r.kind = "not-found" -> Set(i, "debug", "opening", <<>>)
             [] OTHER -> Set(i, "debug", "showing", <<r.doc>>)
    /\ UNCHANGED <<example, created, tabs, visible, active>>

\* showTextDocument resolves; a debug invocation then starts the debugger.
Shown(i) ==
    /\ inv[i].pc = "showing"
    /\ Show(inv[i].doc[1])
    /\ Set(i, inv[i].cmd, IF inv[i].cmd = "debug" THEN "starting" ELSE "done", inv[i].doc)
    /\ UNCHANGED <<example, created>>

\* workbench.action.debug.start and focusRepl (lines 89-92).
StartDebug(i) ==
    /\ inv[i].pc = "starting"
    /\ Set(i, "debug", "done", inv[i].doc)
    /\ UNCHANGED <<example, created, tabs, visible, active>>

\* JsWalkthroughState.dispose.
Dispose ==
    /\ example # <<>>
    /\ example' = <<>>
    /\ UNCHANGED <<created, tabs, visible, active, inv>>

-----------------------------------------------------------------------------
(* The user.                                                               *)

\* Opening or focusing a document; editors of the same group that it
\* covers stop being visible.
UserShow(d) ==
    /\ \E keep \in SUBSET visible :
          /\ tabs' = IF d \in Ext!ToSet(tabs) THEN tabs ELSE Append(tabs, d)
          /\ visible' = keep \cup {d}
          /\ active' = <<d>>
    /\ UNCHANGED <<example, created, inv>>

UserClose(k) ==
    /\ tabs' = Ext!RemoveAt(tabs, k)
    /\ visible' = visible \ {tabs[k]}
    /\ active' = IF active = <<tabs[k]>> THEN <<>> ELSE active
    /\ UNCHANGED <<example, created, inv>>

Next ==
    \/ \E i \in Invocations :
          CreateCommand(i) \/ Opened(i) \/ DebugCommand(i) \/ Shown(i) \/ StartDebug(i)
    \/ Dispose
    \/ \E d \in UserDocs \cup Ext!ToSet(tabs) : UserShow(d)
    \/ \E k \in DOMAIN tabs : UserClose(k)

Spec == Init /\ [][Next]_vars

-----------------------------------------------------------------------------
(* Properties.                                                              *)

\* The debug command reuses the example document while it is still open:
\* it creates a new example only when the one from the last step has no
\* tab ("Try to find the document created from the last step", "find a
\* possibly not-visible document").
ReusesOpenExample ==
    [][\A i \in Invocations :
         inv'[i].cmd = "debug" /\ inv'[i].pc = "opening" /\ inv[i].pc = "idle"
            => example = <<>> \/ example[1] \notin Ext!ToSet(tabs)]_vars
=============================================================================
