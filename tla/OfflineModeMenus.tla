-------------------------- MODULE OfflineModeMenus --------------------------
(***************************************************************************)
(* What the offline-mode menu items promise (offlineMode.ts, lines        *)
(* 129-169): "Enable Offline Mode" is offered when the context key         *)
(* config.workbench.enableOfflineMode is not set, "Disable Offline Mode"  *)
(* when it is.  An action object of a kind, once it exists, shows the      *)
(* same state as that kind's menu item.                                    *)
(*                                                                         *)
(* state[k] is the set of enabled flags the live objects of kind k hold:  *)
(* {} before any exists, and one flag, the menu's, afterwards.             *)
(***************************************************************************)
EXTENDS Naturals

CONSTANTS Values, Kinds

VARIABLES setting, state

\* The when-clauses: ContextKeyExpr.not / ContextKeyExpr.has on the
\* setting's context key, which tests the value for truthiness.
Truthy(v) == v \notin {"unset", "false"}
Visible(kind, v) == IF kind = "enable" THEN ~Truthy(v) ELSE Truthy(v)

Init ==
    /\ setting \in Values
    /\ state = [k \in Kinds |-> {}]

\* A command creates an object of kind k: it shows the menu's state.
Create(k) ==
    /\ state' = [state EXCEPT ![k] = {Visible(k, setting)}]
    /\ UNCHANGED setting

\* The setting changes: every existing object follows its menu item.
Change(v) ==
    /\ setting' = v
    /\ state' = [k \in Kinds |-> IF state[k] = {} THEN {} ELSE {Visible(k, v)}]

Next == \E k \in Kinds : Create(k) \/ \E v \in Values : Change(v)

Spec == Init /\ [][Next]_<<setting, state>>
=============================================================================
