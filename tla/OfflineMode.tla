---------------------------- MODULE OfflineMode ----------------------------
(***************************************************************************)
(* Offline mode actions (vs/platform/actions/common/offlineMode.ts).       *)
(*                                                                         *)
(* The commands workbench.action.enable/disableOfflineMode create a new   *)
(* EnableOfflineMode or DisableOfflineMode instance on every invocation    *)
(* and run it.  Each instance subscribes to onDidChangeConfiguration to   *)
(* keep its enabled flag in step with workbench.enableOfflineMode.  run() *)
(* asks the configuration service to update the setting; the write is     *)
(* queued and its change event reaches every subscribed instance when it   *)
(* lands.  EnableOfflineMode shows a disclaimer unless "Don't Show Again"  *)
(* was stored; NotifyUnsupportedFeatureInOfflineMode shows a prompt whose  *)
(* button disables offline mode.  The user may also edit the setting.      *)
(***************************************************************************)
EXTENDS Naturals, Sequences

CONSTANTS
    Values,         \* values of the setting: "unset", "true", "false" (JSON)
    MaxInstances,   \* command invocations creating an action instance
    MaxWrites,      \* configuration writes queued at once
    MaxPrompts      \* notifications open at once

ASSUME {"unset", "true", "false"} \subseteq Values

VARIABLES
    setting,    \* configurationService.getValue(offlineModeSetting)
    writes,     \* updateValue requests not yet applied, oldest first
    instances,  \* action instances created, in order: [kind, enabled]
    dontShow,   \* storage: workbench.offlineMode.disclaimer.dontShowAgain
    prompts     \* open notifications: "disclaimer" or "unsupported"

vars == <<setting, writes, instances, dontShow, prompts>>

Kinds == {"enable", "disable"}

Init ==
    /\ setting \in Values
    /\ writes = <<>>
    /\ instances = <<>>
    /\ dontShow \in BOOLEAN
    /\ prompts = <<>>

-----------------------------------------------------------------------------

\* updateEnabled of each class.
EnabledFor(kind, v) == IF kind = "enable" THEN v # "true" ELSE v = "true"

\* A change event that only EnableOfflineMode listens to.
RefreshEnableOnly(insts, v) ==
    [i \in DOMAIN insts |-> IF insts[i].kind = "enable"
                            THEN [insts[i] EXCEPT !.enabled = EnabledFor("enable", v)]
                            ELSE insts[i]]

\* The onDidChangeConfiguration listeners of all live instances run.
Refresh(insts, v) == [i \in DOMAIN insts |-> [insts[i] EXCEPT !.enabled = EnabledFor(insts[i].kind, v)]]

\* configurationService.updateValue(offlineModeSetting, v): queued.
UpdateValue(v) == writes' = Append(writes, v)

CanWrite == Len(writes) < MaxWrites

\* The enable command: a new instance, constructed (updateEnabled and the
\* subscription), then run: the disclaimer unless stored, then the write.
RunEnable ==
    /\ Len(instances) < MaxInstances /\ CanWrite
    /\ ~dontShow => Len(prompts) < MaxPrompts
    /\ instances' = Append(instances, [kind |-> "enable", enabled |-> EnabledFor("enable", setting)])
    /\ prompts' = IF dontShow THEN prompts ELSE Append(prompts, "disclaimer")
    /\ UpdateValue("true")
    /\ UNCHANGED <<setting, dontShow>>

\* The disable command: a new instance, constructed, then run.
RunDisable ==
    /\ Len(instances) < MaxInstances /\ CanWrite
    /\ instances' = Append(instances, [kind |-> "disable", enabled |-> EnabledFor("disable", setting)])
    /\ UpdateValue("false")
    /\ UNCHANGED <<setting, dontShow, prompts>>

\* The notify command: an instance with no subscription shows a prompt.
RunNotify ==
    /\ Len(prompts) < MaxPrompts
    /\ prompts' = Append(prompts, "unsupported")
    /\ UNCHANGED <<setting, writes, instances, dontShow>>

\* Removing the i-th open notification.
Close(i) == [j \in 1..(Len(prompts) - 1) |-> IF j < i THEN prompts[j] ELSE prompts[j + 1]]

\* A button of the i-th notification is pressed: "Don't Show Again" stores
\* the flag, "Disable Offline Mode" writes FALSE.
Click(i) ==
    /\ prompts[i] = "unsupported" => CanWrite
    /\ dontShow' = (dontShow \/ prompts[i] = "disclaimer")
    /\ IF prompts[i] = "unsupported" THEN UpdateValue("false") ELSE UNCHANGED writes
    /\ prompts' = Close(i)
    /\ UNCHANGED <<setting, instances>>

Dismiss(i) ==
    /\ prompts' = Close(i)
    /\ UNCHANGED <<setting, writes, instances, dontShow>>

\* The oldest write lands; the change event reaches every instance.
WriteDone ==
    /\ writes # <<>>
    /\ setting' = Head(writes)
    /\ writes' = Tail(writes)
    /\ instances' = Refresh(instances, Head(writes))
    /\ UNCHANGED <<dontShow, prompts>>

\* The user edits settings.json.
EditSetting(v) ==
    /\ v # setting
    /\ setting' = v
    /\ instances' = Refresh(instances, v)
    /\ UNCHANGED <<writes, dontShow, prompts>>

Next ==
    \/ RunEnable \/ RunDisable \/ RunNotify
    \/ \E i \in 1..Len(prompts) : Click(i) \/ Dismiss(i)
    \/ WriteDone
    \/ \E v \in Values : EditSetting(v)

Spec == Init /\ [][Next]_vars

-----------------------------------------------------------------------------
(* Properties.                                                              *)

\* The action objects implement the menus: mapping each kind to the enabled
\* flags its objects hold, every step of the commands, the queued writes and
\* the user's edits is a step of OfflineModeMenus.  So an object's enabled
\* flag (updateEnabled, lines 47 and 91) always agrees with its menu
\* item's when-clause (lines 136 and 146), however old the object is.
Menus == INSTANCE OfflineModeMenus WITH
    state <- [k \in Kinds |-> {instances[i].enabled : i \in {j \in DOMAIN instances : instances[j].kind = k}}]

Refines == Menus!Spec
=============================================================================
