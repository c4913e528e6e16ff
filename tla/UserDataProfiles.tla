------------------------- MODULE UserDataProfiles -------------------------
(***************************************************************************)
(* The persistence overrides of UserDataProfilesMainService               *)
(* (vs/platform/userDataProfile/electron-main/userDataProfile.ts) over the *)
(* state service.  The base class, which is not in the excerpt, decides   *)
(* when to save profiles and associations; its calls are inputs here.     *)
(* An older build that shares the user data directory writes the legacy   *)
(* key 'workspaceAndProfileInfo' as a list of {workspace, profile}.        *)
(***************************************************************************)
EXTENDS Naturals, Sequences

CONSTANTS
    Workspaces,     \* workspace URIs
    Profiles,       \* profile URIs
    MaxLegacy       \* longest legacy list written

\* An optional value: <<>> when absent, <<x>> when present.
None == <<>>
Opt(S) == {None} \cup {<<x>> : x \in S}

\* A stored associations object: the empty-window profile and the
\* workspaces dictionary, each possibly absent; an entry of a dictionary
\* is absent when it maps to None.
Dicts == [Workspaces -> Opt(Profiles)]
Assocs == [emptyWindow : Opt(Profiles), workspaces : Opt(Dicts)]

LegacyLists == UNION {[1..n -> [workspace : Workspaces, profile : Profiles]] : n \in 0..MaxLegacy}

VARIABLES
    enabled,    \* profiles enabled
    profiles,   \* PROFILES_KEY: the stored profiles ({} when removed)
    assoc,      \* PROFILE_ASSOCIATIONS_KEY: Opt(Assocs)
    legacy      \* 'workspaceAndProfileInfo': a legacy list, or None

vars == <<enabled, profiles, assoc, legacy>>

Init ==
    /\ enabled \in BOOLEAN
    /\ profiles = {}
    /\ assoc = None
    /\ legacy \in LegacyLists \cup {None}

-----------------------------------------------------------------------------

\* saveStoredProfiles: setItem when the list is nonempty, removeItem
\* otherwise; a removed key reads back as no profiles.
SaveStoredProfiles(ps) == profiles' = ps

\* saveStoredProfileAssociations: set when emptyWindow or workspaces is
\* present, remove otherwise.
SaveStoredProfileAssociations(a) ==
    assoc' = IF a.emptyWindow # None \/ a.workspaces # None THEN <<a>> ELSE None

\* The reduce of the legacy list: a later entry for a workspace wins.
Revive(l) ==
    [w \in Workspaces |->
        IF \E i \in DOMAIN l : l[i].workspace = w
        THEN <<l[CHOOSE i \in DOMAIN l : l[i].workspace = w /\
                      \A j \in DOMAIN l : l[j].workspace = w => j <= i].profile>>
        ELSE None]

\* getStoredProfileAssociations: a legacy list is removed and written as
\* { workspaces } under the new key; then the base class reads the key.
GetStoredProfileAssociations ==
    /\ legacy # None
    /\ legacy' = None
    /\ assoc' = <<[emptyWindow |-> None, workspaces |-> <<Revive(legacy)>>]>>
    /\ UNCHANGED <<enabled, profiles>>

\* setEnablement: when profiles end up disabled, both keys are reset.
SetEnablement(b) ==
    /\ enabled' = b
    /\ IF ~b THEN SaveStoredProfiles({}) /\ SaveStoredProfileAssociations([emptyWindow |-> None, workspaces |-> None])
       ELSE UNCHANGED <<profiles, assoc>>
    /\ UNCHANGED legacy

SaveProfiles(ps) ==
    /\ SaveStoredProfiles(ps)
    /\ UNCHANGED <<enabled, assoc, legacy>>

SaveAssociations(a) ==
    /\ SaveStoredProfileAssociations(a)
    /\ UNCHANGED <<enabled, profiles, legacy>>

\* An older build writes its associations under the legacy key.
LegacyWrite(l) ==
    /\ legacy' = l
    /\ UNCHANGED <<enabled, profiles, assoc>>

Next ==
    \/ GetStoredProfileAssociations
    \/ \E b \in BOOLEAN : SetEnablement(b)
    \/ \E ps \in SUBSET Profiles : SaveProfiles(ps)
    \/ \E a \in Assocs : SaveAssociations(a)
    \/ \E l \in LegacyLists : LegacyWrite(l)

Spec == Init /\ [][Next]_vars

-----------------------------------------------------------------------------

\* Migrating the legacy key keeps what the new key already holds: the
\* empty-window profile and every workspace the legacy list does not
\* mention keep their profile when getStoredProfileAssociations rewrites
\* PROFILE_ASSOCIATIONS_KEY from the legacy list.
MigrationKeepsAssociations ==
    [][GetStoredProfileAssociations /\ assoc # None =>
        LET old == assoc[1]  new == assoc'[1]
        IN  /\ new.emptyWindow = old.emptyWindow
            /\ old.workspaces # None =>
                 \A w \in Workspaces :
                    Revive(legacy)[w] = None => new.workspaces[1][w] = old.workspaces[1][w]]_vars
=============================================================================
