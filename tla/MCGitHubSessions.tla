------------------------- MODULE MCGitHubSessions -------------------------
(* Model values, initial stores and a state view for checking             *)
(* GitHubSessions with TLC.                                                *)
EXTENDS GitHubSessions, TLC

CONSTANTS w1, w2, k1, k2, i1, i2, n1, n2

MCNewIds == <<n1, n2>>

E(id, k, a) == [id |-> id, key |-> k, acct |-> a]
Json(d) == [st |-> "json", data |-> d]

(* What the secret store can hold when the windows start: nothing, an      *)
(* unparsable blob, what this version writes, two sessions for one        *)
(* scope-set, and a legacy entry (no account) after a verified one.        *)
MCStores ==
    { [st |-> "absent", data |-> <<>>],
      [st |-> "corrupt", data |-> <<>>],
      Json(<<E(i1, k1, "real")>>),
      Json(<<E(i1, k1, "real"), E(i2, k1, "real")>>),
      Json(<<E(i1, k1, "real"), E(i2, k2, "none")>>) }

(* The stores that make windows write while they load: corrupt blob and   *)
(* duplicate scope-set.                                                    *)
MCStoresRepair ==
    { [st |-> "corrupt", data |-> <<>>],
      Json(<<E(i1, k1, "real"), E(i2, k1, "real")>>) }

(* A store holding one session for k1.                                     *)
MCStoreOne == { Json(<<E(i1, k1, "real")>>) }

(* Two legacy entries for the same scope-set.                             *)
MCStoreLegacyDup == { Json(<<E(i1, k1, "none"), E(i2, k1, "none")>>) }

(* One legacy entry.                                                       *)
MCStoreLegacy == { Json(<<E(i1, k1, "none")>>) }

(* TLC VIEW: a free array slot's leftover contents cannot be observed.    *)
GcView ==
    <<store, pending, sp,
      [w \in Windows |-> [r \in ReadIdx |-> IF r \in FreeRead(w) THEN "free" ELSE reads[w][r]]],
      tasks, view, nCreated, nRemoves>>

=============================================================================
