------------------------ MODULE EditSessionIdentity ------------------------
(***************************************************************************)
(* The git extension's edit-session identity participant and provider      *)
(* (git/src/editSessionIdentityProvider.ts).                               *)
(*                                                                         *)
(* Before the workbench asks provideEditSessionIdentity for a folder's    *)
(* identity it fires onWillCreateEditSessionIdentity with a cancellation  *)
(* token and waits (waitUntil) for _onWillCreateEditSessionIdentity, which *)
(* races _doSync against a promise the token resolves.  _doSync opens the *)
(* repository, refreshes its status and, when HEAD has no upstream, runs   *)
(* git.publish.  Each await of _doSync and of provideEditSessionIdentity  *)
(* is a step.  The workbench is modelled as making Requests one after the  *)
(* other, each with its own token; a _doSync keeps running after its      *)
(* request was released.  The repository, git.publish's outcome and the   *)
(* cancellations are the environment.                                      *)
(***************************************************************************)
EXTENDS Naturals

CONSTANTS
    MaxRequests,        \* number of identity requests the workbench makes
    PublishOutcomes     \* what git.publish can leave: "upstream" or "none"

ASSUME MaxRequests \in Nat /\ PublishOutcomes \subseteq {"upstream", "none"}

Requests == 1..MaxRequests

VARIABLES
    isRepo,     \* model.getRepository(folder) finds a repository
    upstream,   \* repository.HEAD.upstream is set
    cancelled,  \* cancelled[r]: request r's token isCancellationRequested
    sync,       \* sync[r]: program counter of request r's _doSync
    race,       \* race[r]: how Promise.race settled: "pending", "sync", "cancel"
    outcome,    \* outcome[r]: "skipped" or what request r's git.publish left
    caller,     \* caller[r]: program counter of the workbench for request r
    identity,   \* identity[r]: what provideEditSessionIdentity returned
    stored      \* the identity an edit session was stored under, elsewhere

vars == <<stored, isRepo, upstream, cancelled, sync, race, outcome, caller, identity>>

-----------------------------------------------------------------------------
(* provideEditSessionIdentityMatch and normalizeEditSessionIdentity, as    *)
(* operators.  An identity is what JSON.parse gives back for the string   *)
(* provideEditSessionIdentity built (ok), or a string it cannot parse (not *)
(* ok).  A remote is a push URL, host plus the number of trailing ".git"   *)
(* suffixes, or JSON null (host "null", not a string).                      *)

NullRemote == [host |-> "null", git |-> 0]
Remotes == {NullRemote} \cup [host : {"h1", "h2"}, git : 0..1]
Identities ==
    [ok : {TRUE}, remote : Remotes, ref : {"null", "main"}, sha : {"c1", "c2"}]
    \cup {[ok |-> FALSE, remote |-> NullRemote, ref |-> "null", sha |-> "null"]}

\* A normalization that leaves the remote as it is.
NormalizeIdentity(id) == id

\* A string remote ending in '.git' loses that suffix (lines 87-99).
Normalize(id) ==
    IF id.remote.host # "null" /\ id.remote.git > 0
    THEN [id EXCEPT !.remote.git = @ - 1]
    ELSE id

\* provideEditSessionIdentityMatch (lines 43-64): JSON.parse throwing is
\* caught and reported as a partial match.
Match(a, b) ==
    LET n1 == Normalize(a)  n2 == Normalize(b)
    IN  CASE ~a.ok \/ ~b.ok -> "Partial"
          [] n1.remote = n2.remote /\ n1.ref = n2.ref /\ n1.sha = n2.sha -> "Complete"
          [] n1.remote = n2.remote /\ n1.ref = n2.ref -> "Partial"
          [] OTHER -> "None"

Init ==
    /\ isRepo \in BOOLEAN
    /\ upstream \in BOOLEAN
    /\ upstream => isRepo
    /\ cancelled = [r \in Requests |-> FALSE]
    /\ sync = [r \in Requests |-> "idle"]
    /\ race = [r \in Requests |-> "pending"]
    /\ outcome = [r \in Requests |-> "skipped"]
    /\ caller = [r \in Requests |-> "idle"]
    /\ identity = [r \in Requests |-> "none"]
    /\ stored \in Identities

-----------------------------------------------------------------------------
(* _onWillCreateEditSessionIdentity, createCancellationPromise, _doSync.   *)

\* Promise.race settles with the sync when _doSync's promise resolves first.
Settle(r, pc) == IF pc = "done" /\ race[r] = "pending" THEN "sync" ELSE race[r]

\* A handler that only subscribes to the token.
WillCreateSubscribeOnly(r) ==
    /\ caller[r] = "idle"
    /\ r > 1 => caller[r - 1] = "done"
    /\ caller' = [caller EXCEPT ![r] = "waiting"]
    /\ sync' = [sync EXCEPT ![r] = "open"]
    /\ race' = [race EXCEPT ![r] = "pending"]
    /\ UNCHANGED <<stored, isRepo, upstream, cancelled, outcome, identity>>

\* The event for request r fires once the previous request is answered.
\* The handler creates the cancellation promise, resolved at once when the
\* token is already cancelled, and starts _doSync up to its first await.
WillCreate(r) ==
    /\ caller[r] = "idle"
    /\ r > 1 => caller[r - 1] = "done"
    /\ caller' = [caller EXCEPT ![r] = "waiting"]
    /\ sync' = [sync EXCEPT ![r] = "open"]
    /\ race' = [race EXCEPT ![r] = IF cancelled[r] THEN "cancel" ELSE "pending"]
    /\ UNCHANGED <<stored, isRepo, upstream, cancelled, outcome, identity>>

\* Request r's token is cancelled; the onCancellationRequested listener
\* resolves the cancellation promise if the handler has registered it.
Cancel(r) ==
    /\ ~cancelled[r]
    /\ cancelled' = [cancelled EXCEPT ![r] = TRUE]
    /\ race' = [race EXCEPT ![r] = IF sync[r] # "idle" /\ @ = "pending" THEN "cancel" ELSE @]
    /\ UNCHANGED <<stored, isRepo, upstream, sync, outcome, caller, identity>>

\* openRepository resolved; getRepository and the status() call follow.
SyncOpen(r) ==
    /\ sync[r] = "open"
    /\ sync' = [sync EXCEPT ![r] = "status"]
    /\ UNCHANGED <<stored, isRepo, upstream, cancelled, race, outcome, caller, identity>>

\* A _doSync that starts git.publish without awaiting it.
SyncStatusUnawaited(r) ==
    LET pc == IF isRepo /\ ~upstream THEN "publish" ELSE "done"
    IN  /\ sync[r] = "status"
        /\ sync' = [sync EXCEPT ![r] = pc]
        /\ race' = [race EXCEPT ![r] = Settle(r, "done")]
        /\ UNCHANGED <<stored, isRepo, upstream, cancelled, outcome, caller, identity>>

\* status() resolved: return when there is no repository or HEAD has an
\* upstream, otherwise await git.publish.
SyncStatus(r) ==
    LET pc == IF isRepo /\ ~upstream THEN "publish" ELSE "done"
    IN  /\ sync[r] = "status"
        /\ sync' = [sync EXCEPT ![r] = pc]
        /\ race' = [race EXCEPT ![r] = Settle(r, pc)]
        /\ UNCHANGED <<stored, isRepo, upstream, cancelled, outcome, caller, identity>>

\* git.publish finished, having set an upstream or not (its pickers can be
\* dismissed); _doSync returns.
PublishDone(r, o) ==
    /\ sync[r] = "publish"
    /\ sync' = [sync EXCEPT ![r] = "done"]
    /\ upstream' = (upstream \/ o = "upstream")
    /\ outcome' = [outcome EXCEPT ![r] = o]
    /\ race' = [race EXCEPT ![r] = Settle(r, "done")]
    /\ UNCHANGED <<stored, isRepo, cancelled, caller, identity>>

-----------------------------------------------------------------------------
(* provideEditSessionIdentity, called once waitUntil has settled.         *)

ProvideStart(r) ==
    /\ caller[r] = "waiting"
    /\ race[r] # "pending"
    /\ caller' = [caller EXCEPT ![r] = "open"]
    /\ UNCHANGED <<stored, isRepo, upstream, cancelled, sync, race, outcome, identity>>

\* openRepository(dirname(folder)) resolved; status() follows.
ProvideOpen(r) ==
    /\ caller[r] = "open"
    /\ caller' = [caller EXCEPT ![r] = "status"]
    /\ UNCHANGED <<stored, isRepo, upstream, cancelled, sync, race, outcome, identity>>

\* status() resolved: undefined without a repository or an upstream,
\* otherwise the JSON of remote, ref and sha.
ProvideStatus(r) ==
    /\ caller[r] = "status"
    /\ caller' = [caller EXCEPT ![r] = "done"]
    /\ identity' = [identity EXCEPT ![r] = IF isRepo /\ upstream THEN "defined" ELSE "undefined"]
    /\ UNCHANGED <<stored, isRepo, upstream, cancelled, sync, race, outcome>>

\* Continuations of promises that settle on their own: openRepository,
\* status() and the workbench resuming once waitUntil has settled.
Continue(r) ==
    \/ SyncOpen(r) \/ SyncStatus(r)
    \/ ProvideStart(r) \/ ProvideOpen(r) \/ ProvideStatus(r)

Next ==
    \E r \in Requests :
        \/ WillCreate(r) \/ Cancel(r)
        \/ \E o \in PublishOutcomes : PublishDone(r, o)
        \/ Continue(r)

\* Weak fairness on the continuations only.  git.publish waits on pickers
\* and dialogs the user may leave open for ever, and the workbench and the
\* user decide when to request and when to cancel.
Spec == Init /\ [][Next]_vars /\ \A r \in Requests : WF_vars(Continue(r))

-----------------------------------------------------------------------------
(* Properties.                                                              *)

\* When a request was released because its sync finished, the identity the
\* workbench then obtains reflects what the sync did: it is undefined only
\* when there is no repository or git.publish left no upstream.  This is
\* what awaiting git.publish inside _doSync is for.
IdentityAfterSync ==
    \A r \in Requests :
        race[r] = "sync" /\ identity[r] = "undefined" => ~isRepo \/ outcome[r] = "none"

\* A request whose token is cancelled while the workbench waits on it is
\* answered (provideEditSessionIdentity returns) even when git.publish
\* never returns: the cancellation settles Promise.race, also for a token
\* cancelled before the handler ran, which never fires
\* onCancellationRequested (createCancellationPromise, lines 103-110).
CancelledAnswered ==
    \A r \in Requests : (cancelled[r] /\ caller[r] = "waiting") ~> caller[r] = "done"

\* git.publish is never started for a request the workbench has already
\* released by cancellation: cancelling is meant to stop the participant.
NoPublishAfterCancel ==
    [][\A r \in Requests : sync'[r] = "publish" /\ sync[r] # "publish" => race[r] # "cancel"]_vars

\* Whether an edit session stored from one clone can be resumed in another
\* does not depend on the order the workbench passes the two identities,
\* and two clones of one repository (push URLs that differ only by a
\* trailing .git) checked out at the same branch and commit are a complete
\* match, while any other pair of parsed identities is not.
MatchRecognisesClones ==
    \A b \in Identities : LET a == stored IN
        /\ Match(a, b) = Match(b, a)
        /\ a.ok /\ b.ok =>
              ((Match(a, b) = "Complete") <=>
                  /\ a.remote.host = b.remote.host
                  /\ a.ref = b.ref /\ a.sha = b.sha)
=============================================================================
