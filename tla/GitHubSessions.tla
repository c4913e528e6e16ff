--------------------------- MODULE GitHubSessions ---------------------------
(***************************************************************************)
(* The session cache of the GitHub authentication provider                 *)
(* (extensions/github-authentication/src/github.ts), one instance per      *)
(* editor window, all windows sharing one secret-store entry.              *)
(*                                                                         *)
(* Every `await` of the code is a point where the window's other tasks and *)
(* every other window may run, so each async method is split into the      *)
(* steps between its awaits.  `_sessionsPromise` is a promise of an array  *)
(* that create/remove mutate IN PLACE, so arrays are modelled as a heap:   *)
(* each readSessions() call of a window allocates one array slot, and a    *)
(* promise is a pointer to a slot.                                         *)
(***************************************************************************)
EXTENDS Naturals, Sequences, FiniteSets

CONSTANTS
    Windows,      \* editor windows (extension host instances)
    Keys,         \* scope-sets: sorted scopes joined by ' ', the dedup key
    NewIds,       \* sequence of the ids uuid() hands out, in order
    InitStores,   \* the secret-store contents the windows may start with
    Outcomes,     \* results getUserInfo may give for a legacy token
    IOResults,    \* results a keychain getToken/setToken/deleteToken may give
    MaxTasks,     \* bound: tasks suspended at once in one window
    MaxReads,     \* bound: readSessions() calls per window
    MaxCreates,   \* bound: successful createSession() calls, all windows
    MaxRemoves    \* bound: removeSession() calls, all windows

ASSUME Outcomes \subseteq {"ok", "unauthorized", "error"} /\ "ok" \in Outcomes
ASSUME MaxCreates <= Len(NewIds)
ASSUME IOResults \subseteq {"ok", "fail"} /\ "ok" \in IOResults

VARIABLES
    store,      \* the secret-store entry: [st |-> "absent"|"corrupt"|"json", data]
    pending,    \* pending[w]: onDidChange events not yet delivered to w
    sp,         \* sp[w]: this._sessionsPromise of w, a pointer [r, val]
    reads,      \* reads[w][r]: readSessions call r of w and its array
    tasks,      \* tasks[w][t]: a suspended checkForUpdates/create/remove
    view,       \* view[w]: the sessions the host of w believes exist
    nCreated,   \* sessions created so far (index into NewIds)
    nRemoves    \* removeSession calls so far

vars == <<store, pending, sp, reads, tasks, view, nCreated, nRemoves>>

ReadIdx == 1..MaxReads
TaskIdx == 1..MaxTasks

(* SessionData (github.ts 14-23): account is absent on legacy entries;     *)
(* "unknown" is the '<unknown>' account readSessions attaches when         *)
(* getUserInfo fails with anything but Unauthorized.                       *)
Entry(ids) == [id : ids, key : Keys, acct : {"none", "real", "unknown"}]

Ids == {e.id : e \in UNION {{s.data[i] : i \in 1..Len(s.data)} : s \in InitStores}}
       \cup {NewIds[i] : i \in 1..Len(NewIds)}

IdsOf(s) == {s[i].id : i \in 1..Len(s)}

(* A promise: Promise.resolve(array r) when val, else readSessions call r. *)
Promise == [r : ReadIdx, val : BOOLEAN]

(* "failed": the read's promise rejected (its storeSessions write threw). *)
ReadStates == {"idle", "token", "verify", "delete", "store", "done", "failed"}

NoTask == [op |-> "none", pc |-> "none", p |-> [r |-> 1, val |-> FALSE],
           prev |-> 1, r |-> 1, id |-> NewIds[1], key |-> CHOOSE k \in Keys : TRUE]

TypeOK ==
    /\ store \in [st : {"absent", "corrupt", "json"}, data : Seq(Entry(Ids))]
    /\ pending \in [Windows -> Nat]
    /\ sp \in [Windows -> Promise]
    /\ reads \in [Windows -> [ReadIdx -> [st : ReadStates,
                                          raw : Seq(Entry(Ids)),
                                          arr : Seq(Entry(Ids))]]]
    /\ tasks \in [Windows -> [TaskIdx -> [op : {"none", "check", "create", "remove"},
                                          pc : {"none", "await", "reload", "diff", "store"},
                                          p : Promise, prev : ReadIdx, r : ReadIdx,
                                          id : Ids, key : Keys]]]
    /\ view \in [Windows -> [ready : BOOLEAN, ids : SUBSET Ids]]
    /\ nCreated \in 0..MaxCreates
    /\ nRemoves \in 0..MaxRemoves

-----------------------------------------------------------------------------
(* Helpers                                                                 *)

Arr(w, r) == reads[w][r].arr

(* The array `await this._sessionsPromise` yields, once it is resolved.   *)
Resolved(w, p) == p.val \/ reads[w][p.r].st = "done"

(* Array slots some promise or suspended task of w still points to.       *)
Referenced(w) ==
    {sp[w].r}
    \cup {tasks[w][t].p.r : t \in {t \in TaskIdx : tasks[w][t].pc \in {"await", "reload"}}}
    \cup UNION {{tasks[w][t].prev, tasks[w][t].r} : t \in {t \in TaskIdx : tasks[w][t].pc = "diff"}}

(* A slot is free when unused or garbage: a finished read nothing points  *)
(* to any more (the JS collector reclaims that array).                     *)
FreeRead(w) ==
    {r \in ReadIdx : \/ reads[w][r].st = "idle"
                     \/ reads[w][r].st \in {"done", "failed"} /\ r \notin Referenced(w)}
FreeTask(w) == {t \in TaskIdx : tasks[w][t].op = "none"}

(* Slots are interchangeable: allocate the lowest free one.                *)
Lowest(S) == {x \in S : \A y \in S : x <= y}

(* Calling readSessions(): its body runs up to `await getToken()`.         *)
StartRead(w, r) == [reads EXCEPT ![w][r] = [st |-> "token", raw |-> <<>>, arr |-> <<>>]]

(* keychain.setToken/deleteToken: replace the entry; the secret store     *)
(* fires onDidChange in every window, the writer included (github.ts 65).  *)
Write(st, data) ==
    /\ store' = [st |-> st, data |-> data]
    /\ pending' = [v \in Windows |-> pending[v] + 1]

(* The host applies an onDidChangeSessions event to its account list.      *)
Fire(w, added, removed) ==
    view' = [view EXCEPT ![w].ids = IF view[w].ready
                                    THEN (@ \ removed) \cup added ELSE @]

-----------------------------------------------------------------------------
(* readSessions(): dedup and verification of a decoded store entry list.   *)

(* Scope keys put in scopesSeen before entry i is examined: the async      *)
(* mappers all run their synchronous prefix first, and only entries that   *)
(* carry an account reach scopesSeen.add before the first await.           *)
SeenBefore(raw, i) == {raw[j].key : j \in {j \in 1..(i - 1) : raw[j].acct # "none"}}

Kept(raw, out, i) ==
    /\ raw[i].key \notin SeenBefore(raw, i)
    /\ raw[i].acct # "none" \/ out[i] # "unauthorized"

Attach(e, o) ==
    IF e.acct # "none" THEN e
    ELSE [e EXCEPT !.acct = IF o = "ok" THEN "real" ELSE "unknown"]

Verified(raw, out) ==
    LET idx == SelectSeq([i \in 1..Len(raw) |-> i], LAMBDA i : Kept(raw, out, i))
    IN  [j \in 1..Len(idx) |-> Attach(raw[idx[j]], out[idx[j]])]

(* getUserInfo is only called for legacy entries.                          *)
OutcomeChoices(raw) ==
    {o \in [1..Len(raw) -> Outcomes] : \A i \in 1..Len(raw) : raw[i].acct # "none" => o[i] = "ok"}

-----------------------------------------------------------------------------
(* readSessions() steps                                                    *)

(* `await this._keychain.getToken()` returns; JSON.parse runs.  A getToken *)
(* that throws is caught ('Error reading token') and the read returns [].  *)
ReadToken(w, r) ==
    /\ reads[w][r].st = "token"
    /\ \E io \in IOResults :
       reads' = [reads EXCEPT ![w][r] =
                   CASE io = "fail"          -> [@ EXCEPT !.st = "done", !.arr = <<>>]
                     [] store.st = "absent"  -> [@ EXCEPT !.st = "done", !.arr = <<>>]
                     [] store.st = "corrupt" -> [@ EXCEPT !.st = "delete"]
                     [] OTHER                -> [@ EXCEPT !.st = "verify", !.raw = store.data]]
    /\ UNCHANGED <<store, pending, sp, tasks, view, nCreated, nRemoves>>

(* JSON.parse threw: `await deleteToken()`, rethrow, caught: return [].    *)
(* A deleteToken that throws is caught by the same handler: the blob stays. *)
ReadDelete(w, r) ==
    /\ reads[w][r].st = "delete"
    /\ \E io \in IOResults :
         IF io = "ok" THEN Write("absent", <<>>) ELSE UNCHANGED <<store, pending>>
    /\ reads' = [reads EXCEPT ![w][r].st = "done", ![w][r].arr = <<>>]
    /\ UNCHANGED <<sp, tasks, view, nCreated, nRemoves>>

(* Mutant: dropped entries are never written back (no storeSessions).      *)
ReadVerifyNoStore(w, r) ==
    /\ reads[w][r].st = "verify"
    /\ \E out \in OutcomeChoices(reads[w][r].raw) :
         reads' = [reads EXCEPT ![w][r] = [st |-> "done", raw |-> <<>>,
                                          arr |-> Verified(reads[w][r].raw, out)]]
    /\ UNCHANGED <<store, pending, sp, tasks, view, nCreated, nRemoves>>

(* Promise.allSettled of the mappers settles; if entries were dropped,     *)
(* storeSessions(verified) points _sessionsPromise at the new array and    *)
(* writes it before the read itself resolves.  When setToken throws, the   *)
(* store keeps the old blob, no onDidChange fires, and this read's promise *)
(* rejects (nothing catches it in readSessions); the rejection is taken    *)
(* at once, as no step observes the unresolved write.                      *)
ReadVerify(w, r) ==
    /\ reads[w][r].st = "verify"
    /\ \E out \in OutcomeChoices(reads[w][r].raw), io \in IOResults :
         LET ver == Verified(reads[w][r].raw, out) IN
         IF Len(ver) # Len(reads[w][r].raw)
         THEN /\ reads' = [reads EXCEPT ![w][r] = [st |-> IF io = "ok" THEN "store" ELSE "failed",
                                                  raw |-> <<>>, arr |-> ver]]
              /\ sp' = [sp EXCEPT ![w] = [r |-> r, val |-> TRUE]]
              /\ IF io = "ok" THEN Write("json", ver) ELSE UNCHANGED <<store, pending>>
         ELSE /\ reads' = [reads EXCEPT ![w][r] = [st |-> "done", raw |-> <<>>, arr |-> ver]]
              /\ UNCHANGED <<sp, store, pending>>
    /\ UNCHANGED <<tasks, view, nCreated, nRemoves>>

(* `await this.storeSessions(...)` returns; readSessions resolves.         *)
ReadStored(w, r) ==
    /\ reads[w][r].st = "store"
    /\ reads' = [reads EXCEPT ![w][r].st = "done"]
    /\ UNCHANGED <<store, pending, sp, tasks, view, nCreated, nRemoves>>

-----------------------------------------------------------------------------
(* checkForUpdates(): run once per onDidChange event (github.ts 65).       *)

(* Mutant: a check task is started without an onDidChange event.          *)
CheckDeliverUnfired(w) ==
    /\ \E t \in Lowest(FreeTask(w)) :
         tasks' = [tasks EXCEPT ![w][t] = [NoTask EXCEPT !.op = "check", !.pc = "reload",
                                                         !.p = sp[w]]]
    /\ pending' = [pending EXCEPT ![w] = @ - 1]
    /\ UNCHANGED <<store, sp, reads, view, nCreated, nRemoves>>

(* The event is delivered: `await this._sessionsPromise` captures it.      *)
CheckDeliver(w) ==
    /\ pending[w] > 0
    /\ \E t \in Lowest(FreeTask(w)) :
         tasks' = [tasks EXCEPT ![w][t] = [NoTask EXCEPT !.op = "check", !.pc = "reload",
                                                         !.p = sp[w]]]
    /\ pending' = [pending EXCEPT ![w] = @ - 1]
    /\ UNCHANGED <<store, sp, reads, view, nCreated, nRemoves>>

(* Mutant: the fresh read is awaited but not stored in _sessionsPromise.   *)
CheckReloadKeepPromise(w, t) ==
    /\ tasks[w][t].op = "check" /\ tasks[w][t].pc = "reload"
    /\ Resolved(w, tasks[w][t].p)
    /\ \E r \in Lowest(FreeRead(w)) :
         /\ reads' = StartRead(w, r)
         /\ tasks' = [tasks EXCEPT ![w][t].pc = "diff", ![w][t].prev = tasks[w][t].p.r,
                                   ![w][t].r = r, ![w][t].p = NoTask.p]
    /\ UNCHANGED <<store, pending, sp, view, nCreated, nRemoves>>

(* previousSessions is resolved; _sessionsPromise = this.readSessions().   *)
CheckReload(w, t) ==
    /\ tasks[w][t].op = "check" /\ tasks[w][t].pc = "reload"
    /\ Resolved(w, tasks[w][t].p)
    /\ \E r \in Lowest(FreeRead(w)) :
         /\ reads' = StartRead(w, r)
         /\ sp' = [sp EXCEPT ![w] = [r |-> r, val |-> FALSE]]
         /\ tasks' = [tasks EXCEPT ![w][t].pc = "diff", ![w][t].prev = tasks[w][t].p.r,
                                   ![w][t].r = r, ![w][t].p = NoTask.p]
    /\ UNCHANGED <<store, pending, view, nCreated, nRemoves>>

(* storedSessions is resolved: diff both arrays, as they are NOW, by id.  *)
CheckDiff(w, t) ==
    /\ tasks[w][t].op = "check" /\ tasks[w][t].pc = "diff"
    /\ reads[w][tasks[w][t].r].st = "done"
    /\ LET old == IdsOf(Arr(w, tasks[w][t].prev))
           new == IdsOf(Arr(w, tasks[w][t].r))
       IN  IF new # old THEN Fire(w, new \ old, old \ new) ELSE UNCHANGED view
    /\ tasks' = [tasks EXCEPT ![w][t] = NoTask]
    /\ UNCHANGED <<store, pending, sp, reads, nCreated, nRemoves>>

-----------------------------------------------------------------------------
(* createSession(scopes)                                                   *)

(* login() and tokenToSession() have returned a session with a fresh       *)
(* uuid(); `await this._sessionsPromise` captures the promise.  A login    *)
(* that is cancelled or fails changes no state and is not a step here.     *)
CreateLogin(w, k) ==
    /\ nCreated < MaxCreates
    /\ \E t \in Lowest(FreeTask(w)) :
         tasks' = [tasks EXCEPT ![w][t] = [NoTask EXCEPT !.op = "create", !.pc = "await",
                                 !.p = sp[w], !.id = NewIds[nCreated + 1], !.key = k]]
    /\ nCreated' = nCreated + 1
    /\ UNCHANGED <<store, pending, sp, reads, view, nRemoves>>

(* Index of the first session with the same id or the same scope-set.      *)
MatchIndex(s, id, k) ==
    LET I == {i \in 1..Len(s) : s[i].id = id \/ s[i].key = k}
    IN  IF I = {} THEN 0 ELSE CHOOSE i \in I : \A j \in I : i <= j

(* The array resolves: splice the session in place or push it, then        *)
(* storeSessions(sessions).  A setToken that throws leaves the mutated     *)
(* array in _sessionsPromise and the old blob in the store; the catch      *)
(* shows 'Sign in failed' and rethrows, and no event fires.                *)
CreateApply(w, t) ==
    /\ tasks[w][t].op = "create" /\ tasks[w][t].pc = "await"
    /\ Resolved(w, tasks[w][t].p)
    /\ LET a   == tasks[w][t].p.r
           s   == Arr(w, a)
           e   == [id |-> tasks[w][t].id, key |-> tasks[w][t].key, acct |-> "real"]
           i   == MatchIndex(s, e.id, e.key)
           new == IF i > 0 THEN [s EXCEPT ![i] = e] ELSE Append(s, e)
       IN  /\ reads' = [reads EXCEPT ![w][a].arr = new]
           /\ sp' = [sp EXCEPT ![w] = [r |-> a, val |-> TRUE]]
           /\ \E io \in IOResults :
                IF io = "ok"
                THEN Write("json", new) /\ tasks' = [tasks EXCEPT ![w][t].pc = "store", ![w][t].p = NoTask.p]
                ELSE UNCHANGED <<store, pending>> /\ tasks' = [tasks EXCEPT ![w][t] = NoTask]
    /\ UNCHANGED <<view, nCreated, nRemoves>>

(* The write returns: fire {added: [session]}.                             *)
CreateFire(w, t) ==
    /\ tasks[w][t].op = "create" /\ tasks[w][t].pc = "store"
    /\ Fire(w, {tasks[w][t].id}, {})
    /\ tasks' = [tasks EXCEPT ![w][t] = NoTask]
    /\ UNCHANGED <<store, pending, sp, reads, nCreated, nRemoves>>

-----------------------------------------------------------------------------
(* removeSession(id): the host signs out of a session it lists.            *)

RemoveStart(w, id) ==
    /\ nRemoves < MaxRemoves
    /\ view[w].ready /\ id \in view[w].ids
    /\ \E t \in Lowest(FreeTask(w)) :
         tasks' = [tasks EXCEPT ![w][t] = [NoTask EXCEPT !.op = "remove", !.pc = "await",
                                                         !.p = sp[w], !.id = id]]
    /\ nRemoves' = nRemoves + 1
    /\ UNCHANGED <<store, pending, sp, reads, view, nCreated>>

(* The array resolves: splice the session out and storeSessions, or log    *)
(* 'Session not found' and return.  A failed setToken is caught ('Sign    *)
(* out failed'), rethrown, and fires nothing; the array stays spliced.      *)
RemoveApply(w, t) ==
    /\ tasks[w][t].op = "remove" /\ tasks[w][t].pc = "await"
    /\ Resolved(w, tasks[w][t].p)
    /\ LET a == tasks[w][t].p.r
           s == Arr(w, a)
           I == {i \in 1..Len(s) : s[i].id = tasks[w][t].id}
       IN  IF I # {}
           THEN LET new == SelectSeq(s, LAMBDA e : e.id # tasks[w][t].id) IN
                /\ reads' = [reads EXCEPT ![w][a].arr = new]
                /\ sp' = [sp EXCEPT ![w] = [r |-> a, val |-> TRUE]]
                /\ \E io \in IOResults :
                     IF io = "ok"
                     THEN Write("json", new) /\ tasks' = [tasks EXCEPT ![w][t].pc = "store", ![w][t].p = NoTask.p]
                     ELSE UNCHANGED <<store, pending>> /\ tasks' = [tasks EXCEPT ![w][t] = NoTask]
           ELSE /\ tasks' = [tasks EXCEPT ![w][t] = NoTask]
                /\ UNCHANGED <<store, pending, sp, reads>>
    /\ UNCHANGED <<view, nCreated, nRemoves>>

(* The write returns: fire {removed: [session]}.                           *)
RemoveFire(w, t) ==
    /\ tasks[w][t].op = "remove" /\ tasks[w][t].pc = "store"
    /\ Fire(w, {}, {tasks[w][t].id})
    /\ tasks' = [tasks EXCEPT ![w][t] = NoTask]
    /\ UNCHANGED <<store, pending, sp, reads, nCreated, nRemoves>>

-----------------------------------------------------------------------------
(* A task awaits a readSessions promise that rejected: checkForUpdates     *)
(* throws out of its listener (previousSessions or storedSessions), and    *)
(* createSession/removeSession fail through their catch; no state changes. *)
Reject(w, t) ==
    /\ \/ tasks[w][t].pc \in {"await", "reload"} /\ ~tasks[w][t].p.val
          /\ reads[w][tasks[w][t].p.r].st = "failed"
       \/ tasks[w][t].pc = "diff" /\ reads[w][tasks[w][t].r].st = "failed"
    /\ tasks' = [tasks EXCEPT ![w][t] = NoTask]
    /\ UNCHANGED <<store, pending, sp, reads, view, nCreated, nRemoves>>

-----------------------------------------------------------------------------
(* The host's getSessions() after registering the provider: its account    *)
(* list starts from the array _sessionsPromise resolves to.                *)
HostGetSessions(w) ==
    /\ ~view[w].ready
    /\ Resolved(w, sp[w])
    /\ view' = [view EXCEPT ![w] = [ready |-> TRUE, ids |-> IdsOf(Arr(w, sp[w].r))]]
    /\ UNCHANGED <<store, pending, sp, reads, tasks, nCreated, nRemoves>>

-----------------------------------------------------------------------------
(* The constructor: _sessionsPromise = this.readSessions() (read 1).       *)
Init ==
    /\ store \in InitStores
    /\ pending = [w \in Windows |-> 0]
    /\ sp = [w \in Windows |-> [r |-> 1, val |-> FALSE]]
    /\ reads = [w \in Windows |-> [r \in ReadIdx |->
                  [st |-> IF r = 1 THEN "token" ELSE "idle", raw |-> <<>>, arr |-> <<>>]]]
    /\ tasks = [w \in Windows |-> [t \in TaskIdx |-> NoTask]]
    /\ view = [w \in Windows |-> [ready |-> FALSE, ids |-> {}]]
    /\ nCreated = 0
    /\ nRemoves = 0

(* Steps that resume code already running: promise continuations.         *)
Continue(w) ==
    \/ \E r \in ReadIdx : ReadToken(w, r) \/ ReadDelete(w, r)
                          \/ ReadVerify(w, r) \/ ReadStored(w, r)
    \/ CheckDeliver(w)
    \/ \E t \in TaskIdx : \/ CheckReload(w, t) \/ CheckDiff(w, t)
                          \/ CreateApply(w, t) \/ CreateFire(w, t)
                          \/ RemoveApply(w, t) \/ RemoveFire(w, t)
                          \/ Reject(w, t)

(* Steps the user or the host starts.                                      *)
Request(w) ==
    \/ \E k \in Keys : CreateLogin(w, k)
    \/ \E id \in Ids : RemoveStart(w, id)
    \/ HostGetSessions(w)

Next == \E w \in Windows : Continue(w) \/ Request(w)

(* The event loop runs every continuation whose promise has settled, and   *)
(* the store and GitHub calls answer: weak fairness on each window's       *)
(* continuations.  The user never has to log in or out.                    *)
Spec == Init /\ [][Next]_vars /\ \A w \in Windows : WF_vars(Continue(w))

-----------------------------------------------------------------------------
(* Properties                                                              *)

(* The array getSessions() returns in window w, once it resolves.          *)
CacheOf(w) == Arr(w, sp[w].r)

(* Nothing is in flight: every event delivered, every task and read done.  *)
Quiescent ==
    \A w \in Windows :
        /\ pending[w] = 0
        /\ FreeTask(w) = TaskIdx
        /\ \A r \in ReadIdx : reads[w][r].st \in {"idle", "done", "failed"}

(* Once every window has handled every onDidChange event and finished     *)
(* every call, each window's getSessions() lists exactly the sessions in   *)
(* the secret store: checkForUpdates re-reads the store after any write,   *)
(* even when a stale create/remove or re-persist overwrote it.             *)
CacheMatchesStore ==
    Quiescent => \A w \in Windows : IdsOf(CacheOf(w)) = IdsOf(store.data)

(* At most one cached session per scope-set in every window: readSessions *)
(* keeps one entry per scope-set ("we should only have one session per    *)
(* set of scopes", line 150; spec section 8, Dedup), and createSession     *)
(* replaces the session with the same scope-set.                           *)
OnePerScopeSet ==
    \A w \in Windows :
        Resolved(w, sp[w]) =>
            \A i, j \in 1..Len(CacheOf(w)) :
                i # j => CacheOf(w)[i].key # CacheOf(w)[j].key

(* Every window's getSessions() eventually resolves, and from then on     *)
(* lists exactly the sessions in the store, whatever stale writes the      *)
(* windows raced with before (weak fairness on continuations only).        *)
Consistent ==
    \A w \in Windows : Resolved(w, sp[w]) /\ IdsOf(CacheOf(w)) = IdsOf(store.data)

EventuallyConsistent == <>[]Consistent

=============================================================================
