# TLA+ models of the FDEV sources

This directory holds TLA+ models of the repository's source under `src/`,
the TLC configurations that check them, and `PROJECT.json`. That file maps
every modelling definition to the code it translates. It also lists the runs,
the mutants, the findings and the hazards.

## 1. Inventory

### Components

| Component | Source | State | Operations |
|---|---|---|---|
| GitHub session cache | `extensions/github-authentication/src/github.ts` | `_sessionsPromise` (a promise of an array that is mutated in place), the emitter, `_accountsSeen`, and the keychain entry shared by every window | `readSessions`, `storeSessions`, `checkForUpdates` (on every keychain `onDidChange`), `getSessions`, `createSession`, `removeSession` |
| Markdown smart select | `markdown-language-features/src/features/smartSelect.ts` | none (pure) | header, block and inline range computation |
| Git edit-session identity | `git/src/editSessionIdentityProvider.ts` | the repository's HEAD and its upstream | `provideEditSessionIdentity`, `provideEditSessionIdentityMatch`, `_onWillCreateEditSessionIdentity` (which races a sync against cancellation) |
| Offline mode | `vs/platform/actions/common/offlineMode.ts` | the `workbench.enableOfflineMode` setting, the action objects and their enabled flags, the open notifications, and a "don't show again" flag | Enable, Disable, the unsupported-feature notification, the menu items |
| User data profiles (main) | `vs/platform/userDataProfile/electron-main/userDataProfile.ts` | keys of the state service | `setEnablement`, `saveStoredProfiles`, and migration of the profile associations |
| HTML virtual code | `html-language-features/server/src/modes/languagePlugin.ts` | none (pure over the document's regions) | embedded virtual codes (ids, mappings, capabilities), the service script and the extra service scripts |
| JS walkthrough | `typescript-language-features/src/commands/jsWalkthrough.ts` | the example document, and the editors and tabs it searches | create-file and debug commands |
| Index tree, notebook webview commands | `indexTree.ts`, `notebook.contribution.ts` | delegation only | n/a |
| Tests, build | `textAreaState.test.ts`, `shared.ts`, `launch.test.ts`, `gulpfile.js`, the webpack config | n/a | n/a |

### How the parts of the session cache interact

Each VS Code window runs its own `GitHubAuthenticationProvider`, but all
windows share one keychain entry.

- Every `setToken` or `deleteToken` fires `onDidChange` in every window,
  including the writer's. Each event starts a `checkForUpdates`.
- `checkForUpdates` keeps the previous array and points `_sessionsPromise` at
  a fresh `readSessions()`. It then fires the diff of the two.
- `createSession` and `removeSession` await `_sessionsPromise` and mutate the
  array *in place*. They then call `storeSessions`, which repoints
  `_sessionsPromise` and writes the keychain.
- `readSessions` deletes a corrupt entry. It drops duplicate scope-sets and
  verifies legacy entries (those without an account) with `getUserInfo`, an
  await. When it dropped something, it re-persists.

### Hard behaviours

The hard behaviours are interleavings at each `await` within one window and
across windows:

- a `checkForUpdates` diff taken over an array that a login mutated meanwhile;
- a stale array written over another window's write;
- a corrupt-entry delete that wipes a newer write;
- dedup bookkeeping that runs after an await;
- a verification failure that is swallowed.

The list in `PROJECT.json` ("hazards") gives each of these at its line.

### Properties that make the session cache correct

- When every event has been handled, each window's cache lists exactly the
  stored sessions (`CacheMatchesStore`), and eventually it does so for good
  (`EventuallyConsistent`).
- At most one cached session per scope-set (`OnePerScopeSet`), as the
  comment at github.ts:150 and spec §8 say. The `one_per_scope_set` run
  shows that a store holding two legacy entries for one scope-set breaks it.

## 2. Modules and how they correspond to the code

### `GitHubSessions.tla`

This module models the session cache for a set of `Windows` that share the
keychain.

- `store` is the keychain entry. It is absent, corrupt, or a JSON list of
  `Entry` records: id, scope-set key, and an account that is real, unknown or
  none.
- `pending[w]` counts the `onDidChange` events not yet delivered to window `w`.
- Arrays are a heap of read slots per window (`reads[w][r]`).
  - A slot is allocated by a `readSessions` call. It then holds the state of
    that call and, once it is done, the array it resolved to.
  - `createSession` and `removeSession` mutate a slot's array in place,
    exactly as the code mutates the array behind the promise.
  - Slots no promise or task refers to are recycled (`FreeRead`, `Lowest`).
    `GcView` hides their stale contents from TLC.
- `sp[w]` is `_sessionsPromise`: a pointer to a slot, which is either still
  pending (a `readSessions`) or `Promise.resolve(array)`.
- `tasks[w]` are the async calls in flight, each with its program counter at
  an await.
- `view[w]` is what the host knows: the ids from its first `getSessions()`,
  updated by every fired event.

Each `await` splits a method into actions:

| Code | Action |
|---|---|
| `readSessions` | `ReadToken`, `ReadDelete`, `ReadVerify`, `ReadStored` |
| `checkForUpdates` | `CheckDeliver`, `CheckReload`, `CheckDiff` |
| `createSession` | `CreateLogin`, `CreateApply`, `CreateFire` |
| `removeSession` | `RemoveStart`, `RemoveApply`, `RemoveFire` |
| `getSessions` | `HostGetSessions` |
| an await on a rejected `readSessions` promise | `Reject` |

- Outcomes of `getUserInfo` are `ok`, `unauthorized` and `error`. The login
  itself is an atomic step that yields a fresh id from `NewIds`.
- The keychain write is synchronous in the model. It happens inside the step
  of `storeSessions`, and `onDidChange` is counted in every window at that
  point. This matches a keychain that orders writes and delivers their events
  later.
- Every keychain call may throw (`IOResults`, `{"ok"}` in all runs but
  `window`):
  - a `getToken` that throws is caught and the read returns `[]`;
  - a `deleteToken` that throws is caught the same way and the blob stays;
  - a `setToken` that throws leaves the store as it was and fires no
    `onDidChange`, while `storeSessions` has already pointed
    `_sessionsPromise` at the mutated array. In `createSession` and
    `removeSession` the catch reports the failure and fires no event. In
    `readSessions` nothing catches it, the read's promise rejects (slot
    state `failed`), and every task awaiting that promise ends (`Reject`).
- The login and `getUserInfo` calls of `createSession` throw before any
  state changes, so their failures are not steps.
- Formatting, telemetry (`_accountsSeen`) and logging are left out.

### `MCGitHubSessions.tla`

This module gives the model values (two windows, two scope-sets, ids) and the
initial stores:

- absent;
- corrupt;
- one session;
- a duplicate scope-set;
- a verified entry plus a legacy entry;
- two legacy entries for one scope-set.

### `SmartSelect.tla` and `SmartSelectBlocks.tla`

`SmartSelect.tla` models `createInlineRange` (smartSelect.ts:130-186) and
drives the block and header part, which `SmartSelectBlocks.tla` holds as pure
operators (smartSelect.ts:16-128 and 187-223).

- `CreateInlineRange(line, c)` returns the selection chain innermost first,
  or `<<>>` for `undefined`. JavaScript's `substring`, `indexOf` and
  `lastIndexOf` are translated by what they do: clamping, 0-based columns,
  and -1 when nothing is found.
- `vscode.Range` is translated by its constructor, which orders the two ends
  (`Rng`). `new vscode.SelectionRange(range, parent)` throws unless the
  parent contains the range (`SR`); a chain is a record `[ok, rs]`, `ok`
  being FALSE when a constructor threw.
- A document is abstracted to its line count, its blank lines, the
  markdown-it block tokens with their `map`, and the table of contents.
  markdown-it and the TOC provider are not in the repository, so nine
  documents are written out by hand: loose and tight lists, fences of
  several lengths, a fence left open in a list item, nested sections, a
  two-line paragraph, and a section with text before its child.
- `BlockTokensForPosition` sorts the enclosing tokens largest first; the
  sort is stable, so equal spans keep document order. `GetHeaderSelectionRange`
  and `GetBlockSelectionRange` fold `CreateHeaderRange` and `CreateBlockRange`
  over them, as the code's `for` loops do.
- The state is only an input generator. In editor mode (`Type`, `MoveLeft`,
  `MoveRight`) it reaches every line of up to `MaxLen` characters over
  `{* [ ] ( ) a}` with every cursor column. In document mode (`MoveLine`) the
  cursor visits every line of one of the nine documents. The two modes are
  a union, not a product, which keeps the state space to about 380k states.

### `EditSessionIdentity.tla`

This module models `git/src/editSessionIdentityProvider.ts`.

- `_onWillCreateEditSessionIdentity` races `_doSync` against
  `createCancellationPromise`. `race[r]` records how the race settled.
- `_doSync` is split at each await: `SyncOpen`, `SyncStatus`, `PublishDone`.
  `provideEditSessionIdentity` is `ProvideStart`, `ProvideOpen`,
  `ProvideStatus`.
- The workbench makes `MaxRequests` requests one after the other, each with
  its own token (`Cancel` may fire at any time). A `_doSync` keeps running
  after its request was released.
- `git.publish` may leave an upstream or not (`PublishOutcomes`).
- `Continue(r)` groups the steps that resume after a promise that settles
  on its own; `Spec` makes them weakly fair (see Fairness).
- `Match` and `Normalize` are `provideEditSessionIdentityMatch` and
  `normalizeEditSessionIdentity`. They work on parsed identities: a remote
  is a push URL, written as a host and its number of trailing `.git`
  suffixes, or JSON null. An identity that `JSON.parse` rejects is a record
  with `ok = FALSE`.
- `stored` is the identity an edit session was stored under on another
  machine. The workbench matches it against this folder's identities. It is
  any identity, including one that does not parse, and never changes.

### `OfflineMode.tla` and `OfflineModeMenus.tla`

`OfflineMode.tla` models `vs/platform/actions/common/offlineMode.ts`.

- `instances` are the action objects the commands create, in order, each
  with its kind and enabled flag. `Refresh` is the change listener of every
  live object; no object is ever disposed.
- `writes` is the configuration service's queue of `updateValue` calls.
  `WriteDone` applies the oldest one and fires the change event.
  `EditSetting` is the user editing settings.json.
- `prompts` are the open notifications. `Click` presses a button
  ("Don't Show Again" or "Disable Offline Mode"), `Dismiss` closes one.
- `dontShow` is the stored disclaimer flag.

`OfflineModeMenus.tla` is what the menu items promise (lines 129-169):
Enable is offered when the context key is falsy, Disable when it is truthy.
Its state is, per kind, the set of enabled flags the live objects of that
kind hold. `OfflineMode` refines it through the mapping
`state <- [k |-> {enabled flags of the instances of kind k}]`: command runs
are `Create(k)`, landed writes and edits are `Change(v)`, and the other steps
stutter.

### `UserDataProfiles.tla`

This module models the persistence overrides of `UserDataProfilesMainService`
(`userDataProfile.ts`) over the state service.

- `SetEnablement`, `SaveProfiles` and `SaveAssociations` are calls of the
  base class, which is not in the repository, so they are inputs.
- `GetStoredProfileAssociations` is the read that migrates the legacy key
  `workspaceAndProfileInfo`. `Revive` turns the legacy list into the
  workspaces dictionary.
- `LegacyWrite` is an older build sharing the user data directory.

### `HtmlVirtualCode.tla`

This module models `createHtmlVirtualCode`, `getServiceScript` and
`getExtraServiceScripts` (`languagePlugin.ts`) as operators.

- `getDocumentRegions` is not in the repository, so a document is its
  sequence of embedded regions. Each region has a language (or none), the
  module-script and attribute-value flags, its source range, and where that
  range begins in its content.
- `GlobalScriptVirtualCodes` folds `GlobalStep` over the classic scripts,
  as the loop of lines 119-150 does. It builds the syntax-only codes, the
  concatenated text's length and the mappings into it.
  `OtherLanguageVirtualCodes` numbers every other region by `LangIndex`, the
  shared `indexMap`.
- An id is the list of its `_`-separated parts, which is how
  `id.split('_')` and `startsWith('javascript_')` see it. Numbers become
  strings with `ToString`. Language ids contain no `_`.
- The only state is an input generator: `AddRegion` builds every document
  of up to `MaxRegions` regions over JavaScript (classic, module, attribute
  value), TypeScript, CSS (element and attribute value) and regions with no
  language. The properties are checked on each document.

### `JsWalkthrough.tla`

This module models `jsWalkthrough.ts`.

- `example` is `walkthroughState.exampleJsDocument`. `tabs`, `visible` and
  `active` are the tabs, the visible editors and the active editor, with
  tab groups flattened into one order.
- `CreateCommand`, `Opened` and `Shown` are `createNewJSFile`, one step per
  await. `DebugCommand` is the search (`Search`, `FindRelevant`) and the
  switch of `tryDebugRelevantDocument`, and `StartDebug` is its
  `Promise.all`.
- `UserShow` and `UserClose` are the user opening, focusing and closing
  editors between any two steps. Opening an editor may cover others of its
  group. `Dispose` is the walkthrough state's dispose.
- The user documents are a `.js` and a `.ts` file. An example document is
  untitled, so its path has no extension.

## 3. Runs

`PROJECT.json` lists twelve runs, the most the project keeps.

| Run | Module, bounds | Checks | Result |
|---|---|---|---|
| window | sessions: 1 window, 2 tasks, 2 logins, 1 sign-out, all initial stores, outcomes ok/unauthorized/error, every keychain call may throw | `TypeOK` | pass (about 1.96M states, 1 min) |
| windows | sessions: 2 windows, 1 task each, 1 login, 1 sign-out, outcomes ok/unauthorized | `CacheMatchesStore` | pass (about 2.3M states) |
| converge | sessions: 2 windows, 1 login, stores that need repair, no VIEW | `EventuallyConsistent` | pass (about 360k states) |
| one_per_scope_set | sessions: as window, store with two legacy entries for one scope-set, outcomes ok, no keychain failure | `OnePerScopeSet` | violation (3 states) |
| smart_select_nested | smart select: lines of up to 6 characters, all columns; nine documents, every line | `ChainNested`, `ChainReachesEnclosing` | pass (about 380k states) |
| smart_select_valid | same | `ChainValid` | violation (initial state: loose list, cursor on the blank line) |
| edit_session | edit session: 2 requests, publish outcomes upstream/none | `IdentityAfterSync`, `MatchRecognisesClones`, `CancelledAnswered` | pass (16,338 states) |
| edit_publish_after_cancel | same | `NoPublishAfterCancel` | violation |
| offline_mode | offline mode: setting unset/true/false, 3 instances, 2 queued writes, 2 notifications | `Refines` | pass (2,004 states) |
| profile_migration | profiles: 2 workspaces, 2 profiles, legacy lists of up to 2 entries | `MigrationKeepsAssociations` | violation |
| html_virtual_code | HTML: up to 3 regions of the seven kinds, offsets 0..1 before and after each mapped range | `IdsUnique`, `ExtraScriptsDistinct`, `CapabilitiesOnce`, `MergedMappingsInSlice` | pass (22,765 states) |
| js_walkthrough_duplicate | walkthrough: 2 invocations, 2 example documents, a .js and a .ts user file | `ReusesOpenExample` | violation (5 steps) |

- `CHECK_DEADLOCK FALSE` is set in the session runs because the user
  operations are bounded (`MaxCreates`, `MaxRemoves`). After them the real
  extension idles with no step enabled. The edit-session runs set it for the
  same reason: after the last request the workbench is idle. The HTML run
  sets it because its generator stops once a document has `MaxRegions`
  regions. The functions it checks have no state of their own.
- The smart-select, offline-mode and profile runs check deadlock: the
  cursor can always move, a notification can always be raised or the
  setting edited, and the base class can always save.

### Why these bounds are enough

- One task per window in the two-window run still lets a `checkForUpdates` or
  a login of each window interleave with the other window's at every await.
- Two tasks in one window give the intra-window races: a check against a
  login, and a login against a sign-out.
- Three read slots (`MaxReads`) cover the initial read, a check's read and a
  re-read.
- Two edit-session requests let a late `_doSync` of the first overlap the
  second.
- Three offline-mode instances let two objects of one kind exist next to
  one of the other, with two writes queued behind them, so a refresh can
  reach an old object after a newer one was created.
- The lines of up to 6 characters hold two nested pairs of any two marker
  kinds with the cursor in every place.
- Three regions hold two classic scripts next to a module script or a second
  region of another language. This is the smallest document in which the
  merged script, the syntax codes and the shared `indexMap` all meet.
- Each property has a mutant (`PROJECT.json`, "mutants") that these bounds
  catch.

### Fairness

- `converge` assumes weak fairness on each window's `Continue`. These are
  promise continuations, keychain events and `getUserInfo` answers, which
  the JS event loop eventually runs. User requests (login, sign-out, the host
  calling `getSessions`) get no fairness: the user may never act.
- `edit_session` assumes weak fairness on each request's `Continue`: the
  continuations of `openRepository`, `status()` and of the workbench once
  `waitUntil` has settled. These promises settle on their own. `git.publish`
  (`PublishDone`) gets none: it waits on pickers and dialogs the user may
  leave open for ever. Requests and `Cancel` get none either. So
  `CancelledAnswered` holds only because the cancellation, and not the
  publish, settles the race.

### Findings

Each violation run shows a disagreement between the code and the spec, a
comment or what the host accepts:

- **one_per_scope_set.** `readSessions` adds a scope-set to `scopesSeen`
  only after the `getUserInfo` await of a legacy entry (github.ts:172). Two
  legacy entries for one scope-set both pass the check and both stay cached,
  where the comment at :150 and spec §8 say one session per scope-set.
- **smart_select_valid.** The returned chain does not contain the cursor, or
  a `SelectionRange` constructor throws. This happens in three ways:
  - a list item's trailing blank line is trimmed (smartSelect.ts:116);
  - a fence left open in a list item gets a parent trimmed that way (:199);
  - a cursor sits between the two `*` of an opening `**` (:138).
- **edit_publish_after_cancel.** `Promise.race` stops only the wait.
  `_doSync` keeps running and starts `git.publish` for a cancelled request.
- **js_walkthrough_duplicate.** The debug command looks for the last example
  only among visible editors. It matches hidden tabs only by a `.mjs` or
  `.js` path, and an untitled example has neither. Once the user covers the
  example with another editor, "Debug" creates a second example. The
  comments at jsWalkthrough.ts:100 and :114 say the search finds it.
- **profile_migration.** Migrating the legacy key overwrites the
  associations with the legacy workspaces alone. The empty-window profile
  and newer associations are lost.

Other disagreements met while modelling are recorded in `PROJECT.json` as
hazards with a note, because the project keeps one run per question:

- a re-login replaces a session without announcing its removal;
- `checkForUpdates` diffs an array a login mutates after the check started
  (github.ts:99). It announces the live session as removed only when the
  keychain answers the check's `getToken` after the login's `setToken`,
  which the model does not assume, so no run checks it;
- a verified legacy entry is never written back with its account;
- an unclosed `**`, `[` or `(` still yields a span;
- verification errors keep a session under `<unknown>`, where spec §4.2
  says the load fails closed (github.ts:165);
- every offline-mode command invocation leaves an undisposed listener
  (offlineMode.ts:150);
- a non-boolean value of the offline setting makes an action object's
  enabled flag disagree with its menu item;
- after a `setToken` that throws, a window serves a list the store does not
  hold and nothing re-reads the store until another write: `getSessions`
  only awaits the cached promise (github.ts:81), where spec §7 says a fresh
  `getSessions` reconciles (github.ts:204);
- a sign-in reported as failed stays cached and is persisted by the
  window's next successful write (github.ts:237);
- a sign-out whose write completes before the sign-in's event leaves the
  host listing the signed-out session (github.ts:290).

What holds:

- `CacheMatchesStore` and `EventuallyConsistent`. However much the windows
  overwrite each other's lists (last writer wins, as spec §5 accepts), every
  write's event makes each window re-read, and they agree again.
- `ChainNested` and `ChainReachesEnclosing`.
- `IdentityAfterSync` and `CancelledAnswered`. Also `MatchRecognisesClones`: the
  match is symmetric, and clones whose push URLs differ by a trailing `.git`
  are a complete match at the same branch and commit.
- `Refines`: every live object follows every change
  event, so old and new objects agree with the menus.
- `IdsUnique`, `ExtraScriptsDistinct`, `CapabilitiesOnce` and
  `MergedMappingsInSlice`. With several classic scripts, each capability of
  a script comes from exactly one of the merged code and its syntax code.
  Each merged mapping is taken before its script's text is appended, so it
  lands in that script's slice.

## 4. Plan

1. **An abstract specification of the session cache.** A set of sessions
   with an announced view, which `GitHubSessions` refines for the behaviours
   that avoid the findings above. Every candidate tried so far fails on a
   behaviour the spec accepts (a replaced session not announced as removed,
   last writer wins across windows), so the abstraction has to carry those
   behaviours too.

## 5. Not modelled

- The HTML plugin's `getDocumentRegions` (embeddedSupport) is not in the
  repository. Its regions are inputs, assumed to satisfy
  `gstart + length <= clen`. The snapshots' substring text is left out.
- The JS walkthrough's document text and the debug session it starts.
- markdown-it and the TOC provider: not in the repository. Their output is
  written out per document (`SmartSelect.Docs`), assuming markdown-it's
  rules: list item maps include trailing blank lines, and an unclosed fence
  runs to the end of its container.
- The HTML plugin's `getLanguageId` and `createVirtualCode` guard
  (languagePlugin.ts:16-27). Which plugin's language id wins, and whether
  `createVirtualCode` is called at all, is decided by Volar's
  `createLanguage`, which is not in the repository; the guard on its own is
  two string tests with nothing to check against.
- Index tree and notebook webview commands: pure delegation.
- Tests and build scripts (gulpfile, webpack configuration).
- Telemetry and logging of the session cache: no property depends on them.
