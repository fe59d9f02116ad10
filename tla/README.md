# Verification of tmail

tmail is a temporary-mail service: a Postfix policy daemon accepts the first
mail of any domain whose MX record names this server and provisions that domain
in Stalwart; a FastAPI service hands out addresses under those domains, shows
their inboxes over JMAP, and has an administrator part; a Vue front end uses
it. This directory holds TLA+ models of the parts of it that keep state and
act at the same time, the configurations TLC checks them with, and theorems
checked by TLAPS. Every definition is translated from the code it names in
`PROJECT.json` (`map`), which is the reference wherever a document says
something else.

    tlc -workers 2 -config MCDomainCache.cfg MCDomainCache    # a run
    tlapm DomainCacheProofs.tla                               # a module of proofs

## The system

Paths are relative to the repository. "Hard" says what tests hardly reach.

| Component | State | Operations | Hard | Correct when |
|---|---|---|---|---|
| Domain cache, `src/domain_cache.py` | `domains.json`, its lock file; per process a memory copy and its generation | `contains`, `load`, `generation`, `add`, `add_many`, `replace` | two processes and many threads, a stat outside the locks, failing and half-done writes, power loss | writes are atomic and durable, a memory copy is never taken for a file it is not, a stale list never overwrites a newer file |
| Policy daemon, `src/policy_daemon.py` | one thread per Postfix connection, a client rebuilt when the configuration changes | startup merge, `_runtime`, `handle` | failures between "created" and "cached", two first mails at once, a client shared by connections, restart | a mail for our domain is never refused for good and is accepted in the end; nothing is provisioned for others |
| Administrator API, `src/admin_api.py` | admin lock, the JMAP client in use | settings, synchronisation, login, sessions, dashboard | network calls with the lock released, three attempts, writes to four stores in a row | no accepted domain is lost, nothing of an old server is published, the frozen whitelist stays frozen, the lock is released |
| Public API, `src/api_server.py` | rate-limit windows, streaming bodies | address, messages, sources | ownership checked in one call and the message changed in the next, totals corrected page by page | a message is shown and changed only for its recipients; the pages show all |
| Address and token helpers, `src/api_auth.py` | none | token, `normalize_address`, `active_domains` | whitelist and setting read one after the other | an address is granted only under a whitelisted domain |
| JMAP client, `src/jmap_client.py` | JMAP session, open blob streams | provision, list, query, get, set, download | an error after the server did its part, streams closed by any side | errors are never taken for an empty result; streams are closed once |
| Configuration store, `src/config.py` | `config.json`, a copy per process with the mtime it had | `get`, `update`, install and remove of the runtime file | two processes and an editor, mtime as a version, publication failing half-way | memory is never taken for a file it is not; a save takes no edit back; configuration and client belong together |
| State store, `src/api_state.py` | SQLite: settings, frozen domains, activity, sessions | one transaction per call | expiry against use | a session is valid only until logout or expiry |
| Janitor, `src/email_janitor.py` | none | delete old mail in batches | others delete from its batch, the server changes under it | it ends, and deletes only old mail |
| Release script, `deploy/release.sh`, and entry point | release directories, unit files, live links, configuration | backup, promote, enable, restart; roll-back on error | failure at any line, failure of the roll-back | after a failure the previous release is the one that runs |
| Front end, `frontend/src` | inbox, reader, address form, navigation, administrator tabs | polling, opening, deleting, form and route changes | replies that arrive after the page moved on | no reply of an earlier page is shown on a later one |

How they interact. The policy daemon and the API are two processes that share
`domains.json` (through `DomainCache`), `config.json` and Stalwart. The daemon
only adds to the cache, after Stalwart has the domain. The API replaces the
cache with Stalwart's list: when an administrator asks for it (manual) and when
a public request wants the domains or an unknown one (public). Within the API,
handlers run on a thread pool and share one `admin_lock`, `app.state.jmap` and
the state store. The front end talks to the API by HTTP, and every view must
cope with a reply to a question it no longer asks.

## Modules

| Module | Models | Notes |
|---|---|---|
| `DomainCache` | `src/domain_cache.py`, `active_domains()` as a caller | threads of several processes |
| `AtomicWhitelist` | nothing in the code: what `DomainCache` promises its writers | abstract specification |
| `DomainCacheRefinement` | the mapping of one to the other | |
| `DomainCacheProofs` | theorems about `DomainCache` and the refinement | |
| `DomainSync` | `admin_api.py` settings and refresh, the writing side of `policy_daemon.py` and the calls of `jmap_client.py` they use | the cache's methods are single steps here |
| `DomainSyncProofs` | theorems about `DomainSync` | |
| `PolicyDaemon` | `policy_daemon.py` with the mails and Postfix around it | liveness of mails |
| `PolicyDaemonProofs` | theorems about `PolicyDaemon` | |
| `MailRuntime` | `ConfigStore` of `config.py`, `mail_runtime()` of the API, `_runtime()` of the daemon, the validation and the writes of `update_settings` | two processes and an editor on one file |
| `MailRuntimeProofs` | theorems about `MailRuntime` | |
| `MessageApi` | the message routes of `api_server.py`, the mail calls and `_BlobStream` of `jmap_client.py`, `email_janitor.py` | one account for all addresses |
| `MessageApiProofs` | theorems about `MessageApi` | |
| `Release` | `deploy/release.sh`, the runtime commands of `config.py` it calls, and the services meanwhile | one step per command |
| `ReleaseProofs` | theorems about `Release` | |
| `Inbox` | `InboxView.vue`, `MessageReader.vue` and the message routes of `api_server.py` they ask | which inbox is open is chosen freely |
| `InboxProofs` | theorems about `Inbox` | |
| `Navigation` | `App.vue`, `AddressPanel.vue`, `session.ts` | which inbox is open; its content is `Inbox` |
| `NavigationProofs` | theorems about `Navigation` | |
| `MC...` | small instances of the above | |

### DomainCache

A thread runs one method of its process's `DomainCache`. `mutex[p]` is
`self._lock` (an RLock: nested acquisitions of the same call are one),
`fileLock` is the `flock` on the side file, `memory[p]` and `generation[p]` are
`self._domains` and `self._generation`, `file` is what the path names now.
A generation stands for the tuple (device, inode, size, mtime) of `os.stat`;
every new file gets a new number, `0` is the all-zero tuple of a missing file.

The steps are cut where another thread or process can run or where an error or
a crash can come between two effects: `Compare` and `Lookup` (the two critical
sections of `contains`), `TakeMutex`, `TakeFile`, the read (`ReadSnapshot`,
`ReadForAdd`, `CheckForReplace`), `Publish` (`os.replace`), `SyncDirectory`
(`fsync` of the directory, then the memory copy) and `Install`. `load` releases
the `flock` before it installs what it read; `generation` holds it.
`Error` and `SyncError` are an `OSError` before and after the publication.
`Crash` kills one process, `PowerLoss` both and leaves any of `survivors`, the
versions not yet known to be on disk, and `Damage` is an operator removing or
garbling the file while no one holds its lock.

`acked`, `window` and `misled` are history variables. `acked` holds the domains
an `add` has returned for, until a `replace` publishes without them. `window`
collects, for a running `contains` or `active_domains`, the answers that were
right at some moment since it began; a caller that gets another answer enters
`misled`. A `load` that fails, or that finds a file it cannot read, answers from
the memory copy by design: then both answers count as right.

### DomainSync

An API thread serves one request at a time: a manual or public synchronisation
or a change of the settings. Several handlers of
the daemon take mails, the daemon and the API restart, and the operator of
Stalwart removes domains. `refresh_domains` is `ReadGeneration` (outside the
lock), `LockToList` (public: auto-sync is read again under the lock), `List`
(the network call; the manual one holds no lock), `Enter` (the checks under the
lock), `Replace` (the compare-and-set; on a mismatch the next of three
attempts) and `Freeze`. `update_settings` holds the lock from `EnterSettings` to
`SaveSettings` and writes `config.json`, the client, the frozen table and the
settings in that order; any write may fail and leaves the earlier ones, that of
`config.json` also after the new file is in place (`SettingsFail`), and `add` may
raise after it has cached the domain (`AddFails`).
`accepted` is a history variable: domains whose first mail was accepted on the
server in use. It is emptied when the API turns to another server, and loses a
domain the operator removes.

That the cache's methods are single steps here is what
`ImplementsAtomicWhitelist` and `ContainsIsCurrent` are for.

### PolicyDaemon

Mails are queued with their sender, offered to the daemon, accepted or
rejected. A deferred mail, and one whose connection closed without an answer
(`add` raised, before or after it cached the domain, or the daemon died), goes back to the queue: that part is
Postfix's and the sender's, external to the repository. `Start` and `Merge`
are `main()`; `Contains`, `MxAnswer`, `Provision`, `Add`, `Accept` and `Defer`
are `handle()`. The API appears only as `Synchronise`.

### MailRuntime

`file` is `config.json` with its version: `at` is its mtime, `server` what it names,
and `base` the operator's edit it contains, which no save of the administrator can
write and none should take back. `memory[p]` is `_config` and `_mtime` of the
`ConfigStore` of a process, `client[p]` its JMAP client, identified with the
configuration it was built from; `pairLock` is `admin_lock` in the API and
`_jmap_lock` in the daemon, `storeLock` the lock of the `ConfigStore`. `get` is
`Stat`, and `Load` if the mtime is another one: the file may change between the
two. `update` is `Update` (the file is loaded again and the changed keys go on top),
`Replace` and `Remember`, with `UpdateFails` before and after the replace.
`update_settings` is `EnterSave`, `get`, `Validate` or `Refuse`, `update`, `NewClient`
and `SaveSite`, then `get` again for the answer. `Enter` is everything that takes
configuration and client as one: a message request, `test_mail`, the dashboard, a
connection of the daemon (which builds a new client in `Rebuild` if the
configuration has another fingerprint). `Edit` is an operator with an editor,
`Restart` a process that dies and comes back.

Three history variables name what the code does not promise. `orphans`: versions
no client of the API was built for, because they were written by hand or by a save
that failed after its replace; the API goes on with the old client until the next
save of the mail settings or a restart. `unseen`: edits made in the instant between a
replace and the `getmtime` after it. `trampled`: edits made between the load of
`update` and its replace. The properties except exactly these versions.

### MessageApi

A request reads the address of its token and takes configuration and client (`Begin`;
`held` is the server both name), checks that the message is there and is the
address's (`Check`, `NotFound`) and then marks, deletes or downloads it by its id in
a second call. Between the two, other requests and the janitor delete messages, and
an administrator may turn the system to another server, on which the same id may be
another message (`Recipients` is per server). A download is a stream
that is open on two sides: its last chunk (`Exhausted`) and its error (`StreamFails`)
close it, and so does the background task of the response (`Background`), which runs
after the last chunk and after a disconnect, but not after an error; `open` counts
what is left.

The janitor loads the configuration and computes its cut-off once (`StartJanitor`;
`cutoff` is the set of messages it is past: newer mail never is, because the
filter is a fixed time), asks for the first batch (`Query`), destroys some of it
(`Destroy`: Stalwart may refuse any) and asks again until there is none (`Done`). Any
exception, and an answer it does not expect to a query, ends it (`JanitorFails`).

The list is a function of the mailbox: `Matches` is what `Email/query` finds, which
may be more than the address's own (`Alike`: a search is by words), `PageRows` a page
of it, `Shown` what of that page is the address's, `SafeTotal` the total corrected
by what was not, and `Walked` what someone sees who follows `hydra:next`.

### Release

`pc` is the next command of `release.sh`. `place` says in which directory each
release is, `flag` which of `UNITS_BACKED_UP`, `OLD_RELEASE`, `PROMOTED` and
`CONFIG_CREATED` are 1, `unit`, `enabled` and `activity` what systemd has,
`savedUnit`, `wasEnabled` and `wasActive` what the script has recorded of it.
`runtime` is the runtime configuration: who made the file, the settings in it
and, in `same`, whether its device and inode are those the script remembers as
`CONFIG_ID`, which is all that `remove-runtime` compares. A save of the API puts
a new file in place while the old one still exists, so the first save changes the
inode; the one it frees may be that of the next file, so a second save may bring
it back. `Fail` ends the forward part at any command (the
assignments of shell variables cannot fail) and starts the roll-back, in which
every command is tried and each may fail. `Interrupt` is a signal: bash then
runs the EXIT trap with `$?` = 0. An API saves settings while it is active,
an old one without a runtime configuration in the directory of its release.
A unit with `Restart=always` (`Restarting`) may crash at any time, and may have
crashed before the release begins; it then waits for its restart ("activating")
and starts from the release that is live by then. `missed` remembers which units
were waiting when the script recorded their state; see Known deviations for
what becomes of them. `before`, `latest`, `missed` and `status` (except for
"failed") are history variables.

### Inbox

`inbox` and `reader` are the refs of the two components, `session` the address
whose token they use (`None`: no inbox is mounted), `calls` the HTTP calls that
have not been answered, `mail` the one account all addresses share. JavaScript
runs a handler up to its next `await` without interruption, so that each `async`
function is two or three actions: `Refresh` and `ListAnswered`, `LoadMessage`,
`MessageLoaded` and `SeenSaved`, `Download` or `DeleteCurrent` and
`ActionEnded`. Between them anything may happen. The code tells a late reply by a
counter (`requestVersion`) that it compares with the value it had before the
`await`; only equality matters, so a call carries `live`, which is true until the
counter of its component is incremented (`Silence`). `live` is what the code can
see, not what is right: the properties speak of the message, the page and the
address a reply is about.

The API serves a call (`Serve...`) at any time before the reply is taken, with
the mail of that moment: two lists may be answered in the order in which they were
not asked. Any call may fail, before or after the server has done its part.
`Outcomes` of a call that does not change or tell the mail apart ("seen",
"source") are open. Mail arrives at either end of the list, because
`Email/query` asks for no order. A tab that goes to the background (`hidden`) stops the
interval; `Return` starts it and refreshes at once.

What the code does and the properties do not forbid: when a page change fails,
the rows of the old page stay, with the error, under the number of the new one
(`SettledPageIsShown` excepts an inbox that reports an error); and "Previous",
clicked twice while page 1 is loading, asks for page 0, which the API refuses.

### Navigation

`path`, `view`, `current`, `loading` and `error` are `App.vue`, `panel` is the
form while it is mounted, `saved` the sessions in local storage, `calls` the calls
of `POST /token`. `ShowPage`, `OpenSaved` and `AskToken` are the three ways through
`reconcileRoute`, `TokenGranted` and `TokenRefused` what follows its `await`.
`Render` is the template: the form is mounted, kept or unmounted as the page
changes, and an unmounted form's submission is no longer live, because Vue drops
what an unmounted component emits. A token is identified with the address it was
issued for, which lets the properties see a session whose two halves do not
belong together. What the form holds, and a session may be saved for, is an
address or `None`: a name field that is empty or makes no address. `PathOf(None)`
is the form's own path, for `openInbox` makes a path of whatever it is given.
`PopState` may lead to the path that is shown already, as a history with two
entries for one path does.

## Runs

| Run | Question | Instance |
|---|---|---|
| `cache` | do memory copies, acknowledged domains, answers and compare-and-set stay right | two daemon threads (`contains`, `load`, `add`), one API thread (`active_domains`, `load`, `generation`, `replace`), 2 generations, handlers symmetric |
| `cache_atomic` | is each write atomic and durable, can a stale copy bring back a removed domain, are the locks released | the daemon adds and loads, the API replaces; 3 generations, `FairSpec` |
| `sync_both` | do two synchronisations and first mails lose a domain or keep the admin lock | one manual and one public request, one handler, two domains (one of ours), 4 generations, `FairSpec` |
| `sync_settings` | may a change of server or of auto-sync be overtaken | a synchronisation and a settings request, two servers, two clients, 2 generations |
| `policy` | is any mail refused for good or accepted too early, is the first mail accepted in the end | four mails, two for the same new domain, one without "@", two connections, `FairSpec` |
| `release` | does a failure at any command, in the roll-back too, leave a working system | the API and a unit that is only installed, a fresh machine or either kind of old release, services up, down or waiting for their restart, crashes at any time, signals, 2 saves |
| `release_interrupted` | does a signal leave the old release alone (it does not) | as `release`, 1 save |
| `inbox` | can a late reply show, announce or close the wrong thing, or leave the inbox waiting | two addresses, two messages, one of them sent to both, one message to a page, two pages, two calls under way (the interval may add one) |
| `navigation` | does the page shown belong to the path, does a page that waits have its call | two addresses and a form that may be emptied, three calls under way, any set of saved sessions, `FairSpec` |
| `link_swap` | is an inbox opened with the token of its address (it is not) | as `navigation`, two calls |
| `mail_runtime` | do configuration and client belong together, is any edit, save or newer client taken back | two API requests, two connections, or one of each; two servers, three versions of the file, changes of the server, of another mail setting and of either bound of a name's length |
| `message_api` | may a message id cross recipients or servers, is each download closed, does the janitor end and spare new mail, do the pages show all | two requests, or one and the janitor; two addresses, two servers with the same ids, pages of one message, batches of two |

What the properties say is written above each of them in the modules.

Bounds and why they are enough.

- `MaxGen` (cache generations). A version, one published while another call
  is under way and, with a file that is missing at first, a further one: 2 in
  `cache`. A stale copy that comes back needs one version read, one
  that removes the domain and one that brings it back: 3 in `cache_atomic`. With
  4 in `sync_both` a request can lose its compare-and-set three times and give
  up. A write starts only when a generation is left for it (`GenLeft`, `Room`),
  so the bound never cuts a write short.
- `MaxClient` (JMAP clients): one before and one after a change.
- `MailRuntime!MaxGen`: two writes of the file after the one at startup: a save and an
  edit, or two saves, in either order and with failures between their parts.
- `MessageApi`: the same id on two servers, a message for one address and one for
  both, and a search that finds one too many; with a limit of one the pages of a
  mailbox of two have every position a message can have.
- `Attempts` is the code's 3.
- One domain in the cache runs: what they check is about one domain at a time,
  and `replace` and `add` treat the others alike. Two in the other modules, one
  whose MX record is ours and one whose is not.
- Two units: one that is started and writes the configuration, one that is
  only installed; the script treats the others like one of the two. Two saves:
  one before the snapshot of a legacy configuration and one after it, and the
  two it takes for an inode to be used again.
- Two messages, a page of one and two pages are the least for which a list can
  shift under the reader, a page be empty and a message be shared. Two calls and
  one of the interval let a reply overtake another and a third one be under
  way when the session changes.
- Two addresses: the one left and the one gone to; a path that is left and
  entered again is among the behaviours. Three token calls: two late ones and
  the one awaited.

Deadlock is checked in every run but those of `Release`: a release ends.

### Findings

`release_interrupted` is expected to fail. `cleanup()` takes `$?` for the
outcome of the release. After SIGHUP or SIGTERM (the end of an ssh session, a
shutdown, `kill`) bash runs the EXIT trap with the status of the last
command that ended, 0: the script rolls nothing back and deletes the backup, which
between lines 153 and 173 holds the only copy of the old release. Between lines
153 and 156 the live path then names nothing at all.

`link_swap` is expected to fail. `submit()` asks for the token of the address in
the form and reads the form again when it arrives (`AddressPanel.vue:57`), while
its fields and "Random name" stay enabled. Whoever changes the name meanwhile
gets an inbox named after the new address with the mail of the old one, and the
pair is saved: from then on the link of the new address, which `README.md:167`
says opens that address, shows the mail of the other one until the session is
forgotten. Whoever empties the name meanwhile gets an inbox of no address, with
the mail of the address asked for, at `/`, the path of the picker
(`README.md:165`); its session is saved under no address and listed among the
saved ones. `RouteIsShown` excepts that inbox, by `PathOf`, and nothing else: no other
page is ever shown at a path that is not its own, and no late token is used but
by a form that still waits for it.

### Known deviations

Behaviours met while modelling that the properties leave out or except, because
the code does not promise more. None is a run.

- The freeze of the whitelist (`README.md:192`). `active_domains()`
  (`src/api_auth.py:98`) reads the setting and then the cache without a lock. A
  request that reads the setting just before it is turned off may answer from a
  cache that has grown since; the next request answers from the frozen list.
- The cut-over of a legacy configuration (`README.md:36`). The backup
  (`deploy/release.sh:129`, `136`) records a unit as active by the exit status of
  `is-active`. An API that has crashed and waits for its restart is "activating",
  which is not success: it is not stopped before the final snapshot, and settings
  it saves after it comes back are lost, where line 36 says that the migration
  stops the old writer first. In the roll-back (line 27) "activating" does count: the
  unit is stopped and not started again, although the test of the roll-back
  (`tests/test_deploy_scripts.py:179`) is named for restoring the "prior service
  state". Both are in the module: `FailureLeavesNoTrace` and `SettingsInForce`
  except the units in `missed`, and nothing more.
- Settings saved twice in the configuration of a release that fails.
  `remove-runtime` (`config.py:138`) knows the file by device and inode. A save
  replaces the file, and the inode it frees may be given to the next one: after two
  saves the file may look like the one that was installed, and the roll-back then
  deletes settings an administrator saved, which
  `test_failed_release_preserves_concurrent_runtime_config_replacement` asserts for
  a single replacement. `RemovedOnlyUnused` and `SettingsInForce` forbid it after one
  save and except it after two.
- `safe_total` subtracts what is not the address's on the page at hand only. If
  `Email/query` finds more than the address's own messages, the last page may
  end before one of them. `PagesShowAll` claims its conclusion only of addresses
  for which the search finds no others.
- The API builds its client when the mail settings are saved and at startup. After an
  edit of `config.json` by hand, and after a save whose `fsync` of the directory
  failed, it uses the new configuration with the old client until one of
  the two happens (`orphans` of `MailRuntime`). The daemon compares fingerprints.
- The janitor asks for the first batch again whatever became of the last. If
  Stalwart refused all of a batch for ever, it would not end. `JanitorEnds` assumes
  otherwise.
- `_get_session` of the JMAP client sets the session before the URL that belongs to
  it; two threads that meet there may fail once, and the caller tries again. A call
  may fail at any time in the modules, this way included.

## Fairness

- `DomainCache!FairSpec`: weak fairness of each thread's own steps (the
  interpreter schedules what can run, a system call returns) and strong
  fairness of `TakeFile` (the kernel serves the waiters of a `flock` in
  turn). No error has to happen, and none is excluded.
- `DomainSync!FairSpec`: weak fairness of each request's steps. `List` ends
  because the HTTP client has a timeout: `SyncFails` is always there.
- `PolicyDaemon!FairSpec`: weak fairness of the daemon's start, of the sender's
  retry and of each handler's steps. `FirstMailIsAccepted` claims something only
  of behaviours in which lookups, Stalwart, the cache file and the daemon stop
  failing at some time (`FailuresEnd`), after any number of failures. Before that the
  mail may be deferred again and again, and rightly so.
- `MessageApi!Spec`: weak fairness of the janitor's own steps (each HTTP call
  returns or times out), and strong fairness of `DestroySome`: Stalwart does not
  refuse every message of a batch for ever. The second is an assumption about
  Stalwart, without which the loop of the code does not end. Requests need no
  fairness: the janitor waits for none of them.
- `Navigation!FairSpec`: weak fairness of the reply to the call a page waits for.
  A browser answers or fails every request in the end. `WaitingEnds` claims
  nothing of a user who leaves the page, which ends the waiting too.
- `Inbox`, `MailRuntime` and `Release` state no fairness: their properties are
  safety properties. `NothingWaitsInVain` is the safety part of "every wait ends",
  the one the code can get wrong.

## Proofs

`DomainCacheProofs` proves, for every number of threads, processes, domains and
generations, under the four named assumptions of `DomainCache` (threads belong
to processes, call known methods, the owner of a free lock is no thread, the
bound is a natural number):

| Theorem | Property |
|---|---|
| `TypeCorrect` | `Spec => []TypeOK` |
| `LocksHeld` | `Spec => []LockDiscipline`: who is inside a locked region owns its locks |
| `WritersExclude` | at most one thread of all processes is between reading the file and publishing |
| `MemoryIsCurrent` | `Spec => []SnapshotAgrees` |
| `AcknowledgedDurable` | `Spec => []AcknowledgedSurvive` |
| `AnswersAreCurrent` | `Spec => []ContainsIsCurrent` |
| `CompareAndSet` | `Spec => ReplaceSawTheFile` |
| `NothingComesBack` | `Spec => NoResurrection` |
| `CacheIsAtomic` | `Spec => ImplementsAtomicWhitelist` |

The argument. `LockInv` is inductive by itself: each step takes or releases a
lock together with the label that says so, and `MethodFits` says which methods
can be at which label. Given the locks, the file changes between a thread's
read and its install only if the thread no longer holds the `flock`, which is
`load`'s case: `DraftsAgree` therefore compares the generation it has read with
the file's and claims nothing when they differ, and `GenerationsPast` (no
recorded generation is newer than the last one given out) says that a new
generation cannot be mistaken for an old one. The two make `SnapshotAgrees`
inductive. For durability, `DraftsKeep` says what a writer is about to publish:
an `add` everything acknowledged, because it read the file under the `flock` it
still holds; `DurableInv` adds that the file itself is among `survivors`, so
that a `SyncDirectory` that forgets the others forgets nothing acknowledged.
`ExpectationHolds` carries the comparison of `replace` to its publication.

Answers. `ContainsIsCurrent` alone is not inductive, because a `contains` looks
at the memory copy that other threads of its process may install meanwhile.
`AnswerInv` says that whatever the caller can find there when it comes to its
lookup is right: the copy itself, and what a thread of its process has read and is
about to install; while the caller still compares generations, only drafts of
the generation it compares with, which `DraftsAgree` makes drafts of the file.
`Widens` is the reason why nothing becomes wrong later: `window` only grows while a
call runs.

The refinement. `DraftsMerge` says that what `add` publishes is the file of that
moment and its argument, or, where the file cannot be read, anything and its
argument; with it `Publish` is the abstract `Merge`, and with `ExpectationHolds` the
abstract `Swap` of a `replace`. A failed comparison is `Refuse`, the end of a
writing call `Return`, errors and crashes are `Fail` and `PowerLoss`; locks, reads and the
calls that only read are stutters. `CallsFit` sees to it that a call that writes
nothing looks like no call. `NoResurrection` follows from the same facts about
`Publish`, the only step of a thread that changes the file (`FileFrame`).

The bound `MaxGen` is a constant of the specification, so the theorems hold for
each bound, however large.

`NavigationProofs` proves, for every set of addresses and any number of calls,
under `NavigationAssumption` (the paths of pages are no addresses):

| Theorem | Property |
|---|---|
| `TypeCorrect` | `Spec => []TypeOK` |
| `PathIsShown` | `Spec => []RouteIsShown` |
| `WaitsAreAnswered` | `Spec => []WaitingHasItsCall` |

The argument. `WaitingHasItsCall` says that a page that waits has a live call;
that this call is the right one, so that its reply opens the inbox of the path,
is `LiveCallsFit`: a live call of a route is for the path shown now, a live
submission belongs to a form that is submitting. It holds because each step
that changes the path also silences the calls for the old one, and each
re-render that unmounts the form silences its submission. `PanelFits` ties the
form to the page. `Inductive` is their conjunction with the three properties.
`RenderInductive` is the part common to all steps that end in a re-render: what
such a step has to see to for the invariant to hold after it;
`RenavigatedInductive` is its case of a step that begins a new navigation, and
`LocalInductive` does the same for the steps that leave the page alone.

`DomainSyncProofs` proves, for any number of requests and connections, all
domains, servers and bounds, under the four assumptions of `DomainSync` (`Ours` and
`Allowed` have their types, the bounds are numbers, the owner of a free lock is
no thread):

| Theorem | Property |
|---|---|
| `TypeCorrect` | `Spec => []TypeOK` |
| `AcceptedAreKept` | `Spec => []AcceptedStayCached` |
| `ListsAreOfTheClient` | `Spec => PublishedByClientInUse` |
| `FrozenIsKept` | `Spec => FrozenStaysFrozen` |
| `CacheIsNeverEmptied` | `Spec => NeverEmptied` |

The argument. `Running` says what a request has got by each of its labels.
`Locked` says what the lock preserves: from the checks of `Enter` to the end of
`Freeze` the request owns the lock, its client is the one in use and, if it is a
public one, auto-sync is on; no other request can change them meanwhile.
`Fresh` is the reason why no accepted domain is lost although `List` holds no
lock: a list whose generation is still the cache's, from the client in use, contains
everything accepted. The generation was read before the list was asked for,
and a mail is accepted only after its domain is in the cache: one
accepted before the generation was read was in Stalwart when it was listed, and one
added since has changed the generation. `Inductive` is `TypeOK`, `Running`, `Locked` and
`Fresh`; each has its own lemmas (`LockedStep`, `LockedOther`, `FreshWrite`, ...),
because a step of one request must be shown harmless to the others.

`PolicyDaemonProofs` proves, for any number of mails and connections, under the two
assumptions of `PolicyDaemon` (a mail has at most one domain, `Ours` are domains):

| Theorem | Property |
|---|---|
| `TypeCorrect` | `Spec => []TypeOK` |
| `OursAreKept` | `Spec => []OursNeverRejected` |
| `AcceptedAreServed` | `Spec => []AcceptedMeansKnown` |
| `OthersAreLeft` | `Spec => ProvisionsOnlyOurs` |

The argument. `Learnt` is what a handler knows at its label: past `contains` its mail
has a domain, past the MX answer it is one of ours, past `Provision` Stalwart has
known it. `Inductive` adds the two invariants.

`MailRuntimeProofs` proves, for any number of requests, connections, servers and
versions, under `RuntimeAssumption` (requests and connections are disjoint, the
owner of a free lock is no thread, "keep" is no server):

| Theorem | Property |
|---|---|
| `TypeCorrect` | `Spec => []TypeOK` |
| `MemoryIsTheFile` | `Spec => []MemoryAgrees` |
| `PairsAreGivenAsOne` | `Spec => []PairsMatch` |
| `EditsSurvive` | `Spec => []EditsAreKept` |
| `BoundsMeet` | `Spec => []LengthsMeet` |
| `ClientsOnlyMoveOn` | `Spec => ClientsMoveOn` |

The argument. `Locked` ties the labels to the two locks. `Known` (no version is known
before it is written) makes an mtime that equals the file's mean the same file,
and with it `Remembered` makes `MemoryAgrees` inductive. `Paired` is about the API: outside a
save its client is settled with the file, with the memory and with what the holder of the
lock was given, where settled means "for the same server, or no client was
built for that version"; a save may break that between `Replace` and `NewClient`, under the
lock that every user of the pair takes. `Ordered` says that what a client is about
to be built from is not older than the client. `Validated` and `Edited` carry what
`Validate` found, and the last edit, to the replace.

`MessageApiProofs` proves, for any number of requests, servers, addresses and messages and
any size of a batch, under `MessageAssumption` (ids are numbers and finitely many,
recipients and `Alike` have their types, limits are positive):

| Theorem | Property |
|---|---|
| `TypeCorrect` | `Spec => []TypeOK` |
| `DownloadsAreClosed` | `Spec => []StreamsClosed` |
| `ScopeIsKept` | `Spec => OwnersOnly` |
| `NewMailIsSpared` | `Spec => JanitorSparesNew` |
| `PagesAreComplete` | `Spec => []PagesShowAll` |

The argument. `Checked`: past the check, the message is the address's on the server
the request holds, which nothing changes during the request, whatever the system turns
to. `Balanced` counts the resources of a stream by label: one from the start of a
download to whichever of its two closes comes first. `Batched`: what the janitor
is about to destroy is within its cut-off, on the server it has loaded. `PagesShowAll`
speaks of one mailbox, as it may be in any state, so that it needs no invariant: a message
at position `k` is on page `k \div Limit + 1`; `PageExists` says that this page
is not behind the last one, and every page before it has a next one.

`InboxProofs` proves, for all addresses and messages, whoever they are sent to, every
size of a page and every bound, under `InboxAssumption` (`None` is neither an address nor a
message, messages are finitely many, the bounds are positive):

| Theorem | Property |
|---|---|
| `TypeCorrect` | `Spec => []TypeOK` |
| `OnlyOurMail` | `Spec => []MailIsOurs` |
| `PagesSettle` | `Spec => []SettledPageIsShown` |
| `ReaderFollows` | `Spec => []ReaderShowsSelected` |
| `NoSecondNotice` | `Spec => []AnnouncedOnce` |
| `AwaitedIsUnderWay` | `Spec => []NothingWaitsInVain` |

The argument. None of the properties is inductive, because none speaks of the replies that are
still to come. `LiveFits` does: a live call was made for the session that is open,
a live list for the page the inbox is at and a live message for the one selected.
That is what the counters of the code are for; each handler that changes session,
page or selection silences the calls that would no longer fit (`SilencedFit`).
`AnswerFits` says that an answer belongs to what its call asked for, and
`OneLive` that at most one call of a kind is live, so that the reply to it leaves none and
`refreshing`, `loading` and `busy` may be cleared: without it `NothingWaitsInVain`
would not survive a reply. `AlertedAreKnown` is the reason for `AnnouncedOnce`. `Inductive` is
the conjunction, and there is a lemma for each action.

What the API answers is computed by `Only`, a recursive function on the account. The theorems
of the library on induction take a predicate, so `SetInduction` states it of a set,
with the least element that `WFMin` gives a set of numbers as its proof; `OnlyIs` then
says that the function exists, `OnlyKeeps` and `OnlyOnce` what it returns. `TypeOK` has
bounds of its own, for which `Sizes` is the second invariant, proved on top of
the first: the interval adds a call to those allowed for only if no list is
awaited, every other handler waits for room, and an account without duplicates, from which no
message comes twice, has no page longer than all messages.

`ReleaseProofs` proves, for every list of units, whichever of them are started, and any
number of saves, under the three assumptions of `Release` (the list has all units, the
API is one that is started, the units with `Restart=always` are units, the bounds
have their types), whatever crashes when:

| Theorem | Property |
|---|---|
| `TypeCorrect` | `Spec => []TypeOK` |
| `NothingLost` | `Spec => []OldReleaseKept` |
| `RemovalIsSafe` | `Spec => RemovedOnlyUnused` |
| `NoTrace` | `Spec => []FailureLeavesNoTrace` |
| `SettingsSurvive` | `Spec => []SettingsInForce` |

The argument. `PlaceInv` says for each command where the old and the new release are and what
the script knows of it: the old one is where it was or in the backup, and `OLD_RELEASE` and
`PROMOTED` are set when they have to be, except between a `mv` and the assignment
after it, where no command can fail. `BackupInv` says that what is recorded is what was
there before, for each unit up to the current one, except that a unit that was
waiting for its restart is in `missed` and not among the active ones. The roll-back then has one clause for each of its loops: the
units before the current one are back (`UnitsInv`, `ServicesInv`), and `Restored`
carries that to the end as long as nothing in it has failed. `RuntimeInv` says who
made the runtime file at each command; `FileInv` counts the saves in it: the file the
script made has the settings of the snapshot, one with other settings has more
recent ones, and one whose inode has come back has at least two saves behind it.
`SettingsInv` says that an API that is not in `missed` is down from the final copy of its
settings until the new one starts, and where the last settings are for every way
the release may go on. No theorem has a hypothesis besides the assumptions; the exceptions
are in the properties.

Only model-checked are the liveness properties (`LocksAreReleased`,
`AdminLockIsReleased`, `FirstMailIsAccepted`, `JanitorEnds`, `WaitingEnds`): fairness and
ENABLED are outside what TLAPS proves. Every invariant and every action property of a
passing run has a theorem.

## Abstractions and omissions

- Generations never repeat: two files with the same inode, size and mtime in
  nanoseconds are not told apart by the code, and are not modelled.
- `os.stat` fails only for a missing file; `LOCK_UN` never fails; temporary
  files a failed write leaves behind are not modelled.
- The contents of a file is a set of names or unreadable: sorting, JSON and the
  validation of names are left out of these modules.
- Damage to the file comes from outside and while no one holds its lock.
- In `DomainSync` the validators, the dashboard and the activity log are left
  out; the readers of the whitelist are in `DomainCache`. A mail's DNS lookup is a
  choice that `Ours` restricts. Its configuration is a server name: how the file,
  the copies in memory and the client follow each other is `MailRuntime`.
- `MailRuntime`: the fingerprint of a configuration is its server, which stands for URL,
  token and account; the only validated values are the two bounds of a name's length,
  because only they depend on a value that is not in the request. Two
  versions never have the same mtime. A file that is missing or cannot be parsed,
  and the installation of the runtime file (`Release` has it), are left out.
- `MessageApi`: a token is its address, the account is the server's; of a message
  there is whether it exists, is seen and who its recipients are. Bodies, sources,
  attachments other than their stream, blobs that Stalwart does not have, blocked
  senders and aliases are left out.
- `Release`: an old API whose release has been moved away keeps running, cannot
  save into its own directory then and, when it is restarted, starts from the
  release that is live by then; nothing starts while no release is. It cannot save into
  the staged configuration either, which is at its path for an instant. A unit
  without `Restart=always` does not crash, and the timer's own runs of the janitor are
  left out. The loaded copy of a unit file and the symbolic links of `enable` are
  not told apart from the file. `-x` bits, ownership, validation and messages
  are left out, and a file that cannot be deleted after `install-runtime` failed.
- `PolicyDaemon` rebuilds no runtime: `_runtime` is in `MailRuntime`. SMTP
  framing is left out.
- `Inbox`: notifications are taken as permitted, the dialogue of a deletion as
  confirmed; the seen mark of a row, error texts, the clipboard and the change
  of the polling interval are left out. Checking that a message belongs to the
  address and then changing it are one step of the API here and two in `MessageApi`: a
  message that goes in between makes the call fail, which any call may. Blocked
  senders are left out, and a message of which `Email/query` and the check of the
  recipient disagree (`Alike` of `MessageApi`).
- `Navigation`: an address that is typed is one the API gives tokens for, and a call
  for any may fail; storage that cannot be read, and other tabs that save or forget sessions are left out, and so are the
  site's look and the parsing of paths.

## Not modelled

- Administrator sessions and the anti-forgery token (`api_state.py`, `admin_api.py`): a
  request compares its cookie and token with one row when it begins, in one
  transaction, and no later step relies on it. A request that began before a
  logout ends after it, as intended. There is no protocol to check.
- The rate limiter and the limit of a request's body (`api_server.py`): each is a
  few lines under one lock or in one coroutine. The limiter reads the clock
  before it takes its lock, so that two callers may enter the window out of order by
  the time a lock is waited for; nothing in the code depends on it.
- Address and token helpers (`api_auth.py`): pure functions of strings and
  signatures. `active_domains` is the exception and is in `DomainCache`.
- The validators and response models (`api_models.py`, `config.py`): data only,
  except the bounds of a name's length.
- `deploy/install.sh` and `deploy/deploy.sh` prepare a stage directory, set up Postfix
  and call `release.sh`: a sequence of commands without roll-back. The container entry
  point seeds the configuration by the same `install-runtime` that `Release` has, once,
  before the API starts.
- The administrator's front end (`frontend/src/admin`): the tabs are disabled while a
  call is under way (`childBusy`, `pending`). Two orders of events are left to
  the reader. The session that `onMounted` resumes is not awaited by `login`: if its
  answers arrive after those of a login, `csrf` is the older token, and changes are
  refused until the page is loaded again (`AdminApp.vue:29`). And `retryCleanup` can
  only fail once the session it names is no longer the cookie's: the first logout was
  served but its reply was lost, the session has expired, or another tab has replaced
  the cookie. The form then stays disabled until the page is loaded again
  (`AdminApp.vue:99`). That a failed login leaves no session behind holds as far as the
  reply to the login arrives; nothing but the expiry removes one that was created for a
  reply that did not.
- `SandboxFrame.vue`, `api.ts`, `types.ts` and the start-up of the front end: rendering,
  or one call without state.

## Plan

Done: `DomainCache` with its refinement, `DomainSync`, `PolicyDaemon`,
`MailRuntime`, `MessageApi`, `Release`, `Inbox`, `Navigation`, and proofs about
all of them. Left:

1. An abstract specification of what an inbox promises (a list of the open address's
   mail that follows the server's), with `Inbox` shown to implement it.
2. The safety part of the liveness properties as theorems: who waits for a lock or
   a reply waits for one that is held or under way, as `NothingWaitsInVain` and
   `WaitingHasItsCall` state it of the front end.
3. `AdminConsole`: the two orders of replies named under "Not modelled", and the tabs
   of the console with the state they save.
