# A verification project for avalok

avalok shows the logs of many sources (Docker, Kubernetes, journald, files over
SSH or WinRM, cloud storage, ...) in a web interface. In *server mode* it keeps
users, sessions, credentials and named sources in PostgreSQL; in *serve mode* it
serves one configuration file to one token. This directory holds TLA+ modules for
the parts of the Go server (`src/internal`) and of its web interface
(`src/web/src`, in TypeScript) whose correctness depends on what happens at the
same time or in which order answers come, the TLC runs that check them, and TLAPS
proofs of the theorems that matter most.

## The system

| Component | State it keeps | Operations | Hard part | What makes it correct |
|---|---|---|---|---|
| User accounts and sessions (`server/auth_handlers.go`, `server/admin_handlers.go`, `auth/jwt`) | `users`, `sessions` tables | login, logout, register, create, update, approve, disable, reset, delete | each handler is several store calls; updates write whole rows back | sessions belong to accounts, revocation is final, approval first, an administrator remains |
| Log buffer and self provider (`logbuffer`, `provider/self`) | ring, subscriber map, channels | write, snapshot, subscribe, unsubscribe, stream | fan-out outside the lock, close against send, slow readers | snapshots are the newest entries; streams miss and reorder only what they may; a writer never waits |
| Rotating log file (`logbuffer/handler.go`) | file, size | write, rotate | failed reopen | every line handed over is in some file |
| Log stream (`server/websocket.go`, `stream`) | goroutines, merged channel, pause flag | history, live, pause, resume, close | four kinds of goroutine, any of which may stop first | order per source, no gap where the provider honours the time asked for, no source waits for another, nothing leaks |
| Access to open streams (`server/stream_access.go`) | socket counter, ticker per socket | admit, re-check, revoke | access changes while the stream is open | lost access closes the stream in time; the limit |
| Download tickets (`server/download_tickets.go`) | ticket map | issue, redeem | concurrent redemption, expiry | works once, for one path, one minute |
| Temporary copies (`filebrowser/tempmanager.go`) | map source -> copy, files on disk | get or create, sweep, clean up | decompression outside the lock, shutdown order | every copy is removed, none under a reader that has just got it |
| Object polling (`provider/cloudutil`) | offsets per object | list, read from offset | objects that grow, shrink, appear between polls; bodies that break off, lines over the scanner's limit | each line once, whole, in order |
| Credential profiles (`server/credential_*.go`, `credential`) | `credentials` table | save, test, delete if unused | an update reads, merges and writes a whole row; check and delete are separate calls | an update loses nobody else's; no dangling reference |
| Scopes (`store/store.go`, `workspace/names.go`) | none | match a scope against a source | prefixes, reserved characters | deny by default |
| Settings, rate limiter, health cache (`server`) | table; map of buckets; snapshot | store; allow; refresh | partial application; dropping idle buckets | the documented limits |
| Workspaces, environments, services, resources (`server/*_handlers.go`, `workspace`) | documents by name | import, export, update, delete | exports blank secrets; a workspace's update takes them back from what is stored, a standalone document's does not | what is opened and saved again is the same, secrets aside |
| Other providers, remote clients, probes | none that lasts | connect, list, fetch, stream | network I/O | their contract with the log stream |
| Web: administration page (`Views/AdminPage.tsx`) | tables, dialogs, forms, test results, settings | load, create, edit, approve, delete, test, save | several requests under way, other administrators, patches against secrets that are not shown | tables are current, forms write what they show, results are of what they name |
| Web: log console (`lib/useLogStream.ts`, `components/LogConsole`) | lines, buffer, sockets, filters, following | connect, switch mode, flush, trim, filter, scroll | events of closed sockets, timers, trimming | a view shows a tail of what came, history first, with a true status |
| Web: navigation (`App.tsx`) | view, history, session | click, Back, Forward, sign in and out, resolve an address | lookups that answer late | the address is that of the view |
| Web: logs page (`Views/LogsPage.tsx`) | tree of sources, open panes | open, close, click a source, change the layout | answers for nodes closed since, fewer places than panes | never more panes than places, never blank |
| Web: file browser, storage, service status, lists (`components/FileBrowser`, `components/Views`) | what was loaded, what is asked | choose, page, search, check, delete, import | answers for what the user has left | what is shown belongs to what is named |
| Web: configuration builder (`components/ConfigBuilder`, `App.tsx`) | the form, the cluster dialog, what is saved | edit, rename, remove, connect, save, reopen | links by name; three forms of one document | links follow renames; what was saved is reopened |
| Command line, installation | configuration files | | | |

A request reaches a handler through `authMiddleware`, which redeems a download
ticket if there is one and authenticates against users and sessions. A stream
handler then resolves its source, takes credentials from the store, opens the
provider and merges its streams; a watcher goroutine keeps re-authenticating it.
The server's own log lines go through the log buffer, from which the self provider
serves them like any other source.

The web interface is one page that shows one view at a time. A view asks the
server when it is shown and after each change; several requests can be under way,
and an answer is applied when it comes, whatever the user did meanwhile, unless the
code compares it with what is asked now. The log views hold WebSockets, whose events
of a closed socket may still come after the next one was opened.

## Modules

| Module | Models |
|---|---|
| `Accounts` | users and sessions: every handler that writes them |
| `LogBuffer` | `Buffer`, `Handler.Handle`, and `Stream` of the self provider |
| `LogStream` | `handleWebSocketStream` and `MergeAll` |
| `Callers` | the clock, and which tokens authenticate now |
| `StreamAccess` | admission of sockets, `watchAccess` (extends `Callers`) |
| `DownloadTickets` | `issue`, `redeem`, `authMiddleware` (extends `Callers`) |
| `ServerAccess` | the two above side by side, over one clock and one set of callers |
| `TempFiles` | `TempManager`, its sweep, its shutdown and its callers |
| `ObjectPoll` | `PollAndStream` and `StreamSingleObject` over a changing store |
| `UsersPanel`, `AccessScope`, `CredentialsPanel`, `CredentialForm`, `SettingsPanel` | the parts of the administration page |
| `AdminPage` | these parts as one page, of which one is used at a time |
| `LogTail` | abstract: what a log view promises |
| `LogSource`, `MergedLog` | a single and a merged log view; both implement `LogTail` |
| `LogView` | filters, following and the count of new lines |
| `LogViews` | the three above as one specification |
| `Addresses`, `Router` | views and their addresses; navigation (extends `Addresses`) |
| `SourceTree`, `LogSessions`, `LogsPage` | the tree, the panes, and the page that composes them |
| `FileBrowser`, `ServiceList`, `ListPages`, `StorageBrowser` | a page each; `ListPages` stands for the lists that load alike |
| `ResourceImporter`, `ConfigBuilder` | the dialog that connects a target to a cluster; the builder (extends it) |
| `MainViews` | the pages of the main area as one specification |
| `Accounts_proofs`, `LogsAndCopies_proofs`, `Streams_proofs`, `AccessAndAddresses_proofs`, `LogViews_proofs`, `AdminPage_proofs`, `MainViews_proofs`, `ConfigBuilder_proofs` | theorems and proofs |
| `MC*` | constants of TLC runs that a `.cfg` cannot write; the other runs check their module as it is |

Every module says in its header which goroutines it has and what is atomic. One
action is what one goroutine does between two points where another one can
observe it: a store call, a critical section, a channel operation. Definitions
marked `\* fault` are not part of the specifications: each is a plausible bug,
placed before the definition it would replace, and shows which property notices it.

### Accounts

`row` is the `users` table and `live` the `sessions` table (a session is its
token's id); `owner` is what a token says about itself. A request holds in `job` the
row it has read and edited, and `pc` says which store call comes next: *read*
(`GetUser` and the edits), *write* (`UpdateUser`, whole row), *purge*
(`DeleteUserSessions`), *remove* (`DeleteUser`, with the cascade of
`migrations/001`), *insert* (`CreateUser`), *mint* (token and `CreateSession`).
Any store call may fail: `Abandon` ends the request, except that a failed purge is
ignored (`PurgeFails`), as in the code. Passwords are opaque, a scope and its
expiry are one opaque *grant*, and the clock is the set `lapsed` of what has
expired. Postgres rules that the code relies on are guards: unique usernames, the
foreign key of sessions. The variables `approved`, `overtaken`, `doomed`,
`revoked` and `unguarded` only record history for the properties.

### LogBuffer

`Store` is the critical section of `Write`; `Send`, `Drop` and `OfferClosed` are the
three outcomes of its non-blocking send, in any order of the subscribers (the code
ranges over a map); `File` is the rest of `Handle`. A follower is a stream: `Open`
takes the snapshot, `Deliver` hands an entry on, `Subscribe`, `Receive` and
`Cancel` follow. An entry is the number of its turn in the buffer. A snapshot and
the ring are modelled as the code computes them, with its modular arithmetic.

### LogStream

The handler's phases are its code from top to bottom: `Start` (the moment to stream
from), `Fetch` per source, `Open`, then the loop `Receive`/`Discard`/`Write`.
Forwarders `Take`, `Put` and end; the command reader sets the pause flag; `Cancel`
is any of the client leaving, access revoked and server stopping. `handleResourceStream`
runs the same loop.

What a source yields is up to its provider, of which the model has the promise and not
the code. The constant `Exact` holds the sources whose provider hands on the number of
lines and the time asked for: docker, containerd, journalctl, and kubernetes where no
`tail_lines` is configured. Their history (`Newest`) is the last lines; their live stream
begins at the position asked for, or somewhat before it, as the time is cut to the second.
Their entries are numbered by the time they were logged, so a position stands for the
time stamp that the code uses. The other providers do not look at the time: a file is read from
its first line (and its history is its *first* lines), `tail -f` over ssh and
`Get-Content` repeat lines that came before, the server's own log and the Windows event
log begin when they are opened, a bucket is read and polled. Of these `History` is any
lines and `Begins` any position, and their entries are numbered as the live stream yields
them. A provider that reads two outputs side by side counts as a source for each.

### StreamAccess, DownloadTickets, ServerAccess

Time is a counter; a ticker that is due fires before time goes on (`Punctual`): the
watcher does nothing else and a check is short against its interval. `valid` is the
set of tokens that authenticate now; it shrinks and grows at any time, as
`Accounts` lets it. The counter of sockets is read in `Admit` and incremented in
`Accept`. `redeem` is one critical section that removes the ticket whatever the
outcome; the authentication that follows is a step of its own.

### TempFiles

`Hit` and `Miss` are the first critical section of `GetOrCreate`, `Create` the
decompression, `Register` the second critical section, and `Finish` the end of the
`ReadPage` or `Search` that opens the copy by name. `Sweep` is the cleanup loop's
body and `CleanupAll` the first thing `Shutdown` does; requests run on after it.

### ObjectPoll

One goroutine follows all objects (`kind = "all"`, `PollAndStream`) or one
(`StreamSingleObject`); what it does first depends on how it was asked (`mode`).
`Listed` is a listing of the store, `FirstRead` the first read of an object, `Flush`
the cutting of a head or tail, `Mark` the listing with which `StreamSingleObject`
notes a size, and `Poll`, `Pass`, `Read`, `Rest` a tick. The store changes between
any two of these: objects appear, grow by whole lines, by half lines and by lines
ended by CR LF, disappear and are replaced. An object is a sequence of bytes of three
kinds, because offsets are computed from the lengths of lines; a line that was sent
is the span of its bytes. What the stream sends of objects that were not always
extended by whole lines is not recorded, since nothing is promised about it. A
compressed object is its uncompressed bytes, always read whole.

A body may break off after any of its bytes, its first one too; `FirstRead(p)` and
`Read(p)` are a read that gets the bytes up to `p`. The code never looks at
`scanner.Err`, so what is left of a broken-off line is sent as a line and counted with a
newline that is not there: the object is then no longer `plain`, and `missed` until a
read reaches its end. A line that does not fit the scanner's buffer (`MaxLine`, 1 MiB in the code)
stops the scan before it (`TooLong`), with the offset where that line begins, so every
later read stops there again (`Stuck`). An object can grow by such a line (`Long`).

### The web modules

A request is sent by one action and answered by another; where several can be under
way they are a sequence or a set, and the model lets them answer in any order, fail,
or (where the code has a component that leaves the page) be lost. What the server
holds is a variable of the model when the properties compare it with what is shown,
and other users may change it. React's batching makes an event handler one action; an
effect that runs after every change of its dependencies is part of each action that
changes them. `AdminPage`, `LogViews` and `MainViews` pick in `Init` which part the
behaviour is about: the parts share no state, so a behaviour of one says all there
is to say, and the parts that are not shown stay as they begin.

*AdminPage.* `UsersPanel` sends, serves and answers the requests of the users table and its four
dialogs; `AccessScope` is `AccessScopeField` with its tree and chips; `CredentialsPanel` the
table of profiles with overlapping connection tests. `CredentialForm` has what `buildEditPatch`
makes of the fields, the port check of `validate` (`Ports` are the values that are port numbers)
and the steps of `handleUpdateCredential`: `GetCredential` reads the row, `SaveCredential`
merges the patch into what was read and writes the whole row, either may be refused, and the
answer may be lost (`AnswerLost`), after which the form is open again with the profile it was
opened with; another administrator may save the same profile at any point between.
`SettingsPanel` has the settings, saved one at a time, and the copy of the buffer's size that
`App` keeps.

*LogViews.* `LogSource` is `useLogSource` with `useLogStream` and
`useStaticLogFetch`: sockets that open, deliver, close late or are revoked, the timer
that flushes the buffer into the store and trims it, and the fetch of the whole file.
`MergedLog` is the effect of `MergedLogPanel` that opens one socket per session anew
whenever the sessions change. `LogView` is `useLogViewState` and `LogLines`. `LogTail`
knows only what came and what is shown.

*Router.* `Addresses` holds `viewToHash` and `resolveHash`; `Router` the browser's
history, sign-in and sign-out, and addresses being resolved, of which each takes
requests that overlap with clicks.

*MainViews.* `SourceTree` has the three loads at the top and the fetches of the nodes;
`LogSessions` the panes, whose limit depends on the layout, and the effect that picks the
focused tab; `ServiceList` the checks of an environment's services, kept by name; `ListPages`
the lists with their deletions and the import; `StorageBrowser` one folder at a time, of buckets
of which two may have one name in two workspaces (`NameOf`): the effect that loads depends on
the name alone, so `SwitchBucket` asks for nothing when the name stays. `ConfigBuilder` has
every edit of a workspace, environment or service, `emitTarget` and the bodies of `App.tsx` as
the conversion into what is saved, and the parser as the conversion back. Between the two is the
server: `Exported` blanks the secrets of every target (`Blanked`), and the update of a workspace
gives a target without a profile what it lacks of its secrets and certificate from the first
stored target of that name in the environment of that name (`preserveSensitiveTargetFields`);
the updates of standalone environments and services store the body as it is, so a secret that
was stored is gone after the form was opened and saved again. A target's `login` is the set of
what is filled in of `"user"` (what is no secret), `"secret"` and `"cert"`. Several resources
can be fetched at once (`filling`). One branch is left out: in an environment's form the button
that adds a target creates the environment if there is none (`ConfigBuilder.tsx:1340-1346`),
which only an imported text without any environment leads to; every other form of that kind
begins with one. An id is drawn at random in the code (`createId`); in the model it is any that
no part of the form, and nothing under way, still has.

## Runs

All runs finish within three minutes on two workers.

| Run | Instance | Checks |
|---|---|---|
| `accounts` | 3 accounts, 2 names, 2 tokens, 2 requests at once, 2 administrator requests in all, one grant that expires | `Accounts` |
| `log_buffer` | 2 writers, 2 followers, ring of 2, channels of 1, 3 entries | `LogBuffer` |
| `log_stream` | 2 sources of 2 entries, one of them `Exact`, merged channel of 1, history of 1, 2 commands | `LogStream` |
| `server_access` | 1 token, 2 sockets for 1 place, 1 ticket, 2 paths, 2 downloads, interval 2, ticket life 1, time to 4 | `StreamAccess`, `DownloadTickets` |
| `temp_files` | 2 sources, 2 requests, 3 copies, life 2, sweep every 1, time to 4 | `TempFiles` |
| `object_poll` | 1 plain and 1 compressed object, up to 5 bytes, lines of at most 1 byte fit, 2 changes, 1 call that fails or breaks off, heads and tails of 1 | `ObjectPoll` |
| `admin` | 1 account with 3 requests (2 at once), 1 profile with 2 hosts and 2 tests, 2 values of which 1 is a port, a tree of 3 levels, 3 saves of settings | the parts of `AdminPage` |
| `log_views` | buffers of 1 or 2 lines, 1 line of history and 1 live line a socket, 4 sockets or fetches; 2 sessions, 2 runs of the effect; 2 kinds of lines, 3 lines | `LogSource`, `MergedLog`, `LogView`, the refinements |
| `navigation` | one or two names of each kind, some equal to words of an address, 2 history entries, 1 address being resolved | `Router` |
| `pages` | 2 of everything, and a third bucket with the name of the second in another workspace; 2 requests at once, 3 edits in the builder, a tree of 4 nodes | the parts of `MainViews` |
| `rules`, `profile` | as `pages` | one documented claim each, which the code does not meet |

Properties that belong together are one conjunction, stated part by part in its
module: `FollowedFaithfully` is `NoEntryTwice`, `NothingElseMissed` and
`OrderedUnlessCrossed`; `SentFaithfully` is `NoGap`, `OrderPerSource` and
`PauseTakesHold`; `StreamsStayAdmitted` is `LossClosesInTime` and
`OverLimitOnlyByRace`; `TicketsHold` is `WorksOnce` and `OnlyAsIssued`;
`CopiesComeAndGo` is `IdleCopiesExpire`, `VanishesOnlyWhenOld` and `LostOnlyByRace`;
`ShownWhole` is `WholeLinesOnce`, `NotedIsRead` and `EndsAreEnds`.

The bounds are the least at which the interesting cases happen: two requests
overlap in every pair of their steps; two entries overflow a channel and three wrap
the ring and go on; a second source competes for a full channel while the first one
is blocked; time passes two ticker intervals, and a copy's life, a sweep and one
tick more; an object changes both between a listing and its read and after it, and within
five bytes it has a line that fits and one that does not, or two that fit and part of a
third. In the web
modules two requests at once are the least that can cross; with four openings a view
connects, loses the connection, reconnects and switches its mode; a store of one or
two lines is trimmed by the second or third; three edits add a service or a target, link
them and rename or remove.
Bounds on counters (`MaxRequests`, `MaxEntries`, `MaxLines`,
`MaxCommands`, `MaxChanges`, `MaxFailures`, `MaxAsked`, `MaxEdits`, `MaxOpened`,
`Horizon` and the like) are guards of the actions that count. `CHECK_DEADLOCK` is
off where an instance ends: every counter reaches its bound and every stream and
request may be over. `navigation` has no such counter and checks deadlock.

### What they show

*Accounts.* However two requests interleave: a session never outlives its account
(`SessionsOwned`: the foreign key refuses the insert of a login that a delete
overtook); names stay unique although they are checked and inserted in two calls;
nothing opens before an administrator's approval; a revoked session never returns
(but one that a login creates after a disable has purged is not revoked by it: it
just does not authenticate, because `Authenticate` reads the user's status); an
administrator remains unless two removals overlap, or an update demotes one, which
the handlers do not guard against; and a lost update needs another write of the row
between a request's read and its write.

*LogBuffer.* A snapshot is always the newest entries in order. A stream never
repeats an entry; it misses those stored between its snapshot and its subscription
and those its full channel refused, and no others; it shows two entries in the wrong
order only if their writers overlapped. A writer never waits for a stream
(liveness). A writer may panic, but only if it had started before the stream ended.

*LogStream.* Of a source whose provider honours the time it is asked for, no gap between
history and live lines (duplicates are possible: lines
logged while the history is fetched come twice); of the others nothing is promised about
the seam. Of every source: live lines in the order they are yielded; at
most one line after a pause; an idle source delays no other; and whenever the
stream's context ends, the handler, the forwarders and the reader all end. This is about
the goroutines of the handler and of the fan-in. A provider's own may outlive the
stream: that of `file.go` sends each line without looking at the context.

*ServerAccess.* A stream whose caller has lost access ends within one interval,
counted from its opening if access was lost while it opened. The connection limit
is exceeded by at most the number of requests that were admitted while others were
still being opened. A ticket gets one request past `redeem`, for its path, in time.

*TempFiles.* An idle copy is removed within its life and one sweep; a reader's copy
vanishes only if the reader has had it for longer than that life, or the server is
stopping; a copy is lost only when two requests decompress one source at once.

*ObjectPoll.* Of an object that grows by whole lines, a stream shows consecutive lines, whole
and once each, whatever falls between a listing and a read (`WholeLinesOnce`), but for an object
of which a read broke off within a line: part of that line is sent as a line, and what follows
of it is cut. The size it has noted never runs ahead of what it has read (`NotedIsRead`), but
for three cases that the property names: a read that fails or breaks off; an object that grows
between the first read of `StreamSingleObject` and its first listing; and a line that does not
fit the scanner. In the first two, the new lines wait until the object changes again; behind
such a line nothing is ever shown. Otherwise growth is always shown in the end
(`GrowthIsShown`). A head or tail is what it says.

*AdminPage.* Once every answer has come, the table of users is the server's, and the settings
shown are the stored ones, unless others wrote or an answer was lost (until the next number that
is saved). Of two tests of one profile, each result is true of the host it names. A profile that
the server has saved reopens as it was saved, unless others saved it meanwhile; but after an
answer that was lost, the next save leaves out a field that was set back. The patch leaves alone
what another administrator wrote since the form was opened (`OthersEditsSurvive`), but what is
written between the handler's read of the row and its write of the whole row is undone. Clicks
in the tree of a scope give and take exactly what was clicked, and a detour over full access
changes nothing.

*LogViews.* Both log views show a tail of what was sent to them (`ShowsATail`,
`MergedShowsATail`: `LogSource` and `MergedLog` implement `LogTail`), through
reconnections, changes of mode and trims. The first line that is not history has number
1. The status is the socket's, but for a close event of an older socket that comes
late. In the merged view no history comes after the mark where all histories had ended
(live lines that come before the last history are on the history's side of it). The pill counts
what has arrived, until lines are dropped or a filter changes.

*Router.* When nothing is being looked up, the address in the browser is that of the
view, but for names that make two addresses equal, for a late answer and for an error.

*MainViews.* A spinner has a request; an answer opens nothing that was closed since,
but for a service's storage; panes stay within the layout and one has the focus;
pages of a file, listings of a folder and states of services belong to what is named,
unless two answers crossed; a list is current once its loads have settled. An address that
puts a bucket of another workspace under the open page, one with the same name, loads
nothing: the rows stay those of the bucket before until one moves or refreshes. Links of the
builder follow renames, unless two services share a name. What was saved is what is
reopened, but for secrets and, in a workspace, a certificate that was taken out
(which the server puts back).

The words *unless* and *but for* name behaviours of the code that a reader of it might not
expect, each an explicit condition of the property: an answer that overtakes a newer one
replaces what is shown for good (`crossedFiles`, `lateCheck`, `outrun`, `overtaken`, `latest <
since`), and a late event of a socket changes the status of its successor (`late`). So do the
exceptions named above for calls that fail: a body that breaks off or a line that does not fit
(`plain`, `missed`, `Stuck`), a lost answer (`lost`), a bucket of the same name (`carried`) and
secrets that are not given back (`Withheld`).

### Disagreements

Two runs expect a violation, and `PROJECT.json` quotes the lines. `rules`: removing a
service from the configuration builder leaves its name in the targets that refer to it,
though the builder is said to enforce that rule, and the server refuses the result.
`profile`: the bodies that save a standalone environment or service leave a target's
credential profile out, so what was selected is lost.

The modules also state claims of documents, comments or texts of the page that
the code does not meet, without a run of their own; `INVARIANT X` (or `PROPERTY X`) in
the module's cfg shows the behaviour:

| Claim | Module | What the code does |
|---|---|---|
| `RegistrationNeedsSetting` | `Accounts` | registration does not look at `self_registration` |
| `CapturedIsFiled` | `LogBuffer` | an entry whose writer panics on a closed channel is never written to the file |
| `PausedLinesKept` | `LogStream` | lines are discarded while paused, not buffered |
| `WithinLimit` | `StreamAccess` | requests admitted while others are being opened exceed `ws_max_connections` |
| `EveryCopyIsCleanedUp` | `TempFiles` | a copy that is lost to a race, or made after the shutdown, stays on disk |
| `LiveShowsOnlyNew` | `ObjectPoll` | the Live mode of a storage source shows its whole history |
| `ZeroTailIsSaved` | `SettingsPanel` | "0 = all logs" is refused by the field it explains |
| `PillCountsNoOthers` | `LogView` | a filter that is loosened makes the pill count lines that were there before |
| `BackReturnsToFolder` | `Router` | "Back" of an object of a storage returns to the top folder |
| `FailureIsNotNoData` | `SourceTree` | a failed load can look like "no sources" |
| `SecondClickCloses` | `LogSessions` | an object of a storage is opened under an id that is not its row's, so a click on the row does not close it |

## Fairness

`LogBuffer` assumes that a goroutine that is logging runs on (weak fairness of `Finishing`), and
nothing about followers, readers or cancellations: no lock is held across a blocking operation,
so Go's scheduler gives it that. `LogStream` assumes it of the handler, the reader and each
forwarder, and that a write to the socket either completes or fails, which a closed connection
and the context guarantee; it assumes nothing about sources and their providers, the client or
the end of the context. A forwarder whose source has ended is not obliged to end unless the
context is done, so liveness does not rest on sources that end. `ObjectPoll` assumes that the
polling goroutine goes on: its ticker fires, a call to the store returns, and of these calls and
bodies only `MaxFailures` fail or break off; it assumes nothing about the objects or the end of
the stream. `LogBuffer.WritersNeverWait` and `LogStream.NoSourceWaitsForAnother` are further
liveness properties under the same fairness, which the listed runs leave out (`NothingLeaks` and
`GrowthIsShown` are checked). The other modules state safety only: nothing obliges a user to
click or a server to answer.

## Proofs

`Accounts_proofs` proves, for any number of accounts, names, tokens, grants and
concurrent requests, every property that the `accounts` run checks. They follow from
one inductive invariant, `IInv`. The properties alone are not inductive: what a
request is about to write matters as much as what the tables hold. `IInv` adds
`JobInv` (what a request holds at each point), `BornInv` (accounts and tokens belong
to ids that have been given out), `CopyInv` (a copy that nothing overtook is the row
with its edits), `NameInv` (a copy to be written back has its row's name),
`ApprovalInv` (a copy that would activate an account was asked for by an
administrator), `RevokeInv` (a token that is to be revoked has an owner, so
`LoginMint`, which only uses fresh tokens, cannot revive it) and `AdminInv` (a
removal in progress spares its actor). Each part has a lemma per group of actions;
`Invariance` puts them together, and `OwnFieldsOnly` is an action property proved
from it.

`LogsAndCopies_proofs` proves, for every ring size, channel capacity and number of
writers and followers: `SnapshotIsTail`, from the ring's invariant (slot `i` holds
the newest entry whose number is congruent to it; `full` says whether the ring has
wrapped) and a lemma about remainders; the type invariant;
`PanicOnlyOnCopiedChannel`, from the fact that a closed channel is no longer
subscribed; and `FollowedFaithfully`. The last one needs `StreamInv`: whom a writer
still has to offer its entry to (`TargetInv`, `OfferInv`), and for each stream, what it has,
what it was refused and what writers still hold for it add up to its snapshot and all
that was stored since it subscribed (`Missed`), each once, in order but for the pairs
that crossed. A writer that panicked holds its entry for ever.

Its second part, about `TempFiles`, proves `CopiesComeAndGo` for any sources, requests and
copies, any life and any interval of the sweep: `SweepInv` (the next sweep is at most an
interval away, and comes before a copy that nobody asks for is older than its life and one
interval), `OwnInv` (a copy is of one source, and of one request until it is registered),
`ReadInv` (a reader took its copy no later than the copy was last asked for) and `RaceInv`
(whoever decompresses beside another, or beside a copy, has raced).

`Streams_proofs` proves the type invariant of `LogStream` and `SentFaithfully` for any sources
of any length, of which any are `Exact`, any capacity of the merged channel and any commands.
`HistoryInv` says that what is shown of an exact source while its history is fetched reaches to
the position where its live stream starts; `GapInv` carries this over to the lines that are
under way between a source and the client, where nothing is shown yet; `OrderInv` orders the
lines of a source along that way (shown, held by the handler, in the channel, still to come);
`PauseInv` says that the handler read the pause flag before it took the line it holds.

Its second part proves `ShownWhole`, the invariant of `object_poll`, for any finite set of
objects, of which any are compressed, objects of any size, any limit of the scanner, any number
of changes and of calls that fail or break off, and heads and tails of any length. It rests on
three groups of lemmas:

- *A set of integers in order.* `InOrder` chooses the increasing list of a set, which stands
  for the scanner's order of line ends and for the order of what was collected. `RanksOnto`
  and `InOrderLists` show that there is such a list, by counting for each element how many
  are no greater; `InOrderIs`, that there is only one. So whatever list is found, it is the
  list.
- *Reads.* `LinesAreSpans` says what the spans of a read are, `ReadStaysInside` that a read of
  any bytes, with carriage returns or without a last newline, wherever its body breaks off and
  wherever the scan stops, moves the offset forward and at most one byte past what was read. An
  object of whole lines (`Regular`) is described by the places of its newlines (`At`): its line
  `j` lies between newlines `j - 1` and `j`. `EndsOfRead` says that a read that starts behind
  newline `n` and does not break off within a line ends its lines at newlines `n + 1` to some
  `x`, all of lines that fit, and that line `x + 1` was not read or does not fit; `LinesOfRead`
  gives the lines, and the offset, which is behind newline `x`. A line that does not fit blocks
  the object (`NoFitBlocks`).
- *What was collected.* The lines of an object form a block of the buffer (`Block`), which
  reads of other objects leave in place (`BlockStays`); cutting the buffer to a tail or a head
  cuts the block to its last or first lines (`BlockOfLast`, `BlockOfFirst`).

The inductive invariant is `PollInv`. `StoreInv` says that a plain object is whole lines,
`OffsetInv` that reading stops behind one of its newlines, `SentInv` (with `SentUpTo`) that what
was sent of it is its lines `d + 1` to `n` for some `d`, each of which fits, with the offset
behind line `n` as long as the stream goes on; this is what makes `WholeLinesOnce` hold through
the next read. `NotedIsRead` is inductive beside these: a read that stops short is `missed`, and
a line that blocks the scan blocks it however the object grows (`BlockedStays`). A tail is sent
long after it was read, and the object may have grown meanwhile: `BlockInv` (with
`CollectedUpTo`) says that what is collected of an object is all its lines up to the offset.
`TodoInv` keeps the first look honest: no object comes twice in what is still to be looked at,
and none that comes was read before; a size that a listing showed of a plain object is still
there. `OneInv` says what a head (`HeadIs`), a tail (`TailIs`) and a skip leave of the one
object. Each action has a lemma; the reads and `Flush` are the long ones. `PollTypeCorrect` is
the type invariant, which the same steps prove.

`AccessAndAddresses_proofs` proves both properties of `server_access` for any number of
callers, sockets, tickets and downloads, any limit and any interval, from five parts: `Typed`;
`WatchInv` (the next check of an open socket is at most an interval away, and at most
an interval after the loss of access); `LimitInv` (open sockets and those being opened
exceed the limit by no more than the requests that raced, which needs the cardinality of
finite sets); `StoreInv` (a ticket is in the store unchanged from its issue until it is
tried) and `HeldInv` (what a download holds is as its ticket was issued).

Its second part proves `AddressShowsView`, the property of `navigation`, for any resources,
names and links and a history of any length. The lemma `AddressesAreRead` says that the address
written for a page is read back as that page, unless names make two addresses equal: one
lemma per kind of page, over the segments of an address. `LinksKnown` says that every link
leads to a page there is. `RouterInv` adds that each entry of the history, and each address that is
being looked up, is that of such a page. That a resource is of one type is
`ResourcesAssumption` in `Addresses`.

`LogViews_proofs` proves that `LogSource` and `MergedLog` implement `LogTail`, for any sizes of
the buffer, any history and any number of sockets and sessions: `SourceIsATail` and
`MergedIsATail` are the refinements that `log_views` checks. `SourceInv` and `MergedInv` say
what the sockets, the store and the buffer can be; every step is then `Come`, `Show`, `Clear` or
`Switch` of `LogTail`, or changes nothing it sees. That trimming leaves at least the smallest
size of the buffer is the arithmetic of `flush`. It also proves the four other properties of
`log_views`. `StatusIsTrue`: `StatusInv` ties the status to the socket and to what the socket
was told, and `FileInv` says that at most one request of the file was not aborted, the view's
own. `NumbersStartLive`: `NumbersInv` says where the history ends in what was sent, in the store
and in the buffer. `HistoriesComeFirst`: `MarkInv` says that when the mark is set every socket
is past its own history, so none comes after it; that the mark is set only then counts sessions,
a finite set. `PillCountsArrivals`: `PillInv` splits the lines shown into those that were there
when following stopped and those that came since.

`AdminPage_proofs` proves every property of the `admin` run, for any accounts, profiles,
hosts, keys, values and paths, and any number of requests under way:

- `SettingsAgree`: `SettingsInv` adds that the answer to a save is what is stored, and that
  `App`'s copy differs from it only while a save that will forward it is under way.
- `TestsAlwaysToldApart`: `TestsInv` adds what each test under way will say of the host it names.
- `RowsSettle`: `ListsInv` numbers the list requests; while the rows taken last
  differ from the server's accounts, a newer list is still to come, or the answer to a
  write, which asks for one.
- `AccessAlwaysFollows`: `ScopeInv` says that no path of a selection lies under another
  one. Lemmas about prefixes of sequences then give what taking and giving a path does to
  every other path, at any depth.
- `AlwaysReopensAsSaved` and `OthersEditsAlwaysSurvive`: `ProfileInv` adds what fields and
  removed keys the form can have (`FilledInv`), and that until the server has saved, the profile
  the form was given, and the row that the handler has read, are what is stored, unless another
  administrator saved or an answer was lost (`GivenInv`); lemmas give what a save leaves under
  each key.

They assume that what stands for "no request" is neither a setting nor a save, that
redacted, empty, kept and removed values are told apart from what is typed, and that paths
are sequences (`SettingsAssumption`, `ProfileAssumption`, `PathsAssumption` in `AdminPage`).

`MainViews_proofs` proves nine properties of the `pages` run, for any sizes:

- `WithinLimit` and `PageIsNotBlank`, for any tree and layouts: `SessionsInv`, first over
  `SessionsSpec` of `LogSessions`, whose steps are those by which `LogsPage` changes the panes.
- `ListingIsOfPath`, for any names that buckets share: `StorageInv`, the newest request under way is
  of the bucket and folder that are shown, unless an address put another bucket under the page.
- `SettledListIsCurrent`: `ListInv`, the newest load is of the place shown and answered
  with what the server has, or a deletion that the page has not heard of will ask again.
- `NoMatchesIsTrue`: it is inductive together with its type, `SearchInv`.
- `ContentIsOfFile`: `ViewerInv`, the page asked for last is the one the viewer stands on.
- `SpinnerMeansAsked`: `SpinnerInv`, no spinner turns below a node that does not show what it
  holds, since such a node takes no answers. The tree is any in which what is in a node
  came with the load that brought the node (`TreeAssumption`).
- `ClosedStaysClosed`, an action property of every step.
- `StatusIsOfEnv`: `StatusInv`, the last check asked for each service is of the environment that
  is shown, or has said so; a list that arrives asks for every check, which needs that the
  library's `SetToSeq` holds every element once. The names of the services are assumed finite.

Requests are a sequence of any length; removing one from its middle is the lemma `ShortenedByOne`.
`PagesRunTheBuilder` is a refinement step: the pages implement `BuilderSpec` of
`ConfigBuilder`; `PagesKeepForms` carries to them what is proved of the builder alone.

`ConfigBuilder_proofs` proves the two invariants of the configuration builder, over its own
specification `BuilderSpec`, for any names, profiles, clusters and workloads (of which a
namespace has finitely many: `WorkloadsAreFinite`, which `MainViews` assumes as
`WorkloadsAssumption`), any number of services, targets and edits and any number of answers
under way:

- `LinksFollowRenames`. What is needed beside it: no two services share an id, and a target
  remembers no service that a name does not tell from the others (`Good`). A change of the
  form leaves the links that remain said (`Ready`), one lemma per kind of change, and
  `Recall`, which forgets those a name no longer tells apart, makes such a form `Good`.
  `LeaveOut` and `SetToSeq` are shown to keep, and to hold, each element once.
- `SavedIsReopened`. `SameForm` says that two forms say the same, ids, secrets and what a
  request leaves out aside. `ReadGood`, `StoredIs` and `ExportedKeeps` prove it of the parser,
  of the two ways a form is written and stored and of the server's export, for a form whose
  parts have names; what the update of a workspace takes from the stored one (`PreservedIs`) and
  what an export blanks (`BlankedIs`) changes nothing but what is `Withheld`. `FormInv` carries
  it from the save to the page that opens it again, and says what can be under way meanwhile:
  resources that are fetched for services, and what the dialog asks for.

The proofs assume only the modules' named assumptions about the constants; that of `ObjectPoll`
asks for finitely many objects, as a listing returns, and room for one line. Every invariant and
action property that the passing runs check is proved. Only model-checked are the liveness
properties (`NothingLeaks`, `GrowthIsShown`), which are beyond the prover, and the two
counterexamples.

## Not modelled

- *Web:* `ManageResourcesPage` (one list with forms, of the shape of the lists and the
  credential form that are modelled), the audit log's table, the search dialog (a
  filter over a list that is loaded once), `api.ts` (stateless requests), parsing of a
  line's time and level, and components that only draw what they are given.
- *Providers, remote clients, probes:* network I/O and goroutines that copy lines. What they
  promise a stream is in `LogStream` (`LogLine`, `History`, `Begins`, `Take`); whether a
  provider's own goroutine ends with its stream is not. `Fetch` and the listing of cloud storage
  keep no state.
- *Handlers of workspaces, environments, services, resources and settings in the server, as far
  as they meet one another.* Settings and the updates of standalone documents are saved in one
  store call; a workspace's update reads the document, merges its secrets into the new one and
  writes it, as that of a profile reads, merges and writes a row. The profile's update is
  modelled step by step in `CredentialForm`, the workspace's merge in `ConfigBuilder`, as one
  step: two updates of one workspace that cross are not modelled. Nor are two further races,
  listed among the hazards: a workspace deleted between two reads of one request, and a
  profile's check for usages before its deletion.
- *Secrets themselves*, beyond whether there are some: their encryption and who is shown them.
- *Scopes, paging and search of files:* prefixes and patterns over the characters
  of names and lines, which the models abstract.
- *Rate limiter, health cache, rotating file:* one lock, one writer, no
  interleaving that matters.
- *Command line, installation, wire protocols, rendering.*

The audit log is written and never read by the program, so no action records it.
Database failures are modelled where a handler goes on after one; a crash of the server
ends every request, as `Abandon` does, and leaves nothing else to recover.
