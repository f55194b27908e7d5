# SocketChatBackend in TLA+

This directory holds TLA+ models of SocketChatBackend, a Go server for chat,
shared whiteboards and presence over websockets, together with their TLC runs and
with theorems that TLAPS checks. The models follow the code in `src/`; where a
comment or a name in the code promises something that its behaviours do not keep,
a run that TLC finds violated says so.

To check a run: `tlc -config <run>.cfg <module>` with the module named in the
table of runs below. To check the proofs: `tlapm <module>.tla` for each of the
eight modules whose name ends in `Proofs`.

## The system

| Component | State | Operations | Hard behaviour |
|---|---|---|---|
| Chat websocket (`internal/handlers/socket_chat_handler.go`) | the hub: a map from conversation to the slice of its clients, under one mutex | admit and register a connection, read frames (send, seen, typing), delete a client, consume Redis events, shut down | a goroutine per connection, one consumer, main; deletion by user id; failing writes; a non-reentrant mutex; `logConversations` without it |
| Whiteboard websocket (`socket_whiteboard_handler.go`) | the same kind of hub, by whiteboard | the same, with one kind of frame | the same; its shutdown waits for a second signal |
| Presence (`socket_user_observer_handler.go`, `SetUserOnlineStatus`) | hub of observers per user, Redis lists of whom a user observes, the online status in the database and in a cache | set a status, subscribe, unsubscribe, notify | three stores written one after another by several goroutines; stores outlive a crash that the hub does not |
| Message rows (`chat_repository.go`) | `messages` | save (by socket, by REST), mark as seen | a row and its event are two steps; a message and its conversation's `updated_at` are one transaction, whose time is read before it waits |
| Conversations, whiteboards, accounts (REST, services, repositories) | `conversations`, `conversation_members`, `whiteboards`, `drawns`, `users` | look for a row, create it if there is none | two transactions with others in between; failing queries |
| Users who have sent a message (`GetUsersWhoHaveSentMessage*`) | a slice, a wait group, a mutex | a goroutine per user | concurrent appends; returning too early |
| Login, tokens (`auth_utils.go`, `middleware.go`, `authentication_service.go`) | none on the server: a token carries its claims | log in, check a token | expiry; registrations that race |
| Profile photos and names (`minio_service.go`, `UpdateUser*`) | a bucket, `users` | upload and then update the row; update and then read back | partial failure; several tabs; keys made of a second |
| Paged lists (`GetUserConversations`, `GetMessagesByConversationId`, `GetAllUsersWithPagination`) | none | a page: its rows, then the total | two queries; offsets into a list that moves |
| HTTP server (`http_server.go`) | — | routes; the two shutdowns in order | signals |
| Validators, other REST reads, web pages, configuration | none, or read-only | — | — |

How they interact: a handler publishes events on a Redis channel and its consumer
goroutine, in the same process, gets them back and writes them to the sockets in
the hub. The handlers share the database; the REST routes write the same tables
and publish nothing. Main runs the chat's shutdown, then the whiteboard's.

What makes each of them correct:

- chat and whiteboard: an event reaches sockets of its own conversation, of
  members (chat), in order and at most once; a client that is there keeps its
  entry and one that left loses it; the consumer, a departing connection and the
  shutdown come to an end; what is broadcast is in the database;
- presence: somebody connected is online, somebody gone is offline, the stores
  agree, and no observer is left behind that no unsubscription would find;
- requests that create: who comes second gets what is there; whiteboards come with a
  drawn for each member; one account per email, whose password is the one of whoever
  was told that the registration succeeded;
- profiles: a row names a photo that is there, what others see changes with the row
  only, and two tabs do not undo one another;
- lists: a client that pages to the end has seen what was there when it began;
- collectors: each user once, and nothing written after the answer.

`PROJECT.json` lists every hazard with its line and the properties that watch it.

## The modules

```
Hub ── SocketHub ──┬─ ChatSocket ── ChatSocketProperties ── MCChatSocket
 │        │        └─ Whiteboard ── WhiteboardProperties ── MCWhiteboard
 │        └─ SocketHubProperties (both of them)      Fanout (implemented by both)
 └─ Presence ── PresenceProperties ── MCPresence
Store ──┬─ StoreProperties ── MCStore
        ├─ Accounts ─┬─ Rest ── RestProperties ── MCRest
        └─ Lists ────┘          (of StoreProperties, AccountsProperties, ListsProperties)
Collectors ── CollectorsProperties

HubProofs ──┬─ SocketHubProofs ──┬─ ChatSocketProofs
            └─ PresenceProofs    └─ WhiteboardProofs
RestProofs ── RowsProofs      CollectorsProofs
```

**Hub** — the registry as a value: `Register`, `Unregister` and what a sound hub
is. A key absent from the Go map is the empty sequence. The test "if not exists"
compares a fresh pointer with stored ones and never matches, so registering
appends. Deleting takes the *first* entry of a *user*.

**SocketHub** — what the chat's and the whiteboard's handlers share, line by line.
`pc[c]` is where the goroutine of connection `c` is, `rpc` where the consumer is,
`main` where main is. The mutex `mu` is a variable only where a goroutine holds it
over several steps (the consumer during a broadcast, main during the shutdown);
registering and deleting lock, do one thing and unlock, which is one step guarded
by `mu = "free"`. Three pieces of control deserve a word:

- *Departures.* `ReadJSON` fails in four ways. A close frame runs the close handler,
  which deletes; then codes 1000, 1005 and 1006 delete *again* in the loop
  (`"listed"`), others (`"unlisted"`) are read again until gorilla panics and gin
  recovers. A bare end of file is reported as 1006 without a handler (`"eof"`). A
  network error (`"reset"`) deletes nothing.
- *Writes.* Writing to a client that is gone may succeed (the kernel buffers) or
  fail; then the consumer closes the socket and calls the deletion, which locks the
  mutex its caller holds: `rpc = "relocking"`, from which no action leads. Writing
  to a socket closed before fails and the second `Close` fails, too: the function
  returns. A client that does not read (`"stalled"`) blocks the write.
- *`logConversations`* ranges over the map after the unlock. If the Go runtime
  notices a concurrent map write, the process dies: `ConcurrentMapAccess`.

**ChatSocket** adds admission, the frames, the `messages` table and publication,
which is a step of its own after the save and which go-redis does again when the answer is
lost (`PublishMessage` may append the event and stay). A client may name any ids as seen,
also of rows there are not: one row updated is enough to announce all of them. A message
frame that does not parse makes the goroutine delete its own sender's entry (`DropSender`;
`dropped` is history). `SaveMessage` is the REST route.
When `httpServer.Shutdown` fails, `log.Fatalf` ends the process before the hub is drained.
**Whiteboard** adds its own; its handler keeps no rows. **Fanout** is the abstract
specification of both: a log and, per connection, the positions it was written.

**Presence** — `pc[p]` for connections and the consumer, since `unsubscribe` and
`setOnlineStatus` are run by both; `runs[c]` counts the unsubscriptions a departing
connection owes (close handler and read loop). `Failing` names the stores whose
calls may fail, done or not; `Crash` empties the hub and keeps the stores. The cached status
has a lifetime of a day, which the model ends at any time (`ExpireStatus`; `cache` is "none"
where there is no key), so that a key says what was last written or nothing. A list that
names an id of more than 32 bits (`Wide`) cannot be read back (`Readable`) and is left as it
is. A deletion of a list may be done and answered by an error: the unsubscription ends there
(`DeleteNotifiersFails`), and `lost` counts, as history, what the list then named. Publishing
twice after a lost answer is not modelled here: an event that repeats the one before it
changes nothing that the properties, which speak of positions in the log, tell apart.

Unsubscribing locks (`LockToRemove`), removes under one notifier after the other
(`RemoveObserver`) and unlocks (`FinishRemoving`), as its loop does.

**Store** — a request is a goroutine that looks, inserts and commits in three
steps. Ids are given at the insertion and rows seen at the commit, as PostgreSQL
does, so "the last whiteboard" is the greatest *visible* id. A failed lookup reads
as "there is none" for whiteboards and accounts and as an error for conversations.
Which of several conversations of two users is found is open, since the query names
no order. `seen` is history, the ids that a request could find.

The body of a registration is bound to the model of the row, so that `Asked` has, besides
email, password and names, the id, the photo and the time of deletion it may bring. An
account is created in three steps: the id (`TakeUserId`: the sequence's, or the body's, which
leaves the sequence alone), the insertion (`InsertUser`: refused on an id or email that is
taken, also by a deleted account; waiting while another transaction has it open) and the
commit. Lookups pass over deleted rows, as gorm does.

`clock` is the time that rows are ordered by. A reading is the last one or the next
(`ReadClock`): the columns keep microseconds of the wall clock, so two readings may be equal.
`Repeatable` names the times that may be read twice, in the code all of them and for TLC a
bound; `shared` is history, the times that were. The wall clock is assumed not to step back.

**Accounts** — what a user does with the own row. `Login` answers with a token, that is
its claims: the id, the names as they were, the second until which it is valid; the
client's other requests name the login whose token they carry, and the middleware
admits them by it (`Arrives`, `Admit`). A photo is three steps: the file's name (the
user and the second), the upload (`objects`: which upload's content a key holds), the
row. An update of names writes one column and reads the row back by a second
statement. MinIO and the database may fail, and may fail to *answer* what they have
done. `second` is the wall clock, and only logins and photos look at it.

**Lists** — a page is two queries, its rows (`Find`) and the total (`Count`), and the
client goes on until the total is reached (`More`, which is the client's and not the
server's). Rows with the same time come in any order (`Starts`), users in no order at all. `SaveMessage` writes the message and the
conversation's `updated_at` in one transaction, with a time that it read before
(`ReadTime`); `had` and `back` are histories for what the list was and whether it
was ever put out of order.

**Rest** runs all of them together.
**Collectors** — the three reachable variants in one module; `append` under the
mutex is a read and a write.

## The runs

| Run (module) | Checks | What it shows |
|---|---|---|
| chat_two_tabs (MCChatSocket) | TypeOK, HubSound, LoneStaysRegistered, OnlyOwnUserUnregisters, HeldHubStandsStill, ImplementsFanout | two connections of Alice, one of Bob, a stranger, deletions by close frames and parse errors: the hub stays sound, changes under the mutex only, nobody loses an entry to another user, a user's only connection keeps its own until its own goroutine deletes it (by leaving, or by a frame that does not parse), and members (only) get the broadcast |
| chat_order | DeliveredInOrder, BroadcastBacked, LoneSenderOrder | two messages, two events, REST rows in between, ids without rows, publications that fail or are done twice: a message event names its saved row, a seen event at least one marked row, and events are in order |
| chat_live | LoneLeavesNoEntry, ConsumerCatchesUp, DepartureCompletes, ShutdownEnds | all four departures and a stalling client: who leaves an entry behind; and, under fairness, everything ends unless a named state holds the mutex |
| whiteboard (MCWhiteboard) | TypeOK, ImplementsFanout, CompletedShutdownClosed, SecondSignalExits | Alice and Bob on one whiteboard, Alice, who may stall there, on a second one, too, with frames addressed to either: broadcast, shutdown, liveness |
| presence_tabs (MCPresence) | TypeOK, ConnectedIsOnline, NotifiedInOrder | two connections of Alice, whom Bob observes: nobody is taken offline by others, and events come in order |
| presence_faults | EntriesListed | every store may fail, done or not, one crash, a notifier named twice and one whose id cannot be read back: the list names each hub entry, but for lists whose deletion was answered by an error |
| presence_live | StatusesAgree, DepartureEndsOffline, ConsumerCatchesUp | all four departures, a stalling client, statuses that expire at any time: the database, the cache (as far as it has the key) and the last event agree about a user whom nobody is announcing; liveness |
| store_requests (MCRest) | RestTypeOK, SecondRequestCreatesNothing, AnswerHasTheTwo, EveryMemberHasADrawn, OneAccountPerEmail, WhoRegisteredLogsIn, PhotoIsStored, PhotoChangesWithRow, NothingLost, AnswerIsNotOlder, PagesMissNothing, ConversationAfterItsMessages | twelve loads of requests that come in together, some with failing queries (below) |
| collectors (CollectorsProperties) | TypeOK, ReturnsEachOnce, NoLateWriter, Returns | four users, three variants |

Runs that TLC must find violated, each the negation of a comment in the code:

| Run | Claim | What happens |
|---|---|---|
| chat_two_tabs_delete | OnlyDisconnectedRemoved | closing one of two tabs deletes twice by user id and takes the other tab's entry |
| chat_failed_write | FailedWriterRemoved | after a failed write the consumer waits for its own mutex for ever |
| store_two_whiteboards | OneWhiteboardPerConversation | two members who ask at once create two whiteboards |

The models contain more of that kind, which no run singles out: the whiteboard's and
the presence consumers relock their mutex just as the chat's does (`ConsumerHeld`); a
shutdown that meets a socket closed before returns early with the mutex held
(`"aborted"`); a seen event repeats all ids of the request, rows that were not marked
and rows that there are not included (`HandleSeenMessageEvent`); one id too long for 32 bits
keeps a whole list of observed users from ever being cleared (`Readable`); the status of who
has been online for more than a day is gone from the cache (`ExpireStatus`); and a user named twice in a query is observed twice
(`SaveObserverNotifier`). Of the REST requests:

- a registration's body sets the new row's id, photo and time of deletion: the sequence runs
  into the id later and refuses somebody else, the photo may be any, and nobody logs in to
  an account that was deleted from the start (`NewUser`, `TakeUserId`);
- two saves at once may commit in the other order than they read the time, and a
  conversation's `updated_at` goes back (`back`);
- asking for a group that contains a pair with a conversation answers with that
  conversation, and asking for a pair may answer with a group (`AnswerHasTheTwo` says
  what is left to rely on);
- two photos of one user in one second and with one extension share a key, although a
  comment calls the name unique: the later object is shown as the earlier row's photo
  (`SameSecond`);
- sizes over 100 are cut to 100 but answered as they were asked for, so that a client
  which counts with its own size stops too early (`More`; excluded by `Complete`);
- rows of one time have no order among them and may change places between two pages
  (`shared`, excluded by `PagesMissNothing`);
- users are paged through without an order (excluded by `PagesMissNothing`).

### Bounds

`MaxMsgs` and `MaxEvents` (1 or 2) bound the rows and the events: two suffice to
lose, reorder or repeat one with respect to the other, and the consumer's work on an
event does not depend on earlier ones but through the hub. `MaxCrashes` is 1. Three
connections are enough for a broadcast to fail in the middle, for a user to have two
of them, and for a third party to be affected. A connection is used once: a client
that comes back is another one, which `a1` and `a2` of Alice are. `Ways` and `Slow`
are restricted where a run's question does not depend on them, as its `.cfg` says
(chat_order has no departures: `DeliveredInOrder` holds with them by the theorem
`OrderCorrect`, and two rooms are the `whiteboard` run's, over the same consumer). Symmetry is used only for Alice's
interchangeable connections and only in chat_two_tabs, which has no liveness.

`store_requests` would be too large with all its requests at once; most of them do not
meet. Its initial states are `Loads`, each a set of two to six requests of which
every pair competes for something, with the rows they find: creations (conversations
named in both orders, a whiteboard asked for by two members); registrations of one email
with two passwords, logins and a photo; registrations that bring an id, a photo or a deletion,
against others for the same id or email; one user's two photos and two names; a
client's pages of conversations, messages or users while others save, create and
register. `Faulty` names about half of them, so that a failure meets a success of
the same kind. `MaxSecond` and `Lifetime` are 2: a token expires within a run, and two
photos may be of one second or of two. `MaxSize` is 2 where the code has 100: a size may
be below, at or over it. `Repeatable` is the one time 2, which falls between rows that are
there from the start and those saved meanwhile. `Expiring`, the users whose
status may expire, is everybody in presence_live and nobody in the two others: in
presence_faults the property does not look at the cache, and what two connections of one user
add to it is left to the theorem `OnlineCorrect`. In presence_faults clients leave with a bare
end of file, so that a connection unsubscribes once, beside the consumer. `Garbling`, the
connections whose client may send frames that do not parse (any, in the code and in the
theorems), is Bob's in chat_two_tabs and none elsewhere.

Deadlock is not checked in the socket models: the process exits, a mutex can be held
for ever (that is what the liveness properties speak of), and the bounds end behaviours.
It is not checked in `collectors`, where the request ends. It is checked in store_requests
and store_two_whiteboards, whose one step from a state in which every request is answered
is to stay there: no request waits for ever for another's open transaction.

### Fairness

`FairSpec` says that a goroutine that can run does run (weak fairness per
connection, for the consumer and for main): the Go scheduler is preemptive and fair,
and a `sync.Mutex` in starvation mode goes to its longest waiter. A reader's failure
is strongly fair: a departed client has left finitely many frames, so reading comes
to the error, although a frame may be handled in between each time. Nothing is assumed
of clients, of Redis losing events, of signals, of failing stores, or of
the runtime noticing a map race. Liveness is stated "unless held": `ConsumerHeld`
names the states in which the code does stop for good (its findings) or for as long as
a client likes (a write without deadline).

## What is proved

For every set of connections, users, conversations, memberships and kinds of
departure and every bound, from the named assumptions on the constants (types of
`UserOf`, `ConvOf`, `Member`, ..., naturals for bounds):

| Theorem (ChatSocketProofs) | States |
|---|---|
| TypeCorrect | `Spec => []TypeOK` |
| MutexCorrect | the mutex is held by exactly whoever ranges over the hub |
| HubStandsStill | `Spec => HeldHubStandsStill` |
| HubCorrect | `Spec => []HubSound` |
| UnregisterCorrect | `Spec => OnlyOwnUserUnregisters` |
| OrderCorrect | `Spec => []DeliveredInOrder` |
| Implementation | `Spec => ImplementsFanout` |
| StaysCorrect | `Spec => []LoneStaysRegistered`, for all kinds of frames: the entry goes by the connection's own goroutine only |
| LeavesCorrect | `Spec => []LoneLeavesNoEntry` |
| BackedCorrect | `Spec => []BroadcastBacked`: a message event names its saved row, a seen event at least one marked row, whatever ids clients name |
| SenderOrderCorrect | `Spec => []LoneSenderOrder`, repeated publications included |

and in WhiteboardProofs TypeCorrect, HubCorrect (with the mutex and the order),
Implementation and ShutdownCorrect (`Spec => CompletedShutdownClosed`) for the whiteboard.

| Theorem | States |
|---|---|
| PresenceProofs, TypeCorrect | `Spec => []TypeOK` |
| PresenceProofs, OnlineCorrect | `Spec => []ConnectedIsOnline` |
| PresenceProofs, AgreeCorrect | `Spec => []StatusesAgree` |
| PresenceProofs, NotifiedCorrect | `Spec => []NotifiedInOrder`, crashes and failing stores included |
| PresenceProofs, ListedCorrect | `Spec => []EntriesListed`, crashes and failing stores included |
| RestProofs, EmailsCorrect | `RestSpec => []OneAccountPerEmail` |
| RestProofs, LoginsCorrect | `RestSpec => []WhoRegisteredLogsIn` |
| RestProofs, PhotosCorrect | `RestSpec => []PhotoIsStored` |
| RestProofs, SecondCorrect | `RestSpec => []SecondRequestCreatesNothing` |
| RestProofs, AnswersCorrect | `RestSpec => []AnswerHasTheTwo` |
| RestProofs, WritesCorrect | `RestSpec => []NothingLost` |
| RestProofs, NamesCorrect | `RestSpec => []AnswerIsNotOlder` |
| RestProofs, PhotoStepsCorrect | `RestSpec => PhotoChangesWithRow` |
| RowsProofs, RestTypeCorrect | `RestSpec => []RestTypeOK` |
| RowsProofs, OrderCorrect | `RestSpec => []ConversationAfterItsMessages` |
| RowsProofs, DrawnsCorrect | `RestSpec => []EveryMemberHasADrawn` |
| RowsProofs, PagesCorrect | `RestSpec => []PagesMissNothing` |
| CollectorsProofs, TypeCorrect | `Spec => []TypeOK` |
| CollectorsProofs, ListCorrect | `Spec => []ReturnsEachOnce` |
| CollectorsProofs, NoneLate | `Spec => []NoLateWriter` |

### The websockets

`HubProofs` has the lemmas on `Register` and `Unregister`: types,
soundness, who gains and who loses an entry. `SocketHubProofs` works with one
inductive invariant, `SocketInv`, of five parts:

- `TypeInv`: the types, and `EventInHand`: while the consumer sends there is an event
  in its hand. Without the latter the types are not inductive, since `head' = head + 1`
  could leave the log.
- `MutexHeld`: who holds the mutex is who is in the middle of a range. It is why
  nobody else's step is enabled then.
- `HubInv`: the hub is sound and a connection that has not registered has no entry.
  The second part is what makes `Register` keep entries distinct.
- `OrderInv`: `DeliveredInOrder`, strengthened by the consumer's cursor: what a socket
  was written lies at or before the event in hand (`BehindCursor`), and what this
  broadcast has written stands before the position `ri` of the slice (`Passed`).
  Soundness and the standing still of the hub turn that into "this socket has not had
  this event".

The proof is made once for the machinery: a handler's own steps are those that leave
the hub `Aside` (they may extend the log) or are deletions (`HandlerStep`).
`ChatSocketProofs` and `WhiteboardProofs` show that their actions are of these kinds
(`NextIsHandlers`), add what is their own (types of frames and rows; `MembersOnly`: only
members are upgraded or registered) and prove the refinement: publishing maps to
`Publish`, a successful write to `Deliver`, anything else stutters.

The last section of `ChatSocketProofs` adds the rows. Between its save and its publication an event is in its
goroutine's hand only, so the invariant speaks of events in hand as of those in the
log: each is backed (a message event by a row of its sender and conversation, a seen event by a
marked row), and what a lone connection has in hand is not older than what it has
published.

A user's only connection has a section of its own in `ChatSocketProofs`. `Moves` lists how
a goroutine goes from place to place and what each move does to the hub; a deletion takes
an entry of the departing *user*, so that the entry of a lone connection goes only by its
own goroutine (or the shutdown), as it leaves or as it handles a frame that does not parse; the latter
is what `dropped` records. In a sound hub it has one entry, so one deletion leaves
none. `LoneInv` is `LoneStaysRegistered`, with what it needs of sockets: those that are
closed have been upgraded, and a lone connection that still has an entry although it has
ended or its socket is closed is excused by what `LoneLeavesNoEntry` names; an excuse, once
there, stays (`Excused`).

The whiteboard's shutdown needs less (`Reachable`): there every connection of a user who
has no other, while it reads, has its entry or a closed socket. A walk takes an entry only
with the socket, so that after a completed walk, which leaves the hub empty, the socket is
closed. The chat has no such theorem, since a message that does not parse makes its goroutine
drop the sender's entry and go on reading.

### Presence

`Inv` in `PresenceProofs` has the types, a `Place` for each connection and `Consuming`:
a connection that unsubscribes has left, one on its way in has not; who enters or removes
holds the mutex; the consumer holds it from the event's arrival on, and while it
unsubscribes somebody there is an event in its hand whose observer has left. The last
part needs that the hub stands still and that clients do not come back.

The properties have an invariant each on top of it. `OnlineFrom`: from each of its
writes on, a connection's user is online where it has written (or, in the cache, its key is
gone), unless another connection
has left; any goroutine that takes a user offline does it for a client that left.
`InStep`: for a user with one connection the three places follow one another on the way
in; on the way out the connection and the consumer may write at once, each writes the
database first and the event last, so that after the first write the database has no
doubt left and the last to come out has written all three. `Wishes` and `Told`: a
connection stands only under users it named, once if it named each once, and what it was
written lies before the consumer's position or at it; then it does not come again in
this event. A crash keeps the log and moves the position to its end.

`Listed` is about the lists in Redis, of users with one connection. Between the deletion of
the list and the last removal, the entries are named by what the goroutine has fetched and
still owes (`Owed`); from the fetch to the deletion the list is the one that was fetched,
because a connection that departs enters no more. The exception is the consumer that took the
list: it waits for its own mutex until the process dies, and the hub with it. What a list
named when its deletion was answered by an error counts on the list's side (`lost`). Lemmas on
`Occurrences` say what `Append`, `Tail` and `Unregister` leave of an element: for a user with
one connection the first entry of the user is one of this connection.

### The requests

`Inv` in `RestProofs` says of registrations that those whose insertion is not committed yet
have ids and emails that neither an account nor another of them has (`OpenRegistrations`):
it is why the commits keep emails unique although each registration looked before. Those
that were told they succeeded made *the* account of their email (`Registered`), and a login
finds the account of its email, whose password never changes, unless it was deleted from the start. Of photos it says that an
object's key names the user who uploaded it and that objects stay (`Uploaded`), so that a
row may name one whenever its request has come to the second step; other photos are those
that the account's registration brought (`Brought`). Every other request is
shown to leave all of this alone (`Harmless`).

`ProfileInv` is about a user's photo and names, which are written by requests of several tabs.
A column holds what one of the writes wrote, and no request that came after that one was
answered has written since (`LastWrite`). It needs to know which requests wrote: those that
were answered with the row did, those still on their way did not, those that failed may have
(`NotYet`); and that a request's `before` are requests that were answered (`Before`).

`FoundInv` is about looking for a row and creating it. A committed row stays what it is,
open transactions have ids of their own, and a request that goes on to create, or has
created, saw no row that it wants unless its lookup failed (`Outcome`). Two requests of
which one could see the other's row therefore do not both create one, and what a request
answers with is a row that it wants.

`RowsInv` in `RowsProofs` gives the tables, sequences, clocks and every request's knowledge
their shapes; its point is that ids of open transactions are distinct and not yet visible, so
that a commit adds a row and replaces none. Ids are those that the sequence gave and, of
accounts, the finitely many that bodies brought (`Given`); that the tables are finite, on
which counting the pages' rows rests, follows from it. `Forward` says of every step that conversations
and messages stay, with times that grow unless `back` says otherwise, from which a message
stays older than its conversation. A whiteboard's drawns are written by its commit, one for
each member, and the members of a conversation do not change.

`PagesMissNothing` rests on time. Two conversations, or two messages, have
one time only if it was read twice, that is, if it is in `shared` (`TouchTimes`, `SendTimes`,
which count the open transactions' readings too). `Pages` is the invariant of a client that pages: a row of its
first list that it has not got, that kept its time and whose time was read once has at least as many newer rows as its
pages so far have places. Rows are never removed and those that move go to the front, so the number
only grows; and the next page, which leaves out as many rows as the pages before have places,
has the row or is full of newer ones. When the client stops, its pages have at least as many places as the
list had rows, the row itself among them: it is not missed.

### The collectors

The wait group's counter is the number of goroutines under way (`UnderWay`), the slice
under the mutex has the users whose goroutines are through, each once, and `Wait` returns
at zero: then there is nobody left to write.

### Only model-checked

Liveness, since fairness and ENABLED are beyond the prover: `ConsumerCatchesUp` (of the chat and
of presence), `DepartureCompletes`, `ShutdownEnds`, `SecondSignalExits`, `DepartureEndsOffline`
and the collectors' `Returns`. Every invariant and action property of the passing runs is a
theorem. The three claims that TLC finds violated are claims of comments; nothing is proved of
them. No module declares a RECURSIVE operator.

## Not modelled

- Reads that are one query each: a single user, a profile, discovery, the members who are
  not in a conversation. They change nothing and relate to nothing else. In the lists, each
  entry's unread count and last message.
- Signatures of tokens and password hashing, which are libraries': a token is one that a
  login gave, and a hash stands for its password. The validators' regular expressions: the
  models start from a verdict `valid`.
- `CreareNewDrawn`, `CreateSubDrawn`, `GetUsersWhoHaveSentMessageConcurrentWithRace`: no
  route and no caller reaches them.
- The cached last-seen times of presence, which only the log reads.
- `Users` lists with fewer than two ids panic in the service (gin recovers, nothing has
  changed) and lists that repeat an id are left out of Store's inputs.
- The upgraders that two handlers assign without a lock: every assignment is of the same
  value.
- A wall clock that steps back, and times of creation or update that a registration's body
  sets (no list is ordered by an account's).
- Redis, PostgreSQL and MinIO themselves: the log is the order in which Redis takes events,
  from which it may lose any; transactions commit whole; objects are stored whole.
- Routing tables, wiring, configuration, start-up, templates and generated documents.

## Plan

Order of work: first the websocket machinery, in which most of the concurrency is,
then presence, then the requests that only meet in the database, then their lists and
the users' own rows.

Done: Hub, SocketHub, ChatSocket, Whiteboard, Fanout, Presence, Store, Accounts, Lists,
Rest, Collectors; the theorems above.

What could follow: the whole process (one `main`, both hubs' shutdowns and REST requests in
flight composed); several server processes on one Redis, which the design allows; an
abstract specification of presence (what an observer may conclude from what it was told).
To prove: that `Reachable` fails in the chat only by a dropped sender, and, of a composed process,
that the two hubs do not disturb one another.
