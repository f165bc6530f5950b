# SpaceReserve in TLA+

SpaceReserve (`src/backend`, `src/frontend`) books rooms at a university: an Express
API over PostgreSQL through Prisma, a React client, and three services it calls
(SendGrid, Gemini, FinderAI) or is called by (FinderAI's peer endpoint). This
directory holds TLA+ models of its core logic, the TLC configurations that check
them on small instances, and theorems TLAPS has checked for every instance.

## 1. Inventory

Paths are relative to `src/backend/src` unless they start with another directory.

| Part | State it keeps | Operations | Talks to |
|---|---|---|---|
| reservations (`modules/reservations`) | `Reservation`, `ReservationAttendee` | create, cancel, override, addAttendee, removeAttendee, checkIn; listMine, getById | rooms and users tables, audit log, SendGrid, FinderAI lookup |
| rooms (`modules/rooms`, `lib/roomImages.ts`) | `Room`; photo files on a volume | create, update, setStatus, delete, setImage, removeImage; list, getById | reservations table (count), audit log, disk |
| audit log (`lib/audit.ts`) | `AuditLog` | writeAuditLog | called by reservations and rooms |
| mail (`integrations/sendgrid.ts`) | API key set or not | three mails | SendGrid |
| lost items (`integrations/finderai.ts`) | cache, failure count, circuit | lookupLostItems | FinderAI, called by checkIn |
| peer endpoint (`modules/external`) | `ApiKey.lastUsedAt` | getActiveBookingAt | reads reservations |
| search (`modules/search`, `integrations/gemini.ts`) | none | naturalSearch with a keyword fallback | Gemini, rooms table |
| sign-in (`modules/auth`, `lib/jwt.ts`, `middleware/requireAuth.ts`) | `User`; state and session cookies | login, callback, dev login, refresh, logout | Microsoft Entra |
| users, admin (`modules/users`, `modules/admin`) | none | exact e-mail lookup, dashboards | reads |
| health (`modules/health`) | two cached probes | getHealth | PostgreSQL, Key Vault |
| configuration (`config`, `index.ts`) | resolved secrets | resolveSecrets, migrateDeploy, start and stop | Key Vault, PostgreSQL |
| deployment (`src/backend/deploy.sh`) | running image | pull, migrate, up, health wait, roll back | Docker |
| client (`src/frontend/src`) | React Query cache, session | pages and hooks over the API | the API |

What is hard in it: Node runs one thread, but every `await` of a handler lets other
handlers run, so a check made before a query may be false after it. PostgreSQL runs
at READ COMMITTED and the code takes no lock; only unique indexes and foreign keys
hold across requests. A change and its audit row are two statements. Handlers await
SendGrid. Queries fail and the process is restarted by Docker.

What makes each part correct:

- reservations: the six business rules of `src/backend/README.md:124-130`; a
  reservation only ever closes; what was answered is not silently undone.
- rooms: no reservation without its room; no room shows a photo that is gone;
  photos that are replaced leave the disk.
- audit log: a staff change has its row; no row tells of a change that was not made.
- lost items: check-in is answered whatever FinderAI does; the circuit opens after
  repeated failures and closes again.
- peer endpoint: one booking for a room and an instant.
- sign-in: a session is of the account that signed in; a role taken away is gone within
  the token's hour; one tab's sign-in is not lost to leftovers of earlier ones.
- search: the answer says what became of the sentence (understood, degraded, failed),
  whenever Gemini answers; a window offers exactly the free rooms; the browser's filter
  and the query's agree; every search is answered.
- health: what a report takes from the cache is younger than its time to live when it asks.
- configuration and deployment: nothing serves before secrets are resolved; the schema
  covers the image that serves; the image of record changes only to one that was healthy,
  unless there was none or a release was cut short; one bad probe does not roll back.
- client: a settled page shows the user's own last write; what was asked for since the
  session last changed is the cookie's; who signs out leaves; the Edit form keeps its room; only other writes keep saving up.

## 2. Modules and how they correspond to the code

| Module | Models | Kind |
|---|---|---|
| `Calendar` | the time rules of `reservations.service.ts` and the where clauses on times | operators |
| `BookingState` | tables, requests in flight, answers; shared by the next two | state |
| `Reservations` | the handlers of `reservations.service.ts`, one action per query | actions |
| `RoomAdmin` | the staff handlers of `rooms.service.ts` on the `Room` table | actions |
| `Booking` | composes the two: arrivals, audit rows, faults, crashes, clock; the properties | specification |
| `BookingRaces` | the six races of two handlers, and what is history to them (`raced`, `shut`) | specification |
| `Ledger` | what the booking rules promise, in single steps | abstract specification |
| `RoomImages` | photos: `imageUrl`, the files on the volume, the three handlers that touch both | specification |
| `Gallery` | what the photo handlers promise of the files, in single steps | abstract specification |
| `FinderCircuit` | `lookupLostItems`: cache, timeout, circuit breaker | specification |
| `SignIn` | login, callback, dev login, refresh, log-out, and the cookies of one browser | specification |
| `RoomSearch` | `listRooms` with its filters and `naturalSearch` with Gemini, timeout, retry and fallback | specification |
| `Release` | `deploy.sh`, the boot of `index.ts`, `GET /health` with its cached probes | specification |
| `Rollout` | what `deploy.sh` promises of the image of record | abstract specification |
| `QueryCache` | one key of React Query, as `main.tsx` and the hooks configure it | operators |
| `Client` | one tab: session, guards, pages, the writes of the reservation pages | specification |
| `ManageRooms` | `RoomManagementPage` with its modals and the mutations of `useRooms.ts` | specification |
| `MCBooking`, `MCBookingRaces`, `MCRoomImages`, `MCSignIn`, `MCRoomSearch` | named bounds and symmetry for TLC | instances |
| `BookingProofs`, `RoomImagesProofs`, `FinderCircuitProofs`, `SignInProofs`, `RoomSearchProofs`, `ReleaseProofs`, `ClientProofs`, `ManageRoomsProofs` | theorems and proofs | proofs |

`Booking` composes `Reservations` and `RoomAdmin` over `BookingState`, and implements
`Ledger` until two handlers have met in a race of `BookingRaces`; `RoomImages` implements `Gallery`; `Release` implements
`Rollout`; `Client` and `ManageRooms` both use
`QueryCache` on their side of the API, whose server is reduced to what an answer holds.

**A handler is a process.** `pc[r]` names the query or call a request waits for
(`find`, `users`, `overlap`, `write`, `count`, `audit`, `mail`, `lookup`) and its locals
(`call`, `seats`, `made`, `snap`) are what the handler still holds. One query is one
atomic step: it reads the tables as they are at that moment, decides as the code after
the `await` decides, and moves on. Between two steps of one request any other request
may take any number of steps: that is what Node's event loop and several connections
to PostgreSQL allow. When a handler ends, `Answer` clears its locals.

**Transactions.** `createReservation` runs its overlap query and its insert in one
interactive transaction. At READ COMMITTED the query sees what is committed when it runs
and the insert becomes visible at the commit, so the transaction is two steps and the
insert and its commit are one. What the database does hold across requests is modelled
where it bites: the foreign key from reservations to rooms (`CreateInsert`,
`RowDeletable`) and the unique index on attendees (`AddInsert`).

**Data.** Instants are small integers, ids are model values, and a room id or
reservation id is given to one row at most (`unborn`, then a row, then for rooms
`deleted`), which is what `cuid()` amounts to. Guests are a set of users, because the
attendee table has a unique index and `uniqueAttendeeIds` removes duplicates. Names,
purposes, metadata and messages are left out. A user's role is the one in the request's
token. `Keep` and `KeepCap` are fields absent from `updateRoomSchema`, a `.partial()`
schema whose defaults Zod does not apply. Users are never deleted by the API.

**Faults.** With `Faults`, any query may throw (`DbFails`: a lost connection, a timed out
transaction, the unique index on `Room.name`), a mail may be refused by SendGrid (the
code swallows it), and the process may die between any two steps (`Crash`: requests
gone, tables kept). Without it neither happens.

**History variables.** `snap` and `seen` remember which reservations existed at the
overlap query behind each reservation; `peak` the largest capacity each room had (staff
may lower it later, which nobody claims to prevent); `dropped` the audit rows owed when a
fault ended their request. `BookingRaces` adds `raced`, whether a race has been met, and
`shut`, the reservations that were closed already when a request arrived. In `RoomImages`: `used`, `shown` and `trouble`; in
`FinderCircuit`: `openFor`. No action reads them to decide anything.

**Room photos.** multer writes the file before any handler runs (`StartUpload`) and
removes it again if it is too large (`EndUpload`). Then `getRoomById`, the update, the
synchronous best-effort `unlink`, and the audit row, each a step. `deleteRoom` appears
in `RoomAdmin` for its row and here for its file; whether reservations stop it is open
here and decided there.

**FinderAI.** Time counts down: `left[l]` is what remains of a lookup's 3 seconds, `open`
what remains of the 60. `failures` stops counting at the threshold, above which the code
sees no difference. A cache entry can only be hit by the same room at the same instant,
because check-in passes the clock's own instant; so the model keeps the entries of the
present instant only, and `Tick` empties them. `Ask` covers the lookups that reach
FinderAI; hits and refusals of the open circuit answer at once and change nothing.
Timers are punctual: `Tick` waits for those that are due.

**Sign-in.** `tab[t]` says where a tab is: waiting for `login`'s answer, at Microsoft, in
the callback, in `upsertUser`, in `refresh`, or about to receive an answer. Cookies change
only when an answer arrives (`GoToMicrosoft`, `Arrive`), and a request carries those of
the moment it was sent, so two tabs overwrite and clear each other's attempt. State,
verifier and challenge are one number, the attempt. Microsoft takes a code once (`codes`)
and may give an account another address at any time (`Readdress`). `upsertUser` finds the
row by account, `devLogin` by address; the unique index on addresses may refuse the first.
`troubled` and `since` are history variables, and so is `by` in a token: the account the
row belonged to when the token's chain began. `me` only reads; bearer tokens, `mode=json`
(a token without a cookie) and a missing Entra configuration (503) are left out, and
`dev-login` is enabled, as it is outside production.

**Search.** A tick is 200 ms, so `Timeout` 25 is `GEMINI_TIMEOUT_MS` and `Pause` 2 the
400 ms before the retry. The call to Gemini is a process of its own (`gemini`: `first`,
`pause`, `second`, `over`), because `withTimeout` abandons the promise without ending it:
`Understood`, `NotUnderstood`, `Busy` and `Retry` go on after the search was answered, and
`Settle` asks whether anybody still waits. `TimerFires` is the timer of `withTimeout`.
`geminiResultSchema` accepts any text for an instant, any positive integer for a capacity
and any text for a building or an amenity. What the columns cannot hold is rejected by the
query (`Refused`: an Invalid Date, a date before the column's years, a capacity beyond INT4, a
NUL in a text), outside any catch, so the search ends in a 500; `search_error` shows it. `Browse` is
`GET /rooms`, whose schema refuses an Invalid Date before. `Offered` is the where clause, `Narrowed` the
filter `RoomsBrowsePage` applies in the browser. One request is followed at a time:
requests share nothing but the tables, and `Change` changes those at any moment. `elapsed`,
`readAt`, `requests` and `broken` are history.

**Releases.** A tick is `HEALTH_INTERVAL`, 3 seconds. Images are numbered in the order CI
builds them and image `i` brings the migrations up to `i`; migrations are only ever added.
Whatever asks the database or the vault may find it down at any time, and may never hear
from it.
`pc` is the place in `deploy.sh`; under `set -e` a failing command ends it (`PullFails`,
`MigrateFails`, `UpFails`), a migration perhaps half applied. `proc` is the container's
process: it is `booting` until `main` has every secret from the vault and listens, and
dies and restarts with its cache. `GET /health` asks both probes at once; a probe has an
age, because `cachedProbe` computes `expiresAt` from the `now` read before its await, and
two probes under way write the cache in either order; `Older` tells the age of a probe
as far as the time to live. A report waits for both, so its cached half may be late. The script's curl is one caller
among several (Docker's own check is another) and has no timeout. One script runs at a time.
`Interrupt` ends it at any place. History: `before` the image of record when the script
started, `proven` the images that were healthy when it asked, `refused` and `bad` the
rounds without a listener and the probes that found something down, `cut` that a release
was cut short or its way back failed.

**Client.** Data is whose it is and whether it holds the user's own last write. A `mark`
in `QueryCache` is history: `behind` a write that was committed after the server read, or
`overtaken` when that write was acknowledged (or the session changed) and nothing fetched
the key again. `Invalidated` is `invalidateQueries` with React Query's `cancelRefetch`: a
key on the screen is fetched again and the request under way dropped, unless it is the
key's first; `Overtaken` beside it is history. A lost request is retried with the cookie
there is then. `Render` is what
React does after any change: `RequireAuth`, `RequireRole` and `SignInPage` send the browser
on, and what is newly mounted is fetched. `useRefreshAuth` invalidates `me` only, so the
previous user's list stays in the cache (`Foreign`). `Reload` is a full page load, and the
way back from Microsoft with a session, which ends at `/rooms`. `Elsewhere` changes the cookie
under an open page: its hour is over (`auth.controller.ts:11`; the frontend never asks for a
refresh), or another tab signs in or out. Nothing tells the page, so it may go on showing
one user's name beside a list fetched for another until the session is asked for again. A
write that is sent without a session is `barred` by `requireAuth`. One write is under way at a
time. Refetches on focus are switched off in `main.tsx`; those on reconnection are left out:
what they bring is newer.

**Room management.** Every mutation hook of `useRooms.ts` has at most one request under way
(`create`, `update`, and `other` for status, delete and photo, for which the page has no
callback). `onSuccess` returns the promise of the invalidation, so a mutation is `waiting`
until the list is back. A fetch that another mutation's invalidation cancels
hands those that waited for it on to its replacement (React Query 5.102.4, `handed on`). When
that one is replaced in its turn, the promise they were handed is itself cancelled; which of
them go on waiting is left open (`LetGo`). A modal covers the page. `RoomForm` copies
its initial values when it is mounted and has no key: `form` is the room they came from,
`editing` the room Save writes to. Other staff remove rooms at any time.

## 3. Runs

| Run | Question | Bound |
|---|---|---|
| `duo` | Do rows only close, is a closed one closed to later requests, are mails and audit rows true, does a double booking, or a second candidate for the peer, need two creates blind to each other? | create, cancel, override, checkIn; 2 handlers, 2 reservations, 1 room, 3 instants, clock to 1 |
| `desk` | Are the tables a ledger until two handlers race? In every run: does a reservation keep its room, how far is a room overshot, and does an audit row go missing only after a fault? | create, override, addAttendee, removeAttendee, createRoom, updateRoom, deleteRoom; 2 handlers, 3 users, 1 room of capacity 1 or 2, 1 reservation, faults |
| `photos` | Do the files change as `Gallery` says? Does a shown photo stay on disk? What takes a left-over file, and is every change audited? | 2 handlers, 2 rooms, 3 files, faults |
| `finder` | How long can the circuit be open? Does it close, does every lookup settle? | 4 lookups, timeout 2, threshold 3, cooldown 4 |
| `sign_in` | Does a session stay its owner's, does a revoked role fade, does a sign-in nothing crosses pass the state check? | 2 tabs, 2 accounts, 2 addresses, 2 rows, 2 attempts, tokens of 2 ticks |
| `search` | Is an answer honest about its fallback, and an error about its cause? Do both filters agree, are exactly the free rooms offered, is every search answered? | 2 rooms, 3 shapes of a row, 10 filters with a reversed window and the refused values, with a key and without, faults |
| `release` | Does the schema cover what serves, is what a report takes from the cache recent, what does a roll back take, does the image of record change as `Rollout` says, where can the script hang? | 2 images (the second does not boot), 3 retries, TTL 2, the database and the vault, 2 callers, probes of any length |
| `client` | Does a settled page show the last write and the right session? Does who signs out leave? | 2 people, one of them staff; the session and the list of reservations; lost requests, no retry |
| `manage` | Is the list true, does the form keep its room, is a new room found, what keeps saving up? | 2 rooms, 1 retry, lost requests, other staff |

Three runs end in a counterexample, a place where the code does something else than the
repository says of it:

| Run | Violates | What happens |
|---|---|---|
| `double_booked` | `NoDoubleBooking` | two creates pass the overlap query before either inserts, although `src/backend/README.md:124` says the transaction prevents it |
| `unanswered` | `MailHoldsNobody` | a committed booking waits for SendGrid for ever: the handlers await `send`, which has no timeout, although `sendgrid.ts:33` says that callers do not await it and `docs/api.md:141` that the mail never blocks the booking |
| `search_error` | `SearchSurvivesGemini` | no query fails, and a reading with a garbled date or a capacity beyond the column ends in an error, although `docs/api.md:185`, rule 7 of `docs/architecture.md`, `search.service.ts:64` and `gemini.ts:62` say that the search degrades |

Other plain rules fail in the same way, and the properties of the passing runs say
how far the program departs from them and under which circumstances:

| Plain rule | Fails because | What holds instead |
|---|---|---|
| a reservation never seats more than its room | two invitations are checked against the same stale count (`reservations.service.ts:191`) | `OvershootBounded`: by fewer than the invitations past their check together |
| every staff change is audited | a fault between the change and its row (`audit.ts:13`) | `AuditLostOnlyByFault` |
| a replaced photo leaves the disk | two requests of one room read the same old file (`rooms.service.ts:84`) | `LeftOverTakesTrouble` |
| every request is answered | `send` has no timeout (`sendgrid.ts:43`) | `RequestsAdvance` (section 4): six steps, none of which another request lengthens |
| a degraded search is never an error | a refused value reaches the query (`search.service.ts:78`) | `AnswersAreHonest` names those values, and a failed query, as the only reasons |
| two handlers never close one reservation | each writes by id what it read before (`reservations.service.ts:137`) | `ClosedToNewcomers`: only handlers in flight together do |
| a release ends | neither curl has a timeout (`deploy.sh:73`, `:82`), so "up to N s" (`deploy.sh:70`) is no bound | `ReleaseEnds`: the counted loop ends; a script that does not end hangs in one command |
| a page shows the session there is | the cookie ends or changes elsewhere (`auth.controller.ts:11`) | `SessionShows`, of what was asked for since |
| a new room opens in Edit | two writes that replace its list, or one read before it | `CreatedRoomIsListed` names the cases |
| a failed release leaves the previous image, or a proven one | the script may be cut short, or the way back may fail; the next one takes what it finds for the previous image, proven or not (`deploy.sh:90`) | `ImplementsRollout`: without a `cut` it does not happen; after one, `Rollout` lets it |
| the Edit form holds the values of its room | the late answer to New room (`RoomManagementPage.tsx:330`) | `OnlyNewRoomMixes` |

*Why the bounds are enough.* The races of the API are between a check and a write of two
handlers, so two handlers meet every one of them; a third adds a repetition. Two
reservations of one room are the fewest that can overlap, three instants the fewest with
two adjacent intervals. `duo` books, closes and checks in, with a guest whose account may not
exist; `desk` has the guests, the rooms and the faults, with more people than a room of one
seats. `setRoomStatus` takes the steps of an `updateRoom` that keeps the capacity, so the runs
send the latter only. In `photos`, three names let a
file be uploaded while one is shown and another is replaced. In `finder`, more lookups than
the threshold can be in flight when the circuit opens, and the cooldown is longer than the
timeout, as in the code. In `sign_in`, two attempts are what it takes to overwrite one, two
accounts and two addresses let an address pass from one to the other, and a token of two
ticks can be refreshed before it ends. A tick there is ten minutes or more, so no request
is under way when one passes, and an attempt's cookie lives one tick. In `search` the
timeout and the pause keep their true proportion, so the second request may end before,
with and after the timeout; windows touch, cross and lie inside the bookings of a row. In
`release` the patience of the script exceeds the time to live of a probe, as in the code (15
rounds of 3 seconds against 30 seconds); two callers are what it takes for two probes of one
dependency to overlap, and two dependencies for the cached half of a report to wait for the
other. A probe as old as the time to live writes an entry that has expired, like any older one. In `client` the session and one
list that belongs to a person are the two kinds of key that differ; `rooms` and `room`
behave as `mine` without an owner, and the proofs cover them, as they cover any number of
retries, which `client` leaves to `manage`. In `manage`, two rooms let one
be edited while the other is new, and three hooks may all wait for the same list.

`PoolLeft` keeps requests out that could run out of fresh ids; `Horizon`, `Instants`,
`GuestLists` and `Ops` are bounds of the instances, not of the code; so are `MaxAttempts`
and `Newest`. Counters that could grow (`failures`, `elapsed`, `bad`, the age of an
probe) stop where no guard and no property tells two values apart. `duo` and `desk` run under
a `VIEW` that leaves out what decides no step and appears in none of their properties: how a
free slot's last request was answered, mails, `seen` and `shut` in `desk`, `dropped`, `peak` and `raced` in `duo`; `desk`
keeps the audit rows written and dropped as one set, which is what `AuditLostOnlyByFault` reads.

**Refinements.** `LedgerUntilRaced`: with any number of handlers in flight, failed queries and
crashes included, the tables of `Booking` change only as the steps of `Ledger` do, which check
and change in one go, until two handlers have met in one of the six races; what the tables
do afterwards is bounded by the other properties. The instance `Desk` maps the tables to
themselves; requests, mails and audit rows are invisible to it. `ImplementsGallery`: the
instance `Wall` keeps the photos and the files, and the requests are invisible; it holds of
every run. `ImplementsRollout`: the instance `Promise` maps the image of record to the image
of the container, except while a new image is on trial, when it is still the one before.
`Rollout` lets the release that follows a cut one go back to an image nobody has proven, as
the code does.

**Fairness.** `Booking` asks weak fairness of each request's next step but the mail's: Node
resumes a handler whose query was answered, PostgreSQL answers or throws; SendGrid owes
nothing, nor do clients, the clock or faults. `FinderCircuit` asks that the clock runs and due
timers fire; FinderAI owes nothing. `RoomSearch` asks that queries come back, the clock runs
and both timers fire; Gemini owes nothing. `Release` asks that the clock runs and the script
takes the steps of its loop; probes, curl and the commands of Docker owe nothing, and
`ReleaseEnds` says what is left: the counted loop ends, and a script that does not hangs in one
command. `Client` asks that writes are answered, and strong fairness of the session's
request: a user who signs out again and again cancels it each time, but not every time in
time. `ManageRooms` asks that the list and a save are answered, of nothing else: other
mutations may replace the list's request for ever, and `SavingEnds` says that only they can.

## 4. Proofs

All are checked by TLAPS to the last leaf, for any values of the constants (users, rooms,
requests, images, timeouts, retries), and rest only on the named assumptions of the
modules: `CalendarAssumption`, `BookingAssumption`, `RoomImagesAssumption`,
`FinderAssumption`, `SignInAssumption`, `SearchAssumption`, `ReleaseAssumption`,
`ClientAssumption` and `ManageAssumption`.

**`BookingProofs`**

| Theorem | States | Argument |
|---|---|---|
| `TypeCorrect` | `[]TypeOK` | one lemma per group of actions. `TypeOK` is inductive because it says what each label implies: a request past its first query names an existing reservation, one about to insert an attendee a real user |
| `ReservationsClose` | `ReservationsOnlyClose` | only two kinds of step rewrite an existing row: closing, and changing its guests |
| `DoubleBookingTakesTwo` | `[]DoubleBookingNeedsRace` | by `SnapOK` (a create about to insert clashes with nothing it saw; others' steps only remove clashes, since rows only close) and `SeenOK` (no reservation is double booked with one its create saw) |
| `SecondActiveTakesRace` | `[]SecondActiveNeedsRace` | two bookings of one room active at one instant overlap, because the end is not the booking's own |
| `RoomsOfReservations` | `[]RoomOfReservationExists` | `RoomsInductive`: the insert needs the room's row, and the foreign key refuses the delete of a room with reservations, whatever was counted before |
| `AuditOnlyLostByFault` | `[]AuditLostOnlyByFault` | `OwedIsRecorded`: a change whose row is missing is owed by a handler at `audit`, or was dropped by a fault |
| `NoticesTrue` | `[]NoticesAreTrue` | `TrueOK`: what a handler is about to tell holds already, and rows only close |
| `OvershootIsBounded` | `[]OvershootBounded` | `SeatsOK` and `FilledOK`: the guests of a reservation and the invitations past their check together stay within the room and those invitations (`Pending`), counted as sets |
| `AuditKeptWithoutFaults` | without faults, every staff change has its row or a handler about to write it | `OnlyFaultsDrop` |
| `BookingsAtOnce` | an instant of a room is booked by no more reservations than there are handlers | `LandedOK`: those bookings and the creates about to add one are together no more than the handlers, because a create that finds a booking there gives up |
| `RequestsAdvance` | a handler takes at most six steps, and nothing sets it back | `StepsLeft`, per action |
| `BookedOnceWithoutRace` | `[]NoDoubleBooking`, if `[]NoBookRace` | `FreeOK`: what a create is about to insert clashes with nothing yet |
| `InServiceWithoutRace` | `BookedInService`, if `[]NoRoomRace` | `TakenOK`: the room a create found in service still is, or is gone and the foreign key refuses |
| `PeopleFitWithoutRace` | `[]PeopleWithinCapacity`, if `[]NoInviteRace` | `CountedOK`: an invitation past its count still has a seat |
| `ClosedOnceWithoutRace` | `ClosedOnce`, if `[]NoCloseRace` | `CloseOK`: what a handler is about to close is still open |
| `LedgerKeptWithoutRaces` | `ImplementsLedger`, if `[]NoRace` | `Firm`: with the four above, what any handler read still holds when it writes; each action maps to a step of `Ledger` or a stutter |
| `LedgerKeptUntilRaced` | `LedgerUntilRaced`, of every run | `Firm` holds until `raced`, a step at a time |
| `NewcomersAreRefused` | `[]ClosedToNewcomers` | `ShutOK`: what was closed when a request arrived still is, since rows only close, so its `find` refuses |
| `LedgerBooksOnce`, `LedgerNamesOne`, `LedgerKeepsRules` | `Ledger` implies `NoDoubleBooking`, `OneActiveBooking`, `BookedInService` and `ClosedOnce` | `LedgerOK`; with `LedgerKeptWithoutRaces` they hold of a run without races |

**`RoomImagesProofs`, `FinderCircuitProofs`, `SignInProofs`**

| Theorem | States | Argument |
|---|---|---|
| `RoomImagesProofs!TypeCorrect` | `[]TypeOK` | per action |
| `RoomImagesProofs!PhotosStay` | `[]NoDanglingPhoto` | `UploadsOK` (a file on its way is nobody's photo and nobody's to unlink), `PhotosOK` (photos are on disk, one room each) and `OldFilesOK` (a file about to be unlinked is no room's photo) |
| `RoomImagesProofs!LeftOversExplained` | `[]LeftOverTakesTrouble` | `OneEach` (no two untroubled requests of one room), `StillOld` and `ToUnlink`: a file that stopped being a photo is on the list of the request that replaced it |
| `RoomImagesProofs!PhotosAudited` | `[]PhotoChangesAudited` | `PhotosTold`: without a fault every change has its row or a request that is about to write it |
| `RoomImagesProofs!GalleryKept` | `ImplementsGallery`, without any condition | `FreshOK`: a file on its way was never shown, so no file is hung twice; `SafeInv` for what is unlinked |
| `RoomImagesProofs!GalleryHasItsPhotos` | `Gallery` implies that photos are on disk, one room each | a file that hangs is in `shown`, and `Hang` takes none of those |
| `FinderCircuitProofs!TypeCorrect` | `[]TypeOK` | per action |
| `FinderCircuitProofs!PauseIsBounded` | `[]OpenBounded` | `InFlightBefore`: while the circuit is open nothing new is asked, so what is in flight began before it opened and its timer runs out within one timeout |
| `FinderCircuitProofs!OpenRunsDown` | open longer than a timeout, the circuit has nothing in flight and is never prolonged | the same invariant: timers that ran out are gone |
| `SignInProofs!TypeCorrect` | `[]TypeOK` | per action; `AllKnown` in it says that attempts, callback URLs and rows that something refers to exist |
| `SignInProofs!SessionsStay` | `[]SessionIsItsOwners` | `OwnersOK`, which also covers the refreshes under way; `RowsKeepOwner` and `TokensComeFrom` |
| `SignInProofs!RolesFade` | `[]RoleIsRecent` | `RolesOK`: the table's role is held now, so a token just signed is recent; the clock takes as much from its life as it adds to the loss of its role |
| `SignInProofs!UncrossedPasses` | `[]UncrossedSignInPasses` | `Apart` (two tabs that sign in at once are both troubled) and `OwnCookies` (a tab at Microsoft that nothing troubled has its own attempt in the cookies) |
| `SignInProofs!OnePersonOneRow` | no account and no address has two rows; sessions of one account are of one row | `OneRowNext`: each writer looks for the row by the key it writes, and the unique index holds the other key; it assumes that `Dev` is no account of Microsoft's |

**`RoomSearchProofs`, `ReleaseProofs`**

| Theorem | States | Argument |
|---|---|---|
| `RoomSearchProofs!TypeCorrect` | `[]TypeOK` | per action |
| `RoomSearchProofs!AnswersHonest` | `[]AnswersAreHonest` | an error takes a failed query or one of the refused values; `InTime`: while the search waits, what is left of the timer and the time elapsed add up to the timeout |
| `RoomSearchProofs!AskedTwice`, `AnswersAreFinal` | at most two requests to Gemini; a late reading changes no answer | by the same invariant; `Settle` looks at `phase` |
| `RoomSearchProofs!WindowsAreExact` | two half-open intervals satisfy the two comparisons exactly when some instant lies in both | witness: the later of the two starts |
| `RoomSearchProofs!FreeRoomsOffered`, `PageFiltersSame` | `FreeRoomsAreOffered`, `PageFiltersAgree` | by `WindowsAreExact`; by the definitions of both filters |
| `RoomSearchProofs!SearchesAdvance` | a search has at most `Timeout` and three steps to go, and nothing sets it back | `Steps`, per action |
| `ReleaseProofs!TypeCorrect` | `[]TypeOK` | with `Counts`: a round starts below the retries |
| `ReleaseProofs!SchemaCovers` | `[]SchemaCoversRunning` | `Covered`: the previous image and the target past its migration are covered too, so that going either way is safe |
| `ReleaseProofs!HealthRecent` | `HealthIsRecent`: what a report takes from the cache when it asks | an entry's age and what is left of it add up to the time to live |
| `ReleaseProofs!OneBadProbeIsSurvived` | `[]RollBackTakesTwoFailures` | `Patience`: each failed round either was refused or takes one from the time to live of the one bad entry; `CurlOK` for what curl is about to hear |
| `ReleaseProofs!RolloutKept` | `ImplementsRollout` | `ScriptOK` and `OfRecord`: what the script holds as the image before is still the one of record; each action maps to a step of `Rollout` or a stutter |
| `ReleaseProofs!ReleaseAdvances` | a release has at most three steps a round and five more to go, and nothing sets it back | `Work`: the rounds that are left, and what is left of this one |

**`ClientProofs`, `ManageRoomsProofs`**

| Theorem | States | Argument |
|---|---|---|
| `ClientProofs!TypeCorrect` | `[]TypeOK` | a page behind a guard is there only for someone who may see it |
| `ClientProofs!WritesAreShown` | `[]WritesShowUp` | `Current`: while no write is done, what is shown or under way is not behind one |
| `ClientProofs!SessionIsShown` | `[]SessionShows` | `Owned`: data and requests not overtaken belong to the cookie's session, of which `Elsewhere` leaves none |
| `ManageRoomsProofs!TypeCorrect` | `[]TypeOK` | there is a form exactly when Edit is shown |
| `ManageRoomsProofs!ListIsTrue` | `[]ListShowsWrites` | `Told`: what is behind a write has one that is done and not acknowledged |
| `ManageRoomsProofs!OnlyNewRoomDoes` | `OnlyNewRoomMixes` | per action, from the type invariant |
| `ManageRoomsProofs!NewRoomIsListed` | `CreatedRoomIsListed` | `NewRoomOK`: a list on its way while New room waits for it has the room, unless it was removed, read before, or replaced twice |

The strengthenings are needed because the properties speak of the tables, the screen or the
container only, while what a step does depends on what its request read earlier:
`NoDanglingPhoto` alone is not preserved by `Unlink` unless one knows the stale file is not
a photo, nor `SchemaCoversRunning` by a roll back unless one knows that the previous image is
covered too.

**What separates the service from the ledger.** Six pairs of requests, named in
`BookingRaces`, each a check that another request's write makes stale: two creates about to
insert overlapping times (`BookRace`); a change of the room a create was let into
(`RoomRace`) or an invitation was measured by (`CapacityRace`); an invitation about to insert
while another one of the same reservation has counted (`InviteRace`); two ends of one
reservation past the guard (`CloseRace`); an end and an invitation of one reservation
(`LateRace`). Until a run meets one of them any number of handlers keep the ledger, faults
and crashes included (`LedgerKeptUntilRaced`, and for runs that meet none
`LedgerKeptWithoutRaces`), so withdrawals and deletions of rooms race with nothing. None of the
six can be left out: for each, TLC finds a run of two handlers that meets no other race and
takes a step the ledger has not. The code takes no lock that would rule them out, and
`double_booked` shows the first. The theorems with a hypothesis about the run (`[]NoBookRace`
and its like) say which race breaks which rule; all others hold of every run.

**Of liveness, the safe half.** Liveness (`CircuitCloses`, `LookupsSettle`, `SearchesSettle`,
`ReleaseEnds`, `SignOutLeaves`, `SavingEnds`) rests on fairness, which is out of the prover's
reach, and is only model-checked; `MailHoldsNobody` is violated. What can be proved is that a
measure in the naturals goes down with every step a process takes and is raised by nobody:
`RequestsAdvance`, `SearchesAdvance`, `ReleaseAdvances` and `OpenRunsDown` do so, with the
bound. `LookupsSettle` rests on punctual timers alone. Those of the client have no such
measure: a request may be cancelled and sent again any number of times.

Every other property of a passing run is a theorem. `NoDoubleBooking`, `OneActiveBooking` and
`ImplementsLedger` fail where handlers race, so their theorems say under which condition they
hold.

## 5. Not modelled, and plan

| Part | Why not |
|---|---|
| users and admin listings | read-only queries that change nothing and on which no other operation depends |
| Express wiring, rate limits, multer's parsing, logging | libraries; what they decide is a guard or an input of the handlers |
| environment variables (`config/index.ts`) | parsed once, before anything runs, and decide only whether the process starts; `Boot` keeps that choice |
| key check of the peer endpoint | one comparison of hashes; `lastUsedAt` decides nothing |
| bearer tokens, `mode=json`, sign-in without Entra | the same token without a cookie; a constant 503 |
| dashboards | read only |
| look-up of guests by e-mail in the booking form | its state lives in one form and reaches the server as the list of guests, which `create` takes from a set |
| seed data | one sequential script for development databases |

Three hazards have no property. A row that holds the address Microsoft reports makes the
upsert fail (`auth.service.ts:109`) and nothing says how that person is to get in. A photo of
a room that does not exist stays on disk (`rooms.upload.ts:13`) and nothing promises that it
does not. The lost-item cache never evicts (`finderai.ts:84`) and there is no limit to check.

What could follow: `Client` composed with the tables of `Booking`, so that what a page
shows can be compared with the rows and not only with their age; several writes of one tab
under way at once; two scripts of `deploy.sh` at once, against which nothing in the script
guards.
