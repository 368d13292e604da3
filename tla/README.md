# Shipwrights in TLA+

Shipwrights reviews the projects ("ships") that Hack Club members submit on
Flavortown.  `sw-dash` (Next.js, Prisma over MySQL, Redis) is where reviewers
work, `sw-bot` (Python, FastAPI, one worker thread, its own PostgreSQL tables) runs the
help desk on Slack, `deprecated-bot` is its predecessor, `sw-ai` answers prompts, `sw-list`
shows the public queue.  This directory holds TLA+ models of the parts whose correctness
depends on order: what two handlers, two threads, two lives of the process, or two
requests of one page do to what the others rely on.

1. Inventory: the parts, their state, what is hard about them
2. The modules and how they correspond to the code
3. The runs: what each shows, bounds, fairness
4. The proofs
5. Where code and promise differ
6. What is not modelled, and what could come next

## 1. Inventory

A Next.js handler is an async function.  Nothing in sw-dash takes a lock, almost
nothing a transaction: between two `await`s of a handler every other handler may
run, and a handler may die at any of them.  The bots run their handlers as background
tasks in threads; one `RLock` guards each operation of the cache, most writes to the
database are queued and done later by one worker thread.  A page sends requests that do
not wait for each other, and its answers come in any order.  That is where the hard
behaviours come from.

| part | state | operations | interacts with |
|---|---|---|---|
| certification desk (`ship_certifications/[id]`, `.../claim`) | `ship_certs` row: status, claimer, start of the claim, reviewer, cookies | claim, release, verdict, credit, push | Flavortown (verdict), users (cookies), YSWS (after()) |
| YSWS pipeline (`lib/ysws.ts`, `ysws_reviews/[id]`) | `ysws_reviews` rows | create in an after() callback, complete, return, undo | the desk's rows, Flavortown, GitHub |
| YSWS review row (`.../refresh`) and its page | the devlogs and decisions columns; the page's own verdicts | decide, undo, forced reload | Flavortown devlogs |
| what a verdict earns (`lib/payouts.ts`), streaks | rows of the period, `streak`, `lastReviewDate` | calculate, pay, count the day | the desk |
| payouts (`payouts`) and their page | `payout_reqs`, `users.cookieBalance` | request, approve, delete or refund | the desk (earnings) |
| assignments | one row with its notes, subscriptions | create, reassign, status, add and delete a note | push service |
| pages of a user and of an assignment | copy of the row, log on screen | read, change a column, reload the log | their routes, other pages of the row |
| the form of a new user and the routes behind it | boxes with timers, lookups, previews; `users`, audit log | type, look up, submit, add | Slack lookups, other routes that add users |
| spot checks and their pages | flags of ships, cases | draw, decide, toggle, declare a false positive | leaderboard |
| sessions (`lib/auth.ts`) | `sessions`, `users`, Redis copies | serve, log in and out, end, disable | every handler |
| intake (`webhooks/ship-submitted`) | `ship_certs` rows | look, create, store the type later | Flavortown, sw-ai |
| rate limiter, PostgreSQL mirror | a counter in memory; two mirrored tables | count, sweep; passes by offset | callers; cron |
| lists and statistics (`lib/certs.ts`, `lib/cache.ts`, ...) | copies in Redis; filters, address and answer of a page | load, bust, count back | all tables |
| bot write queue (`worker.py`, `task_journal.py`) | queue, journal file | enqueue, run, record, compact, replay | every write of the bot |
| bot tickets (`cache.py`, `handlers.py`, `relay.py`) | cached and stored tickets, claims, stardust | open, claim, close, reopen, feedback | Slack, write queue, dashboard |
| messages of a ticket (`relay.py`, `ticket_msgs`) | copies in two threads and their rows | relay, edit, delete | Slack, write queue |
| meta posts and votes | cached and stored votes, the post | vote, reload | Slack, write queue |
| event intake, connection pool | ids seen; connections | answer at once, work behind; take, try, give back | Slack; PostgreSQL |
| dashboard tickets and their page | the ticket's row; the page | close, assign, reply | bridge of the previous bot, socket |

What makes them correct, part by part, and what can go wrong at which line, is the
list of hazards in `PROJECT.json`.  In one line each:

* desk: one live claim per reviewer; a verdict only by who may give it; cookies on
  the rows are cookies paid; the push tells what the row says.
* pipeline: an approved ship gets a review, whatever fails that the code handles;
  no ship goes through more often than it was paid for.
* review row and page: the decisions column covers the devlogs; a reload forgets
  nothing; what was shown when it was submitted is what is recorded.
* earnings: what the page promises is what is paid; a streak was earned day by day.
* payouts: nobody is paid more than he earned; nothing is paid back twice; "Refund"
  does what its row says.
* assignments: who is told last that it is his, has it; the notes are those written and not
  deleted.
* pages of a user and of an assignment: who changed or read a column last sees what the
  row has, and his own change in the log.
* the form of a new user: who is added is whom the form showed, active only if somebody named
  checked him.
* spot checks: a ship is off the leaderboard for a case that stands; no ship of a
  sitting is passed over.
* sessions: who is served was in the table a moment ago.
* intake: a project waits in the queue once.
* lists and statistics: the page shows what its filters ask, of a recent table; days
  add up.
* journal: no write is forgotten across a death of the process, and how often it is
  repeated is bounded.
* tickets: the table ends as the cache shows it, the channel shows the open tickets,
  nobody is asked twice for feedback and no opening is paid twice; both bots, the row
  and the threads agree in the end; each message has its row.

## 2. The modules and how they correspond to the code

| module | models | composed of |
|---|---|---|
| `Docket` | what the desk promises: indivisible claims and verdicts | |
| `Certification` | `ship_certifications/[id]/route.ts`, `.../claim/route.ts`, `flavortown-client.ts` | implements `Docket` |
| `YswsPipeline` | `ysws.ts`, `ysws_reviews/[id]/route.ts` | extends `Certification`: both run on one `ship_certs` table |
| `YswsReview` | devlogs and decisions of one review, with `.../refresh/route.ts` | |
| `ReviewPage` | `ysws_reviews/[id]/review.tsx` over the handlers of `YswsReview` as single steps | |
| `CertPage` | `ship_certifications/[id]/edit/form.tsx`, `useShipCert.tsx` over the desk's handlers as single steps | |
| `Streaks`, `Earnings` | the streak of the verdict handler; `lib/payouts.ts` with the leaderboard it is shown on | |
| `Payouts` | `payouts/route.ts` | |
| `PayoutPage` | `admin/payouts/page.tsx`, `table.tsx` over the handlers as single steps | |
| `Assignments` | `assignments/route.ts`, `[id]/reassign`, `status`, `notes`, pushes | |
| `SpotChecks` | `spot_checks/actions`, `case/[caseId]` | |
| `SpotPage` | `review.tsx` and `case.tsx` of spot checks, two machines with variables of their own | |
| `Sessions` | `lib/auth.ts`, `redis.ts`, the handlers that end sessions | |
| `RateLimit`, `Intake`, `PgSync` | `lib/ratelimit.ts`, `webhooks/ship-submitted`, `lib/pg-sync.ts` | |
| `Lists`, `ShipStats` | four lists with filters and copies; numbers per day | |
| `PageNotes` | the notes and messages three pages show before the server has them | |
| `TaskJournal` | `worker.py`, `task_journal.py`, the start in `main.py` | |
| `Tickets` | `cache.py`, `cache_store.py`, ticket parts of `handlers.py`, `relay.py`, `db.py` | its queue is what `TaskJournal` gives of a first restart |
| `Relay`, `MetaVotes` | message copies and votes over the write queue | |
| `SlackEvents`, `DbPool` | `seen_already`; the pool of `db.py` | |
| `HelpDesk` | `deprecated-bot` (`main.py`, `relay.py`, `cache.py`, `api.py`) and the dashboard's calls to it | |
| `RecordPage` | `users/[id]/page.tsx`, `user-profile.tsx`, `useAssignment.ts`, `useAssignmentActions.tsx`, `assignments/[id]/edit/form.tsx`, over their routes as a write and an entry in the log | |
| `TicketPage` | `useTicket.ts`, `useTicketActions.ts` with the reply and assign handlers | |
| `Newcomers` | `add-user.tsx`, `users/add/route.ts`, the two routes that add users without a form | |
| `StaffPages` | the pages of tickets, spot checks, cases, users, assignments and new users, open at once | `TicketPage`, `SpotPage`, `RecordPage`, `Newcomers`: a conjunction, as they share no column |
| `Sums` | the sum of a column over a finite set of keys, which several properties add up | |
| `MCParts`, `MCBot` | one behaviour is one machine of several that share nothing; `part` says which | |
| other `MC*` | small instances | |
| `*Proofs` | theorems, section 4; `SumsProofs` has what they need of sums and of powers of two | |

One rule holds for all of them: an action runs one handler (thread, callback) from
one point where others can run to the next.  In sw-dash such a point is every `await`
of the database or of `fetch()`; in the bots it is every call of Slack, of the cache,
of the queue or of the table; on a page it is a click, an answer, a timer.  The program
counter and the locals a handler keeps over such a point are a record (`req`, `job`,
`patch`, `handler`, `task`).  Database updates are keyed by id alone wherever the code's
are, so they overwrite whatever happened since the read.  An exception and the death of
the process end a handler where it stands; what it wrote stays written.  A page's module
takes a handler as one step where another module has that handler's awaits, and says so
at its head.  Definitions marked "Fault" are not part of any specification: they are the
wrong code each property is tried against.

**Certification.**  `cert` is the table (status, claimerId, reviewStartedAt,
reviewerId, cookiesEarned, syncedToFt); `lifetime` is `users.cookiesEarned`, which is
incremented together with the balance; `ft` is what Flavortown last accepted; `now`
the clock.  `ClaimScan`, `ClaimRead`, `ClaimWrite` are the three awaits of
`POST claim`; `ReleaseRead`, `ReleaseWrite` those of `DELETE claim`; `VerdictRead`,
`VerdictWrite`, `Credit`, `SyncAccepted`/`SyncFailed`, `Mark` those of `PATCH`.
Nothing in the code keeps two requests apart, of one user or of several, so nothing does here.
`missed` remembers for each request what others wrote since it looked: a claim, a verdict or a new
reviewer on its ship, or another claim of its own user; `doubled` the users who wrote a claim
that had missed another of theirs.  A request is `Late` if what it is about to rely on is among what
it missed.  With these the properties say of every interleaving what the desk keeps, and of the writes
that break its promise exactly which they are: `LateWrite`s.
Abstracted: the amount `calc()` comes to (any of `Pays`; `Earnings` has it), permissions
(the three sets of users), wording, logs.  Every ship is assumed to have an `ftProjectId`;
a PATCH without a verdict and without a certifier changes no column that is modelled.

**YswsPipeline.**  `review` is the table `ysws_reviews` in the order of creation,
`job` the callbacks left with `after()`, `patch` the PATCH requests on reviews.
`DeskStep` is any step of the desk; the one that ends an approval (`DeskResumes` after
`Ends`) also leaves the callback, as lines 456-471 do, and a handler that dies (`DeskDies`)
leaves none.  `dropped` remembers the ships whose handler or
callback died, so that properties can say "unless it died".  A reopening counts as a verdict
that requests under way miss.

**YswsReview, ReviewPage.**  `posted`/`onFlavor` is Flavortown, `devlogs` and `decisions`
(`row`) the two columns.  A handler keeps the decisions it read (`seen`) and those it was
sent.  The page keeps `marks` from its opening on and never takes them from the server
again; complete or return, undo and forced reload may be on their way together, of one tab or
several.  In `YswsReview`, `missed` are the decisions other requests changed since a request read the
row, `behind` the requests that read it before a reload wrote new devlogs, `torn` says that
one of those has written since.  In `ReviewPage`, `kept` is every verdict submitted that nothing since
may have changed; `wiped` are the devlogs an undo, or a load that did not find them, left without an
entry, and verdicts on those are what the handler drops (`gone`: what was wiped when it
looked).  A reload may find other devlogs than before.

**CertPage.**  `certRow` is the row and `sheet` the copy loaded; `form` the upload of the
proof video, `patching` the type and bounty shown before they are stored.  One tick of the
clock is what the countdown floors away, `Second` of them a second.  Others claim, decide and
write type and bounty (`TypedElsewhere`, `BountyElsewhere`); the webhook that made the cert may
store the type it detected late (`TypeChecked`, `webhooks/ship-submitted/route.ts` 178).
`outdated` are the fields others wrote since the copy on screen was served.

**Earnings.**  A pay is kept as its factors, in hundredths, because the code multiplies
them; each query of `calc()` is a step.  `disturbed` names reviewers and periods whose
verdicts overlapped, saw noon pass or were undone.  **Streaks** has the same handler's
day, count and write, over a calendar of numbered days.

**Payouts.**  `payout` is the table, `balance` and `earned` the columns of `users`;
`debits`, `refunds` count what the transactions did; `overlapped` becomes TRUE once
anything started while a request was in progress, `hasty` has the users two of whose requests
found nothing pending before either created, `drift` what others moved of a balance since an
approval read it.  The two transactions of the code
are `ApproveCommit` and `RefundCommit`.  The bonus of an admin changes
`finalAmount` alone and is left out here, like the uploads (PUT) and the list (GET).
**PayoutPage** has the dialogs, the bonus, the upload and the table that goes stale.

**Assignments.**  The row, its notes column (numbers of notes), subscribers, and `told`,
the last push each member got.  Adding a note (`ReadNotes`, `WriteNotes`) and deleting one
(`FindNote`, `RemoveNote`) both read the column and write it whole; `removed` are the notes
deleted, `overtaken` those written or deleted while another request that had read the column was
yet to write it.  Pushes are steps of the handler after its write; a push may
be lost and a handler may die before them.

**SpotChecks, SpotPage.**  Flags of the ship and cases as rows; decide, toggle
and false positive are read, then write.  In `SpotPage` a request (`hand`) keeps the list
and the place of the rendering it was clicked in, which is what the callbacks close over;
`dealt` and `judged` are history.  The page of a case (`CasePageSpec`) numbers the states of one case and asks
whether the page's last answer is as recent as what it was told.

**Sessions.**  `session` and `account` are tables, `copy` Redis with its expiry, `reader`
a `getSession` in progress; `slides` are the updates nobody awaits.  Time is counted in
ticks, a request takes at most `Latency` of them.

**RateLimit, Intake, PgSync.**  One address in one namespace; deliveries that look, create
and store a type late; passes that page by offset while rows are inserted and updated,
rows being known by the number of the write that made them.

**Lists, ShipStats.**  `past` is the table after each write, so that an answer is known by
which table it shows; `copies` is Redis per filter; `owing` are writes whose `bust` is still
to come, and a `bust` that matches no key is modelled as what it is.  `ShipStats` counts
back from today's open ships as the code does and compares with what `closing` recorded at
each midnight; `stray` counts what that way back cannot know.

**PageNotes.**  One machine for three pages: which entries the server has, which the page
shows and as what, requests and loads.  `astray` names the cases in which the page is known
to go wrong (section 5).

**TaskJournal.**  `journal` is the file as `load_pending` reads it: the last status
per id.  An id is the number of its record.  `Record` may fail, for `append()`
swallows `OSError`.  `boot` is where `load_and_replay` is: `Load` reads and truncates,
`Rewrite` writes what is pending, `Replay` gives each task its new id.  What the
function of a task raises does not matter: `run` records it as done in `finally`.  Any
end of the process is `Crash`: a redeploy too, for the queue is in memory and the
worker a daemon thread.  `load_pending` is assumed to read the file when the start asks for it
(its swallowed `OSError` would leave the tasks for the start after); that `compact()` cannot
read or write it is a choice of `Load` and `Rewrite`.

**Tickets.**  `row` is the table; `live` the cache under the integer id and `old` the
cache under the string id, which is what the keys of a restored snapshot are;
`file` is the snapshot; `board` the messages of a ticket in the open-tickets channel.
`Resolve`, `ResolveOwn`, `CloseAnyway` (macros and `!purge`), `Claim`, `Reopen`, `Create`
are the arrivals, each with the guard of its handler; the steps after them are shared
as the code shares `delete_open_ticket_message`, `close_ticket`, `claim_ticket`,
`_send_resolve_feedback`.  `Close` and `TellClose` (and the two pairs like it) are
two steps because the code gives the lock back before it queues the write.  Slack may
refuse a post (`Posted` with 0) or raise (`Abort`).  `Write1` applies the next write,
`WriteFails` loses it.  `Restart` is a clean end, which saves the cache, or a death,
which does not.  `due` counts what may be paid: openings, and commands that do not
look at the status.

**Relay, MetaVotes, SlackEvents, DbPool.**  What the bot keeps in Slack, in its cache and
in its tables, over the queue between them.  `MetaVotes` forgets and reloads the entry of the cache
but has no restart of the process: `TaskJournal` and `Relay` have what one does to the queue.  `DbPool` has the pools in the order they were
made, for a thread may close one that another has just put in place.

**HelpDesk.**  A handler is the list of what it still has to do (`Plan`), taken from the
code's order of calls, with what an `except` clause guards enclosed; `setbacks` says what
went wrong so far, and that a handler acted on a cache another had changed (`overtaken`).
**TicketPage** is the other side: one page with its requests and its socket, and colleagues
who write the same row.

**RecordPage.**  One row shown by several pages: of a user with his keys, or of an assignment
(`surface`).  `filed` is the row by columns, `trail` the number of entries in the audit log,
`sight` what a page has read and shows.  (`PATCH assignments/[id]` writes the page's `repoUrl`
back with the types; no other route writes that column, so it goes back as it was and is left out.)  Each control has its own request (`asking`): sent, written,
entered in the log, answered; `ShownAfter` is what the page makes of the answer, without
reading again.  `logging` are the loads of the log behind it.  `ChangedElsewhere` is anybody
else who writes the row.  `knows` remembers who made or read the last change of a column,
`failed` the errors of a page, `tangled` the pages whose reassignment met another request.

**Newcomers, StaffPages.**  `blank` is what is in a form: two boxes for Slack ids, a timer
of 400 ms for each (`timers`), whom each box shows (`shown`), name, Flavortown id, role.  A
timer that goes off sends a lookup (`lookups`) of what may be an id and empties the preview of
what may not; `LookupEnds` takes an answer in any order, also after the form was closed, for
`CloseForm` hides and empties it and stops nothing.  What is submitted (`post`) is looked for,
created under the unique columns of `member`, and entered in the audit log, three steps of
`users/add/route.ts`.  People are known by their Slack id, and the name Slack has of somebody is
written as that id.  `LookElsewhere`, `AddElsewhere` are the two routes that add an observer
without a form.

## 3. The runs

| run | expects | distinct states | shows |
|---|---|---|---|
| `cert_racing` | pass | 0.6 M | a shipwright with two tabs and a megawright, two ships, any two requests interleaved at every await: one live claim each until one missed the other; cookies on rows accounted for; cookies and push are the row's until it is written again; every step but a late write is the `Docket`'s, in its user's name |
| `cert_redecide` | violation | | two verdicts overlap, the second overwrites the first |
| `ysws_pipeline` | pass | 156 K | approved ships get their review; no review without a payment |
| `ysws_decisions_undo` | violation | | the verdicts submitted after an undo are dropped |
| `payouts_racing` | pass | 1.8 M | a reviewer with two tabs, two admins: money is conserved under races, exact without them; a receipt is off by what moved meanwhile |
| `payouts_two_admins` | violation | | one payout debited twice |
| `small_machines` | pass | 1.0 M | eight machines of the dashboard, below |
| `pages` | pass | 1.2 M | seven more: its pages, what verdicts earn, and the numbers counted back, below |
| `bot_machines` | pass | 0.9 M | eleven machines of the bots and the pages of tickets, spot checks, a user, an assignment and a new user, below |
| `journal_restarts` | violation | | a finished task is replayed at the second restart |
| `tickets_racing` | pass | 0.65 M | table, cache, channel, feedback and stardust of a ticket |
| `tickets_restart` | violation | | `!reopen` does nothing after a restart |

The machines of `small_machines` and, from `notes` on, of `pages`, each to its end; `TypesOK`
is checked in `pages`, and the type invariants of the eight machines before are theorems:

| `part` | states | property | says |
|---|---|---|---|
| review | 381 K | `AllOrNone`, `RefreshPreserves` | however requests overlap, decisions cover all devlogs or none until a completion that read before a reload writes after it; a reload keeps what nobody changed since it read |
| session | 110 K | `ServedIsRecent` | who is served was in the table at most a copy's life and a request ago |
| limit | 3 K | `LimitHolds` | at most two windows' worth in any window's length, and nobody refused without cause |
| intake | 13 K | `QueuedOnce` | a project waits once |
| mirror | 26 K | `MirrorCovers` | a finished pass missed no row that was there |
| streak | 102 K | `StreakIsEarned` | a streak's days were earned |
| assignment | 357 K | `LastPushIsTrue`, `NotesKept` | the last push tells the truth; the column has the notes written and not deleted, but for those another request overtook |
| spot | 5 K | `RemovedHasCase` | off the leaderboard exactly for a case that stands |
| notes, certpage, payoutpage, reviewpage, lists | 705 K | `PagesKeepTheirWord` | `PageSettles`, `PageIsHonest`, `PayoutsAsShown`, `SheetIsRecord`, `ListsShowWhatIsAsked` |
| earnings | 352 K | `PaysAsPosted` | first, grind and rank factors are those the page promises |
| stats | 142 K | `StatsAreNear` | what is counted back differs from what was by no more than what the way back cannot know |

and of `bot_machines`:

| `part` | states | property | says |
|---|---|---|---|
| journal | 75 K | `NothingForgotten`, `DoublingBound`, `KeptTasksRun` | no task is forgotten over two deaths; copies at most double; kept tasks are run (liveness) |
| votes | 113 K | `VotesMatch` | everybody counts once in cache, table and post |
| events | 62 K | `HandledOnce` | a repeated event is worked on once |
| helpdesk | 44 K | `DeskAgrees` | cache, row, threads and pushes of both programs agree in the end |
| relay | 9 K | `RecordsAgree` | each message somebody sees has its row, as he sees it |
| pool | 24 K | `ReportsHold` | who hears "done" has it written, who hears "failed" has not |
| ticketpage, spotpage, casepage | 450 K | `StaffPagesHold` | `AssigneesAsAsked`, `RepliesAsTyped`, `NoShipPassedOver`, `CaseIsCurrent` |
| record | 9 K | `StaffPagesHold` | `RecordIsShown`: who changed or read a column last sees what the row has |
| newcomer | 151 K | `StaffPagesHold` | `AddedAsShown`: a box at rest shows whose id is in it; who was added was shown, checked if active, and entered in the log |

The machines of one run share no variable; `part` picks one at the start and the others
stay as they began, so the states of a run are the sum of those of its machines, and each
machine is explored as if it were alone.  They are in one run because they are small.

**Bounds, and why they are enough.**  `MaxRequests`, `MaxOps`, `MaxPatches` bound
how many requests start, not how they interleave.  Three requests are two that race
and one that meets the result (a claim, a lapsed claim and the verdict on it); five
in `Payouts`, where a payout needs a request, an approval and a deletion and the
interesting histories hold two payouts, the second of another tab; four in `Tickets`: create, close, reopen and
close again, or create, the asker's own close and two claims.  `MaxRaces` 3 lets two
closings overlap each other and the end of the creation, what comes later runs alone:
only `FeedbackAskedOnce` speaks of overlaps, and it is proved without a bound.
The clock starts at 1 and `MaxTime` lets it pass `ClaimTimeout` once in `cert_racing`, so a claim
lapses while handlers that began before it are under way (in `ysws_pipeline` nothing turns on the age of a claim).  `Pays` and `Amounts` are the smallest numbers
that tell once from twice and below from at the minimum.  `MaxCrashes` 2 is the first
number at which ids are replayed twice; `MaxFaults` 1 is one restart or failed write.
`Concurrency` 2 is any two requests interleaved with a third after either; the proofs have
no such bound.  The two tabs are the shipwright's, whom no permission exempts from a guard, and the
megawright overlaps both.  Two runs use symmetry, on what no
property names and no CHOOSE picks from: `cert_racing` on the shipwright's two tabs, `tickets_racing` on the
threads.

In the machines: times (`CopyTtl`, `WindowMs`, `SeenTtl`, `CertsTtl` < `YswsTtl`) are the
smallest that keep their order, and the clocks pass each of them at least once; `MaxEdits`
2 lets a user be disabled and enabled again; `MaxEpoch`, `Batch` 1 and two passes over two
ids let a row come in before, at and behind the offset; `Quota` 2 over three days is one
day missed and one made up; `MaxJobs` 3 with `MaxMixed` 2 in `HelpDesk` is any two handlers
interleaved and one more that begins while they are; `MaxPools` 3 is a pool replaced while
it was being replaced; `MaxPays` 3 passes both grind steps (`TwoGrinds` puts them at 1 and 2),
over two periods; `MaxAsks` 3 with two slots is a load overtaken by another, after the one that opened
the page; `MaxEvents` 3 over three days with a `Window` as long is a ship made, decided
and decided again on different days; `MaxClicks` 3 with two `Hands` in `SpotPage` is two
decisions that overlap and one that follows, on two of three ships, and a flag that adds one;
`MaxDone` 3, of which `MaxWithReplies` 2 when a reply is sent, bounds what a page of a
ticket does; `MaxVersions` 3 and `MaxCaseChanges` 2 are two changes of a case, of the
page or a colleague; `MaxAlters` 2 is a request of the page and another of its controls or a change made
elsewhere, which is all one page can meet of the others (`RecordsShown` is proved for any number);
`MaxKeyed` 6 is what a shipwright's form takes from opening to sending (id, Flavortown id,
source, fraud check, checker), or an observer's and one more change of its id, or of the
additions elsewhere.

`CHECK_DEADLOCK FALSE` everywhere: when the bounded number of requests is used up the
system rests, as it does when nobody clicks.

**Conditions.**  A property that names a history variable (`missed`, `doubled`, `hasty`,
`drift`, `torn`, `removed`, `overtaken`, `outdated`, `astray`, `crossed`, `mishaps`,
`disturbed`, `stirred`, `muddled`, `setbacks`, `failed`, `tangled`, `crossing`, `cut`, `history`, `excused`, `straddled`, `racing`)
says when the code does keep its promise; each excused case was first met as a
counterexample, and section 5 lists them.  They are not hypotheses about users in general:
every machine also runs on after them, and the property speaks again of all that they do
not concern.

**Fairness.**  `FairPipeSpec`: weak fairness of every request's, callback's and
PATCH's next step, because the event loop resumes whatever awaits an answer that has
come; arrivals, failures and the clock are free.  The steps of one handler follow from
each other and nothing disables them, so weak fairness is enough.  `BotSpec` takes over
that of the journal: weak fairness of the worker thread, of each caller between its two
statements, and of the start, because the process is restarted by its supervisor.  Nothing
else of the bots or pages needs fairness: their properties are of what is so when
they rest.

**Ghosts.**  `lost`, `dropped`, `kept`, `wiped`, `behind`, `finished`, `debits`, `refunds`, `due`,
`overlapped`, `smooth`, `dealt`, `judged`, `knows`, `floor`, `reached`, `closing`, `meant`, the `calm` of
a request and of a user it added, and the variables named under Conditions record history.  None is read by a guard.

## 4. The proofs

Theorems hold for every value of the constants that meets the named assumptions of the
modules, so for any number of users, ships, requests, restarts; a property in the second
column is one a run of section 3 checks on a small instance.

| theorem | states |
|---|---|
| `DeskProofs!DeskTypes` | `[]TypeOK` |
| `DeskProofs!SingleClaim` | `[]OneClaimPerUser` |
| `DeskProofs!RowsAreBacked` | `[]CookiesBackRows` |
| `DeskProofs!EffectsFollowRow` | `EffectsMatchRow` |
| `DeskProofs!HandlersAct` | `ActsForItsUser` |
| `DeskProofs!DeskImplementsDocket` | `ImplementsDocket`: but for late writes the desk refines `Docket` |
| `DeskProofs!PipelineTypes`, `NoApprovalForgotten` | `[]PipeTypeOK`, `[]ApprovedIsCovered` |
| `DeskProofs!ReviewsPaid` | `[]ReviewsArePaidFor` |
| `PayoutsProofs!PayoutTypes`, `RefundsAreCovered` | `[]TypeOK`, `[]RefundsCovered` |
| `PayoutsProofs!SinglePending` | `[]OnePendingPerUser` |
| `PayoutsProofs!PayoutsAreEarned` | `[]PaidFromEarnings` |
| `PayoutsProofs!SerialBooks`, `ReceiptsTell` | `[]BooksBalance`, `ReceiptsMatch` |
| `TicketsProofs!TicketTypes`, `OneFeedbackRequest` | `[]TypeOK`, `[]FeedbackAskedOnce` |
| `TicketsProofs!TableFollowsCache`, `NoOpeningPaidTwice` | `[]TicketAgrees`, `[]PaidPerOpening` |
| `BotProofs!JournalTypes`, `NoTaskForgotten` | `[]TypeOK`, `[]NothingForgotten` |
| `BotProofs!DoublingIsBounded` | `[]DoublingBound` |
| `BotProofs!EventTypes`, `WorkedOnceEach` | `[]EventTypeOK`, `[]HandledOnce` |
| `BotProofs!PoolTypes`, `ReportsAreTrue` | `[]PoolTypeOK`, `[]ReportsHold` |
| `BotProofs!VotesAreKept` | `[]VotesMatch` |
| `BotProofs!RelayTypes`, `RowsFollowCopies` | `[]RelayTypeOK`, `[]RecordsAgree` |
| `DashboardProofs!SessionTypes`, `RecentlySeen` | `[]SessionTypeOK`, `[]ServedIsRecent` |
| `DashboardProofs!IntakeTypes`, `WaitsOnce` | `[]IntakeTypeOK`, `[]QueuedOnce` |
| `DashboardProofs!AssignTypes`, `NoNoteDropped` | `[]AssignTypeOK`, `[]NotesKept` |
| `DashboardProofs!PushesTellTheRow` | `[]LastPushIsTrue` |
| `DashboardProofs!MirrorTypes`, `NoRowMissed` | `[]PgTypeOK`, `[]MirrorCovers` |
| `DashboardProofs!LimitTypes`, `LimitIsKept` | `[]LimitTypeOK`, `[]LimitHolds` |
| `ReviewerProofs!StreakTypes`, `StreaksAreEarned` | `[]StreakTypeOK`, `[]StreakIsEarned` |
| `ReviewerProofs!SpotTypes`, `OffTheBoardForCause` | `[]SpotTypeOK`, `[]RemovedHasCase` |
| `ReviewerProofs!ReviewTypes` | `[]TypeOK` of `YswsReview` |
| `ReviewerProofs!ColumnCovers`, `ReloadsPreserve` | `[]AllOrNone`, `RefreshPreserves` |
| `PageProofs!SittingTypes`, `NoneIsPassedOver` | `[]SpotPageTypeOK`, `[]NoShipPassedOver` |
| `PageProofs!RecordTypes`, `RecordsShown` | `[]RecordTypeOK`, `[]RecordIsShown` |
| `PageProofs!CasePageTypes`, `CaseStaysCurrent` | `[]CasePageTypeOK`, `[]CaseIsCurrent` |
| `PageProofs!TicketPageTypes`, `TicketPageKeepsWord` | `[]TicketPageTypeOK`, `[]TicketPageHolds` |
| `PageProofs!NewcomerTypes`, `AddedIsShown` | `[]NewcomerTypeOK`, `[]AddedAsShown` |
| `PageProofs!StaffPagesAlwaysHold` | `[]StaffPagesHold`, the five pages at once |
| `ReviewerProofs!NoteTypes`, `NotesSettle` | `[]NotesTypeOK`, `[]PageSettles` |
| `ReviewerProofs!PageHonest` | `[]PageIsHonest` |
| `ReviewerProofs!PayPageTyped`, `PayoutsGoAsShown` | `[]PayPageTypeOK`, `[]PayoutsAsShown` |
| `ReviewerProofs!ReviewPageTyped`, `SheetIsRecorded` | `[]ReviewPageTypeOK`, `[]SheetIsRecord` |
| `ReviewerProofs!ListsShow` | `[]ListsShowWhatIsAsked` |
| `ReviewerProofs!PagesAlwaysKeep` | `PartsSpec => []PagesKeepTheirWord`, those five in the run's own specification |

**Assumptions.**  Of the constants: types (times and bounds are numbers, `NoUser` and
`NoOne` are nobody, `Megawrights` are among the `Overriders` as in the code's table of
roles); that sets of rows, users, requests and voters are finite (`FiniteAssumption`,
`JobsAssumption`, `IdsAssumption`, `VotersAssumption`), which tables and processes
are; that sizes which divide or step are positive (`BatchAssumption`: the code's pages
have a fixed size; `LimitAssumption`: its limits are 5 and 10 in 60 000 ms; `TextsAssumption`: a message has a text;
`ReconAssumption`: the socket tries again at least once, where the code tries five times); that an empty or partial id is
nobody's and an empty Flavortown id no number (`ApplicantsAssumption`); that an entry is
either the page's user's or another's, on one of the three pages there are (`EntriesAssumption`).  Nothing is assumed
of the environment: not how many requests are in progress together, nor that those of one user
are not.  Where a property speaks of a history variable (`missed`, `doubled`, `overlapped`, `smooth`,
`mishaps`, ...), it says itself where the code's promise ends; the theorem holds over every
behaviour, also past that point.

**Sums.**  A column is added up by recursion on the number of keys, and induction is out of
the prover's reach; `SumsProofs` reasons by a smallest counterexample instead: if a law
failed for some finite set of keys it would fail for one all of whose strict subsets satisfy it, and
taking one key away contradicts that.  From that come `Total` of a column changed at one key, of the
zero column, of a sum of columns, of a column no smaller than another.  2^(n+1) = 2 * 2^n, which TLAPS
does not know, is proved by counting the subsets of 1..n.

### The desk and the pipeline

*SingleClaim.*  `OneClaimPerUser` is not inductive: a handler past its scan may add a
claim.  `ScanHolds` says that between scan and write the claimant holds no other
ship, unless his handler has missed another claim of his: a claim written by another of his requests
is one that all his requests past their scan miss (`ClaimsFor`), and who then writes one is
`doubled`.  Time and verdicts only take claims away (`NoNewHolds`); a claim written late
counts from the instant of its scan and may be born lapsed (`OneNewHold`).

*RowsAreBacked.*  `CookiesBackRows` compares two sums, so it is restated: `Beyond`, what was paid,
is owed or was lost, less what the rows show, is never negative.  A verdict raises the row and what its
request owes by the same amount; `Credit` moves it from owed to paid, a failure from owed to
lost; a verdict that overwrites another only lowers what the rows show.

*EffectsFollowRow, HandlersAct, DeskImplementsDocket.*  `FindInv` says of each request, whatever runs
beside it, that what it found when it looked is still so unless it has missed the write that
changed it: `FindsClaim` (nobody holds the ship), `FindsRelease` (the claimer), `FindsVerdict`
(status and holder), `FindsOwn` (after its write, the row is the one it wrote).  `Touches` is
the lemma behind it: whatever a step of another request changes of a ship, it enters into
`missed` of those under way with it.  The three theorems follow step by step, for requests that are not
late: the write of a verdict is the docket's `Decide` because what was read is what is overwritten;
those of claim and release are its `Take` and `GiveBack`, or a stutter where they leave the
holders as they were; a tick is its `Lapse` of every claim that has just timed out.

*NoApprovalForgotten.*  `ApprovedIsCovered` is inductive with the types and with `Targets`,
a PATCH in progress is about a row that exists.  `Handed` splits it by the hands a ship may
be in: live review, handler, callback, reopening, dropped.  `CoverDesk`, `CoverJob` and
`CoverPatch` say for each step where a ship goes that leaves a hand: from the verdict's
handler to the callback it leaves at its end (`Ends`), from the callback to the review it
finds or makes, from a review returned to the handler that reopens the ship.  What a callback
finds out with a second read, that the ship is approved no more, is why it may give up.

*ReviewsPaid.*  A review is made by a callback, a callback is left by a handler that
approved and paid.  `PaidInv` counts all three at once (`Count3`: reviews, callbacks, approvals past
their payment): no more than the cookies paid, since a decision in progress is worth something
(`Worth`, from `PaysAssumption`) and only `Credit` makes a new one.

### Payouts

*SinglePending.*  `CheckHolds`: between check and create the user has nothing pending and no other
request as far, unless he is `hasty`; approvals, deletions and refunds never make a row
pending.

*RefundsAreCovered.*  `RowHistory` ties status to counters (a row that is not deleted
was not refunded, an approved one was debited); `ReadsForward` says that a status read
earlier can only have moved forward, so a refund in progress finds its row approved or
gone.

*PayoutsAreEarned.*  `Missing(u)`, what u earned and has neither at hand nor been paid out, is
never negative.  An approval that overtakes another debits twice and pays out once, which is bad for u
but keeps the property; a refund gives back what `RowHistory` says had been taken.

*SerialBooks.*  Until `overlapped`, `Serial` says one request is at work, what it knows (`Knows`) is
still so, and every pending payout can be afforded (`Afforded`: the check of the request, and no
other payout of its user is pending).  Then `Missing` is 0 exactly.

*ReceiptsTell.*  `DriftKnown`: the balance an approval read, with what verdicts and the commits of others
moved since (`drift`), is the balance; so the receipt is off by that and no more, in every behaviour.

### The bots

*NoTaskForgotten.*  `Owned` and `Travelling`: ids in queue, threads and file were made
and belong to a task; `RanCounts`: past the call the task was run, so `Done` may take
it off the file; `EmptyFile`: between truncation and rewrite the tasks are in memory
only, which is where a death takes them, and `lost` says so.

*DoublingIsBounded.*  `HeldOnce`: an id travels in one place only, once, and while it does the file
has not got it as done.  `Doubled(t, 2^n)`: over n deaths, the runs of a task and its copies still to
run, and its copies in the file and to be replayed, are no more than 2^n.  A death empties queue
and hands and allows twice as much, so right after it runs and copies are at most half of what is
allowed; the replay, which files a new id beside each old one, uses up the other half.

*WorkedOnceEach.*  For an event not excused, `WorkedOnce` says it has at most one task, and exactly one
once it came; `IdKept` that its id is kept from the first delivery on until its time is over.

*ReportsAreTrue.*  `PoolsHold`: pools are made one after the other and one not yet made has
nothing out.  `ClientHolds`: at each step of a thread, what it knows of its connection and of its
write; `OutIsHeld`: what is out of the pool in use, threads at work have.  Closing or replacing a pool under a
thread puts it among the `Lost`, which the property names.

*VotesAreKept.*  `CacheCounts`: whoever voted counts once in the cache; `RowFollows`: the row's
counts, with what the queue still adds (the sum of a `Column`) and what clicks have yet to queue
(the sum of `Pressed`), are the cache's unless a write was lost; `Answered`: clicks that do not overlap return
the counts they left.

*RowsFollowCopies.*  `RelayInv` says of each message l (`LetterHolds`): before it is sent it has no
row, edit or write; a row it should have is there or a save of it is queued (`Recorded`); every edit
queued for a question comes after a save of it, or its row is there (`InOrder`); and the last write
of a question still on the queue, or the row when none is, has the copy's text, unless an edit of it
is on its way (`UpToDate`).  A restart replays saves only, in order: `Replayed` picks them by their
rank, and that each save is picked is a count (an injection between finite sets of one size is
onto).  A question with an edit queued or on its way is `spoiled` by that restart, as the code loses it.
Of the header: the asker's last text is copied, or coming (`HeaderHolds`).

*OneFeedbackRequest.*  `OneButton`: a thread about to post found the flag unset and
set it, its ticket has no request yet, and no two threads are about to post for one
ticket.  `RowClosed` (a closed row names no message) is needed for the types: what is
loaded from the table enters the cache.

*TableFollowsCache, NoOpeningPaidTwice.*  While `smooth`, at most one handler is busy, and
`SoloInv` says of each ticket t and the task q in hand (`TicketHolds`): what the last queued
write of each kind leaves in the row is the cached entry, but for the field about to be told
(`ToldStatus`, `ToldCloser`); the channel shows the entry's message, but between taking it down
and closing, or posting and opening (`Shown`); a ticket nobody created has no row, message
or write (`Unknown`); what a handler found when it began is still so
(`Underway`).  `Covered` is the account of the stardust: `due` is at least what was paid, is queued to be
paid, what an open ticket, a closing without claim and the command in hand may
still earn.  Queueing a write and doing the first one are lemmas about `Writes`
(`Longer`, `Shorter`), so that each handler's step speaks of one more write only.

### The dashboard's other parts

*RecentlySeen.*  `ReadersAreYoung`: what a request saw, it saw after it began, and it
began at most `Latency` ago; so whatever it puts into a copy is that young, and
`CopiesAreShort` bounds how long the copy outlives it.  Nothing about who ends what is
needed: the bound holds because of the times alone, which is why no path that forgets to
drop a copy can break it.

*WaitsOnce.*  `DeliveriesHold`: a delivery about to create is alone with its project, and what
it found by looking is still so, for only a row already decided could have changed against
it, and that makes the project one of `reopened`.  `RowsHold` adds to the property that
nothing is approved while a first ship waits; otherwise the waiting one could become a second
approval.

*NoNoteDropped.*  `NotesHold`: but for notes that were overtaken, the column has those written and not
deleted, and so has what each request read that is yet to write it, for a note written or deleted
after that is overtaken.  The types need `Named`: reassignments and notes are made in
the name of a member, so a push never goes to nobody.

*PushesTellTheRow.*  `PushesHold`: until requests about the row overlap or a push is lost, one
request changes it, what it read is still so, and the pushes it has yet to send are `Owed`: once
they are out, what each member was told last is what the row says.  The delicate case is a
reassignment, which pushes to the new assignee and to the former one.

*NoRowMissed.*  A pass pages by offset, so what it has behind it is said by counting:
`PassHolds` says that a row with fewer rows below it (`Below`) than the offset is in the mirror, no
older than when the pass began, and that the page in hand is as recent; rows that come in
before the offset only push others on, where the pass still finds them.  `OnePass` is needed, since a slow pass could put back what a
later one had newer.

*LimitIsKept.*  `OpenedAt(p, s)`: the window in the entry opened at s, the tick before is p; what went through since s
is what the entry counts, and what went through in any window's length before it was no more than one
limit.  So a span of one window's length that begins before s and ends after it has at most two limits.

*StreaksAreEarned.*  `Calendar`: there is no review of tomorrow, and a day with its quota
is on record.  `VerdictsHold`: until some handler counts across midnight (`straddled`), one that
noted its day knows of no later review, the day it is about to write is on record, and the
streak it read was earned up to the date it read; so what it writes, one day longer or 1, is
earned up to its own day, although another may have written since.

*OffTheBoardForCause.*  `RemovedHasCase` is inductive with the types.  What takes work is
that a new status is given to the case of one id: lemmas say that this loses no case, makes
none, and changes the reason of that one only.

*ColumnCovers, ReloadsPreserve.*  `ColumnHolds`: what a handler read of each decision is still so unless
it missed a change of it, and covers the devlogs or none of them unless it is `behind` a
reload.  So a completion that is not behind keeps the column whole, one that is tears it until the next
reload, and a reload loses only what it missed.

### The pages of staff

*NoneIsPassedOver.*  `SheetHolds`: what is on screen goes on with the list dealt, all before
its place was judged, or all was.  `HandHolds`: so did the list of each click still on its
way, up to the place of its click, and the ship there is judged once it is answered.  An
answer moves the page by the click's own list and place, so either part follows from the
other, in whatever order answers come.  The attempt to prove more showed that ships added
by flags can be passed over (section 5); the property was limited to the ships first
dealt.

*RecordsShown.*  `KnownIsShown` looks ahead: what a page shows of a column it knows, once the answer
still to come is put into it (`Foretells`), is what the row has.  That needs `RequestsAreAsked`, for
a toggle turns what is shown and not what was asked: nothing else can have turned it since the click,
as one control has one request.  `ReachesApart` says that no two controls write one column,
but for a reassignment, which writes the status too and whose answer replaces the whole copy;
`MovesAreAlone` says that until `tangled` it is the page's only request.  `LogsAreNear`: a load that overlaps
none shows at least the entry it was begun for.

*CaseStaysCurrent.*  `CaseInv`: once the last load has read, what it has is no older than the last
change the page was told of, and so is what is shown once that load's answer came.  A change that is
answered is followed by a load numbered after all others, so an older load that is answered
later is not the last; that a change is told of the version it wrote, which is in the row by then, is what
bounds the load's version from below.

*TicketPageKeepsWord.*  `AssignInv` relates each list on its way to the row.  Until it is rash, and
unless it was built on less than the last foreign write, a list to be sent is the row's assignees
with the request's own addition and removal; two additions under way at once are both rash; a page that
shows the row's version shows its assignees; and a page that was never shown the newest write has the load on
its way that will show it (`Carries`), or that write is foreign.  So what a request that is not rash
writes is what was asked for, one change at a time.  `ReplyInv` says of each reply (`SendingInv`) that
where it has been it is and where it is yet to go it is not: no row has its number before it is stored,
then neither thread has it, and the staff's still has not once the asker was told.  No two requests share a
number, nor two rows, for the composer takes a new one with each reply it gives away
(`Apart`, `StoredInv`, `ThreadsInv`).

*AddedIsShown.*  `FormInv`: unless a box's timer runs, or went off while a lookup was on its way, the
lookups of the box are those of what is in it, so whichever answer comes last shows that; with no
lookup on its way it is shown already, or nobody is; and the name is empty, typed, or of him who is shown.
It holds of a form that was closed too, whose boxes changed and whose timers therefore run.  `PostInv` carries
what was so when the form was submitted to the creation, `MemberInv` from there to the audit log or to
a handler that was broken off (`cut`).  `Truthful` is `FormInv` of one form before and after a
step, which most of the form's actions share.

*StaffPagesAlwaysHold.*  The conjunction: each page's specification is a conjunct of
`StaffPagesSpec`, as the pages share no variable.

### The pages that show rows and lists

*NotesSettle.*  A page that is told of changes (`Hears`) is in one of two states until `astray`: a
load that will show what the server has now is under way or still to be begun (`Coming`), or the page
shows it but for what is on its way from its own user (`InStep`).  A write leaves `Coming`, as its
handler tells the pages; an answer leads to `InStep` if it is of the present version and
otherwise finds another `Coming`, for numbers of versions only grow (`VersionsHold`).  The page of
an assignment is told nothing: there the state of each entry's own request says whether server and
page have it (`DeafHolds`).

*PageHonest.*  `CopiesHold`: each copy of the row, shown or on its way, names a holder only of a ship
that waits, and one that names none though the row has a claim was made after that had lapsed; time
only adds to that.  `EditsHold`: until `muddled` one edit is on its way at most and no load beside it,
and each copy, but for that edit, has the row's type and bounty unless somebody else wrote the
field since it was served (`Agrees`).  `FileHolds` is about uploads that overtake each other.

*PayoutsGoAsShown.*  Until `stirred`, `OneUnderway` says one request at most is on its way;
`TableInv` that the page shows the table but for it, and that a refund on its way is about the row as
shown; `ChoiceInv` that file and bonus were chosen in the dialog that is open; `FairInv` keeps
for each row decided what was so then.

*SheetIsRecorded.*  `KeptInv`: the row has what was submitted (`kept`), and so has what a reload
read and is yet to write; and the column, and what a submission read of it, has an entry of every
devlog that is not `wiped`, which is why a verdict on such a devlog is never dropped.  A submission
whose write comes between the two halves of a reload, and an undo, keep nothing, the
exceptions the property names; so a reload that writes read after it.

*ListsShow.*  `CopyHolds`: what Redis keeps for a filter is what that filter picks in a
table there was, not older than the last bust with no fetch on its way, and the present one no more
than a time-to-live before it lapses.  `LoadHolds` carries that to each load on its way, `ScreenHolds` to
the page: the newest load is of what is chosen, so when it is also the one shown, the rows are right.
What a page opens with needs its address: `UrlFits` says which filters each list writes into it and
`FromUrlFits` that reading it gives them back, and, where the address asks for nothing, the filters
the load at the opening used.

*PagesAlwaysKeep.*  `PartsInit` has each page's initial states, and a step of the run is a step of
one page or leaves its variables alone (`PartsMoveThePages`); so every behaviour of the run
is one of each page.

### What is model-checked only

All liveness (`KeptTasksRun`, `ApprovedGetsReview`), which the prover does not treat.
`StatsAreNear` and `PaysAsPosted` compare two ways to compute a number from all events of a
period, with filters and rounding on the way, in a handler of many steps.  `DeskAgrees` is about
handlers that are lists of steps still to do.
`TypesOK` of `pages` and of `bot_machines` joins the type invariants of the machines; those with a
theorem above are proved as well, the others only checked.

## 5. Where code and promise differ

Shown by a run, each a shortest behaviour TLC prints:

1. `cert_redecide`: the status a verdict depends on is read long before the update.
2. `ysws_decisions_undo`: undo empties the column and leaves the devlogs; what is submitted after it is
   only mapped over the column.
3. `payouts_two_admins`: the approval's transaction does not test the status.
4. `journal_restarts`: a pending task is replayed under a new id, and its entry under the old one
   stays pending for good.  TLC's trace takes the start at which `compact()` cannot open the file,
   as it is shorter; a `compact()` that succeeds writes the entry back as it was.
5. `tickets_restart`: string keys in the restored cache.

Known from reading and modelling, and the reason for a condition in a property.

Desk, reviews and cookies:

* Two tabs of one reviewer can win two claims (`doubled`), or make two pending payouts (`hasty`).
* Two reviewers who claim one ship at the same time both get "ok", the later write
  holds it; a release or a verdict may end a claim made since it looked (`Late`).
* The credit and the push of a verdict are those of the request, also when another has decided the
  ship since: the pushes of two verdicts may arrive in the other order (`missed`).
* Two callbacks can give one ship two reviews; a claim written after an approval is
  found on the ship when a review returns it.
* A forced reload overwrites decisions made while it fetched (`missed`), and a completion that read
  before a reload writes decisions that no longer fit the devlogs (`torn`); one tab can have
  reload and completion on their way together (`review.tsx` 140-211).  A reload whose fetch fails gets
  `[]` (`lib/ft.ts` 85) and wipes devlogs and decisions.
* The page of a review keeps its verdicts after `router.refresh()`; "approve" after "reject"
  keeps 0 minutes.
* The bonus of the first review can be paid twice in a period, by overlapping verdicts or
  after a verdict was taken back (`lib/payouts.ts` 107, against `mystats/page.tsx` 265).
* A payout request that overlaps an approval can overdraw the balance.  "Refund" on a row
  a stale page shows as pending gives cookies back; a dialog that is closed keeps its file
  and bonus for the next payout.
* The page of a ship: the countdown floors to seconds, so "Claim" comes up to a second
  early; after another's claim has lapsed "Approve" is enabled but `update()` refuses
  until a reload; bounty and feedback can never be cleared; type and bounty written by others, and
  the type that is detected late, are not shown before a reload (`outdated`), and may overwrite one
  set by hand; a second file chosen after an
  upload lets the verdict go with the first video.

Spot checks and assignments:

* The answers of a sitting are never looked at (`r.ok`): a refused decision moves on too.
  "Approve" works while a request is on its way: one ship may get two PASS rows, and a late
  answer moves the page back.  The text typed for one ship stays for the next; additions
  drawn at the last ship are lost; with two flags that overlap, added ships may be passed
  over.
* On the page of a case, error answers are taken for success, and a toggle under way after a
  false positive makes the case "resolved".
* Notes of an assignment written or deleted together: the later write drops the note the other added,
  or brings back the one it deleted (column of JSON; `overtaken`).  The list of assignments is kept an hour, dropped only by creation, and holds the
  `currentUser` of whoever filled it.

Pages of a user and of an assignment:

* A control of the profile sends the opposite of what the page shows, which may be long out of
  date, so a click may do nothing while the page turns.  An api key that could not be rolled or
  revoked is passed over in silence.
* Two loads of the profile's log may overlap, and the older answer may be shown last.
* A reassignment's answer replaces the whole copy, and may undo what a later answer had shown
  (`useAssignmentActions.tsx` 158-181).

The form of a new user:

* Between a change of the id and the answer to its lookup the former preview and name stay,
  and may be submitted with the new id (`add-user.tsx` 42-123, 154-207; `calm`).
* Lookups are not numbered: the older of two may be answered last, and one may be answered after
  the form was closed and emptied (`crossing`).
* An observer the form makes is not active, one made by the two other routes is.
* An account may exist although the form said that the network died, and, where the process
  died between the two writes, without an entry in the audit log (`cut`).

Lists and statistics:

* `bust('cache:certs:*')` matches no key (`certs.ts` keeps `cache:certs-list:` and
  `cache:certs-stats:`); lists of ships become current only by their 15 s.  `cache:tickets*`
  likewise.  A fetch that overlaps a bust keeps its old answer for a time-to-live.
* Answers of loads may come out of order; a failed load leaves the rows of other filters;
  reviewers to leave out are ignored when some are asked for.
* Open ships of past days are counted back from today's, all of them, with flows that leave
  out reships; re-decisions, returns and verdicts taken back shift the series.  The analytics
  page reads day by day and may count a ship twice.

Bots and tickets:

* Two people who press the claim button together are both paid; a macro on a closed
  ticket pays again (counted in `due`).  Two handlers may queue in another order than
  they changed the cache (`smooth`).
* `relay.handle_client_reply` relays replies to closed tickets although the message of
  `RESOLVE_MESSAGES` says that nobody will receive them; `CANNOT_CLOSE_OWN` is tested by the
  button and not by `!resolve`.
* Edits queued at a restart are lost (`edit_message` is not in `TASK_REGISTRY`); edits of
  thread replies are never mirrored; detected answers have no row, and an edit of a
  paraphrased one matches none.
* A failed commit is swallowed where the connection is given back.
* A handler of the previous bot that read the ticket while it was not in the cache puts what
  it read over what others wrote there since (`cache.py` 52-70).  Handlers between two
  refused marks may then leave a closed ticket with one check mark, with no stale read and no
  error of Slack: the attempt to prove `DeskAgrees` for more handlers than the run has
  showed it, so such a fill (`Replaces`) counts as `overtaken` too.
* A ticket closed on the dashboard keeps its open reaction, and the cache of the bot that
  serves the bridge never learns who closed it.  `/bridge/staff-note` is served by no
  bot, `/bridge/send-reply` and `/ticket/assigned` only by the previous one.
* The page of a ticket: two additions of assignees under way drop the first, a stale list is
  written back by the next change, and a reply of "?" alone sends the asker an attachment
  mark.  After five failed connections the socket stays closed, while the health check
  hides the banner again.

## 6. What is not modelled, and what could come next

Not modelled, because nothing in it depends on order:

* rendering, wording, layout and the forms that send one request and show its answer
  (skills, settings, stickers), charts and exports;
* the prompts and answers of `sw-ai` and of the bot's paraphrasing, whose results enter as
  any value; `sw-list`;
* WebAuthn's ceremony, which is a library's; what it does to sessions is in `Sessions`;
* timer loops of the bot that read tables and post (raffle, alerts, summaries).

Not modelled, although order matters:

* approve, resubmit, return makes two pending rows of one project;
* claim, approve, late write of the claim, return leaves a claim its owner does not know of
  (`ysws_reviews/[id]/route.ts` 124);
* a status written after a reassignment by its former assignee
  (`assignments/[id]/status/route.ts` 43);
* the cap of stickers, tested before the creation (`sticker_requests/route.ts` 26-50);
* names of media and ids of cases drawn by the clock or from 9000, which may collide;
* deletion and the sticky message of metas, opt-in and summaries of tickets, the rejection
  analysis of the verdict handler, uploads of a ticket's files.

Next: a fuller model of the filters of the lists; restarts in `MetaVotes`; and, of the properties
still model-checked only, `DeskAgrees`.
