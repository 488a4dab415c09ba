# flow-ai: a TLA+ verification project

flow-ai is a multi-tenant business platform: a NestJS backend over MongoDB
(Prisma) and Redis, a Next.js dashboard, and a layer of AI agents that plan,
write, publish and send mail on a schedule. This directory holds models of the
parts in which several executions, people and machines act on the same state,
the TLC runs that check them, and TLAPS proofs about them.

Paths below are relative to the repository: `modules/` is `src/modules/`,
`gateway/` is `src/gateway/`, `app/` is `frontend/src/app/`.

## 1. The system

All state of the backend is in MongoDB documents, reached through Prisma one
call at a time; transactions are used in a handful of places (the one modelled
is the reset of a password). Every service is a set of asynchronous functions:
between two `await`s any other request, cron tick or app instance may run. Cron
jobs (`@nestjs/schedule`) start on the clock and never wait for the previous
execution of the same job. The dashboard is a set of pages that load lists over
HTTP, and of React contexts that outlive them.

| Component | State | Operations | Interacts with |
|---|---|---|---|
| Content publishing (`modules/content/content.service.ts`) | `ContentItem` rows: status, channel, due time, attempts | create, update, cancel, publish-now; the per-minute `publishDueItems` | rails of agent settings (read before every item), channel adapters |
| E-mail pipeline (`modules/orchestrator/orchestrator.service.ts`) | `EmailMessage` rows: direction, status, `holdUntil` | draft, receive and triage, approve, cancel; the per-minute `sendQueuedEmails` | agent settings (pause), e-mail adapter, agent runs |
| Agent tasks and runs (`modules/orchestrator`, `modules/agents`) | `Task` rows with an agent assignee, the loop of each run, `AgentRun` and `AgentAction` rows | directive, two-minute worker, `runAgent` and its tools, people moving tasks | kill-switch and token budget, every business module through the tools |
| Agent settings (`modules/agent-settings`) | one row per organization: switch, paused channels, caps, token counter, auto-send and its allowlist | `canPublish`, `isHalted`, `consumeTokenBudget`, `update` | read by the three above |
| Planning (`modules/orchestrator`, `modules/agents/agents.service.ts`) | agent rows with their prompts, the AI Operations project, the day's plan | ensure the default agents, edit, switch, directive, hourly plan | agent tasks |
| Content generation (`modules/content`: `content.queue.ts`, `providers`, research, vision) | Bull jobs, the pipeline record of a run | generate, queued or inline; stages that ask each AI vendor in turn | token budget and switch, drafts of content publishing, source pages, media |
| Source pages (`modules/content/scraper.service.ts`) | the cursor and the results of a call, the rules kept per origin | `scrape` | content generation, brand import |
| Pictures and videos (`providers`, `video.service.ts`, `image.service.ts`) | vendors' jobs, files | submit, wait, download, give up, clean up | content generation |
| Channels (`modules/channels`) | `ChannelAccount` rows | connect, disconnect, health check, adapters | content publishing, e-mail |
| Brand profile and import (`modules/brand`) | one row per organization | edit, import of a website | source pages, agents' context |
| AI assistant (`modules/ai`) | conversations in the process's memory | ask, clear; five single questions to a model | rows of every module, read only |
| Membership (`common/guards/tenant.guard.ts`, `common/cache`, `gateway`) | `OrganizationMember` rows, Redis entries, socket rooms | guard lookup, join message, invite / role / remove | every tenant request of every instance |
| Requests (`common/middleware`, `common/guards`, `auth/strategies/jwt.strategy.ts`) | the users' cache of a process, CSRF cookies | CSRF check, JWT strategy, roles, tenant | every controller |
| Organizations and users (`modules/organizations`, `modules/users`) | organizations, members, placeholder accounts | create, delete, invite, role, remove | sign-in, membership |
| Sessions (`modules/auth`, `frontend/src/services/api.ts`) | `RefreshToken` rows, the cookies of each browser | sign-in, refresh, logout, logout-all, password reset; the interceptor that refreshes after a 401 | e-mail links, JWT guard |
| Sign-in (`modules/auth/auth.service.ts`) | users, failure counter in Redis, second factor, one-time links | register, login, lockout, 2FA, magic link, reset, OAuth | sessions, pages of the links |
| Pages of the links (`app/(auth)`) | a request per tab, its message | ask for a link, follow one | sign-in, mail |
| Billing (`modules/quotations`, `invoices`, `payments`) | quotations, invoices, payments, a counter in the organization row | create, convert, pay, cancel | clients, reports |
| Reports (`modules/analytics`, summaries for agents) | none: figures of separate queries | dashboard, months, trends, chart, counts | billing, tasks |
| Documents (`modules/documents`) | files in a storage driver, document and version rows | upload, new version, delete | -- |
| Workspace: tasks, projects, teams, leads, clients, hours, HR, expenses, quotations, notifications | rows edited one at a time, with their siblings | create, update, move, close, delete | agent tools, socket events |
| Socket gateway (`gateway/events.gateway.ts`), chat | connections, identities, rooms, messages | handshake, join, message, history | membership, chat page |
| Dashboard pages (`app/(dashboard)`) | lists of the current organization, spinners | load, switch organization, write, optimistic write | every controller |
| Browser tab (`frontend/src/context`) | account, organizations, current one, socket | boot, sign in and out, switch, guards | sessions, gateway |
| Palette and toasts (`frontend/src/components`) | the text, its timer, the list; the toasts and their timers | type, search, emit, dismiss | search service |
| Seed script (`prisma/seed.ts`, run by `setup.sh`) | rows of every kind | one run | billing's counter |
| Audit log, health, filters, configuration, database clients | none of their own | -- | all |

### What is hard here

- **Overlapping executions.** A tick that takes longer than its period overlaps
  the next one, and the queries that pick up work are not claims. Every model
  of a cron job therefore has several executions of it in flight.
- **Check, then act.** Caps, budgets, guards, unique timers, primary contacts
  and cancellations read a row and write it in another call. What is read may
  be stale when it is used.
- **Outside effects.** Posts and mails leave, and videos are billed, before
  their outcome is recorded; the answer may be lost, the process may stop in
  between, and nothing at start-up looks for what was left behind.
- **Overrides by people.** cancel, reschedule, approve, "move task", an edited
  prompt or brand field: a person's write may come at any point of an execution
  that goes by what it read before.
- **Caches and shared objects.** Redis sits in front of the membership rows, is
  written after a read, and every failure of it is swallowed. Each process
  keeps users for thirty seconds and hands one object to all their requests,
  into which the guards write.
- **Retries.** Each request of the dashboard that is answered 401 refreshes on
  its own. A generation job runs again from nothing when it throws and when its
  worker dies. The seed script is run again.
- **Several stores, no transaction.** A document is a file on disk and rows in
  the database; a payment is a row and two sums in another row; an invitation
  is an account and a member; a tool's work and the row that records it are two
  writes.
- **Answers out of order.** A page, the palette and the account context start
  requests that nothing cancels; what arrives last is what is shown.
- **Calendar.** A report walks back month by month from today.

### What makes each component correct

- Content and mail are reported as sent only if they left, and leave only if
  somebody released them; nothing is stranded half way; the rails stop what
  they say they stop, up to a bound.
- A task that is claimed is let go; every task is picked up; what a run did is
  on record, and the record of a run is closed.
- The token counter and the allowlist guard hold up to the races their code
  admits. A request makes one draft whose record is true. There is one plan a
  day, and a prompt a person has edited stays.
- A page is requested only after the rules of its site; a profile field a person
  has written is not overwritten by an import; a connected account is not marked
  expired for what an older one did.
- A request goes by a current membership, and by the user, role and organization
  its own guards have read. A session has one token and stays ended; a lock
  ends; a link and a backup code work once; a reset closes the older sessions.
- A document has its file; invoice numbers do not clash and the invoice agrees
  with its payments; figures that are shown together agree, a month's bar is
  there, an answer of a model is about the rows it was asked about.
- Siblings keep their places and there is one main one; what is closed has its
  date.
- A screen that waits for nothing shows what the server holds for the account
  and organization it names.
- What is left behind by writes that failed half way has one of its known
  causes.

## 2. Modules

`MC*.tla` give model values and symmetry, `MC*.cfg` the runs. Proofs are in
`XProofs.tla`; `ServicesProofs` has those of `ContentGeneration`, `Documents`,
`Billing` and `Scraping`. Two of the MC modules explore modules that share no
state side by side: their variable `part` says whose behaviours a state belongs
to and the others' variables rest, so that what they find is what as many runs
would.

| Composed in | Modules |
|---|---|
| `MCContentPublishing`, `MCEmailPipeline` | `ContentPublishing`, `EmailPipeline`, each with `Outbox` |
| `MCAgentTasks` | `AgentTasks` |
| `MCWorkplace` | `Sessions`, `SignIn`, `Dashboard`, `Workspace`, `Shell` |
| `MCServices` | the twenty others |
| `MCMembershipCache`, `MCSessions`, `MCDocuments` | one module each, for the violations |

An operator whose name has an underscore and whose comment begins "Mutant" is a
wrong version of the definition it precedes; it is not used by the specification
and shows that the property it is meant for can fail. `PROJECT.json` names one for
each property; a property with conjuncts of several modules has one in each of
them.

### Agents and what they send

**Outbox.** `released`, `copies` (0, 1, two or more) and `reported` per message.
`Transmit` needs a release and `Report` needs a copy. It deliberately does not
limit copies: neither pipeline does. Both detailed modules instantiate it
(`PromisedOutbox`) with a refinement mapping, check `ImplementsOutbox`, and
prove it.

**ContentPublishing.** One publisher is one execution of `publishDueItems` or
`publishNow`, and one step of it is the code between two awaits: `Tick` (the
`findMany`, any full batch because the query has no order), `ReadSettings` and
`CountPosts` (the two reads of `canPublish`), `Block`, `Mark` (PUBLISHING and
attempts + 1), the adapter, `RecordSuccess`, `RecordFailure`. The adapter has
three outcomes: `Taken`, `Refused`, and `AnswerLost`, taken with the answer
lost, which the adapters report as a failure. `seen` and `route` are the fields
of the snapshot `findMany` returned: the last attempt is recognised from it, not
from the row. A refused post that is retried is due again after its back-off
(`due' = FALSE`, then `FallsDue`). `DbError` is a query that throws (the loop
logs it and goes on); `Crash` is the process, after which rows stay as they are.
People call `Create`, `Reschedule`, `Move`, `Cancel`, `PublishNow`;
`SetKillSwitch` and `SetPaused` change the settings row. `fate`, `late` and
`human` are history and bounds: they record causes ("overlap", "lostReply",
"human", "died", "moved") so that a property can say a bad outcome has one of
its known causes and no other.

**EmailPipeline.** Like it, with three differences of the code: a message is not
marked before it is handed over, nothing in the loop catches (`TickThrows` drops
the rest of the batch), and `cancelEmail` reads and writes in two steps
(`ReadToCancel`, `WriteCancel`). `hold` abstracts `holdUntil` to none, running
or expired.

**AgentTasks.** Executions are ticks of `processAgentTasks` or directives run at
once. Tasks are numbered by `createdAt`, because the worker takes the oldest.
`CheckHalted`, `Claim`, the run (`BeginRun`, `StepCheck`, `Think`, then one
tool: `UseTool`, `MoveTask`, `CreateTask`), `Reread` and `Close`. `executeTool`
does not look at the switch, so `Act` does not. What a tool throws is an
observation for the model; what the claim or the close throws ends the tick
(`Throws`).

**AgentTools.** The same run seen from its record. Each tool is what it checks
(`ChecksArguments`, `LooksRowUp`), whether it throws and whether it works;
`CallTool` and `LogAction` are two writes, of which the second may be lost and
is then tried again as an error. `OpenRun`, `CloseRun`, `CountStep` and
`LogFinish` are the others. `MaxLosses` writes are lost.

**AgentSettings.** `consumeTokenBudget` as four steps: `Read`, `Reset` of an
expired window in an update of its own, `Check` against what was read, `Grant`
by the atomic increment. `update` is `CheckUpdate` (guard against the row read)
and `WriteUpdate` (only the fields of the call). The rails `canPublish` reads
are in `ContentPublishing`.

**Planning.** A call is the list of awaited steps it has left. Every way to an
agent goes through `ensureDefaultAgents`: `Look`, then `Upsert` for the role
with what was read. `DailyTick` reads the hour, the switch and whether there was
a plan (`Due`), and starts a run; `Directive` makes the AI Operations project
when there is none. `Deploy` is a new version of the platform's prompt.

**ContentGeneration.** One call of `generate` and the job around it. `Submit`
queues it or runs it inline; `BeginRun` starts from nothing; `CheckSwitch` and
`Charge` are the two rails; then the stages in the code's order, each of which
asks the usable vendors in turn: `VendorAnswers`, `VendorHiccups` (a transient
error of a text call, retried by `generateTextResult`), `VendorFails` (on to the
next one) and `NothingToAsk`, where the stage degrades. `Replies` says what a
stage takes for an answer: only an error counts as a failure of a text call, so
an empty text is an answer there and nowhere else. `pipeline` is the record that
is stored with the draft. `IoFails` are the calls that nothing catches, and a
JSON `null` is the one answer that throws. `Save` inserts the draft, `Finish`
completes the job, `WorkerDies` and `Throw` start it again, within their limits.
`silent` (the vendors that failed a stage of `Graded`) and `lateDeaths` are
history.

**Scraping.** Workers over one cursor (`Take`); each hop is `CheckAddress`, the
origin's rules (`RobotsAllows`, `LoadRobots`), and a `Response`, which may be
a redirect to another page. `asked` is what `RobotsRespected` is about. The rules
of an origin are the set of pages they disallow, as `parseRobots` has understood
them: groups that share `User-agent` lines, wildcards and `Allow` lines are not
modelled, and nothing is said about them.

**MediaJobs.** One picture or video through the models of both vendors:
`SubmitJob`, `Wait` by ten seconds, `VendorEnds` at any time, `Fetch`, `TooLate`,
`GiveUp`; a picture is stored afterwards (`StorePicture`), and what a broken
download left is removed, or not (`CleanUp`: a failure is swallowed). `RunEnds` is
a worker that dies anywhere, or an exception where nothing catches it; the job is
run again from nothing, into a new file. `given`, why each model was given up, is
history, and so is `past`: what a run that was cut short had ordered and left on
the disk.

**Channels.** Accounts with `updatedAt`, by which they are ordered;
`ReadAccount`, `Verify` and `Flag` of the health check, which marks what
belongs to the account it read first. **BrandImport.** `ReadSite`, which keeps
the fields it is sure of, `ReadProfile`, `Persist`, field by field, against
`EditProfile`. `UrlField` is the one field that is written without a look at what
is there (`Written`).

**Assistant** and **Insights** are the two halves of `modules/ai`: conversations
in the memory of the process, which a restart loses, with the bubble that shows
one; and the single questions, each a list of reads, what it takes of the model's
reply (`Takes`), and its own answer otherwise (`Fallback`), which throws where
what was sent is not `sound` and nobody has looked (`Unchecked`: a summary of no
text, a number of tasks that no array can have).

### Who may do what

**MembershipCache.** A lookup is a request in `TenantGuard` or a join message in
the gateway: `Get` from Redis, `Query` on a miss, `Set`, `Decide`. A change
writes the row (`Change`) and then deletes the entry (`Invalidate`), which may
fail silently. `legit` records what each lookup may go by: any value the row had
since the lookup began, and the old one while a change is in transit.

**Requests.** The guards in the order they run: CSRF (`Arrive`), `JwtStrategy`
with its cache (`ReadUser`, `StoreUser`), `PassRoles`, `Admit` of `TenantGuard`,
`Handle`. `Objects` are the user objects: `Attached` says what a guard writes
into the one it holds, and `Sharing` who holds the same.

**Sessions.** Tokens are numbered as issued. A request carries the cookie its
browser held when it was sent. `Find` and `Rotate` are the two database calls of
`refreshTokens` and `Store`, `CleanUp` those of `storeRefreshToken`; `Rotate`
fails when the row is gone because the code uses `delete`, not `deleteMany`.
`Ask` and `SendRefresh` are the interceptor of `frontend/src/services/api.ts`.
`session` names the sign-in a token descends from.

**SignIn.** One account: `CheckLock`, `Lookup`, `CountFailure` and `LimitWindow`
(the increment and its expiry, two calls), `ClearFailures`, `Open`; the second
factor with `ReadFactor`, `SpendCode` (the whole list is written back) and
`ConsumeChallenge`; links with `CheckLink`, `UseUp`, `Redeem`, and the
transaction of a reset (`CloseAll`). `opened` stands for the sessions, by the
password they were opened with. `Locking`, `Factoring` and `Linking` are three
parts of `MCWorkplace`.

**LinkPages.** The same links from the pages that ask for one and follow one, in
several tabs, with `CallFails` anywhere, lost mail and closed tabs.

**Organizations.** `CreateOrg` and `AddFounder`, `Invite` with `FindMember`,
`AddUser`, `AddInvited`, and the two operations that find a row and write it by
its id later. `Interrupt` stops a call between its writes.

### Rows

**Workspace.** One organization. An operation is a record: which rows it reads,
in which order, and the one write it ends in (`Make`, `ChangeRow`, `Drop`).
A row knows what it hangs on (`up`), its kind, its place among its siblings,
whether it is closed and dated, and whether it is the main one. Eleven services
are sets of such operations (`Tasks`, `Checklist`, `Projects`, `Hours`, ...).
`shaky`, `told` and `gaps` are history: written on an outdated reading, made
closed, or with a sibling removed.

**Documents.** One document and the calls on it. `StoreFile` writes the bytes,
`InsertDocument` the row; for a new version `InsertVersion` and `ReplaceFile`
follow in this order. `WriteFails` is the catch: the write did not happen, or it
did and its reply was lost; then `Undo` removes the file, or fails to. Files are
numbered as they are written, because the driver gives each a name of its own.
`DeleteDocument` removes the one row only: the schema says `onDelete: NoAction`,
which in MongoDB is no check at all. `contents`, `unheard` and `excused` are
history.

**Billing.** Two parts that share no state. `TakeNumber` is the atomic increment
in `InvoicesService.create` and `TakeNumberForQuotation` its copy in
`convertToInvoice`; `MakeInvoice` meets the unique index. `InsertPayment`,
`ReadInvoice` and `Post` are the three calls of `PaymentsService.create`, which
writes sums computed from what it read; `SetStatus` is a person, by `update`,
`delete` or `markAsSent`. `dropped`, `overlapped` and `byHand` are history.

**Reports.** A report is a set of figures, each a query answered when it likes
(`QueryFigure`), against `Pay`, `Refund`, `Approve` and `MoveRow`. Dates are a
month and a day; `SetMonth` does what JavaScript's `setMonth` does to a day the
month has not. **Seed.** The script's steps in their order, row by row, stopped
anywhere (`StopSeed`) and run again, against people who make invoices
(`NumberInvoice`).

### The browser

**Dashboard.** One tab with one page, a record: chains of lists it loads one
after the other, when it shows a spinner, what it does after a write (loads
again, patches the list, rereads, or shows it at once and puts a snapshot back
on failure), and which lists it misreads. The record also says whose rows a list
has (`Owner`: the leave requests are those of all organizations, the running timer,
the attendance and the profile are the user's), whether the page is about one row,
which may not be found (`single`, `Missing`), whether it asks for the organization
it was rendered with (`named`, `Sender`), and what events do: put a line into the
agents' feed (`Event`) or have a list read again (`Wake`). A load carries the
organization of `localStorage` when it was sent (`kept`), which another tab may
change (`OtherTab`). `ServeLoad`, `TakeLoad` and `FailLoad` are the server's and the
page's halves of a request; `trouble` names the first cause for which a page may
be out of date. Of the tasks page the project its box has `selected` is followed:
what it asks for or creates is about that project, in the name of the
organization of `kept` (`About`, `Selects`), and after a switch the two may be of
different organizations (`Strays`, "astray").

**Shell.** The tab around its pages: `AskMe` and the answer that whoever asks
meanwhile shares (`Awaited`), the guards (`Guarded`), signing in by any page,
`Leave`, `SwitchTo`, `CompanyCreated`, and the socket's connection as a function
of the organization and account (`Reconnect`, `Handshake`). `cause` is as
`trouble`.

**Gateway.** Connections are numbered; `Connect`, `Verified`, `Rejected` and
`Lose` are the handshake, whose verification is awaited, so a connection may be
gone before it is recorded; what was emitted on a lost one is lost with it, or
had been kept until there would be one. Handlers work on one channel:
`JoinChannel` and `ReadHistory`, `EmitHistory`; `CheckAuthor`, `CreateMessage`,
`Broadcast`; each ends without a word where the check of the membership throws
(`CheckThrows`). `chatLog` has the rows in their order, `Backlog` of them from
before; a history is the `HistoryLimit` newest, and `Older` what it leaves out.
`view` is what each open chat page lists, and goes with the page.

**Overlays.** `Type` restarts the palette's timer (`TimerAfter`), `Search` sends
what was typed as the URL makes the server hear it, `ListArrives` and
`SearchFails` take the answers in any order. Toasts are added with the next id
and a timer each (`Emit`, `Push`) and go by `TimeIsOver` or `Close`.

## 3. Runs

| Run | Checks | Result |
|---|---|---|
| `content_faults` | a PUBLISHED row was posted and PUBLISHING has an owner (`OutcomeIsTrue`); a duplicate has a cause; cancelled stays cancelled; implements `Outbox` | holds |
| `content_rails` | the daily cap is missed by less than the number of publishers; one post per execution after the switch | holds |
| `content_liveness` | every scheduled item settles | holds |
| `email_pipeline` | a duplicate has a cause; the first hold is cancellable; implements `Outbox`; the queue drains | holds |
| `agent_tasks` | one tool call after the switch; an IN_PROGRESS task has a runner; a concurrent run has a cause | holds |
| `agent_liveness` | every task is picked up and let go | holds |
| `workplace` | see below | holds |
| `services` | see below | holds |
| `agent_starvation` | every task is picked up, although an organization is halted | violated |
| `membership_revocation` | revocation takes effect at once | violated |
| `session_refresh_race` | a refused refresh means the session is gone | violated |
| `document_history` | a row names every file the document has had | violated |

The types of the first three modules are not checked by their runs but proved
(section 4).

### What `workplace` shows

| Property | Modules | Says |
|---|---|---|
| `WorkplaceTypeOK` | all five | types |
| `OneTokenPerSession`, `EndedStaysEnded`, `CookieIsHonoured` | `Sessions` | a session is neither copied nor brought back; a browser's cookie is accepted, but for a lost answer or an ended session |
| `LockHasEnd` | `SignIn` | a count of failures expires, unless the call that sets the expiry was lost |
| `OneTimeMeansOnce` | `SignIn` | links and backup codes work once, unless two requests had both found them good |
| `ResetClosesSessions` | `SignIn` | after a reset no session of an older password is open, but for logins past the comparison |
| `TabIsCurrent` | `Dashboard`, `Shell` | a page at rest shows the selected organization with the writes made on it, in every list but the feed, and in those that are nobody's the rows of everyone; the tab shows the account of the cookies; each unless a named cause came first |
| `SiblingsApart` | `Workspace` | siblings have different places and one is the main one, unless written on an outdated reading, placed by hand, or beside a removed one |
| `MarksAddUp` | `Workspace` | what any of the ways to close a row has closed has its date; an item is ticked when it was toggled an odd number of times |

### What `services` shows

| Property | Modules | Says |
|---|---|---|
| `ServicesTypeOK` | all twenty | types |
| `SettingsHold` | `AgentSettings` | the day's tokens stay below the budget plus what runs read together; auto-send has an allowlist, but for updates that crossed |
| `CacheCoherent`, `AdmitsCurrent` | `MembershipCache` | an entry is the row, or a change or a lost deletion explains it; a request and a join go by a membership that held while they ran |
| `CallersAreKnown` | `Gateway`, `Requests` | the gateway remembers open connections; a handler acts for its request's organization, passed its role's gate, and the cached user is the row but for thirty seconds and two crossing misses |
| `RecordsAreTrue` | `ContentGeneration`, `AgentTools`, `Reports`, `Insights`, `LinkPages` | what a draft's record claims was done; a tool's work is on record; a run is closed; figures agree, but for writes in between; bars and trends are of their months; an answer is about rows that were there, and an error where nothing is read is of input nobody can use; a page of a link tells what the server did |
| `DraftsExplained` | `ContentGeneration` | more than one draft per request needs a worker that died late |
| `DocumentIsWhole` | `Documents` | a document's file exists and is that of a listed version |
| `LeftoversExplained` | `Documents`, `Organizations`, `MediaJobs`, `Seed`, `LinkPages` | files without a document, organizations without an owner, accounts nobody registered, media paid for and not used, also by runs that were cut short, broken files, numbers that are taken, rows seeded twice and links used up unheard have their causes |
| `InvoicesAddUp` | `Billing` | no two invoices take one number; an invoice says what its payments sum to, but for payments that overlapped, lost writes and writes by hand |
| `ScreensAreTrue` | `Gateway`, `Assistant`, `Overlays` | the chat lists each stored message once, but for those older than a history goes back; answers stand after their questions; the palette lists what its text finds; a toast stays its time |
| `PlannedOnce` | `Planning` | the daily tick starts one plan a day, unless two ticks had both found none |
| `EditsStay` | `Planning`, `BrandImport`, `Channels` | an edited prompt and a profile field a person wrote (any but the website's address) are kept, unless the edit fell between reading and writing; an account marked expired is |
| `RobotsRespected` | `Scraping` | text comes from pages that the rules as understood allow, or from origins whose rules could not be loaded |

### Bounds and why they are enough

Two executions are the least that overlap, and every race above is between two
of them; what three or more do is covered by the proofs, where there is one,
which hold for any number.

*Pipelines.* Two items with batches of one make the batches differ, so an item
can be left out of one; three items with batches of two make the second post of
a batch happen after the switch and the cap. `MaxAttempts = 2` has a retry and a
last attempt. One human call can hit every step of every execution; a second one
is only needed to switch something back, which `agent_liveness` and the pause of
`content_liveness` have. Copies are counted to "two or more", which is all the
properties tell apart. `agent_starvation` uses the code's own batch of two.

*Services.* A budget of 3 with estimates of 1 and 2 makes exact fit, refusal and
overshoot all happen. One user is enough for the cache because entries of
different users do not touch. Two vendors are all there are; two attempts, one
stall and three tries of a text call are the code's and Bull's own numbers.
Three files are an upload and two versions, or a version and a retry. Payments
up to 5 against a total of 3 make partial, exact and excess payment happen. In
the chat, two connections are two clients, or a loss and a reconnection of one;
a history of the one newest row, with one row before the run and one message in
it, has a row it leaves out and one it does not, and the theorem is for any
number; both clients are members of the channel or neither is, because a handler
looks only at the one it serves. Three pages of two sites with one redirect have
a redirect within and across sites, and two addresses are one for each worker or
both for one. Months of 28, 30 and 31 days with reports on a 15th and a 31st
have both a month that has the day and one that has not. Two conversations and
three questions make one be cleared while an answer is awaited and a question
follow an answer. A profile of three fields has the one it must have, another
that is read for, and the address. A job of two runs is a run and its
repetition. Three searches make the middle answer come first or last; the texts
are one the URL keeps, one it cuts, and one that is too short. Two runs of the
seed are a run and its repetition. The other bounds are two of everything.

*Workplace.* Two tokens are a sign-in and its rotation, or the sign-ins of two
browsers; the theorems of `SessionsProofs` hold for every number. Two failures
lock the account, a third is counted under the lock. One link, one set of two
backup codes and two challenges make every pair of submissions cross. Two
organizations, one of them without projects, are what the tasks page tells
apart, so that any other page is first in the one that has some; three runs of
a page's loads are the first, one after a switch and one after a write. Three
rows are a parent and two siblings. A page and a tab are followed until they
are first out of date: what is true after that was true of nothing.

In both, one variable `part` says whose module moves, and the others rest at an
initial value. `VIEW` therefore compares two states by `part` and the variables
of that part alone: `WorkplaceNext` and `ServicesNext` leave all others
unchanged. Calls, and browsers, are interchangeable (`SYMMETRY`): no module
compares them with anything but each other.

Every bound is a constant whose name begins with `Max` and whose comment says
"bound", which the specifications have and the code has not; `Events` names the
faults and external changes a run allows. Everything else (batches, attempts,
caps, steps, budgets) is a constant of the code. `CHECK_DEADLOCK FALSE` is set
where such a bound lets the system come to rest: all items in a final status,
all files written, a request done.

### Fairness

`FairSpec` is used by the liveness runs and by `email_pipeline`. The clock
(`FallsDue`, `HoldExpires`), the cron (`Tick`) and the next step of a running
execution are weakly fair: the scheduler fires every minute, and every awaited
call returns, because adapters abort after 15 seconds and the database driver
times out. People, faults, the kill-switch and the pause are not fair. Retries
need no strong fairness: `MaxAttempts` ends them. `QueueDrains` assumes that
crashes and exceptions stop at some time (`<>[][~Crash /\ ...]_vars`): the
sender drops the rest of the batch at every exception, so one that never stops
starves the queue, and one of several messages of paused organizations starves it
too (section 3, divergences): `QueueDrains` speaks of neither, nor do
`TasksPickedUp` and `ClaimedTaskSettles` of halted organizations, of runs that
always fail or of workers that die, after which a task is nobody's
(`TaskHasRunner`). The modules of `workplace` and `services` state safety only:
a request nobody answers is a browser that waits, and the code promises nothing
for it.

### What the violations show

- `agent_starvation`: the worker takes the two oldest tasks of all
  organizations and looks at the kill-switch afterwards. Two tasks of one
  organization with the switch on are taken and skipped by every tick, and no
  task of any other organization is picked up, against "picked up by the worker
  within 2 minutes".
- `membership_revocation`: a lookup reads the row, `removeMember` deletes row
  and entry, and the lookup writes the entry. The removed user is a member for
  every instance for up to five minutes, against "revocation takes effect
  immediately across all instances".
- `session_refresh_race`: two requests answered 401 refresh with one cookie.
  The first rotates it, the second is refused, and the page clears a session
  that was just renewed, against "the session genuinely can't be refreshed".
- `document_history`: `createVersion` adds a version row for the new file and
  replaces the document's `fileUrl`. The first file is then on disk and in no
  row, against "bumps the version, keeping history"
  (`documents.module.ts:149`).

### Divergences met without a run of their own

What the code does and its documents, comments or own evident intent do not say.
Where a property is named, it states the exception.

*Agents and what they send*

- The daily cap ("max 3 posts/day/channel", `docs/AGENT_PLATFORM_README.md:226`)
  is missed by concurrent publishers; `CapOvershootBounded` says by how much.
  The token budget of the same line likewise (`SettingsHold`). The kill-switch
  "halts everything instantly" (`:223`) up to one post per execution and one
  tool call per run (`HaltWithinOnePost`, `HaltWithinOneStep`).
- Queued mail of a paused organization fills the ten-message batch of
  `sendQueuedEmails` the way halted tasks fill the worker's: the run checks
  `QueueDrains` with a batch as large as the queue.
- A cancelled item that a publisher holds is overwritten with the outcome of its
  post (`content.service.ts:339`): `CancelledStaysCancelled` is about items nobody
  holds, and `OutcomeIsTrue` about what is written over the others.
- A second approval of a message already in a sender's hands sends it twice,
  and the hold of the second approval cannot be cancelled
  (`FirstHoldIsCancellable` is about the first).
- Two concurrent updates, one that empties the allowlist and one that turns
  auto-send on, both pass the guard (`SettingsHold` says only so).
- A run of an agent that the kill-switch refused sends its task to review
  although nothing was done (`orchestrator.service.ts:205`); nothing in the
  repository says what review means.
- An edit of a default agent's prompt between the reading and the write of
  `ensureDefaultAgents` is overwritten (`PromptStays`), against the comment at
  `agents.service.ts:75-76`.
- The tool `update_client` always throws: it hands `clientId` to the database. A
  tool whose log row fails is logged again as an error, after its effect; a tool
  that answers `{error}` is logged "ok"; a run stays RUNNING when the brand
  context cannot be read or both closing writes fail.
- The Instagram adapter makes two calls of which only the second is public.

*Generation, pages, models*

- "Every stage degrades independently" (`content.service.ts:60`), but the JSON
  value `null` as an answer makes the parser of the research or the vision stage
  read a field of null, and the run throws.
- "One retry covers transient network/5xx only" (`content.module.ts:30`): Bull
  retries whatever is thrown, the kill-switch's refusal included, and a retry
  charges the budget again.
- "a prompt the model legitimately refused, or an empty answer, is not retried
  elsewhere" (`failover.provider.ts:20`) is so for text only: the other stages
  ask the second vendor whenever the first has no usable result.
- A video whose wait was ended is billed when it is done, and another vendor's
  too; so is that of a worker that died, whose job is run again from nothing. A
  broken file stays where its removal fails, which is swallowed
  (`video.service.ts:62`, all in `PaidMediaIsUsed`).
- The rules of a robots.txt group shared by `User-agent: *` and a line
  `User-agent:` after it are dropped by `parseRobots`.
- "A field already set on the profile is never overwritten unless the caller
  explicitly asks" (`brand-import.service.ts:65`), but `websiteUrl`, which people
  set too (`app/(dashboard)/agents/page.tsx:281`), is written by every import that
  saves (`brand-import.service.ts:324`): `HumanEditsWin` leaves it out.
- A summary of a request without a text, and a number of tasks that no array can
  have, throw in the answers that stand in for the model's (`ai.module.ts:183`,
  `:251`).
- The AI module takes values of a wrong type from the model (only `predictDelay`
  looks), shows its "connect" note for a malformed reply too, takes an empty
  task list for a plan and refuses a price of 0. An account's health and its
  credentials may come from two rows when the newest changes in between.

*Membership and sign-in*

- `acceptInvite` is public, reads the current user, and so always throws: no
  INVITED row becomes ACTIVE. An address that was invited cannot register
  (`PlaceholderHasCause`); deleting an organization leaves its member rows.
- A removed user's open socket stays in the organization's room. A socket that
  sends before its token is verified is disconnected and does not reconnect;
  rooms joined by hand are not joined again after a reconnection. No code writes
  `ChatChannelMember` rows.
- `MailService` swallows failures: the pages say that mail was sent. A link
  whose answer is lost is used up, and the next try says "invalid"
  (`LinksAreSpentOpenly`).
- Logging out with an expired access token is answered 401 and leaves session
  and cookies; an answer that outlives a logout shows the account again; a
  sign-in that joins an older question for the account goes back to the login
  page (`TabIsItsAccounts`).

*Rows, money, figures*

- `convertToInvoice` may be called twice for a quotation, against
  `prisma/schema.prisma:906`. Concurrent payments of one invoice overwrite each
  other's `amountPaid` (`InvoicesAddUp` says when only), and a payment revives a
  cancelled invoice. A failure of `createVersion`'s second write deletes a file
  that a version row refers to.
- The revenue chart of the 29th to 31st has no bar for shorter months and drops
  what was paid in them (`ChartIsWhole` is stated for the other days). The
  profit's trend has the wrong sign after a month of losses. The totals of a
  dashboard come from separate queries and may disagree.
- A second run of the seed doubles clients, leads and projects and then fails at
  the first invoice; a run that dies between the invoices and the counter leaves
  numbers that are taken (`NextNumberIsFree`, `SeedIsOnce`). The transactions
  of `README.md:13` are those of single nested creates.
- Deleting a row leaves what hangs on it. Reopening a task keeps its completion
  date.

*Browser*

- The palette puts the text into the URL as it is, so "R&D" is searched as "R".
  A late answer of an earlier text replaces the list, and results of the former
  organization stay after a switch, against "every page's data effect is keyed
  on it" (`AuthContext.tsx:309`).
- Pages that read an answer one level too deep or too shallow show no rows of
  it: attendance, expense categories and statistics, folders (`misread` in
  `Dashboard`), the header's unread count, the suggested price of a quotation,
  the secret of the second factor.
- The tasks page keeps the old organization's tasks when the new one has no
  projects ("left"), and until the new projects are there it asks for and creates
  tasks under the project selected before the switch, in the name of the new
  organization ("astray"); a switch in another tab changes the organization of
  this tab's requests ("crossed").
- The leave requests of the HR page are those of every organization
  (`hr.module.ts:85`, a `where` without one), and the running timer is the user's,
  whatever the organization (`time-tracking.service.ts:32`): `Everyone` in
  `Dashboard`. The feed of the agents page keeps the lines of the organization
  before (`agents/page.tsx:125`). The API keys are asked for by the organization
  the settings page was rendered with (`settings/page.tsx:25`): after a switch the
  keys of the former one may arrive last ("overtaken"), or be read again for it
  ("astray").
- A chat page lists the 50 newest messages (`events.gateway.ts:270`, and
  `chat/page.tsx` asks for no more). When the check of the membership throws,
  outside the `try` (`:263`), no history comes at all (`CheckThrows`).

## 4. Proofs

Every theorem is for all values of the constants that the named assumptions
admit: finite sets of items and executions, any batch size, any bound. In each
proof module an invariant stronger than the property is shown to hold initially
and to be preserved by every action, one step per action.

| Module | Theorems | The inductive invariant and why it is needed |
|---|---|---|
| `ContentPublishingProofs` | `TypeCorrect`, `PublishedPosted`, `PublishingOwned`, `OutcomesTrue`, `HaltHolds`, `CapOvershoot`, `DuplicatesExplained`, `CancelledIsSafe`, `ContentImplementsOutbox` | A row is PUBLISHED only after `accepted`, so the invariant ties that step to a copy. A publisher past the gate may have posted late once and one before the gate not at all (`LateInv`). For the cap, the posts already counted plus the publishers past the count stay below the bound. As long as an item has no cause to be shown twice, one publisher at most has it, and its only copy belongs to a row the scheduler does not look at, with the outcome still to record or in nobody's hands (`OnceInv`). For the refinement, what is in anybody's hands was released (`HandInv`). |
| `EmailPipelineProofs` | `TypeCorrect`, `InboundNeverSent`, `FirstHoldHolds`, `DuplicatesExplained`, `EmailImplementsOutbox` | A message in a sender's hands is outbound, was approved, and had its hold expire (`HoldInv`); a withdrawn message approved once is therefore in nobody's hands (`OutOfReach`). The row stays QUEUED while the message is handed over; until something with a name of its own has happened to it, what keeps the next tick from it is the one sender with its outcome still to record (`OnceInv`). |
| `AgentTasksProofs` | `TypeCorrect`, `HaltHolds`, `RunnerExists`, `ClaimExcludes` | Late tool calls are counted per step of the run (`LateInv`); an IN_PROGRESS task is backed by a runner past its claim or by a recorded cause (`BackedInv`). |
| `SessionsProofs` | `TypeCorrect`, `SessionsAreNotCopied`, `EndingIsFinal`, `CookiesHonoured` | Every token held by a row, a jar or a request was issued; a session has one token among the rows and the requests that are replacing one (`SessionsOK`). A session belongs to one browser: no other holds or carries a token of it (`OwnersOK`). A new token is known to its own request only, so nobody rotates it before its answer (`FreshOK`). |
| `WorkplaceProofs` | `SignInTyped`, `LocksEnd`, `OneTimeUse`, `ResetCloses`, `SiblingsAreApart`, `MarksAreRight`, `TabTyped`, `TabTellsAccount`, `PageTyped`, `PageTellsOrg`, `TabStaysCurrent`, `WorkplaceTyped` | Of `SignIn`: what a request carries fits the step it is at (`CarriedOK`); a link nobody crossed is in the hands of one request at a time, and one that was used is marked or about to be (`LinkInv`); backup codes are numbered set after set, so those of a new set were never seen (`CodesInv`); a password on its way in is not older than the last reset, or was on its way then (`UnderwayInv`). Of `Workspace`: what a call carries and has read belongs to its operation (`EditorsOK`), every row has an identifier of its own (`RowsOK`), and a position is lower than the number of siblings, but for the exceptions, so that this number is a position nobody has (`PlacesOK`); there are no more rows than were made, and nobody has counted more (`Few`, with `NoMoreThanMade`). Of `Shell`, as long as nothing has gone wrong (`ShellRest`): an answer about the account that nothing has overtaken is about the cookies' account (`AskedOK`), what is shown hangs together with it (`ShownOK`), and whoever waits has a question that is under way (`WaitsOK`). Of `Dashboard`, likewise (`PageFine`): an answer for another organization comes before one for the current one, or is overwritten by it (`OrderOK`); a list is of the current organization, or of everyone where it always is, or will be loaded, or its row was not found (`FilledOK`); the selected project and its tasks are of one organization (`SelectedOK`, `TasksOK`); a row that is shown exists or is being written (`SeenOK`); an optimistic row has its snapshot (`WriteOK`, `AheadOK`); and a write that was acknowledged is shown or in a load that is on its way (`AckOK`). |
| `ServicesProofs` | `SettingsTyped`, `GuardHolds`, `SettingsAreKept`, `MembershipTyped`, `Coherent`, `RequestsCurrent`, `JoinsCurrent`, `DraftsAreCounted`, `NumbersNeverCollide`, `DocumentsHaveFiles`, `VersionsAreListed`, `DocumentsAreWhole`, `RobotsAreRespected`, `PaletteIsRight`, `ToastsStay`, `OnePlanADay`, `EditsAreKept`, `CallersKnown`, `LeftoversAreExplained` | Every update of the settings in flight that no other write has overtaken still sees the row it checked (`GuardInv`). One of the runs that may still charge can do so within the bound with each of the others counted at the largest estimate; once it has charged or died, any other will do (`OvershootInv`, with `OneChargesLess` and `NewcomerFits` for a run that leaves and one that passes its check). What a lookup of a membership is about to write is the row, unless a change has marked the overlap (`ReadInv`); what it goes by is in its `legit` set (`LegitInv`). Every number in use or on its way is below the next (`NumberInv`). A call's file is no other call's and not yet the document's (`FilesAreOwned`), and what it is about to put in the document it has listed (`ListedFirst`). A page that is being requested has had its rules asked (`RobotsInv`), and a URL that was taken is recorded or in a worker's hands (`TakenInv`). As long as nothing has crossed, at most one search is under way, for the text in the box (`PaletteInv`); every toast that is shown has its timer (`ToastInv`). A planner's remaining steps are the rest of one of the calls (`Left`), on a day on which no two ticks have crossed one at most is past `hasPlannedToday`, and no plan of that day is there yet (`DayInv`), and an edited agent is there, so that no call that would track the platform's prompt has looked at it since (`PromptInv`). A health check goes by the expiry of the row it read unless the row has been touched (`ChannelInv`), and an import that has read the profile knows of every human wording but the address, or a person has written since (`BrandInv`). An object of the users' cache that is not stale has the row's role in it, and a request that shares it with none for another organization finds its own there (`RequestInv`); there is always a free object, because there are more than the cache and the requests can hold (`OneIsUnheld`). A connection the gateway has the identity of, or is verifying, is its client's, or ended early (`GateInv`). What a document has had is on record, its file of now included (`LeakInv`). An organization has no rows and one call for it, its creator's, or none after that call was lost; or its founder is an owner, and no call in flight holds the identifier of that row (`IsStanding`, with `RowsAreApart`); nobody else calls for it before that (`CallersFindFounder`). A vendor's work that is running or ready has the request waiting for it, is what is used, or was given up for a reason that excuses it, and what runs that were cut short wasted is one model's (`MediaInv`). What the seed script has passed is there (`PassedSteps`), its first invoice's number lets one run past it (`OneRun`), and undisturbed, the numbers that are taken are those of a run under way, or the counter has passed them (`NumbersInUse`). A link that is used up has a page that reports it or waits for the answer, or the answer was lost (`LinkPagesInv`). |
| `RecordsProofs` | `RecordsTell`, `BooksAreKept` | A stage of a generation that is under way has been refused by every vendor before the one asked, and the later stages are untouched (`RecordInv`, `RunSoFar`). All calls of a run but the last are on record; the last one is, or is to be, or its row was lost (`ToolInv`). A figure that has been read is what the rows gave at a moment since the last write (`ReportInv`), and advice rests on what its call has read at moments it has seen (`InsightInv`, `AskOK`). A page past the write has a used link, and what the link is for was done (`TruthInv`, `TabTrue`). The payments on record cover what the invoice says or is about to say, and those that have not read it yet (`Covered`); they are no more than that as long as none was dropped and no two had read the invoice at once (`Exact`, both in `BooksInv`). Facts on sums over a finite set are proved by the least counterexample (`Least`, `Fewest`), in place of an induction. |
| `ScreensProofs` | `ScreensTell`, `ServicesTyped` | A question in flight is in its conversation once at most, and its answer goes after it (`TalkInv`, `Holds`, `Placed`). A chat message waits in one place (`Once`); one that is broadcast is stored, or may be missed (`Fate`); what is under way while a page is filled may be missed or doubled (`CrossedInTime`); the rows a page has read are all there were, but for older ones (`ReadsRight`), and a filled page lists them in their order (`ListIsRight`). The types of the twenty services follow from these invariants and those of the two modules before; where they do not, a bound is added that the steps keep: days begin at one (`DaysInv`), a user object stays with a request until it is answered (`TurnsInv`), waits, wordings and seedings are counted up to their bounds (`SleepsInv`, `WordsInv`, `RunsInv`). |

`EditsAreKept`, `CallersKnown`, `LeftoversAreExplained`, `RecordsTell`,
`ScreensTell` and `ServicesTyped` are about all of the services together: what each
module's steps preserve, a step of any other leaves as it was (`PartsOfServices`).
`TabStaysCurrent` and `WorkplaceTyped` say the same of the parts of `MCWorkplace`
(`PartsOfWorkplace`).

Assumptions are the named `ASSUME`s at the top of the modules; TLC evaluates
them in every run. Finite sets of runs and requests, natural bounds, tables
with the right domains, and names apart from the words the models use ("none",
`Idle`) are all they ask for. That the
requests in flight are finitely many is what always leaves the users' cache a
free object; that the seed script has at least one client and one invoice to
create is what its numbers begin with.

Every invariant that a run checks is stated by one of these theorems, or is a
conjunct of one that is. Only model-checked: all liveness (`EveryItemSettles`,
`QueueDrains`, `TasksPickedUp`, `ClaimedTaskSettles`), which the prover's backends
do not reach under fairness. The four properties that do not hold (section 3) have
their counterexamples from TLC.
No module declares a recursive operator.

## 5. Abstractions to know about

- Time is the events it causes: due, hold expired, midnight, token expired, a
  deadline passed. `Channels`, whose order is that of its times, has instants.
- A database write that throws is taken not to have been applied. (A write that
  was applied and whose answer was lost is a crash right after it.)
- Prompts, texts, generated media, addresses and audit rows have no effect on
  the modelled state and are left out. A socket message is modelled where a page
  keeps what it says (the chat, the agents' feed) and where it makes a list be read
  again (`Wake`).
- An app instance is not a variable: executions, lookups and requests are, and
  any of them may belong to any instance. `Requests` is about one process,
  because its cache is.
- Bad outcomes are stated with their causes: a history variable is set by the
  step that makes the outcome possible, and the property says that it happens
  for no other reason. A cause is set as narrowly as the race it names.

## 6. Plan

Done, in this order: `Outbox`, `ContentPublishing`, `EmailPipeline`,
`AgentTasks`, `AgentSettings`, `MembershipCache`, `Sessions`,
`ContentGeneration`, `Documents`, `Billing` and their proofs; then `SignIn`,
`Gateway`, `Planning`, `Scraping`, `Channels`, `BrandImport`, `Assistant`,
`Dashboard`, `Shell`, `Workspace`, `Requests`, `AgentTools`, `Reports`,
`Organizations`, `MediaJobs`, `Seed`, `LinkPages`, `Insights`, `Overlays`; the
proofs of `Scraping` and `Overlays`; then the proofs of the two
`DuplicateHasCause`, of `SettingsHold`, `CookieIsHonoured`, all of `SignIn` and
`Workspace`, `PlannedOnce`, `EditsStay`, `CallersAreKnown` and
`LeftoversExplained`; last those of `RecordsAreTrue`, `InvoicesAddUp`,
`ScreensAreTrue` and `TabIsCurrent`, and of the types of the two composed
modules.

What would come next:

1. Composition: publishers, workers and runs over one settings row, in place of
   the rails each module has now; generation charged from the same budget; a
   tab of `Shell` with a page of `Dashboard` in it.
2. Liveness of the tab: a page whose requests are answered stops waiting.

## 7. Not modelled, and why

- The audit log, health, configuration, exception filters, request ids and
  logging: one insert per request, or no state.
- The Prisma and Redis clients: a call that fails is an event of the module that
  makes it.
- Single writes without a protocol: settings and profiles, API keys, folders,
  marking all notifications, the lists of sessions and devices; the public blog,
  which only reads.
- Super-admins and project rooms, which differ from what is modelled by one more
  condition.
- Refunds, which change the payment's row only, and negative and fractional
  amounts. The S3 driver, of which there is only the interface. Employees'
  productivity.
- A Bull lock that is lost while the worker lives (a second run of one job at
  once): it depends on the load of the process.
- The syntax of robots.txt, HTML to text, prompts, what a model says, what an
  adapter sends, what a page draws, forms and filters: data.
- OAuth's other side and the delivery of mail belong to others.

## 8. Running

`tlc -config MCWorkplace.cfg MCWorkplace` checks a run, and `tlapm
SessionsProofs.tla` a proof module. `services` (900 000 states) and `workplace`
(two and a half million) take one to three minutes; the others take seconds to a
minute and a half. `PROJECT.json` lists every run with its module and
configuration, and maps each definition to the lines it models.
