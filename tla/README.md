# A verification development for telegram-task-bot

The program watches Telegram group chats, stores their messages, asks an LLM
for the tasks people agreed on, shows these *candidates* to an admin as cards
(in Telegram or in a web console), and turns the approved ones into work items
on a board.  This directory holds TLA+ modules that model it, TLC
configurations that check them on small instances, and TLAPS proofs that some
of the results hold for every value of the constants.

Paths below are relative to `src/`.  `PROJECT.json` maps each definition to the
lines it translates.

## 1. Inventory

| Component | State it keeps | Operations | Module |
|---|---|---|---|
| bot, capture (`bot/.../telegram_app.py: _capture`, `ingest.py`, `state.py`) | one task per update; Redis keys `botcfg`, `botpause`, `botbuf`, `botlock` | the two configuration gates, the pause gate, push, debounce lock, enqueue | Capture |
| bot, chat configuration (`onboarding.py`, `telegram_app.py`) | `botcfg`, `botpause`; the question a chat shows | configure, remove, pause, resume, manual sync; joining and leaving chats, storing missing titles | Capture, ChatConfig |
| bot, cards in the review chat (`telegram_app.py: _notify_consumer`, `_admin_review`) | the candidate in hand | dequeue, fetch, send; send the pending ones on a tap | Capture |
| core, Redis queues (`core/.../queue.py`) | `aiwip:jobs`, `aiwip:bot:notify` | push, blocking pop | PipelineState |
| worker, job loop and sync (`worker/.../consumer.py`, `sync.py`, `connectors/bot_api.py`) | `sync_runs`, `sync_states`, `messages` | drain, store, fail, requeue | SyncWorker |
| worker, normalise, context, extract (`normalize.py`, `context.py`, `extract.py`) | `messages.processing_status`, `candidates` | classify, choose what the LLM is shown, store its answer, mark | SyncWorker |
| worker, assignee resolver, prompts, LLM client | none | pure functions and one HTTP call | a choice in SyncWorker |
| api, review (`api/.../routers/candidates.py`, `_assignees.py`, `core/.../promotion.py`, `audit.py`) | `candidates`, `candidate_assignees`, `work_items`, `audit_logs` | edit, approve, reject, duplicate | Review |
| bot, cards and webhook (`handlers.py`, `dispatch.py`, `cards.py`) | the cards shown | guard, open, pick, priority, `/title`, `/due`, push | Review |
| web, review page (`web/app/review/page.tsx`) | the list it fetched | its requests | Review |
| api and bot, linking and invites (`routers/auth.py`, `telegram_link.py`, `invite.py`; `/link`, `/join`) | users, sessions, single-use codes, attempt counters | issue, throttle, redeem, register, log in | Registration |
| api and web, assignees (`routers/assignees.py`, `web/app/assignees/page.tsx`) | `assignees` | create, save the form, attach an account | Registration |
| api and web, board (`routers/work_items.py`, `web/app/board/page.tsx`, `Toast.tsx`) | `work_items.status`; the cards shown, the toasts offered | move, batch, retry, undo, change in the drawer, load | Board |
| api and web, drawer of a work item (`routers/work_items.py`, `routers/labels.py`, `web/app/board/page.tsx`) | `work_items`, `work_item_assignees`, `labels`, `work_item_labels`, `audit_logs`; the form shown | edit, change status, reassign, create and assign a label | WorkItem |
| bot, admin panel (`admin.py`, `telegram_app.py: _admin_*`) | none; what one screen has read so far | menu, tasks, review, history, chats | Panel, Overview, ChatConfig |
| api, analytics (`analytics.py`) | none | count, funnel, distributions | Panel, Overview |
| api, login with a password, users, audit list, evaluation, observability | single rows; none | create, list | no |
| bot, digest; core, models, health; web, other pages | none of their own | rendering | no |

**How they interact.**  The bot and the worker never call each other: the bot
pushes a record on `botbuf`, and one job per debounce window on `aiwip:jobs`;
the worker pops the job, drains the buffer, and pushes candidate ids on
`aiwip:bot:notify`, which the bot pops.  The bot and the web console call the
API over HTTP; API and worker share Postgres.  The only locks are Redis' single
commands, Postgres' row locks and unique constraints, and the debounce key.

**What is hard.**

- aiogram runs a task per update and each Redis call in a thread: capture
  tasks of one chat overtake each other and the worker at every call.
- The queue pops are destructive and nothing is acknowledged: a crash, an
  error or a failed commit loses what was popped; a redelivered update is
  pushed twice.
- One worker serves all chats, but normalises messages of any of them.
- The debounce is a lock with a time to live, taken on its leading edge.
- Each API request is a READ COMMITTED transaction that checks a status on the
  row it loaded and writes later; two requests lock the same rows in different
  orders.
- The bot acts after the API's commit (the webhook) and on cards rendered in
  the past.
- A screen or a form is made from several reads; what is committed in between
  is in one of them and not in the other.

The list of hazards, each at its line with the properties that would notice it
going wrong, is in `PROJECT.json`.  Some more have no property: a chat removed
between the check and the push is captured once more (`ingest.py:58`); updates of
the bot's membership handled out of order leave a group to ask again at its next
message (`telegram_app.py:951`); the webhook is not called when the bot crashes
after the commit (`handlers.py:92`); `/title` and `/due` patch a candidate of any
status (`telegram_app.py:786`); a mention that was not resolved keeps a candidate
ambiguous after somebody was picked (`schemas.py:125`).

**What makes each part correct.**  Capture and worker: the watermark is the
last stored message; messages are stored once, in order; each failure leaves
countable traces only; retries end; the notify queue announces no
candidate twice and drops none but by a crash or an error; a linked candidate
gets its card.  Review: one work item and one approval entry per
approved candidate; an approved candidate does not change; assignees, flags and
audit trail agree with each other; one webhook call; no deadlock for ever.
Registration: one account per Telegram user, one login per code, no session
without its account, no counter that locks out for ever but by an error.  Board: the page shows
what the table holds, or a named disturbance explains why not; an Undo restores.
Work item: nobody linked twice, an audit log that replays, no label left over,
an edit that changes what its user typed, no deadlock for ever.  Panel:
a screen made of several reads names and counts nothing twice and hides nothing
but by its limits; a removed chat stays closed until someone opens it.

## 2. Modules and code

**PipelineState** declares what bot and worker share.  A Telegram message is a
pair (chat, id); what it says is abstracted to `SentAt`, `ReplyTo` and
`Outcome` (what normalisation makes of it).  The buffer is a bag, because the
drain reads all of it and sorts by id.  `extracted` counts, for each message,
the usable LLM answers that covered it: bookkeeping, not code.

**Capture** has one action per Redis call of a capture task:
`CheckConfigured`, `CheckPaused` (`_capture`), `CheckConfiguredAgain`, `Push`,
`TryLock`, `Enqueue` (`ingest_message`).  `HandlerFails` is an exception in any
of them; `BotCrash` restarts the bot: tasks are gone, and Telegram delivers
again what was not confirmed.  `Configure`, `Remove`, `PauseOrResume` and
`ManualSync` are the admin's.  `TakeNotify`, `PostCard`, `CardFails` are the
notify consumer: `cards` are the cards it has posted.  `ShowCard` is the second
way a card gets into the review chat: each tap on the panel's review screen
posts up to ten pending candidates there (`_admin_review`,
`telegram_app.py:213-235`, `578-585`), whoever posted them before.  One action is
one card, kept in `shown`.  The docstring of the consumer
(`telegram_app.py:482-485`) calls it the "one surfacing path for MVP" and fears
to "double-surface" with the digest: with the review screen there are two paths,
and a candidate's card is in the chat as often as somebody taps.

**SyncWorker** is `process_job`, one action per Redis call or commit: `Dequeue`
(BRPOP), `StartRun`, `ReadBuffer`, `DeleteBuffer` (LRANGE and DELETE are two
calls), `SaveBatch` or `SaveRejected` (the commit, or the unique constraint
broken by a record pushed twice), `RecordFailure`, `Normalize`,
`ExtractCandidates` or `ExtractNothing`, `NotifyNext`, `NotifyDone`,
`MarkAnalyzed`, `Requeue`.  `Fetched`, `Unstored`, `Recent`, `Segment`,
`Context` are the filters of `fetch_messages`, `run_sync` and `build_context`.
`SyncFails` is an error `run_sync` handles; `NotifyFails` one under the
announcements; `JobAborted` one nobody handles, which ends the job;
`WorkerCrash` the process.

**MessageLedger** is the abstract specification: per chat, messages are stored
in batches above everything stored before, then classified, then marked
analyzed; nothing is deleted or taken back.

**Pipeline** composes Capture and SyncWorker (a step of the whole is a step of
one of them; they share the variables of PipelineState), states the
properties, and instantiates the ledger by name.

**Review** is the life of candidates after the worker: a thread of the API per
request, one action per SQL statement another transaction can get in front
of.  What a request has locked follows from how far it is (`HoldsRow`,
`HoldsPeople`); a statement that needs a locked row is disabled until the lock
is gone; `BreakDeadlock` is Postgres failing one of two requests that wait for
each other.  SQLAlchemy writes only the columns whose value differs from what
was loaded: `Written(loaded, new, now)`.  `FromWeb`, `FromCard`, `FromCommand`
are the three sources of requests with the bodies each can send; `Guard` the
bot's replay guard; `Push` the webhook call; `Fails` an error or crash
anywhere.  Each assignee row records the request that inserted it, because two
rows that say the same are two rows for the DELETE.

**Decisions** is the abstract specification of Review and of what the panel
relies on: a candidate has one status; an approval changes it and makes the
only work item of the candidate in the same step; no work item is taken back.
`ImplementsDecisions` instantiates it with the statuses of `row` and the
candidates of `items`.

**Registration** has one action per Redis command or per SQL statement others
can get in front of: `Count` (INCR) and `OpenWindow` (EXPIRE) for each of the
two counters, `Take` (GETDEL), `FindByUser` or `FindByTg`, `Insert` (the flush
of the user, which waits for an uncommitted one with the same address),
`Commit`, `Write`, `CreateSession`.  `AddPerson`, `SaveForm` and `Attach` are
changes of the list of assignees; the client programs never send `user_id`, so an
account is attached over the API and never detached in the model.  Each new
user and assignee is numbered by the request that creates it.

**Board** runs, in each slot of `Ops`, one asynchronous function of the page.
An action of the user changes the cards at once and posts one item after the
other: `Read` and `Commit` are the API's SELECT and UPDATE (no UPDATE when the
status read is the new one already), `Answered`, `Refused` and `Lost` what the
page learns; a lost request may still commit (`LateCommit`).  `Reloads` and
`Offers` say which function calls `load()` and which toast it shows, with what
its button has captured.  The GET is served (`ServeBoard`) and shown
(`ShowBoard`) in two steps.  `disturbed`, `clean`, `before` and `calm` are
bookkeeping for the properties.

**WorkItem** is what happens to one work item in the drawers of several
browser tabs, each running one function at a time.  As in Review an action is a
statement others can get in front of: `Load` and `CommitEdit` (edit_work_item),
`See` and `CommitStatus` (change_status with its visibility check),
`Snapshot`, `Find`, `Delete`, `Insert` for each assignee and `CommitReassign`
(reassign_work_item), `FindName`, `Create`, `Created`, `FindTag`, `Tag`
(createAndAssign and assignLabel: two requests, a unique name and a unique
pair).  The DELETE locks the rows it finds and the INSERT waits for whoever
may still free or take its pair (`WaitsFor`); `BreakDeadlock` fails one of two
that wait for each other.

What a drawer sends is not what it shows.  `StartEdit` fills the form from the
detail on display when Edit is pressed (`page.tsx:426`), also while another
function runs; `SaveEdit` sends that form with what the user has typed since,
whatever a GET has put on display meanwhile; the due date has lost its time of
day (`Resent`).  Each function takes along, as `call`, what its closure captured:
the form, or the detail that `changeStatus` displays with the new status when it
has succeeded (`Moved`), which may bring old columns back on display.  A
function that throws leaves a toast (`Error`), and `Retry` calls it again with
that `call`, not with what the page shows by then.  A title that is null
(`Blank`) becomes the empty string of the form, and cannot be sent: Save is
disabled without a title (`page.tsx:564`); of the other fields the empty string
is sent as null.  What a drawer starts while it is busy (a Retry, Enter in the
field of a label), and what runs or can be tried again after it was closed, counts as another
drawer's.  `version` and `of` number the writes of each column, and `touched`
the columns typed into: bookkeeping for `SaveKeepsRest`; `abandoned` are the
names whose createAndAssign failed between its two requests.

**ChatConfig** is the configuration of chats in Redis: `Join`, `Leave` and the
updates they cause, handled in any order (`BotAdded`, `BotRemoved`), the
question for a destination (`AskAgain`, `TapDestination`, `StoreDestination`),
and the panel's list of chats, which looks at each title, asks Telegram and
stores it in a second pass (`LookAtTitle`, `StartFill`, `FillTitle`).

**Overview** holds the pure operators of the screens: dashboard counters, the
tasks of each priority with their limit (`First`), history lines with the task a
candidate became, funnel, distributions.  **Panel** composes ChatConfig, the
tables of Decisions and Overview: a screen is opened and reads one list after
the other (`OpenScreen`, `ReadItems`, `ReadCandidates`) while the worker, the
reviewers and the users of the board change the tables (`ExtractNext`,
`DecideOn`, `PromoteOne`, `MoveItem`).

`MCPipeline`, `MCReview`, `MCWorkItem` and `MCPanel` define constant values for
the runs, `MCRegistration` and `MCBoard` their symmetry.  `Pipeline_proofs`,
`Review_proofs`, `ReviewInTurn_proofs`, `Registration_proofs`,
`Board_proofs`, `WorkItem_proofs`, `WorkItemTrail_proofs` and `Panel_proofs`
hold the theorems.

## 3. Runs

| Run | Asks | Bounds |
|---|---|---|
| `pipeline_capture` (pass: BatchAboveRows, NothingHalfWay) | Two chats with two messages each, a topic gap apart and one of them without text, and one change of the configuration, no failures: a drained batch lies above all stored messages, and an idle worker leaves no message half-way. | Chats = {c1, c2}, MaxId = 2, BatchLimit = 2, NormalizeLimit = 2, MaxAttempts = 2, Window = 2, TopicGap = 1, SentAt <- MCApart, ReplyTo <- MCNoReply, Outcome <- MCBlank, MaxPerPass = 0, MaxManual = 0, MaxChanges = 1, MaxShown = 0, MaxBotCrashes = 0, MaxCrashes = 0, MaxFaults = 0, SyncMayFail = FALSE |
| `pipeline_crash` (pass: TypeOK, WatermarkIsLastRow, RunsAccounted, ExtractionsBounded, AnnouncedOnce, LedgerSpec) | A bot crash, a worker crash, an uncaught error and failing syncs: types hold, the watermark is the last stored message, sync_runs rows are accounted for, each repeated extraction needs a crash or an error, the notify queue announces each linked candidate once but for what crashes and errors cost, and the ledger refinement survives redelivery. | Chats = {c1}, MaxId = 2, BatchLimit = 2, NormalizeLimit = 2, MaxAttempts = 2, Window = 2, TopicGap = 1, SentAt <- MCSameTime, ReplyTo <- MCNoReply, Outcome <- MCUsable, MaxPerPass = 1, MaxManual = 0, MaxChanges = 0, MaxShown = 1, MaxBotCrashes = 1, MaxCrashes = 1, MaxFaults = 1, SyncMayFail = TRUE |
| `pipeline_live` (pass: LockWinnerStored, LinkedIsPosted, Quiesces) | Under the fairness of the event loop, Redis expiry and the worker's loop, with syncs that may fail: the record whose task wins the debounce lock is stored, but for three named ways to lose it, every candidate with an assignee reaches the review chat through the notify queue, and the bounded retries end. | Chats = {c1}, MaxId = 2, BatchLimit = 2, NormalizeLimit = 2, MaxAttempts = 2, Window = 2, TopicGap = 1, SentAt <- MCSameTime, ReplyTo <- MCNoReply, Outcome <- MCUsable, MaxPerPass = 1, MaxManual = 1, MaxChanges = 0, MaxShown = 0, MaxBotCrashes = 0, MaxCrashes = 0, MaxFaults = 0, SyncMayFail = TRUE |
| `review` (pass: TypeOK, Traceable, PushedOnce, AssigneesAgree, ItemIsSnapshot, TrailTellsStatus, InTurnImmutable, ImplementsDecisions, RequestsEnd) | Two server threads and either three requests one after the other or two in any interleaving of their statements: at most one work item per candidate, each with exactly one audited approval, at most one webhook call, every request ends, lock waits and deadlocks included; and, as long as no requests overlapped, the assignee flag follows the assignees, one primary at most, the work item is what the candidate was, the audit trail tells the status, an approved candidate never changes. | Candidates = {c1}, Requests = {r1, r2}, Assignees = {a1, a2}, Titles = {t1, t2}, Created <- MCReady, Unresolved = {}, WebhookSet = TRUE, MaxRequests = 3, MaxRacing = 2 |
| `registration` (pass: TypeOK, OneAccount, SpentOnce, SessionsOwned, WindowsHeld) | Two Telegram users, two codes and two concurrent requests, with two changes of the assignees by an admin and a failure: one account per Telegram user, one login per code, no session without its account, and a counter of the rate limiter gets stuck without a time to live only by an error between INCR and EXPIRE, each of which costs one counter at most. | TgIds = {g1, g2}, MaxCodes = 2, Requests = {r1, r2}, MaxAttempts = 1, MaxRequests = 2, MaxEdits = 2, MaxFailures = 1 |
| `board` (pass: TypeOK, ShownWhereItIs, UndoRestores, SpinnerEnds) | Two items, three actions of the user on the board, and either a request that fails in any of the three ways or a change by another user: once things are quiet the cards are where the table has the items unless one of five named disturbances happened since the last load, an Undo restores what was, and the spinner has a GET behind it. | Items = {i1, i2}, Last = 2, Ops = {o1, o2}, MaxActions = 3, MaxTroubles = 1 |
| `work_item` (pass: TypeOK, LinkedOnce, TrailReplays, NoOrphanLabel, SaveKeepsRest, RequestsEnd) | Two admins and an assignee at one work item, two functions of their drawers in any interleaving of statements and a third that repeats one that failed, with the values it had then: nobody is linked twice, and every function ends, deadlocks included; as long as none overlapped, an audit log that replays; a label on no item is one whose creation failed half-way; a saved form changes only what its user typed or what somebody wrote after the GET that filled it. | Drawers = {d1, d2, d3}, Assignees = {a1, a2}, Role <- MCRole, Columns = {"title", "due_date"}, Title = "title", Values = {"none", "old", "new"}, Blank = "none", Resent <- MCResent, Statuses = {"inbox", "done"}, Names = {"urgent"}, Original <- MCOriginal, Promotions <- MCPromotions, MaxRequests = 3, MaxNew = 2 |
| `panel` (pass: TypeOK, HistoryNamesTasks, CountsAgree, NamedOrHidden, ReopenedKnowingly) | Two chats, one of them private, up to three candidates and four moves of people while one screen is opened: approved candidates are named as tasks, counts and bars add up, whatever is committed between a screen's reads, what a screen leaves out is hidden by its limits only, and a chat the bot was removed from is opened again by someone's choice or by a title being filled in. | Chats = {g1, g2}, Private = {g2}, Candidates = {1, 2, 3}, Facts <- MCFacts, Stages = {"inbox", "review", "done"}, CardLimit = 1, HistoryRows = 2, TaskRows = 1, ListLimit = 2, MenuLimit = 3, MaxMoves = 4 |
| `stranded_buffer` (violation: BufferedIsDrained) | A message that arrives inside the debounce window after the job drained the buffer starts no job of its own: it stays in Redis until another message or an admin starts one. | Chats = {c1}, MaxId = 2, BatchLimit = 2, NormalizeLimit = 2, MaxAttempts = 2, Window = 2, TopicGap = 1, SentAt <- MCSameTime, ReplyTo <- MCNoReply, Outcome <- MCUsable, MaxPerPass = 0, MaxManual = 0, MaxChanges = 0, MaxShown = 0, MaxBotCrashes = 0, MaxCrashes = 0, MaxFaults = 0, SyncMayFail = FALSE |
| `reply_reextracted` (violation: NoReEmission) | A message analysed before, and a candidate already, is shown to the LLM again because a new message replies to it, and becomes a second candidate. | Chats = {c1}, MaxId = 3, BatchLimit = 2, NormalizeLimit = 2, MaxAttempts = 2, Window = 2, TopicGap = 1, SentAt <- MCSentAt, ReplyTo <- MCReplyTo, Outcome <- MCUsable, MaxPerPass = 1, MaxManual = 0, MaxChanges = 0, MaxShown = 0, MaxBotCrashes = 0, MaxCrashes = 0, MaxFaults = 0, SyncMayFail = FALSE |
| `failed_sync_loses` (violation: FailedSyncKeepsRecords) | A sync that fails after the buffer was deleted loses the drained messages; the requeued job finds the buffer empty. | Chats = {c1}, MaxId = 2, BatchLimit = 2, NormalizeLimit = 2, MaxAttempts = 2, Window = 2, TopicGap = 1, SentAt <- MCSameTime, ReplyTo <- MCNoReply, Outcome <- MCUsable, MaxPerPass = 0, MaxManual = 0, MaxChanges = 0, MaxShown = 0, MaxBotCrashes = 0, MaxCrashes = 0, MaxFaults = 0, SyncMayFail = TRUE |
| `approved_edited` (violation: ApprovedImmutable) | An edit that loaded the candidate before its approval committed changes it afterwards. | Candidates = {c1}, Requests = {r1, r2}, Assignees = {a1, a2}, Titles = {t1, t2}, Created <- MCReady, Unresolved = {}, WebhookSet = TRUE, MaxRequests = 2, MaxRacing = 2 |

**Why the bounds are enough.**  Pipeline: two ids are the least for which
order, the watermark and duplicates mean something, and two chats
(`pipeline_capture`) the least for which one job can normalise another chat's
messages; `MCApart` puts a topic gap between them, and `reply_reextracted` adds
a third id with a reply across the gap (`MCSentAt`, `MCReplyTo`).  `BatchLimit`
and `NormalizeLimit` are exceeded as soon as a record is pushed twice or two
chats have a backlog.  Two attempts are the least that retry.  One crash of
each process suffices to interrupt every step once; the theorems cover any
number.  Review: one candidate, since no row of two candidates is shared; two
threads, since conflicts are between pairs; two assignees and two titles, since
a change needs another value.  Three requests in a row are the least that
approve, edit and settle one candidate; two may overlap (`MaxRacing`: as soon
as one began while another ran, `overlapped` is set and there is no third).
Registration: two requests that overlap, of one Telegram user or of two, with
one code or with two; two edits, since attaching an account takes an assignee
first; a limit of one attempt, so that the second trips it or waits for the
window to close.  Board: two items, so that a batch can fail in part; two
columns; two slots, so that operations overlap; three actions, as a move that
fails, another move and a Retry, with one trouble: a failed request or a change
by another user.  Symmetry is used in these two runs: neither module tells
threads, Telegram users, items or slots apart, and no liveness is checked
there.  `pipeline_crash` goes on after a bot crash only while no fault and no
candidate came before it (`MCOne`), because the bot's crash and the worker's
share nothing but the buffer; `ShowCard` is bounded to one card there
(`MaxShown`) and left out of the others, as it writes `shown` only.  WorkItem:
two admins and an assignee, since every conflict is between two and the third
watches; an approval that stored one assignee or none, since two reassignments
can only wait for each other when neither waits for the rows of the approval;
two assignees, so that two drafts may name the same people in opposite orders
(the deadlock) or different ones; two columns, one that survives its form and
one that does not; two functions of any kind (`MaxNew`) and a third that is the
Retry of one of them: a Retry of an old form needs a failure, somebody's write,
and the Retry.  Forms are opened and closed before the last new function only.
Panel: three candidates, one more than `ListLimit` and `HistoryRows` and two
more than `CardLimit` and `TaskRows`, so that each limit cuts; four moves,
which approve, decide, move and extract; a private chat, as it has no title,
and a group.  One screen is open at a time: screens only read, and the list of
chats, which writes, does not read the tables.

`CHECK_DEADLOCK FALSE` is set throughout because the bounds end the behaviours:
when every update is delivered, every job done and no change left, the bot and
the worker wait for ever, and so do the API when `MaxRequests` are served and the page when
the user does no more.

**Fairness.**  `FairSpec` of Pipeline: weak fairness of each capture task's
next step (the event loop runs every started task), of the lock's expiry
(Redis expires every key with a time to live), of the notify consumer and of
the worker's step (both loop for ever).  None for deliveries, admin's actions,
errors or crashes; liveness is checked without crashes, because every pop is
destructive and a crash does lose work.  `FairSpec` of Review: weak fairness of
a request's next step: a served request runs until it ends, an error or a lock
wait apart.  Requests themselves are not fair.  `FairSpec` of WorkItem
assumes less: while some request can go on, some request does.  That is the
server's doing, requests and functions of the drawers are bounded, and that a
wait for a lock ends follows from the steps of the one that holds it, or from
`BreakDeadlock`.

**What the violated properties say.**  Each quotes the repository:

- `BufferedIsDrained` (`bot/src/aiwip_bot/ingest.py:61`): The lock is taken on the leading edge: a message pushed while the lock is held enqueues nothing, and when the winner's job has already drained the buffer nobody drains it. bot/src/aiwip_bot/ingest.py:5-6 says "everything else in the window only buffers. The one job drains the whole buffer". The run shows a behaviour in which the buffered record is never drained.
- `NoReEmission` (`worker/src/aiwip_worker/context.py:87`): build_context(new_only) adds the messages the new ones reply to, analyzed ones included, to what the LLM is shown, and the answer may cite them. worker/src/aiwip_worker/extract.py:75-76 says a later sync never re-emits a task for a message that already became a candidate. The run shows a message becoming a candidate twice, without any failure.
- `FailedSyncKeepsRecords` (`worker/src/aiwip_worker/connectors/bot_api.py:32`): fetch_messages deletes the Redis buffer before the transaction that stores the messages commits; when it fails the records are nowhere. docs/test-plan.md:175 says "109. A failed message can be reprocessed." The run shows a failing sync after the DELETE; the requeued job cannot reprocess what is gone.
- `ApprovedImmutable` (`api/src/aiwip_api/routers/candidates.py:132`): edit_candidate checks the status it loaded; an approval that commits after that does not stop the edit, which changes the title or the assignees of an approved candidate (and its status, unless it had loaded "edited"). api/src/aiwip_api/routers/candidates.py:4 says "Approved candidates are immutable."

Review's properties about requests in turn hold as long as none began while
another ran (`~overlapped`); `approved_edited` shows one of them fail under
concurrency.  The others fail as well, by the same
gap between a check and a write, and have no runs of their own: two edits that
each delete the assignees they saw leave two primaries (`AssigneesAgree`;
core/tests/test_models.py:49 says there is exactly one), the flag of one edit
meets the rows of another (the same), an approval mixes two versions
(`ItemIsSnapshot`), and the last audit entry does not tell the status
(`TrailTellsStatus`).

**How the board goes wrong.**  docs/test-plan.md:125 says "A WorkItem is displayed
in the correct column."  `ShownWhereItIs` holds, up to these disturbances, each of
which TLC needs: (1) operations overlap: a `load()` served before another
operation's post commits brings the old column back, and a successful move does
not load again; (2) another user moved an item; (3) an answer was lost after the
commit: the drawer does not load after a failure at all; (4) a Retry of a move
whose card is elsewhere by then: `move` filters the column the item had and
adds a second card; (5) a failed load, which the banner tells.

**What may happen to a record whose task won the lock.**  `LockWinnerStored` says
that it becomes a row of `messages`, in `pipeline_live` without crashes, unless
one of three things happened that the property names, each of which TLC needs:
the DELETE takes it although `fetch_messages` does not return it (`Dropped`),
because it was pushed between LRANGE and DELETE (`bot_api.py:31`), lies below
the watermark or beyond the batch; a sync fails that had taken it off the
buffer (`LostInFailure`), which is `failed_sync_loses`; the last attempt of a
job of its chat has failed (`GivenUp`).

**How often a candidate is announced.**  `AnnouncedOnce` is about the notify
queue: what is queued, in the consumer's hand or posted by it holds each
candidate with an assignee at most once, and no other; and those that are missing
are paid for: an error, or a crash of the worker, costs at most what one LLM
answer held, a crash of the bot the one in the consumer's hand
(`telegram_app.py:488`).  The cards of the review screen are not limited by any
property, because the code does not limit them.

**What an edit of a work item changes.**  `SaveKeepsRest` says that a save changes
what its user typed, with two exceptions it states.  A due date with a time of
day becomes midnight UTC of its day whenever any other field is saved
(`web/app/board/page.tsx:430`).  And a column that somebody wrote after the GET
whose answer filled the form is overwritten with the old value, also when a GET
has displayed the new one before Save or Retry was pressed; the API has no
version check.  A detail that `changeStatus` put back on display is as old as the
closure it came from, and a form filled from it counts from that GET.
`TrailReplays` holds while no functions overlapped: the audit entries of two
edits may both start from the same "before".  Two reassignments that name
different people both insert theirs as primary, and an assignee who lost the
item between the check of `See` and `CommitStatus` still moves it.

**How the panel goes wrong.**  `bot/.../onboarding.py:69` says "until the chat is
reconfigured, inbound messages capture nothing".  `ReopenedKnowingly` states the
one way besides somebody's choice: when the bot is removed while the list of chats
waits for Telegram, `FillTitle` stores the title in a configuration made up on
the spot, and the chat is captured again when the bot is back.  `CountedOnce` and
`FunnelHoldsTasks`, parts of `CountsAgree`, assume `Orderly`: no rejection or edit was written over an
approval, which Review shows can happen.

**Other divergences met in Registration.**  `api/.../routers/auth.py:119` says
"re-joining an already-registered id just logs in", but two assignees with one
Telegram id make `scalar_one_or_none` raise, and an assignee whose id was
overwritten by the form makes the insert of the user break its unique address:
both end as an error (`FindByTg`, `Insert`).  `web/app/assignees/page.tsx:125`
calls the Telegram id "(unique)"; no constraint says so.

## 4. Proofs

`Pipeline_proofs`, for any number of chats, messages, jobs, crashes and faults
(only `PipelineAssumption` is assumed):

- `TypeCorrect`, `RunsCorrect`: `TypeOK` and `RunsAccounted` are inductive
  together: a run row is opened by `StartRun`, closed by `SaveBatch` or
  `RecordFailure`, and each job abandoned in between is counted.
- `WatermarkCorrect`, `BatchCorrect`, `ImplementsLedger`: the inductive
  invariant `LedgerInv` is `WatermarkIsLastRow` and `BatchAboveWatermark` (what
  is in the worker's hands lies above the watermark).  The second is needed:
  from the first alone `SaveBatch` could lower the watermark.  It survives
  because only the worker moves the watermark.  The refinement then
  maps `SaveBatch` to `Store`, `Normalize` to `Classify`, `MarkAnalyzed` to
  `Analyze` and all else to a stutter.
- `ExtractionsCorrect`: `ExtractInv` bounds `extracted[c][m]` by `crashes +
  faults` for a message still normalized and by one more otherwise, with the
  segment in the worker's hands (`Covering`) already counted.
- `AnnouncedCorrect` from `SurfaceInv` and `MissingInv`.  The first: what is
  queued, in hand or posted by the consumer are different candidates, each
  linked; while the worker announces, none of them is at or past the next one it
  will look at; at any other time all are older than the candidates to come.
  The second counts the linked candidates that are in none of the three places
  though the worker is past them (`Missing`): their number is at most
  `MaxPerPass` for each crash or fault and one for each crash of the bot.  A
  step that drops some also raises what may be missing (`MissingPaid`): the bot
  moves an id from place to place and drops the one in its hand, the worker
  drops what is left of one answer, and an answer holds at most `MaxPerPass`.
- `NothingLeft` under the hypothesis `BatchLimit <= NormalizeLimit` (the code
  fetches 200 and normalises 500).  `HalfwayInv` says that, unless something
  crashed or failed, the `new` messages are at most a batch and appear only
  between `SaveBatch` and `Normalize` of one job, so `Normalize` takes them all,
  and that normalized ones are of the chat of the job that will mark them.
  Without the hypothesis the property is false: a batch could be larger than
  what one job normalises, and the rest would stay `new` until another job.
- `NothingTakenBack`, from the refinement: no step of the ledger moves a message
  or a watermark back.
- Of the operators: `CutLiesAbove` (what the batch limit cuts off lies above
  what is stored; `Fetched` takes the first records in the order `Before`, and a
  record's predecessors are those of a later one) and `SegmentIsNewest` (the
  segment is an end piece of the fresh messages, and not empty unless they are).
- `WorkerWanes` and `WorkIsFinite`, the part of `Quiesces` that needs no
  fairness: each step of the worker makes the pair of `PassesLeft` (one for each
  attempt a queued or running job has left) and `StepsLeft` (places before the
  end of the pass, candidates still to announce) smaller in lexicographic order.
  The second number needs the invariant `NotBehind`: the announcements stay
  within the answer they belong to.  So retries end, and a crash or an error
  never makes work; only the enqueuing of a job does.

`Review_proofs`, for any number of threads, candidates and requests:

- `ReviewTypeCorrect`; `TraceableCorrect` and `PushedOnceCorrect` from
  `ApprovalInv`: `Traceable`, `PushedOnce`, `InsertedOnce` (a request that
  inserted a work item is the only one, and no committed item exists) and
  `PushesLeft` (a request about to push belongs to a candidate with an item and
  no push).  The argument never uses the row locks: the unique constraint on
  the work item's source alone orders the approvals.
- `ImplementsDecisionsCorrect`, the refinement of Decisions: each commit changes
  the status of one candidate (`DecisionsStep`); that an approval's item is the
  first of its candidate comes from `InsertedOnce`.

`ReviewInTurn_proofs`, the properties that hold while no requests overlapped:
`AssigneesAgreeCorrect`, `ItemIsSnapshotCorrect`,
`TrailTellsStatusCorrect`, `InTurnImmutableCorrect`, all from `TurnInv`.  It says
that at most one request is under way, that what it loaded and what it will
delete are what the tables hold now, and how far the flag, the assignees and the
audit trail are apart at each of its statements.  It is needed because the
properties speak of committed rows only, and a request carries old ones along.

`Registration_proofs`, for any number of Telegram users, codes, threads,
requests, edits and failures:

- `Base` is the types and the numbering of requests: no two that run have one
  number.  `TypeCorrect` adds `Counters`: a counter and the requests that still
  owe it an increment do not exceed the requests made.
- `SpentOnceCorrect` from `SpentInv`: a request past `Take` and a session have
  a code that is gone, and no two of them the same.
- `OneAccountCorrect` and `SessionsOwnedCorrect` from `AccountInv`: accounts and
  assignees are attached one to one, a request before its commit has no
  account yet, a request after it works for one that is committed, and no two
  requests about to commit have the same Telegram user (`OneCommits`, the unique
  address).
- `WindowsHeldCorrect` from `WindowInv`: who is about to set a time to live has a
  counter that has none, and is alone with it; no key expires while it has none.
  So only a failing request makes a counter stuck, the one it was about to open,
  and `Stuck` grows by one element at most.

`Panel_proofs`, for any number of chats, candidates, work items and steps and
any limits:

- `ReopenedCorrect` from `ConfigInv`, whose `FillsBare` says that titles are only
  filled in where the panel had found none.
- `TablesAreDecisions`: the tables change by steps of Decisions only, so what is
  shown of the screens holds for what Review does.
- `PanelTypeCorrect`, `HistoryCorrect`, `CountsCorrect` and `NamedCorrect` from
  `PanelInv`.  Its part on the tables says that only an approval with a work
  item makes a candidate approved, and that no candidate has two.  Its part on
  the screen says which rows the lists hold (the work items the table began
  with, the last of the first candidates) and how two lists of one screen fit,
  which depends on the order they are read in (`ListsFit`): an approval on
  the history is in the work items read after it; a candidate on a dashboard
  that is a work item read before it is approved.  What another process does
  to the tables under an open screen is one relation (`Grown`), and one lemma
  says that the screen's part survives it (`ScreenUnderGrowth`).
- `CountsCorrect` needs cardinalities: rows are counted by the candidates they
  are of, and these are different.  That the bars add up needs the sum of a
  function.  `Total` is a fold, and its value cannot be had by induction here.
  `TotalIsCells` gets it from a set instead: the cells of the bar chart,
  of which each bar `i` has `f[i]`, satisfy the equation of the fold, and there
  is no least set on which two solutions differ (`FoldUnique`; strict subsets of
  a finite set are well-founded).  `PartitionTotal` then maps the cells to the
  rows.

`Board_proofs`, for any number of items, columns, functions of the page under
way, failures and changes by other users:

- `TypeCorrect` from `Typed`: what is posted, what is still to be posted and what
  a toast would post are moves of items (`OpSound`, `ToastSound`), and an item
  has no more cards than the user has acted, and one (`CardsUpTo`).  That
  `findItem` finds a card that is there needs the least number of a set
  (`NatMinimum`, from the library's well-founded induction).
- `SpinnerEndsCorrect`: every end of a GET takes the spinner away, and only the
  start of one shows it.
- `ShownWhereItIsCorrect` and `UndoRestoresCorrect` from `Calm`.  While an
  operation posts, the board is ahead of the table: it shows the table as it
  will be when the posts that are left have succeeded (`Exact(Ahead(r))` in
  `Settled`); what is posted already is in the table; a board that is on its
  way is the table if the GET is alone (`CleanInv`).  A failed post makes
  `Reloads` true for all kinds but the drawer's, which has moved no card.  A
  batch that began calmly found every card in its item's column, so the columns
  it noted are the table's (`Remembers`).

`WorkItem_proofs`: `LinkedOnceCorrect` from `LinkInv`.  A reassignment commits
the rows it left and those it inserted, so nobody is linked twice then if its
new rows link nobody whom a row it left links (`Own`).  `Own` would not survive
another reassignment's commit: that needs `Apart`, which says that of two
transactions that have deleted, neither inserts somebody whom a row links that
the other has deleted or inserted.  It is established by the wait at the unique
constraint (`Free`) and by the DELETE, which waits for rows another one has
deleted.  `TypeCorrect` adds `PutSound`: how many rows of its draft each
statement finds inserted.

`WorkItemTrail_proofs` follows what a drawer sends (`Moves`, one lemma per
group of statements):

- `NoOrphanLabelCorrect` from `LabelInv`: a label that is not on the item is in
  the hands of a drawer that is about to tag the item with it, or `abandoned`;
  and a label a drawer is about to tag exists.
- `SaveKeepsRestCorrect` from `SaveInv`: every copy of the item a drawer, a form,
  a call or a toast holds was in the table (`Seen`), so that a column whose
  version is still the table's has the table's value; a form differs from the
  copy it was filled from in the columns touched only (`Filled`); what a
  transaction loaded agrees with any copy not older than it.  It survives other
  drawers' commits because versions only grow (`Newer`) and a written column
  has a new one.  Without the part on toasts (`RetriesGrow`) it would not
  survive a Retry.
- `TrailReplaysCorrect` from `TrailInv`: as long as no functions overlapped, one
  drawer at most is busy (`Alone`) and what it read is still so (`Fresh`), so
  that an audit entry starts from what the one before left.  That a reassignment
  leaves what its entry lists is `NewRowsListed`.

Only model-checked: liveness (`Quiesces`, `LockWinnerStored`,
`LinkedIsPosted`, `RequestsEnd` of Review and WorkItem), which is out of the
prover's reach with `ENABLED` (of `Quiesces` the measure is proved); and the violated properties, which are
counterexamples.  Every invariant and every action property of a passing run is
a theorem.

## 5. Not modelled

- Content: message text, prompts, LLM answers (any candidates anchored in what
  the LLM was shown), card texts, menus, CSV, sorting and paging.
- In the pipeline: audit entries, attachments, a commit whose outcome the
  client does not learn (the DELETE of the buffer apart), loss of Redis data,
  more than one worker process (the deployment runs one).
- In Capture: which candidates the panel's review screen finds pending is
  Review's and Overview's matter; `ShowCard` posts any.
- In Review: API clients that send more than one assignee (neither the bot nor
  the console does), authorisation of the tapper.
- The divergence between documentation and code that needs no interleaving is
  described here only: an LLM failure marks the messages analyzed all the same
  (docs/test-plan.md:176 says a failed AI run can be restarted); a crash leaves a
  `sync_runs` row running for ever; `/title` on a rejected candidate makes
  it `edited`; an approval in the web console calls no webhook; a card whose
  mention was unresolved stays without an Approve button after an assignee was
  picked.
- In Registration: login with a password and logout, the expiry of sessions,
  detaching an account, the rule that picks the assignee when a tap is
  authorised.
- In Board: filters, what a user other than an admin may see.
- In WorkItem: deactivating an assignee (a failing request stands for the 422),
  the order of two audit entries of different actions, cycles of three
  reassignments that wait for each other (`BreakDeadlock` breaks pairs; the
  run has two admins, and only they reassign).
- In Panel: edits of a work item's priority, cards fetched again after a tap,
  the screens of people, of one chat and of the integration, the export; of the
  dashboard the time series, the workload and the counts of overdue tasks.
  The title maps of the screens are wording.
- The digest, the evaluation of prompts and the metrics: the bot does not run
  the digest (`telegram_app.py:484`), the other two write rows and counters that
  nothing in the program reads back.  The resolver, prompts and the LLM client
  are pure functions and one HTTP call; their result is a choice in SyncWorker.

## 6. What is left

1. Measures like that of `WorkerWanes` for the requests of Review, Registration
   and WorkItem and the functions of Board.
2. `Digest`, once the bot runs it: staging, sending, and the race of both.
3. Registration: the authorisation of taps, with two assignees of one Telegram id.
4. The resolver: which assignee a mention is matched to, as a pure function.
