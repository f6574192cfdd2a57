# repo-extension: specifications and proofs

TLA+ models of the agent-to-jjlab extension in this repository, the TLC
configurations that check them on small instances, and TLAPS proofs of the
properties that hold for every instance. Paths below are relative to the
repository (`src/` is its root).

The extension gives every agent session named `org:repo:bookmark` exactly one
jj bookmark. Nothing else identifies a workspace: the name is the contract.
Sessions live in the agent, bookmarks in jjlab, and the extension keeps the two
in step through lifecycle events, a mapping table and a periodic reconciler.
What makes that hard is that no two of the three stores are updated together,
that events are delivered at least once, and that three goroutines run the same
steps over the same rows while adoptions add rows of their own.

## 1. Inventory

| Component | Code | State | Operations | Correct when |
|---|---|---|---|---|
| Lifecycle handlers | `events_sub.go` | none of its own | `handleLifecycleEvent` for created, forked, renamed, deleted; `ensureCreated`, `ensureForked`, `ensureRenamed`, `ensureDeleted` | after any failures and redeliveries sessions, rows and bookmarks agree; no bookmark is destroyed that nobody asked to destroy; a fork starts from its parent |
| Reconciler | `reconcile.go` | one pass's snapshots | `reconcile`: list sessions, managed repositories and tree, sweep rows, backfill | an undisturbed pass repairs all drift, the next one does nothing; drift is repaired eventually |
| Mapping store | `pg.go` | `session_repos`, `managed_repos`, `executed_worksheets` | `InsertRow`, `RenameRow`, `DeleteRow`, `GetRow*`, `ListRows*`, `InsertManaged`, `ListManaged`, `ExecutedWorksheet` | rows are a bijection |
| jj client | `client_jj.go` | none; jjlab has repositories, bookmarks, commits, merge requests | `EnsureRepo`, `EnsureBookmark`, `DeleteBookmark`, `CanResolve`, `GetRepoTree`, file and merge-request calls | calls are idempotent under retry |
| Session resolution | `sessions_http.go` | `sessCache` (TTL) | `resolveSession`, `put`, `evict`, `bindRow` | a session never resolves to another one's bookmark |
| Session variables | `variables.go` | three keys per session in the NATS KV | `publishSessionVars`, `clearSessionVars` | a projection of the rows |
| Naming | `helpers.go` | none | `namingSession`, `parseSession`, component rules | a bijection between names and workspaces |
| Error classes | `errs.go` | none | transient from 500 up, permanent below | a permanent error is never retried, a transient one never dropped |
| Agent client | `client_agent.go` | none; the agent has the sessions | `ListSessions`, `EnsureSession`, `GetSession`, `ForkSession`, `DeleteSession` | |
| Worksheets | `worksheets.go`, tools `fork-bookmark` and `delete-bookmark` | `executed_worksheets` | `publishWorksheet`, `onCallHook`, `execForkRequest`, `execDeleteBookmark`, `ensureForkedAt` | a fork starts at the base taken when it was asked for; an approved worksheet is carried out once and not lost |
| File tools | `tools.go` | none; the blob sha read is the lock | `write`, `edit`, `delete`, `git-resolve`, `applyLineEdit` | each call takes effect at once or not at all; no concurrent change is overwritten unseen; line numbers mean what `read` showed |
| Merge requests | `tools.go`, `client_jj.go` | none; jjlab has the requests | `mr-create`, `mr-review`, `mr-merge`, `git-rebase`, `git-resolve` | a merged request is in its base without conflicts; a merge brings nothing the request did not name |
| Read-only tools | `tools.go` | none | `read`, `ls`, `grep`, `git-log` ... | formatting of one reply |
| Operations surface and adoption | `sessions_http.go` | none | `ensureSession`, `adoptBookmark` (also called by `mr-create`), listings | adoption respects 1:1 and is idempotent |
| Start-up, logging, messages, manifest | `main.go`, `env.go`, `log.go`, `i18n.go`, `manifest.yaml` | configuration | | |

How they interact:

- The agent commits a session action, then publishes its event on a durable
  stream. The SDK's consumer calls `handleLifecycleEvent` one event at a time;
  a handler error of class *transient* asks for redelivery, a *permanent* one
  drops the event, nil acknowledges it.
- The handler calls jjlab over HTTP and Postgres over SQL, each call on its own.
  There is no transaction around a handler and no lock between the consumer, the
  reconciler goroutine and the HTTP or tool call that adopts a bookmark; uniqueness
  constraints of `session_repos` are the only mutual exclusion.
- After a handler returns nil the consumer publishes the session's variables to
  the shared KV; errors there are discarded.
- A tool call resolves its session (cache, then row) and then talks to jjlab
  about the bookmark it found; events may be handled between the two.
- An adoption (`POST .../session`, or `mr-create` towards its target) creates the
  agent session of a bookmark that has none, whose event then goes to the
  consumer, and inserts the row itself.
- A worksheet is proposed by a tool, decided by a human, and its decision handed
  to `onCallHook` at least once. An approved one is recorded first and then
  carried out by `ensureForkedAt` and the agent's fork, or by the agent's delete
  and `ensureDeleted`; both make the agent publish an event for the consumer.
- A merge is four calls to jjlab: read the request, rebase its head sha onto the
  base, add an approval, set the state. Other sessions, users of jjlab and other
  merges act between them.
- A user of jj may remove bookmarks behind the extension's back.

What is hard: crashes and failed calls between any two calls of a handler; calls
that were carried out and whose answer is lost;
redelivery of an event that was half served or entirely served; events that
overtake one that waits for redelivery; events that never arrive; snapshots the
reconciler took before the consumer changed what they describe; a repository
whose bookmarks cannot be listed and therefore looks empty; names that are
reused; decisions that come long after what was asked for, or twice; a request
that changes while it is merged. `PROJECT.json` lists each of these hazards at its line with the
properties that would catch it.

## 2. Modules

```
SessionNames <- JJLab ----------------------------+
SessionNames <- MappingStore <- SessionVars <-----+- EnsureSteps <- Lifecycle  <-+
SessionNames <- AgentStream <-------------------------------------- Lifecycle    |
                            <-------------------------------------- Reconciler <-+- Workspace
                                                    EnsureSteps <- Reconciler    |
JJLab, SessionVars, AgentStream <------------------------------ Adoption <-------+
EnsureSteps, AgentStream <----------------------------------- Worksheets <-------+

Workspace <- WorkspaceProps <- MCWorkspace (TLC)
                            <- WorkspaceProofs <- ConvergenceProofs, WorksheetsProofs,
                                                  ConsumerProofs <- DrainProofs (TLAPS)
                                                  WorksheetsProofs <- ForkProofs

LineEdit <- AtomicFile (abstract)
LineEdit <- FileTools  (INSTANCE AtomicFile) <- MCFileTools (TLC), FileToolsProofs (TLAPS)

MergeRequests <- MCMergeRequests (TLC), MergeRequestsProofs (TLAPS)
```
(`A <- B`: B extends A.)

The first two families meet in one place: `Workspace` has the tool that resolved its
session and later commits to what it resolved (`tool`, `StartTool`, `EndTool`),
with the commit as one step; `FileTools` opens that step up, for one file of the
bookmark resolved. `MergeRequests` stands alone: it works on bookmarks that exist
throughout, where the tables no longer matter.

| Module | Models | Correspondence |
|---|---|---|
| `SessionNames` | `helpers.go` | A session that owns a workspace is the pair `<<repo, bookmark>>`, `NamingSession`/`ParseSession` are `namingSession`/`parseSession`; names without the three-part shape are the constant `Strays`. An org and its repository are one value. |
| `JJLab` | the calls of `client_jj.go` the handlers make | `repos`, `marks` (bookmarks that exist), `work` (the commits in a bookmark's history). `CanResolve` ignores its revision, as the request does. |
| `MappingStore` | `pg.go` | `rows` is `session_repos`, `managed` is `managed_repos`. One operator per SQL statement; `Conflicts` is SQLSTATE 23505 on either key. |
| `SessionVars` | `sessions_http.go`, `variables.go` | `cached` is `sessCache`, `projected` the KV; `lookup` is a tool between reading a row and putting it in the cache, `tool` one between resolving its workspace and committing there, `adoption` one between finding an orphan and binding it. |
| `EnsureSteps` | `ensureCreated/Forked/Renamed/Deleted`, `ensureForkedAt`, `bindRow`, `EnsureBookmark`, `DeleteBookmark` | A handler is a little program: `at[p]` is the call goroutine `p` makes next or the outcome it returned, `call[p]` its arguments and locals. One action is one call to jjlab or Postgres with everything the code does until the next one; `FailCall` is one that fails and does nothing, `Unanswered` one that is carried out while its answer is lost, so that what follows the answer, an eviction say, is not done. `"parent"` is `ensureCreated` called from `ensureForked`, with the return address in `peer`; `"forkAt"` is `ensureForkedAt`, `"cleanup"` the removal of a bookmark without a row by a worksheet. |
| `AgentStream` | the agent and the durable stream, external | `sessions`, `stream` (events not acknowledged). Delivery in publish order; with `Overtaking`, later events pass one that waits for redelivery. |
| `Lifecycle` | `handleLifecycleEvent`, the SDK consumer | `Deliver` is the switch on the kind with its name checks, then the steps of `EnsureSteps`, then `ResolveVars`/`PublishSessionVars`/`ClearSessionVars`, then `Ack` or `Nack`. |
| `Reconciler` | `reconcile.go` | `pass` holds the snapshots: `seen`, `tree`, `todo`, `drop`, `heal`. `SweepUnanswered` is a DELETE that was applied while its answer is lost: the pass ends before it evicts. |
| `Adoption` | `adoptBookmark` | `FindOrphan` is the two reads, then `EnsureSession`, then `AdoptRow` or, on a unique violation, `AdoptRefused`. |
| `Worksheets` | `worksheets.go`, the two tools that propose, `ForkSession` and `DeleteSession` of `client_agent.go` | `sheets` are worksheets whose decision is not acknowledged, `executed` the table, `sheet` the one the hook serves. `Record` is `ExecutedWorksheet`, `Begin` the first call of `execForkRequest` or `execDeleteBookmark`; what they do to bookmark and row are steps of `EnsureSteps` run by goroutine `"hook"`. `AnsweredMeanwhile` is a second delivery during the first. `carried` and `clear` are history. |
| `Workspace` | the composition and its environment | `Next == Environment \/ EventsStep \/ ReconcileStep \/ AdoptStep \/ SheetStep`. `used` counts the environment's actions against `Limit`; `calm` is a history variable. |
| `WorkspaceProps` | | The properties. |
| `WorkspaceProofs`, `ConvergenceProofs`, `WorksheetsProofs`, `ConsumerProofs`, `DrainProofs`, `ForkProofs` | | Theorems and their proofs. |
| `MergeRequests` | `mr-create`, `mr-review`, `mr-merge`, `git-rebase`, `git-resolve` | `mrs` are the requests jjlab has, `work` the changes in each bookmark, `torn` the bookmarks in conflict. `merge[p]` holds the locals of one call of `mr-merge` and its next call: `"rebase"`, `"review"`, `"update"`. Change ids survive a rebase, so a change is the same on both sides of it, and a sha is the set of changes it leads to. `seen` and `landed` are history. |
| `LineEdit` | `applyLineEdit`, the paging of `read` | A text is what `strings.Split(text, "\n")` returns, so texts and non-empty sequences of lines correspond one to one; `HasSuffix`, `TrimSuffix` and `Join` act on such sequences as they do on the strings. |
| `AtomicFile` | the promise of the file tools | Abstract: a call takes effect at one instant on the file as it is then, or not at all. |
| `FileTools` | `write`, `git-resolve`, `edit`, `delete`, paged `read` | `at[p]` is before the read or before the commit, `loc[p]` the arguments and locals; the blob sha of a text is the text. The refinement mapping forgets the locals: a process that is not idle has its call pending. `looked` and `page.of` are history. |

Two switches keep an instance small without removing code. `Observed` says which
of the cache and the KV leave a trace: without `"cache"` every entry expires
before it is read, without `"vars"` the KV, which the extension never reads, is
not recorded. `Ticking = FALSE` is a run that ends before the reconciler's first
tick.

Actions that stand for more than one call, and why that is enough:

- the three KV writes of one session are one step: they share one error path and
  no code reads one without the others;
- a SQL statement that is answered and the `evict` after it are one step: an
  interleaving in between only lets a tool read the cache earlier, which it can
  also do just before the statement; a lookup that read the row before and puts
  it after is in the model (`Lookup`, `FillCache`), and so is a statement without
  an answer and hence without its `evict` (`Unanswered`, `SweepUnanswered`);
- a lost answer has a step of its own only where the code then does something
  else than after a failure or a success: an `EnsureRepo`, `EnsureBookmark`,
  `DeleteBookmark`, insertion, renaming or deletion of a row that changed
  something. A read without an answer is a failed read. In `Adoption` and
  `Worksheets` a lost answer is the step that did the work followed by
  `FailAdoption` or `HookFails` (after `AdoptRow` nothing follows anyway), and the
  lost answer of a tool's commit is `ToolCommits`: none of these steps evicts.
- `GetRow` and `GetRepoTree` of an adoption are one step: every handler makes the
  bookmark before it inserts the row, so a missing row followed by a bookmark
  that is there means a moment with the bookmark and no row, and the step is
  taken then; a row inserted after that moment is what `AdoptRefused` meets;
- `GetRepoTree` is one step although it asks repository by repository; the
  repositories it failed to list are a parameter of `ReadTree`.

## 3. Assumptions about what is not in this repository

- jjlab: creating a repository creates its bookmark `main`; a POST of a bookmark
  that exists, or whose source does not resolve, is refused, and so is a DELETE
  of one that does not exist.
- SDK: one lifecycle worker; a permanent error drops the event
  (`sessions_http_test.go:311-312`), a transient one redelivers it.
- Agent: an event is published once, after its action committed, in the order of
  the actions; a tool runs for a session that exists. A decision is delivered
  until it is answered OK, the same worksheet not twice at a time to the code
  that carries it out (the record sees to that), and a fork or deletion of a
  session by worksheet publishes the same event as one by a user.
- jjlab's requests: a sha never stops resolving; a push loses or moves the head
  sha of a request at a moment of jjlab's choosing; whether a rebase conflicts is
  free, but onto a bookmark in conflict it always does.

## 4. Runs

All bounds are in `MCWorkspace` by name. `Limit` bounds each kind of environment
action, `"troubles"` the sum of faults (failed calls, failed writes of variables,
lost acknowledgements, crashes), lost answers of calls that were carried out,
unlistable repositories, lost events and removals.

| Run | Instance | Shows |
|---|---|---|
| `events` | one repository, 3 bookmarks (symmetric in the two that are not main), 4 agent actions, 1 commit, 2 troubles among faults, a lost answer and an unlistable repository, ordered delivery, no reconciler | `DrainedMirror`: whatever fails and wherever the process dies, when the stream is drained sessions, rows and bookmarks agree, without the reconciler. `NoLeftovers`: with no failed or unanswered call no bookmark without a session remains. `ForkInheritsParent`. |
| `reconcile` | two managed repositories, 2 bookmarks, 3 names, 2 agent actions, one adoption of one of two bookmarks, one trouble of any kind but a lost answer, ordered delivery, reconciler | `TypeOK`, `OneToOne`, `LossOnlyOnRequest`; `PassConverges` and `SecondPassIdle`: an undisturbed pass repairs every drift and the next changes nothing. |
| `converge` | one managed repository, 3 bookmarks, one stray name, 2 actions, 2 troubles (users remove one bookmark), overtaking delivery, reconciler, fairness | `EventuallyMirrored` |
| `vars` | one repository, 2 bookmarks, 3 actions, one worksheet, one tool lookup, one fault or lost answer, cache and KV observed | `ResolvesOwnBookmark`, `DrainedCache`, `VarsPublished`; `LossOnlyOnRequest` with worksheets that delete; `ActsOnce`: a worksheet that was carried out does nothing at a redelivery, also when its session's name was taken again |
| `worksheets` | one managed repository, 2 bookmarks, 3 actions, one worksheet to fork a bookmark only worksheets name, one commit, one fault or lost event, reconciler | `ForkAtBase`: the new bookmark is at the base of the proposal whatever the forked event and the passes do. `PassConverges` with a worksheet left half-way |
| `merges` | 3 bookmarks, 2 changes, one request, two calls of `mr-merge` at a time (each may be made again), symmetric | `MergedLanded`, `NothingSneaksIn` |
| `files` | one file, 8 initial texts (none, empty, with and without final newline, blank lines only), 30 calls, two processes, 2 calls, one failed read, one crash or failed commit (counted apart), 3 pages of sizes all, 1, 2 | `CallsAreAtomic`: the tools implement `AtomicFile`. `NothingClobbered`, `EditAsShown`, `PagesShowFile`, `TypeOK` |
| `shown_lines` | the same, one call | violates `ShownLinesEditable` (finding 3) |
| `rename_orphan` | smallest instance | violates `RenameKeepsWork` (finding 1) |
| `main_gone` | smallest instance, fairness | violates `EventuallyMirrored` (finding 2) |
| `unmanaged` | smallest instance, nothing managed at the start | violates `PassConverges` (finding 4) |
| `sheet_lost` | one worksheet, one fault | violates `ExactlyOnce` (finding 5) |

Why the bounds are enough. Handlers touch at most two bookmarks, so three let a
third session take a name that two others are exchanging. Four agent actions are
the shortest history in which a name is created, renamed away, taken again and
deleted, with every event of it still undelivered. Two faults give a failure
during the redelivery of a failed event. The reconciler sweeps repository by
repository, so two of them show a pass that stops early; one trouble of any kind
already yields every pair of layers out of step. Lost answers meet the reconciler
in `converge`, the consumer in `events` and a worksheet in `vars`, which keeps
`reconcile` and `worksheets` small; the proofs have them throughout. A session an adoption creates
is one of the agent's actions, so it meets the creation, renaming or deletion of
the same or another name. The passing runs with the reconciler start with
their repositories managed, since finding 4 shows what happens otherwise; the
other passing runs start with none. The
stray name reaches the branch of `ensureForked` for parents without a workspace.

A worksheet adds a session's creation or deletion of its own to those of the
agent. In `vars` the third action is the session that takes the name of one the
worksheet deleted. In `worksheets` the agent makes one session, the worksheet the
second, and the third action renames or deletes the parent in between; one
trouble puts a failure between any two calls, or loses the forked event.
`DrainedMirror` and `NoLeftovers` are stated for instances without worksheets: a
worksheet between its row and its session is out of step with no event pending,
and one that failed there stays so until a pass.

A merge goes wrong between its four calls. Two calls at a time, any number one
after the other, meet on one request in every order; a second request would only
repeat this, since a merge touches no other one, and its work in the base is what
any commit or `git-rebase` already puts there. Three bookmarks give a head, a base
and one that is neither. The proofs cover any number of each.

Optimistic locking goes wrong between two calls, so two overlapping calls are
enough in `files`; the edits name every position of the texts, one before and
one after them.

`CHECK_DEADLOCK FALSE` appears where the instance may stop: without a
reconciler, or without further calls, once the stream is empty and the bounds are used up, nothing is
left to do; the violation runs stop the same way. `reconcile`, `converge` and
`worksheets` check deadlock, since the ticker never stops, and so does `merges`.

Fairness is weak, on `EventsStep` and `ReconcileStep`: the consumer and the
ticker are goroutines of one running process, each of which, if it has a next
call to make, makes it. The environment, adoptions and worksheets have no fairness, so faults, agent
actions, removals and the calls of an adoption may happen or not; they are finite by their bounds, which
is the hypothesis "once the troubles are over" of `EventuallyMirrored`. In
`reconcile` and `converge` users do not remove `main`, since `main_gone` shows
what happens then.

## 5. Findings

Disagreements between the code and what the repository says of it, met while
modelling; `PROJECT.json` quotes the lines.

1. `rename_orphan`: a rename onto an existing, unmapped bookmark (for instance
   the default `main`) keeps that bookmark's position and then deletes the old
   one with the session's commits; `events_sub.go:104` promises the position of
   the old one.
2. `main_gone`: `CanResolve` (`client_jj.go:246`) never asks about its revision,
   so the fallback to the repository head is unreachable, and a repository
   whose `main` was deleted never gets another workspace.
3. `shown_lines`: of a file that is one newline (what `edit` leaves when it
   deletes the only line) `read` shows one line and `edit` counts none, and the
   check of `end-line` (`tools.go:1292`) lets it be one past the last line, where
   the slice panics.
4. `unmanaged`: a failure between the two inserts of `bindRow`
   (`sessions_http.go:86`) leaves a row in a repository that is not managed, and
   no retry manages it; the reconciler then never sweeps it, so a lost deletion
   there is not repaired (`reconcile.go:9`). Adoption inserts rows without
   managing, too.
5. `sheet_lost`: a worksheet is recorded as executed before it is carried out
   (`worksheets.go:109`) and the record is never taken back. When the process dies
   after it, as in the run, or a step fails, the next delivery is answered OK from
   the record and does nothing, where `worksheets.go:73` promises exactly-once and
   line 134 speaks of retries. The property leaves aside a second delivery that is
   answered while the first still runs (`AnsweredMeanwhile`).

Not runs, but worth knowing:

- A DELETE that was applied while its answer is lost makes `ensureDeleted` return
  before the eviction (`events_sub.go:158`), and the redelivered event finds no row
  and returns too, so the deleted session resolves to its old bookmark until the
  TTL ends, although `README.md:40` calls the tool path strict. A rename
  (`events_sub.go:130`) and the sweep (`reconcile.go:83`) leave an entry the same
  way. So does a tool that read the row before the session was deleted and puts it
  after the eviction (`sessions_http.go:73`), with no failure at all.
  `DrainedCache` bounds what is left: no more entries than such answers and
  lookups.
- A reconciler pass between a fork by the agent and the delivery of its event
  creates the fork's bookmark at `main` (`reconcile.go:132`); the event then finds
  the row and returns (`events_sub.go:75`), so the fork does not inherit, which
  `events_sub.go:69` promises; `reconcile.go:13-16` admits this for events that are
  lost. `ForkInheritsParent` is checked without the reconciler.
- A rename that stops between `RenameRow` and `DeleteBookmark` leaves the old
  bookmark for good: the redelivered event finds no row under the old name and
  becomes a plain create (`events_sub.go:123`), against "old bookmark removed"
  (`README.md:28`) and "every step is idempotent" (`events_sub.go:10`).
- `GetRepoTree` shows a repository it could not list as empty (`client_jj.go:100`),
  so a `DeleteBookmark` then reports success without deleting: the row goes and the
  bookmark stays, for a later session of that name to continue.
- `variables.go:32` says the reconciler rebuilds the session variables; no line of
  `reconcile.go` does, and errors of the writes are discarded, so `VarsPublished`
  has to exclude failed writes.
- A fork of a session without a workspace into a repository that does not exist is
  refused (`client_jj.go:209`) and its event dropped, since only `ensureCreated`
  makes repositories; the session gets its workspace from a later pass, at `main`.
- The session an adoption creates has an event of its own; when its handler binds
  the bookmark first, `adoptBookmark` answers with a conflict
  (`sessions_http.go:115`) where the endpoint is documented as idempotent and
  `bindRow` takes the same conflict as success.
- A `write`, `delete` or `git-resolve` that could not read an existing file goes
  out without a sha and overwrites whatever is there (`tools.go:136-139`), so
  `NothingClobbered` has to exclude calls whose read failed.
- A fork by worksheet onto a bookmark or a row that exists keeps it as it is
  (`worksheets.go:180`, `EnsureBookmark`), so `ForkAtBase` speaks of forks whose
  workspace was free when they began (`clear`). A backfill in flight can make the
  bookmark of a session again that a worksheet has just deleted; the next pass
  unmaps it. With three worksheets about one name (fork, delete, fork) such a
  backfill can even come before the second fork, which then keeps the bookmark it
  made at `main`; the instance of `worksheets` has one worksheet.
- `mr-merge` takes the head sha when it reads the request (`GetMr`), and
  `NothingSneaksIn` counts from there. Commits pushed between a review and that
  read may enter, although `tools.go:794-797` also says "precisely what was
  reviewed"; no review records the sha it was about.
- `mr-merge` looks at the state once: a request closed during the merge is merged
  all the same. The error of `AddMrReview` is discarded (`tools.go:811`), so a
  merged request may have no approval although the manifest says the tool records
  one, and a rejecting review does not stop a merge; neither is promised.

## 6. Proofs

`WorkspaceProofs` proves, for all sets of repositories, bookmarks, names and
commits (finite or not) and all bounds:

| Theorem | States |
|---|---|
| `TypeCorrect` | `Spec => []TypeOK` |
| `OwnBookmark` | `Spec => []ResolvesOwnBookmark`: table, cache, lookups in flight and KV only ever pair a session with its own bookmark |
| `Bijective` | `Spec => []OneToOne`, with consumer, reconciler, worksheets and adoptions writing |
| `Losses` | `Spec => LossOnlyOnRequest`: a bookmark disappears only on an unacknowledged deletion or renaming of its session, on an approved worksheet that names it, or by a user of jj |
| `Invariance` | `Spec => []IInv`, the invariant behind them |

They assume only what the modules state about their constants
(`NamesAssumption`, `ShasAssumption`, `StreamAssumption`, `ObservedAssumption`,
`SheetsAssumption`, `WorkspaceAssumption`), which TLC evaluates in every run.
`ShasAssumption` says that a sha is the name of no bookmark; jj resolves both in
one revision argument, and only `ForkProofs` uses it.

The inductive invariant is `IInv == TypeOK /\ CallOK /\ JobOK /\
ResolvesOwnBookmark`. `TypeOK` alone is not inductive: a step uses `call[p].ws`
as a workspace, so the invariant must know that a handler at a call's label has
a call (`CallOK`: which operation can be at which label, that a rename or fork
has a peer, and that the source of a fork is the parent's bookmark). `Losses` needs more: the bookmark a
handler is about to drop must be one the *current event* asks to drop, so
`JobOK` ties the handler's locals to the event being served and that event to the
stream (`Serves`) and the hook's to the worksheet it carries out (`Executes`), and
`CallOK` says that the reconciler never runs anything but creations.
Adoption needs no conjunct of its own beyond the type of its workspace, since it
derives the name it inserts from that workspace. `ResolvesOwnBookmark` is preserved because rows are only written from a
workspace's own derived name, and cache and KV only from rows and from what
`resolveSession` returned, which again requires the invariant.

The proof has one lemma per action (`...KeepsIInv`), then one per group of
actions, and a temporal step by PTL. `Bijective` follows from the invariant with
the injectivity of `NamingSession`.

`ConvergenceProofs` proves, for the same constants and under the hypothesis
`InitManaged = Repos`:

| Theorem | States |
|---|---|
| `BackstopConverges` | `Spec => []PassConverges`: after an undisturbed pass sessions, rows and bookmarks agree |
| `SecondPass` | `Spec => SecondPassIdle`: the next one writes nothing |

The hypothesis says that every repository is managed from the start, and managed
it stays. It cannot be dropped: run `unmanaged` violates the first theorem's
property without it. The invariant `PassInv` follows a pass label by label, as
long as nothing has disturbed it (`calm >= 1`): what the pass has read is what is
there, since nobody else writes; a row is live, or about to be deleted, or in a
repository still to sweep (`Swept`); afterwards all rows are live and every
session lacks a row only if it is still to be backfilled or is being backfilled
(`HealOK`). At the end nothing is left in either set, which is `Mirror`. It is
inductive relative to `IInv`, which says what the locals of a backfill can be. A
pass that meets a refused call aborts and counts as disturbed, so the theorem
claims nothing of it: that passes complete is `EventuallyMirrored`, checked by
TLC.

`ConsumerProofs` proves three theorems about the lifecycle consumer without the
reconciler. `Alone` is `~ Ticking /\ Limit["sheets"] = 0`; everything else that can
happen in `Workspace` may happen, with any bounds.

| Theorem | Hypotheses | States |
|---|---|---|
| `EvictionsSuffice` | `~ Ticking` | `Spec => []DrainedCache`: of the cached entries no row has, there are no more than lost answers of applied statements and tools' lookups; worksheets are in the instance, as in run `vars` |
| `NothingLeftOver` | `Alone` | `Spec => []NoLeftovers`, also when events were lost or overtook each other and adoptions wrote rows |
| `ForksInherit` | `Alone`, `~ Overtaking` | `Spec => ForkInheritsParent` |

Alone, the consumer is the only one to remove rows and to make bookmarks, so what
a handler has looked up stays true until it uses it. The invariants spell that
out label by label:

- `CacheOK`: the entries no row has, the one the consumer is about to put at
  `"project"` included, are no more than the lost answers and the lookups that have
  reached the cache (`Occasions`, `InFlight`; `Cardinality` of a finite set). A
  statement that is answered evicts the entry of the row it takes away; one that is
  not takes one row away and leaves at most its entry; a lookup puts one.
- `TidyOK`: while no call failed, none was left unanswered and every repository
  could be listed (`Clean`), every bookmark without a row is a default one,
  or the one the consumer has made and not yet bound, or the one whose row has
  just moved away (`Accounted`); a row is deleted after its bookmark
  (`DropsFirst`), and from its look on a rename still has its old row
  (`RenameOK`). Every bookmark is in a repository that exists (`MarksInRepos`).
- `StreamOK`: events are numbered, the one being served is the first, nothing
  waits out of turn. `CallServes`: the call of a handler is the one its event
  asks for, with the source its label has already chosen. A bookmark made while
  a fork is first in line is made by that fork (`ForkMadeAtParent`), at its parent.

`DrainProofs` proves that redeliveries converge, by themselves. `Draining` is
`Alone`, delivery in order, and no event lost, bookmark removed by others or
bookmark adopted (`Limit["lost"] = 0`, `Removable = {}`, `Adoptable = {}`); calls may
fail, repositories may not be listed, answers and acknowledgements may be lost and
the process may die at every step, and there may be any number of each.

| Theorem | Hypotheses | States |
|---|---|---|
| `Converges` | `Draining` | `Spec /\ []WithinRepos => []DrainedMirror` |
| `ConvergesInOneRepo` | `Draining`, `OneRepository` | `Spec => []DrainedMirror`, as in run `events` |
| `VariablesFollow` | `Draining`, KV recorded | `Spec /\ []WithinRepos => []VarsPublished` |
| `VariablesFollowInOneRepo` | the same, `OneRepository` | `Spec => []VarsPublished` |

`WithinRepos` says of the events in the stream that a session that owns a workspace
is forked and renamed within its repository, and one that owns none is renamed to
a name that owns none. Without it the handlers refuse the event for good
(`events_sub.go:84, 109, 116`), or refuse a fork of a session without a workspace into a
repository that does not exist yet, and the layers stay apart until a pass; lost
events, removed bookmarks and overtaken events do the same. `OneRepository` (all names the agent
uses own workspaces of one repository) implies it (`StaysWithin`).

`DrainedMirror` says something only of states where the stream is empty, so the
invariant `Drains` has to say what is true before:

- `Alternating`: between two events of the stream that make the same session there
  is one that ends it, and the other way round; also one that makes it before it
  is needed as a parent. `LastWord`: the last event about a session tells whether
  the agent has it. With the session's own history, the stream is what is
  missing from the tables (`Flow`).
- `Settled`, `Expected`: a session no event is about has a row exactly if the agent
  has it; the first event about a session tells whether it has a row now, unless
  that event is the one being served. `HeadRename`: a rename being served has
  moved its row or not, and nothing in between (`Table`).
- `Marked`: every row has its bookmark, except the one a deletion is at.
- `Achieved`: where a handler is about to report success, its event is served in
  the tables. `Smooth`: only events of sessions without a workspace are refused, a
  fork finds its parent mapped, and a rename that has become a create has moved
  its row at an earlier attempt.

Each conjunct is preserved by acting (an event is added at the end: `Flow` from the
guards of the agent's actions), by serving (a handler's step changes one session's
row, and the first event about that session is the one served) and by failing
(nothing the invariant speaks of is lost with the locals). TLC checked it as an
invariant before the proof, with two repositories and stray names. `VarsFollow` adds, for
the KV, that while no call failed every row is projected or an event of the stream is
about its session.

`WorksheetsProofs` proves `CarriedOutOnce`, `Spec => ActsOnce`, for the same
constants as `WorkspaceProofs` and without further hypotheses: what has been
carried out is on record, and the worksheet the hook is busy with is on record and
has not been carried out (`OnceInv`), so a step of the hook for a worksheet that has
been can only answer. It is the half of `worksheets.go:73` that holds; run
`sheet_lost` refutes the other half.

`ForkProofs` proves `ForksAtBase`, `OneWorksheet => (Spec => ForkAtBase)`: approval latency
cannot shift the fork (`tools.go:847`). `OneWorksheet` is `Limit["sheets"] <= 1`,
`Removable = {}` and `Adoptable = {}`, as in run `worksheets`. The agent, the
consumer, the reconciler and the tools are free, in any number of repositories
and with any bounds on commits, lost events, failing calls, lost answers, crashes and
repeated approvals. Both goroutines can make the same bookmark at `main`, and
`ensureForkedAt` keeps a bookmark it finds, so the theorem says that they never
come first. The invariant `ForkInv` has an argument for each half of the fork's life:

- Before the agent makes the session nobody knows its name (`Roster`): `Named`
  lists what users of the agent name, a worksheet forks onto a bookmark no such
  session has (`OnlyBySheet`), and until the session exists the name is on no
  list a goroutine works from: sessions, events, snapshots of a pass, calls.
  Until the hook makes them, bookmark and row are absent (`ForkOK`).
- Afterwards the others may run `ensureCreated` or `ensureForked` for it, but the
  bookmark is there; no deletion of it is on its way (`PeersOK`), and what other
  bookmarks start from is a default bookmark, the head or a session users have
  named (`Steady`). So the bookmark stays `Apart`: it has the base and shares
  nothing beyond the base with any other.

`OneSheet` ties the worksheet in `sheets`, `clear` and `sheet` together,
`HookOK` its calls to it, and `RepositoriesOK` keeps `main` of every repository.
With three worksheets the first half fails (section 5: a backfill left over from
an earlier life of the name); an adoption is one more way for a name to enter those
lists, and a bookmark its users remove is not there any more, whatever it had.
These the hypothesis excludes.

`MergeRequestsProofs` proves, for all sets of bookmarks, changes, requests and
concurrent merges, from `MRAssumption`:

| Theorem | States |
|---|---|
| `MergesLand` | `Spec => []MergedLanded` |
| `NothingSneaks` | `Spec => NothingSneaksIn` |
| `MRTypeCorrect` | `Spec => []MRTypeOK` |

`MergedLanded` is not inductive: `MergeMarks` sets the state long after the
rebase. `MRInv` adds that a head sha belongs to its head bookmark (`ShaOfHead`)
and that a call past its rebase has its sha in the base and the conflict-free
rebase on record, and before it holds a sha within what it saw of the head
(`MergeOK`). Both survive every step of others because bookmarks only grow and a
request keeps its head and base.

`FileToolsProofs` proves, for all sets of lines, texts, calls and processes:

| Theorem | States |
|---|---|
| `Implements` | `Spec => CallsAreAtomic`: `FileTools` implements `AtomicFile` |
| `NobodyClobbered` | `Spec => NothingClobbered` |
| `EditsAsShown` | `Spec => EditAsShown`, from `EditShows`, a lemma about `applyLineEdit` for every text |
| `PagesComplete` | `Spec => []PagesShowFile` |
| `FileTypeCorrect` | `Spec => []TypeOK`, with `EditedText`: an edit of a text is a text |

Their assumptions are `LinesAssumption` and `FilesAssumption`. The inductive
invariant adds `CallOK` to the types: what a call is about to commit is its
effect on the text whose sha it holds (`Planned`), and while no read failed that
is the text that was there when it looked (`Locked`). At a commit jjlab has
compared the sha with the file, so the plan is the effect on the file as it is
then; that is the step of `AtomicFile`, and every other step is a stutter, a
beginning or a failure there. `PagesComplete` has an invariant of its own,
`PageOK`: what was shown is what precedes the next offset.

Only model-checked: `EventuallyMirrored` (liveness and ENABLED are
outside the prover), and `VarsPublished` with worksheets, which bind rows without
an event. `ForkAtBase` is neither proved nor checked beyond `OneWorksheet`.

## 7. Not modelled

Listed as components with status `partly` in `PROJECT.json`:

- the read-only tools (`ls`, `grep`, `explore`, `git-log`, `git-show`,
  `git-diff`, `git-blame`, `git-graph`, `mr-list`, `mr-view`) and the read-only
  endpoints: each formats one reply of jjlab and changes nothing;
- configuration, logging, messages and the manifest; the exact character rules of
  names (only whether a name is derived or a stray matters to the state); three
  statements of `pg.go` that have no caller;
- mailbox messages (their errors are discarded and nothing reads them back), and
  the chat position a fork is pinned at;
- two different worksheets carried out at the same time: the hook serves one at a
  time, while redeliveries of that one are answered meanwhile;
- the removal or renaming of a bookmark that has a merge request, the rewriting
  of the head bookmark by jjlab's rebase, and the text of conflicts.

## 8. Plan

1. Done: naming, store, jj, handlers, consumer, reconciler, adoption, worksheets,
   cache and variables, their composition; the file tools and their abstract
   specification; merge requests; five findings; the inductive invariants and the
   theorems that follow from them: the backstop, the consumer by itself, the
   convergence of redeliveries, the base of a fork.
2. `ForkAtBase` with several worksheets and with adoptions, whose hypothesis has to
   say of the names what `OneWorksheet` says of the bounds: that no bookmark is
   made for a name that has been somebody's before.
3. An abstract specification of the promise, a map from sessions to the history
   of their bookmark, which the event-only instance implements; the invariants of
   `DrainProofs` are what its refinement proof needs.
4. Merges composed with the tables: renamed and deleted bookmarks under a request,
   and the guard by which a session cannot merge what it submitted.
