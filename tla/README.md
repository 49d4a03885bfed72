# Cato in TLA+

Cato watches coding agents that run in tmux sessions on a computer, remembers
what they do, and lets a phone talk to them. This directory holds TLA+ modules
of the parts of Cato that run concurrently and survive crashes, the TLC runs
that check them on small instances, and proofs, checked by TLAPS, that the
central safety properties hold for every instance.

Paths below are relative to `packages/desktop-agent/src/` unless they start
with `packages/`, `docs/` or `bin/`.

## 1. Inventory

| Component | State | Operations | Talks to |
|---|---|---|---|
| tmux driver (`tmux/tmux.ts`, `bin/cato`) | sessions and what runs in their panes (owned by the tmux server) | list, new, send, kill, capture, resize | everything that touches a terminal |
| Memory Engine (`memory/memory-engine.ts`, `db.ts`) | the tables project, task, worker, event, capture_line, memory, checkpoint | one or two SQL statements each, no transactions | every appended event goes to the Event Bus |
| AgentManager (`agents/manager.ts`) | `#tracked`, `#waiting`, `#busy`, pending questions | discovery tick every 2.5 s (adopt, release), spawn, prompt check, answer | tmux, Memory Engine; WsServer through callbacks |
| RecoveryMonitor (`recovery/monitor.ts`) | `#busy`, `#cooldownUntil` | sweep every 2 s, recover | tmux, Memory Engine |
| Orchestrator (`orchestrator/orchestrator.ts`) | last spoken reply | voice commands, controls, terminal mirror, close, delete, reopen | Memory Engine, tmux, AgentManager (spawn) |
| ApprovalManager (`approvals/manager.ts`) | pending approvals with timers, standing allow rules | request, resolve, timeout, clear | WsServer |
| WsServer (`ws/server.ts`) | authenticated sockets, session keys, failed attempts per address, WAITING set | HTTP hook, handshake, messages, broadcasts | Orchestrator, ApprovalManager, AgentManager, Event Bus |
| Event Bus (`bus/event-bus.ts`) | listeners | on, onAny, emit | Memory Engine to WsServer |
| Capture (`capture/*.ts`) | lines seen, file offset | poll, close | AgentManager, capture CLI |
| Phone (`packages/mobile/App.tsx`, `src/catoClient.ts`) | connection, reconnect target, token per machine, approvals, terminal | connect, reconnect, pair, resolve, mirror | WsServer |
| Machine list (`packages/mobile/src/machines.ts`) | saved machines, Keychain tokens | load, save, merge by id | the phone |
| Voice, embeddings, importance, phrasing, keys, pairing scripts, UI | none that interacts | external programs, text, layout | - |

What is hard here: the desktop agent is one Node process, but its loops and
handlers interleave at every `await`, over a database and a tmux server that
other processes change too. There are no transactions. A rejected promise that
nobody handles ends the process; a service manager starts it again; sessions
and rows survive and everything in memory is lost. `PROJECT.json` lists the
resulting hazards line by line.

What makes the components correct:

- *worker table*: one running row per spawned pane, no row comes back to life,
  neither a stopped nor a deleted one, events tell what the table says, and the
  rows of sessions that are gone end up stopped;
- *discovery*: what is tracked is what exists; what is released is gone;
- *recovery*: a dead agent is relaunched once, and replaced by one new row,
  or the process dies visibly of it;
- *history*: a deleted project is gone, whatever ran concurrently;
- *approvals*: each request is answered once, by the human or the timeout;
- *sessions*: nothing reaches an unauthenticated socket; the owner gets in;
- *phone*: the phone ends up connected to the machine and with the token the
  user chose last.

## 2. Plan

What is written, in the order it was written:

1. worker life cycle: `Tmux`, `MemoryEngine`, `AgentManager`,
   `RecoveryMonitor`, composed in `DesktopAgent`, with the abstract
   `WorkerRegistry`; proofs in `DesktopAgentProofs`;
2. `WaitingBadge` (prompt check against discovery) and `ProjectHistory`
   (deletion against concurrent ingestion), with proofs of each;
3. the phone's side and its server: `WsServer`, `MobileLink`, `Machines`,
   `Approvals` with the abstract `ToolDecisions`, with proofs;
4. what goes into and comes out of a pane: `TerminalMirror`, `Commands` and
   `Capture`, with proofs.

For every component its types and each safety property of its run are proved; what
the runs check beyond that is liveness.

What is left, most useful first:

- the composition of `MobileLink` with `WsServer`: today each has a reduced
  model of the other, and the frames between them are the interface;
- the endpoint `/folders` of `ws/server.ts` (GET lists, POST creates), which asks
  the file system once and keeps nothing (`/info` is in `MobileLink` and
  `Machines`, the rules that `/hooks/pretooluse` asks are in `Approvals`);
- liveness of the composition over more than one session of each kind.

## 3. Modules

One action is one step of the code between two `await`s (or callbacks), with all
that the code does synchronously in it. Every module has its own state; only the
life cycle's modules are composed by EXTENDS, and `ToolDecisions` and
`WorkerRegistry` are instantiated by the modules that implement them. `Phone`
declares the two constants that `MobileLink` and `Machines` share. Where one
module of proofs is about two components, the specification of one of them bears
its name: `BadgeSpec` of `WaitingBadge`, `MachinesSpec` of `Machines`.
Definitions marked `mutant` in the modules are plausible bugs: `PROJECT.json`
names, for each property, the definition it replaces, and TLC finds the property
violated then.

### Worker life cycle

`Tmux` <- `MemoryEngine` <- `AgentManager`, `RecoveryMonitor` <- `DesktopAgent`
(each EXTENDS the one before). One action is one query or tmux command with the
synchronous code after it: an `await` ends a step.

- **Tmux**: `pane[s]` is `"none"`, `"shell"` or `"agent"`. Wrapper sessions
  (`Adoptable`) run the agent as root process and end with it; spawned ones
  (`Spawned`) run a shell that survives it. A ULID is never used twice.
- **MemoryEngine**: `worker` is the worker table, oldest row first. The two
  statements of `stopWorker` are two actions of the callers (`StopWorker`, then
  `AppendStopped`). Of the event table only the reasons of `WorkerStopped` are
  kept, in the row's `stops`, of the task table whether the last task of a session
  is there (`filed`). Rows that `deleteProject` removes stay in their place with
  the state `"deleted"`: ids are never given twice, and others may still hold them.
  An INSERT that refers to a task or a worker that went is refused.
- **AgentManager**: `discover` is the program counter of `#discover` (`"idle"`
  is `#busy = false`), `live` its listing, `adoptee` the session it has filed a
  task for, `handled` the row it works on; `spawn[s]` is the program counter of the
  `spawnForProject` that creates `s`. A task timer is the phase `"task"`.
- **RecoveryMonitor**: `recovery` is the program counter of `tick`/`recover`,
  `sweep` the rows still to visit, `victim` the row in hand, `cooling` the
  targets in cooldown. Both comparisons use a clock reading taken when the sweep
  starts, so `aged` and `cooling` change between sweeps only.
- **DesktopAgent**: the process `up`, closeSession (`killing`: looked up, not
  yet killed), deleteSession (a close that goes on, or none, and then the
  statements of `deleteProject`, `deletion`), unhandled rejections, kill, restart,
  and the environment. A deletion may be asked for at any time, and its statements
  come between those of every other loop; captured lines and the project's own row,
  which goes last, are `ProjectHistory`'s. A graceful shutdown is a kill: it writes
  nothing.
- **WorkerRegistry**: the abstract promise. `life` is the list of workers;
  `Start` needs an exclusive session to have none alive, `End` is final, and
  `Remove` takes away the workers of a `Group` (a project) together, for good.

### WAITING badge

**WaitingBadge** stands alone: it needs overlapping ticks, which `DesktopAgent`
has no use for, and only a reduced discovery (one listing, then adoptions, then
releases).

- `tracked` is the order of the `Map`, which decides which session the loop of
  `#checkQuestions` visits next; a loop goes on with the first entry it has not
  passed (`visited`), as JavaScript's iterators do when the `Map` changes under
  them.
- `phase[t]` is the program counter of tick `t`; `before[t]`, `at[t]` and
  `seen[t]` are its local variables.
- `waiting` is the manager's set, `badge` the copy in `WsServer`
  (`ws/server.ts:254`), which changes when `#onWaiting` is called, and overlays
  the statuses the phones get.
- Whether a screen shows a live menu (`parseMenu`) is the set `menu`.

### Project history

**ProjectHistory** has the rows of one project. Rows are records of the columns
that refer to other rows; texts, scores and embeddings are left out, and events
and captured lines that refer to the same rows are one row. All queries and
foreign keys stay within one project, so one name is enough.

- A *handler* is a session (its adoption, spawn and release) or the recovery
  monitor. `todo[h]` lists the statements it has still to await, `ids[h]` the
  ids it holds. Each statement is an action that either does its work or is
  refused by a foreign key.
- A refusal ends the process (`Die`), since nobody handles the rejection, except
  in `session.reopen`, which catches it, and in `ingestLine` and "stop", whose
  callers ignore it.
- `deletion.at` is the program counter of `deleteSession`: kill, select, and one
  step for each DELETE; each is refused as a whole or executed as a whole.
- `pinned` stands for rows of checkpoint and memory, which only the command line
  tool writes with a project. The embedded database is open to one process at a
  time, so it runs while the agent does not.
- `quiet` and `deleted` are history variables for the properties.

### Approvals

**Approvals** is `approvals/manager.ts` with the phones that answer, **ToolDecisions**
what it promises: each call is decided once, by a human, by a rule that a human
made, or by the timeout, after which the agent's own prompt asks.

- `outcome[r]` is the promise of a request; `"pending"` means that it is in
  `#pending`. `request()` is `AutoAllow` where a rule covers the call, otherwise
  `Ask`, which broadcasts it; then `Timeout` or the first answer that arrives
  (`Resolve`) decides. `Answer` is the tap, which takes the card away at once.
- `link[p]` is `"broken"` while the socket is gone and the App has not noticed:
  what is sent then is lost. `Welcome` sends what is pending (`finishAuth`).
- Nothing in the wired program calls `request()`: the hook's handler
  (`/hooks/pretooluse`, `ws/server.ts:208-240`) answers from the rules or leaves it to the agent. Its
  callers are therefore external.

### Sessions of the server

**WsServer**: `sock`, `authed`, `key` are the server's view of each socket; the hello
is `Hello` or `SecureHello`, whose token is right or wrong. `jobs` are the
handlers that wait for the database, tmux or a model: replies and broadcasts that
end in any order. A handler reads the table and the overlay in the step in which it
ends: PGlite serves one statement at a time, and between its answer and the frame
there is no other wait. `out` are the frames of the last step, so that properties
can speak of what is sent, to whom, and how: `Frame` is what `#emit` encrypts,
`Plain` and `Failure` are the errors that `send` writes as they are, with a fixed
text or with the message of what failed. `told` is what a phone shows after them.
`sealed`, `asked`, `windows` and `tried` are history variables.

### The phone's connection and its machines

**MobileLink** is `App.tsx` with `CatoClient`. A slot of `conn` is one client from
`connect()` to its `onClose`, and then the retry that `onClose` scheduled, with
the arguments of the closure that scheduled it. A client that was told to close
keeps its handlers: its frames and its `onClose` still arrive and act on the App.
Attempts and backoff are a timer that fires at any time. The agents are there as
far as a phone sees them: up or not, and their token.

**Machines** is `machines.ts` and the list in `App.tsx`. A change of the list
queues a write of the file and of tokens that nobody waits for; each write is a
step; the system may end the App between any two, a new build may bring secure
storage, and the Keychain may refuse. `host` says which machine answers at an
address: addresses move. The list is a set of records. A load reads the file
(`text`) and then asks the Keychain, token by token. `welcomed` and `moved` are
history: the machines that confirmed their pairing, and those of them whose token a
Keychain that came with a later build does not have. Both outlive restarts.

### Terminal view

**TerminalMirror** is the view in the App (`open`, `text`, `had`, `menu`, `sig`), the
socket, and the handlers of its requests in the Orchestrator (`op`): each looks
its worker up, then runs one tmux command per step, interleaved with the others.
A screen is blank, plain, or a menu (blank more often than in the program, whose
captures bring 400 lines of scrollback along); a window has the phone's width or the
desktop's, and `follows` is its `window-size` option.

### Commands

**Commands** follows a command from the phone to the answer: `st` is the program
counter of its handler (transcription, classification, lookup, retrieval, text,
Enter, answer). A line is two tmux commands, so `typed` may hold texts of several
senders. `met`, `cut` and `lines` are history variables.

### Capture

**Capture** is the command line tool's `ingest`, `spawn` and `adopt` with the two
sources they read. The program prints half lines, so that a read may end within
one; a file is the sequence of its halves, which can be truncated and, through
`pipe-pane -o`, toggled on and off. A full-screen program draws screens,
sequences of `Text`; the memory of lines already seen is `order`, cut back to
half of `Cap`.

## 4. Runs

| Run | Instance | Shows |
|---|---|---|
| `agent` | a wrapper session and a spawned one of one project, 2 disturbances, deletions among them | the safety properties of the worker life cycle; that `DesktopAgent` implements `WorkerRegistry`, also while the project is deleted; that gone workers end up stopped, dead agents are relaunched, recoveries complete, tracking settles |
| `badge` | 2 ticks, 3 sessions, two of them (one spawned) of one project, 5 changes | one tick discovers and the lock is never left set; a project whose sessions keep waiting ends up waiting, however checks overlap; where ticks do not overlap, the phones are told so, and resolved menus are cleared |
| `history` | a wrapper session and a spawned one, 4 changes | foreign keys, explained deletions, refusals only after deletions |
| `phone` | 2 machines, 3 clients, 2 taps, 2 changes | one client is open; the target is pursued; a target without a client gets one |
| `server` | a phone and a local client, a limit of 2 guesses, 1 lockout that expires, 1 command under way, 2 changes | late replies reach welcomed sockets only, and all but failures is encrypted; guesses outside of lockouts are bounded; marks are right when handlers have ended; the owner gets in |
| `approvals` | 3 calls (two of one command, two of one session), 2 phones, 2 losses or answers | no pending request disappears; `Approvals` implements `ToolDecisions` |
| `machines` | 2 machines, 2 addresses, 2 writes waiting, 5 events | no machine twice; confirmed pairings survive restarts, unless a build brings a Keychain without their token |
| `mirror` | 2 projects, 2 menus, 2 handlers, 2 taps, 1 event | the view shows the open project, its menu, and dismissed menus stay away; the desktop gets its size back; a view ends with its session |
| `commands` | 2 phones, 2 projects, 2 commands, 1 event | what is said was done; texts merge only where handlers overlap; everybody is answered |
| `capture` | 5 half lines or screens, a memory of 4 lines, 1 truncation or toggle | lines are captured whole, once, in order; what stays on a screen is captured; every line a file gets while it is tailed is captured |
| `history_release`, `server_badges` | as small as the case allows | what a comment says and the code does not do; section 6 |

*CHECK_DEADLOCK FALSE* is said where the instance may really come to rest: with
the users', networks' and programs' changes used up, an idle phone, manager or
tool has nothing to do (`history`, `history_release`, `phone`, `server`, `server_badges`, `approvals`,
`machines`, `mirror`, `commands`, `capture`). In `agent` and `badge` the timers' own
steps go on for ever.

*Why the bounds are enough.* The worker life cycle needs one session of each kind
to exercise every handler; sessions of one kind only share the row order, and the
proofs cover any number. Two disturbances allow a crash within a recovery or
within a start, or a deletion within either. Five changes of the badge let two
sessions come up, one menu be answered and another appear within one check; the two
sessions of one project write one mark. Four changes of the history are a session, a
command or a death, a deletion, and one more event while it runs.
Three clients are the current one, one that closes late, and a retry; a second
tap while the first client closes is where they get mixed up. A limit of two
guesses has a first wrong one, a last one, and one after the lock expired. Two
commands suffice for every interleaving of two senders in a pane, and the third
would only merge with either. Two handlers of the mirror are a resize under way
and the release or the capture that overtakes it. Five half lines are two lines
and a partial one; a memory of four forgets with the third screen.

*Fairness.* Every action that answers an `await` is weakly fair: tmux, the
database, files and the local model answer (`Commands` assumes it of Ollama and
Whisper, whose fetches have no timeout). Timers and intervals fire. Sockets make
progress and their events are delivered. A process that ended is started again:
the service files of `bin/cato-daemon.sh` say `KeepAlive` and `Restart=always`.
Time passing (grace period, cooldown) is strongly fair, since it is enabled
between sweeps only. Users, agents, networks and the operating system are not
fair.

## 5. Proofs

`DesktopAgentProofs` proves, for every set of sessions and projects and any
number of disturbances, deletions included, that `IInv` is an invariant of `DesktopAgent`, and from
it `TypeOK`, `OneRunningPerSpawned`, `RelaunchIsUnregistered`,
`TrackedAdoptedIsLatest`, `StoppedEventFollowsUpdate`, and that every behaviour
implements the abstract worker registry (`RegistrySpec`).

That a spawned session never has two running rows is not inductive: it depends on
where the handlers stand. `IInv` adds

- `SpawnInv`: a session whose spawn has not inserted its row yet has no row at
  all, and afterwards the row it holds is its own;
- `SweepInv`: the rows a sweep has still to visit are of different spawned
  sessions, where nothing else runs (a row released meanwhile may be among them);
- `VictimInv`: so is the row under recovery, and once it is marked stopped nothing
  runs in its session until the replacement is registered;
- `TrackInv`: a session is tracked with a row of its own, a wrapper session with
  its youngest, which is running or was deleted with its project;
- `HandledInv`: the row `#discover` works on is of a wrapper session that is not
  tracked, or of a spawned one.

The refinement maps each step to a start of a worker, an end of one, the removal of
a project's workers, or a stutter. That a start finds no worker alive in an
exclusive session follows from `SpawnInv` and `VictimInv`. That an ended or removed
one stays so follows from the fact that no action sets a row back to running, or
touches a deleted one: `stopWorker`'s UPDATE, which looks at no state, finds no row,
and an event about it is refused (`StopWorkerFacts`, `AppendStoppedFacts`). The
statement that deletes workers removes all rows of the project or, refused, none
(`DeleteRefines`).

`PaneProofs` is about `WaitingBadge` and `Capture`, what is read off a pane.

*The badge*: `DiscoveryLock`, which is `OneDiscovery` and `BusyWhileDiscovering`,
for any number of ticks and sessions. Together with the types of `phase` and
`busy` they are inductive: a tick that frees the lock is the only one in its
discovery, which is what `OneDiscovery` says of the state before. `BadgeTypes` and
`SessionsAreTrackedOnce` follow from a second invariant, `BadgeInv`: what a check
looks at is a session, and what Cato spawned stays open while it is tracked, so
that no spawn and no adoption enters it a second time.

*The capture*: `CapturedOnceInOrder`, `DedupWindow` and `StableIsStored`, for any
texts and screens, any cap, and any number of lines printed and of truncations.
`CaptureInv` adds to them

- `StageOK`: what the CLI has by the step it is at;
- `MemoryOK`: the memory of the snapshots is a suffix of what was emitted, all of
  it or, after a cut, more than half a cap: so a text that is emitted again is that
  far from its last time;
- `EmitOK`: of the texts on both snapshots, those worked through are captured,
  whatever the memory forgot meanwhile;
- `OnceOK`: what is captured, with what the buffer holds back, is increasing, at
  most what was printed, and smaller than all that is still to come: the
  scrollback not yet ingested and the file beyond the offset. So nothing comes
  twice, even when the file is truncated or the pipe toggled;
- `FileOK`: as long as nobody cut the file, it holds consecutive halves up to the
  last one printed, and the tail's offset and size are within it; this makes
  `TailedInOrder` and `LinesAreWhole` inductive.

What the prover needs to know of `FlattenSeq`, which is recursive, and of the
least newline are lemmas. The induction they rest on is `LeastNumber` (a set of
numbers has a least one): a counterexample of least length is refuted. The same
invariant gives `MemoryStaysBounded`: a cap of two or more is never exceeded.

`ProjectHistoryProofs` proves all four properties of `ProjectHistory`, for any
number of sessions and of changes. Each needs an invariant of its own:

- `TypeOK`, the foreign keys, is inductive: each statement is refused exactly
  where it would break one;
- `HeldInv`, for `RejectionsFollowDeletions`: the statements a handler has left
  are the tail of a start, a stop or a recovery, and as long as no DELETE was
  executed, the ids they need are those of rows (`Covers`). So a refusal means a
  DELETE, and what is left is the monitor's `send`;
- `DeletionInv`, for `DeletionsAreExplained`: while nobody writes, every table the
  deletion has passed is empty;
- `RunInv`, for `AdoptedRowsRun`: ids are never given twice, a row belongs to one
  session, and a handler holds a row of its own session, the monitor one of a
  spawned session. So nobody stops the row of a session that is followed, but its
  release.

`WsServerProofs` proves every property of the run `server`, and that sessions end with
their sockets, for any number of sockets, addresses, projects, handlers and
guesses. What is proved of guesses is about those sent outside of lockouts, and what
is proved of encryption excepts the error of a phone's own command: section 6 has the
stronger claims, which are false. `ServerInv` adds

- `JobsAreOfPhones`: a handler that will reply works for a socket that was
  welcomed, or whose session is over, in which case it sends nothing;
- `KeysAreShared`: a phone that holds a session key is one the server has a key
  for, as long as it is there;
- `GuessInv`: the count of an address is the number of its wrong tokens outside of
  lockouts, and an address that reaches its limit is locked, so that only the end of a
  lockout allows one more;
- `BadgeInv`: each phone's marks are right, or a broadcast is still under way,
  which reads the table when it ends: so the last one to end makes them right,
  whatever order they end in.

`PhoneProofs` is about `MobileLink` and `Machines`.

*The connection*: `OneOpenClient` and `TargetIsPursued`, for any number of
machines and clients. They are inductive together with `ClientLives`: the current
client has not reported its close; without it, a tap could forget a client that
was never told to close. From the same invariant, `ShownSessionsExist`: the App
shows a machine only while some client that was welcomed has not reported its
close.

*The list of machines*: `Unique` and `ConfirmedPairingsAreKept`, for any number of
machines, addresses and writes. `Unique` is inductive with the types, once
`applyIdentity` and `upsert` are shown to keep a list without duplicates. The
second is about an App that was ended and started again any number of times, and
needs to know what the next start would find. `MachinesInv` says it with

- `KeychainHoldsOwn`: the Keychain holds no machine's token under another's name;
- `KnownAtStart`: from a start until something is learned, nothing is on its way to
  the storage, and what is in it gives every confirmed pairing its token;
- `KeptLater`: once the list is loaded, a machine with a confirmed pairing is in the
  list and in what the file will hold, and its token is in the Keychain, on its way
  there, or, without a Keychain, in both lists.

The pairings spoken of are those in `welcomed` and not in `moved`: where a build
brings a Keychain that lacks the token, the next save strips it (section 6).

`ApprovalsProofs` proves `NoRequestIsLost`, that rules come only from what a human
allowed (`RulesComeFromAllowed`), and the refinement: each step of the manager is a
decision of `ToolDecisions`, each step of phones and links a stutter. `ApprovalInv` is
the conjunction of the first two with the types; what needs work are the queues,
whose lemmas come first.

`TerminalMirrorProofs` proves the three safety properties of the view. `MirrorInv` adds
`SigIsShown`: `shownMenuSig` is always the menu of the text that is shown. That is
why a dismissed menu stays away, and why the sheet and the text cannot differ.

`CommandsProofs` proves `ToldWasEntered` and `MergesAreExplained` for any number of
phones, projects and commands. `CmdInv` adds

- `AllSound`: what a command does and has said fits where its handler is;
- `TypedInv`: an input line holds only texts of its own project whose Enter is
  still outstanding, or whose handler died, and any two of them met;
- `PastInv`: what has met or been entered is a command that was typed;
- `FateInv`: a text whose handler sends Enter is in the line, was entered
  together with another, or was cleared by a stop, or the session is gone.

Assumptions: the named ASSUMEs of the modules. They say that wrapper and spawned
sessions differ, that `None` is none of the values it stands beside, that the sets
of requests and of projects are finite, that addresses and keys are functions of
sockets and requests, that screens are sequences of texts, that a memory holds at
least one line, and that bounds are numbers.

Only model-checked: liveness (`GoneWorkersAreMarked`,
`DeadAgentsAreRelaunched`, `RecoveryRegistersReplacement`, `TrackingConverges`,
`MenusAreShown`, `ResolvedMenusAreCleared`, `KeepsTrying`, `DesktopGetsItsSize`,
`ClosedSessionsCloseTheView`, `NobodyWaitsForEver`, `EveryLineIsStored`), since fairness
and ENABLED are beyond the prover.

## 6. Where the code and its documentation disagree

Two are runs that end in a counterexample, and findings of `PROJECT.json`:

- `history_release`: deleting a chat that runs can end the process in the release
  of its session (`agents/manager.ts:153`).
- `server_badges`: the statuses that answer a spoken question lack the overlay
  (`ws/server.ts:450`).

The modules state more of them, as definitions that no run lists; each is
violated when its run's cfg names it in place of the properties there (a formula
with `[]` or `<>` as a PROPERTY, the others as an INVARIANT), with two changes: `LiveWorkersAreShown` is about `FairSpec`, and `RetriesAreForTheTarget` needs
a third tap (`MaxTaps = 3`).

| Definition | Module | What happens |
|---|---|---|
| `OnlyGoneAreReleased` | DesktopAgent | a session that is spawned while `#discover` works with an older listing is released although it is there, and never tracked again |
| `ShownWorkersAreLive` | DesktopAgent | a wrapper session that survives a restart gets a second running row; when it closes, only that one is stopped, and its project is shown for ever |
| `PanesAreReattached` | DesktopAgent | a spawned session that survives a restart is never tracked again |
| `OneReasonPerStop` | DesktopAgent | sweep and release may both stop a worker, which is reported as crashed and as cleanly stopped |
| `BadgeSelfClears` | WaitingBadge | the badge of a session that closes while it waits stays with its project |
| `QuietDeletionsRemove` | ProjectHistory | a project whose worker was once told to stop cannot be deleted |
| `LiveWorkersAreShown` | ProjectHistory | a session that stays open while its project is deleted is followed and never shown |
| `DesktopSizeRestored` | TerminalMirror | a release overtaken by a resize under way leaves the desktop with the phone's width (`orchestrator.ts:111`) |
| `TokensAreKept` | Machines | a token is stripped from the file whenever secure storage is there, also when it was only typed and the machine has not welcomed the phone yet, or when the Keychain refused it: after a restart it is gone (`machines.ts:108`) |
| `OverlappingChecksReport` | WaitingBadge | of two checks that overlap each takes what the other has reported for known: a project waits, in the manager's own set, and the phones are never told (`agents/manager.ts:111-121`) |
| `OneMenuIsEnough` | WaitingBadge | a project waits on a menu in one of its two sessions; the other one, looked at later, clears the mark (`agents/manager.ts:118`) |
| `TrafficIsEncrypted` | WsServer | the error of a command goes to a phone with a session key in plain (`ws/server.ts:466`), with the message of what failed; that of a failed tmux command quotes what was to be typed. `ws/server.ts:338-340` says "traffic is always E2E", as does `docs/SECURITY.md:25-28` |
| `LockoutsStopGuessing` | WsServer | during a lockout every token is still compared, and a right one gets in (`ws/server.ts:322`), as the comment there wants; `docs/SECURITY.md:20-21` says that the lockout "defeats brute force", which an unbounded number of compared guesses does not bear out |
| `TokensMigrate` | Machines | a confirmed pairing whose token was in the file is lost when a build brings secure storage: the next save strips the token, which no one has put into the Keychain (`machines.ts:110-111`, against `machines.ts:60-62`) |
| `RetriesAreForTheTarget` | MobileLink | a retry scheduled for an earlier target fires although the user has moved on (`App.tsx:132`) |

What else the models show, within what their properties claim:

- *badge*: where ticks overlap, the phones may also be left with the mark of a menu
  that was resolved; the next change that a check reports takes it away.
- *phone*: connecting again to the address of a client that has not closed yet
  makes the old `onClose` schedule a retry, which later closes the good connection;
  retries use the token and key of the closure that scheduled them; a `/info`
  answer acts even if the user has moved on.
- *registry*: a row whose project was deleted may still be tracked or under
  recovery; it is never written again, and the INSERT of an event about it, refused,
  ends the process.
- *machines*: a new machine at a known address inherits its record and token; a
  machine that takes another's address replaces it; a list that is loaded late
  replaces what was learned meanwhile, confirmed pairings included.
- *mirror*: the view closes while the session is alive if its worker is being
  recovered or its screen is blank; a tapped number may answer a newer menu;
  nothing releases the size when the link is lost; a key for a session that is
  gone is a rejection nobody handles.
- *commands*: lines of two senders may merge (`tmux.ts:71`), and a stop may come
  between a text and its Enter; `#lastSpoken` is shared by the phones; a command
  without a project goes to the youngest worker.
- *capture*: `pipe-pane -o` toggles, so a second `adopt` turns capture off; output
  between the backfill and the start of the pipe is lost; `spawn` begins to tail
  after the launch; after a rotation a partial line is glued to the new file's
  first, and a file that grew past the old offset is read from there; a memory
  with a cap of one cuts half of one line, which is nothing, and grows for ever
  (`snapshot.ts:77`).

## 7. Not modelled

- What is typed is not told apart, nor what a shell makes of a line meant for an
  agent; a read that splits a multi-byte character (`file-tail.ts:43`).
- tmux takes `-t` as a prefix where no session has the name; the model takes it as a
  name. So `ToldWasEntered` says less of the program: what is meant for `cato-web`,
  which is gone, may be typed into `cato-web-admin`, and the sender is told that it
  was sent. That typing into a session that is gone is refused (`SendRejected`) is
  about whole names likewise.
- A graceful shutdown writes nothing, so it is a kill; `index.ts:92` awaits
  `ws.stop()`, which waits for the phones to leave.
- The lengths of timeouts and backoffs: a timer that is set fires at some time.
- Prompts, wording, embeddings, importance scores, audio formats: data without
  state that interacts.
- Configuration, keys, mDNS, pairing scripts: files and network, read or written
  once; the type declarations and the crypto of `packages/shared`.
- Layout, theming and the folder picker of the App, and the HTTP endpoint that
  serves it (`/folders`: GET lists, POST creates).
- That a desktop terminal is shrunk for as long as a resize under way takes to be
  undone (`tmux.ts:170` "never shrink"): `DesktopGetsItsSize` is about the end.
- The other subcommands of the capture tool (`sessions`, `send`, `status`,
  `checkpoint`, `remember`, `recall`), which read or write once.

`PROJECT.json` gives each component's status.
