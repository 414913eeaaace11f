# A TLA+ model of aidc

aidc runs Claude Code in a dev container behind a filtering proxy ("session"),
and `aidc-mcp` is the server through which an orchestrator drives sessions:
it sends prompts, watches transcripts and delivers replies, runs headless
Claude processes, and reports state. The modules here model the parts of
`aidc-mcp` that keep state across asyncio tasks, docker calls and restarts, are
checked with TLC on small instances, and are proved about with TLAPS.

Line numbers below refer to `src/mcp/src/aidc_mcp/tools.py` unless another file
is named.

## 1. The system

| part | state it keeps | operations | interacts with |
|---|---|---|---|
| send path (`session_send`, drainer, `session_queue_cancel`) | per session: send lock, queue, batch left in the input box, queue file, dead letters, ids of pasted prompts | send, queue, drain, cancel, resume at startup | tmux in the container, docker inspect, policy flag, turn state |
| turn state (`_turn_verdict`, `_session_state`, `screen.py`) | echo still owed, working text seen, early Esc reported, last two readings | idle or running, with a reason | transcript, screen, Stop hooks, the watcher |
| transcript reading (`read_transcript`), mirror (`transcript-mirror.sh`) | the copy of the transcript, what was parsed of it | copy forward, read, forget | Claude's file, everything that reads turns |
| transcript parsing (`transcript.py`) | none | completed turns, open turn, unanswered prompt | turn state, reply delivery |
| reply delivery (transcript watcher, `_drain_transcript_once`, `_resend_reply`) | per session and conversation: watermark, delivery ledger, dead letters; in memory: drain lock, counters of torn and stale reads, loop guard | poll, deliver with retry, dead-letter, re-anchor, resend | transcript files, the orchestrator's webhook |
| webhook registry (`session_watch`, `session_unwatch`, `resume_watchers`) | watch file, watcher tasks, tool descriptions | register, baseline, unwatch, resume | reply delivery, kill and create |
| prompt origin (`record_sent_prompt`, `take_sent_entry`) | records of what the server sent and has not seen in the transcript | record, consume | send path, delivery |
| headless runs (`session_invoke`, `session_invoke_async`, `session_interrupt`) | per session: invoke lock, tracked runs; processes in the container | claim, run, stop, callback | docker exec, client disconnects |
| session MCP hand-over (`session_mcp.py`) | in the session: `.claude.json`, one token file per server | set, replace the token | the first start's seed, Claude's own writes, its start |
| policy sidecar | taint flag, notification once | taint and its response | proxy log, `session_send` |
| refresher sidecar | block lists, last good copies | fetch, validate, swap | squid, policy |
| audit sidecar, squid, CLI (`scripts/`), container start-up | files, docker objects | one command or one loop each | docker |

Hard behaviours: every tool is a coroutine, so each `await` (docker exec, tmux,
lock, HTTP) lets any other tool, task or restart in; docker may not answer; a
session is killed and created again under its old name; a person types at the
same input box; the client may cancel a call in the middle; a POST may arrive
and its answer not; and the server may stop between any two of its writes.

What makes each part correct:

- send path: accepted prompts are never lost, reach Claude in order, once, alone
  in the box, in the session they were accepted for, and a waiting queue always
  has a drainer;
- reply delivery: each completed turn reaches the orchestrator at most once and
  in order, none from before the conversation was connected, none is skipped
  silently, and what the orchestrator itself sent is never reported as a person's;
- headless: at most one run per session, and a run whose caller has gone is stopped;
- turn state: a session that works is never called idle, and one that has
  finished is called idle in the end;
- webhook registry: one watcher polls, the one that is saved; a restart opens no watch on a
  session it was not asked for;
- transcript reading: every read is what the file holds, and what Claude wrote is read in the end;
- MCP hand-over: nothing in Claude's state is lost to it, and nobody takes a server for usable
  that the running Claude has not loaded;
- sidecars: one taint response per taint; a reader never sees half a list.

## 2. Modules

| module | what it is |
|---|---|
| `PromptPromise` | abstract: prompts, their fate (both given and taken back is one it forbids), how often they were given, and their rank of arrival |
| `SendQueue` | the send path in full; implements `PromptPromise` |
| `MCSendQueue` | instance for TLC: symmetry of the prompts |
| `SendQueueProofs` | theorems about `SendQueue`, for all constants: the queue, what is pasted and into which session, and that it implements `PromptPromise` |
| `Delivery` | the watcher, its durable state, and the calls that meet it |
| `MCDelivery` | instance for TLC: symmetry of the texts |
| `Headless` | the session's one headless run, its callers and its stops |
| `MCHeadless` | instance for TLC |
| `Transcript` | what the server reads in a transcript: operators on sequences of lines |
| `TurnState` | Claude, its screen and transcript, and the two that judge it: send path and watcher |
| `MCTurnState` | instance for TLC |
| `Watches` | the registry of watchers, the saved watch and the calls and restarts that change them |
| `MCWatches` | instance for TLC: symmetry of conversations and of calls |
| `DeliveryProofs` | theorems about `Delivery` |
| `HeadlessProofs` | theorems about `Headless` |
| `WatchesProofs` | theorems about `Watches` |
| `TranscriptProofs` | what reading a transcript line by line comes to: lemmas about `Transcript`, and induction and recursion over numbers |
| `TurnStateProofs` | theorems about `TurnState`: the verdict and the reported Esc, then what is delivered |
| `TranscriptRead` | Claude's file, the mirror's copy of it, and the cached reading of the copy |
| `MCTranscriptRead` | instance for TLC |
| `TranscriptReadProofs` | theorems about `TranscriptRead` |
| `SessionMcp` | the install script against the seed, Claude and the restarts of the container |
| `MCSessionMcp` | instance for TLC: symmetry of servers and of URLs |
| `SessionMcpProofs` | theorems about `SessionMcp` |

How they fit together: `TranscriptRead` says that a reader of the copy sees a beginning of what
Claude wrote and in the end all of it; `TurnState` reads such a copy and says when a turn is
complete; `Delivery` takes complete turns and carries them to the conversation that `Watches`
says is watching; `SendQueue` is what `TurnState` tells when the session is free. Each takes from
its neighbour only what its header names, so that a run can hold all the interleavings of one.

### Plan

1. `SendQueue` (done, with its theorems, the refinement among them): it decides what Claude is
   told, and most of the code's concurrency is in it.
2. `Delivery` (done, all its invariants proved).
3. `Headless` (done, its four safety properties proved).
4. `TurnState` over `Transcript` (done, all its safety properties proved; not composed with `SendQueue`, whose `turn` and `box` it decides: together the two are beyond what
   TLC can enumerate).
5. `Watches` (done, its three properties proved).
6. `TranscriptRead` (done, its two safety properties proved).
7. `SessionMcp` (done, its two properties proved).
8. Left: the sidecars (taint once in `policy.sh`, the block-list swap in `refresh.sh`) and the
   life of a session as the CLI drives it.

## 3. SendQueue

One session name. An action is the code between two awaits of one actor, which
`pc` places: one `session_send` call per prompt (the prompt names its call), the
drainer task, a `session_queue_cancel` and the startup resume.

| state | code |
|---|---|
| `lock` | `_session_send_locks[name]` |
| `queue`, `ticket`, `owner` | `_pending_sends[name]`; order of arrival; `QueuedPrompt.session_instance` |
| `unsub` | `_unsubmitted_paste[name]` |
| `loaded` | `name in _queue_loaded` |
| `file`, `fileBox`, `dead`, `pasted` | queue file and its `in_box` marks, dead-letter dir, recorded ids |
| `inst`, `turn`, `box`, `tainted` | the session's network, Claude's turn, its input box, the policy flag |

| actions | code |
|---|---|
| `SendStart`, `Acquire`, `LoadQueue`, `SendDecide` | `session_send` 3784-3893, `_load_persisted_queue` 1687-1745 |
| `SendInspect`, `SendAppend`, `SendSpawn` | `_enqueue_send` 1529-1548, `_spawn_drainer` 1512 |
| `PasteLands`, `PasteRefused`, `PasteUnconfirmed`, `PressEnter`, `SendCutShort`, `RecordSent` | `_inject` 1222-1285, `_record_sent` 1114 |
| `DrainLoop` ... `DrainSave`, `DrainFails` | `_drain_pending_sends` 1405-1509, `_abandon_queue` 1555 |
| `CancelStart`, `CancelTake`, `CancelSave` | `session_queue_cancel` 4503-4564 |
| `Restart` | memory lost, then `resume_on_startup`, `resume_send_queues` 1748-1806 |
| `Kill`, `Create`, `Taint`, `Turn*`, `Claude*`, `Person*` | `cmd-kill.sh`, `cmd-create.sh`, `policy.sh`, Claude and the person |

What is abstracted:

- The text of a prompt is its name; the input box is the set of texts it holds,
  `Person` standing for anything that is no prompt as sent.
- Two consecutive readings that agree, and the echo still owed after a paste
  (`_sent_awaiting_echo`), are `turn = "running"` until the turn ends.
- `_join_running_turn` reads several things in a row; `SendDecide` reads them at
  once, and may also give up.
- The person does not type or press Enter in the moments between the server's
  last look at the box and Enter (`HandsOff`), "the narrow window this accepts" in
  the words of `_own_unsent_text`; nor press Enter on an unconfirmed paste in the moment
  before its call has queued it (`Unqueued`).
- The taint may come at any moment, between any reading of it and the paste too.
- A session is not created again between an inspect's answer and its use, unless
  the fault `stale` is on.
- A queue file that cannot be parsed, the notices shown in tmux and sent to the
  conversation, audit lines and waiting-reason texts are left out. Of the notice, the
  await remains (`spawn`, `save`), because a call can be cancelled there.

Rare events are switched on by name in `Faults`, so that each run says under
which of them its properties hold:

| fault | event |
|---|---|
| `unknown` | docker or the taint reading does not answer |
| `stale` | the session is created again between inspect and use |
| `enter` | the Enter keystroke does not arrive |
| `meddle` | the person presses Enter on text the server pasted |
| `crashpaste`, `crashsent` | the server stops between paste and Enter; between Enter and the save |
| `cancelcall`, `canceltake` | the client cancels a running `session_send`; `session_queue_cancel` |
| `cancelpaste` | it cancels a `session_send` at the docker exec that pastes or presses Enter |
| `failpaste` | an error strikes the drainer between its paste and its save |
| `nosave` | the queue file cannot be written |

Bounds: `MaxInst` creations, `MaxCrashes` restarts, `MaxMoves` disturbances
(transient failures, stopped Claude, the person, background turns, cancels).
Everything else is bounded by the prompts: one call each.

### Runs

| run | instance | shows |
|---|---|---|
| `send_queue` | 3 prompts, depth 2, 1 restart, 2 disturbances, no faults | `TypeOK`, `QueueHasDrainer`, `NoPromptLost`, and `KeepsPromise`: every step is a step or a stutter of `PromptPromise`, so prompts are given in order of arrival, none twice, none both given and taken back, and none overtakes |
| `send_queue_faults` | 2 prompts, 2 instances, 1 restart, 2 disturbances (meddling is one); crashes and errors at the paste, cancelled calls | `EnterSubmitsTheBatch`, `NotGivenToReplacement`, `TaintHoldsPrompts` |
| `send_queue_live` | 2 prompts, 1 restart, 1 disturbance, `LiveSpec` | `EveryPromptSettles` |

`TaintHoldsPrompts` is what README.md:786 promises ("a prompt queued before the taint is
never pasted") and more: `Taint` fills the history variable `held` with every prompt that is not
past the server's last look at the flag, a prompt that is queued, or goes back to the queue, joins
it, and while the session lives no step but the person's own Enter types or submits a held prompt.
Not held are the drainer's batch when its paste has begun, which nothing can stop, and the calls
that began before the taint: their direct paste does not look again (section 10, 2; with those
calls held too, TLC finds the violation).

`unknown` added to `send_queue_faults` violates `NotGivenToReplacement` and
`TaintHoldsPrompts`; `cancelcall` added to `send_queue` violates `QueueHasDrainer`.

Why the bounds are enough: three prompts and a depth of two give a full queue, a batch
of two, a refused prompt and a prompt that arrives behind a batch in the box;
two instances give one session replaced by another; one restart meets every
place of every actor; the properties relate at most two prompts.
Deadlock is not checked: a session that is killed and not created again is where
the instance rightly stops.

Fairness (`LiveSpec`): the event loop runs every handler that can run (weak), an
`asyncio.Lock` is first come first served, so who waits for it gets it (strong on
taking it), Claude's turns end, a stopped Claude is started, and a person does
not leave text in the box for ever. The client's calls, kill, create, taint, crashes
and failures get none. A taint holds its queue for as long as it lasts, so
`EveryPromptSettles` excepts it.

### What is proved

`SendQueueProofs`, for every set of prompts, depth, bound and set of faults except
as stated:

- `TypeCorrect`: `Spec => []TypeOK`.
- `OneAtATime`: no two actors are ever inside the send lock's section.
- `AcceptedNeverLost`: `Spec => []NoPromptLost`, assuming `enter`, `nosave` and
  `canceltake` are not among the faults (each of these really loses a prompt; the
  hazards say how).
- `QueueAlwaysServed`: `Spec => []QueueHasDrainer`, assuming no call is cancelled
  (section 10, 3, says why).

`NoPromptLost` is not inductive: when Enter is pressed it needs that the batch is still in the box
(`BatchGoesIn`), that a call's batch is its own prompt (`OwnBatch`), that only the lock's
holder touches the queue (`LockHeld`) and only after loading it (`LoadedFirst`); when the
server stops, that the file holds what memory held (`OnDisk`), also while a cancel
has taken prompts out and not yet reported them (`TakenBack`). `Inv` is their
conjunction; there is one lemma per group of actions.

Its second part proves the three properties of `send_queue_faults`, assuming
`Calm`: docker answers and its answer is still true when it is used (no `unknown`, no `stale`),
Enter arrives (`enter`), the file can be written (`nosave`), no `session_queue_cancel` is
cancelled (`canceltake`) and no error strikes between the drainer's paste and its save
(`failpaste`). Calls may be cancelled, at the paste too, pastes not confirmed, the person may submit a
waiting prompt, and the server may stop at any point.

- `EnterSubmitsOnlyTheBatch`: `Spec => []EnterSubmitsTheBatch`. What the box holds at Enter was
  settled at the last free check and by the queue and file before it. `PasteInv` carries that: the
  drainer's batch is the whole queue or what the box already shows (`DrainerKnowsBox`), a batch in
  the box is never cut short because no prompt of an earlier instance waits beside it (`BoxFresh`),
  and the file is the queue but for the moment before a shorter one is saved (`FileFollows`).
- `ReplacementNeverGiven`: `Spec => []NotGivenToReplacement`, from `HomeInv`: the owner a prompt
  is saved with is the instance it was accepted in, and what the box holds belongs to the
  instance that exists.
- `TaintedSessionTakesNothing`: `Spec => TaintHoldsPrompts`, from `HeldInv`: whoever is at a paste
  or at Enter holds a batch that is not held, which needs that the box then shows the batch and
  nothing else (`EnterSubmitsTheBatch`) and that a prompt that waits is of no call still on its
  way (`HomeLater`).

Its third part proves the refinement, `SendPathKeepsPromise`: `Spec => KeepsPromise`,
that is `Promise!Spec`, for every number of prompts, depth and bound. It assumes `Undisturbed`:
`Calm`, nobody presses Enter on a prompt the server pasted (`meddle`), and the server does not stop
between the paste and the save that follows it (`crashpaste`, and `crashsent`, which no run has). None of these can be
dropped: `MCSendQueue` with two prompts, two instances and any one of the nine as its only fault
has a behaviour that breaks the promise (with `unknown`, a prompt pasted while docker did not
answer is reported killed while it is still in the box, and can be submitted from there). Calls may
be cancelled, and the server may stop anywhere else. The invariant `KeptInv` says that what the queue and the file hold waits
(`QueueWaits`), that what the box holds waits too or belongs to a call that failed (`BoxWaits`),
that a waiting prompt in the box is recorded as such, in memory and in the file, and came first
(`BoxIsMarked`), and that the drainer's batch came before all the rest (`OldestFirst`). With it each action is
matched with the step of `PromptPromise` it stands for: `SendAppend` is `Accept`, a call's Enter is
`GiveAtOnce` (nothing waits, by `NoPromptLost` and an empty queue), the drainer's is `GiveNext`, a
person's is `GiveFailed`, a cancelled call or a restart is `Fail` (or, cancelled at Enter, `GiveAtOnce`), what is dropped or taken
back is `Report`, and everything else stutters.

Only model-checked: liveness, which is out of the prover's reach.

## 4. Delivery

One session and one conversation that watches it. An action is the code between
two awaits: of the watcher task (`wpc`), of a `session_watch` (`call`) and of a
`session_resend` (`rs`). A turn is the number of its completion, and the time of its line:
`done` is both how many turns are complete and what time it is, which is exactly
what the watermark's `updated_at`, `baselined_at` and the transcript's timestamps are
compared for.

| state | code |
|---|---|
| `files`, `src`, `lost` | the mirrored transcripts, one for each start of Claude; turns whose lines are gone |
| `text`, `by` | what a turn says, who prompted it |
| `mark` | the watermark file: `file` = `session_id`, `last` = `last_delivered_uuid`, `upd` = `updated_at`, `base` = `baselined_at`, `run` = `consecutive_deliveries`, `all` = `deliveries_since_idle`, `old`: `last_delivery_at` is long ago |
| `ledger`, `dead`, `sent`, `watch` | delivery ledger, dead-letter dir, `sent-prompts.json`, `<session>.watch.json` |
| `wm`, `todo`, `fps`, `origin` | a pass's `mark`, the rest of `new`, `delivered_fps`, `prompt_origin` |
| `torn`, `stale` | `_torn_read_counts`, `_consumed_idle_counts` |
| `carried` (history) | one of the two counts polls from before the mark last moved or a connect |

| actions | code |
|---|---|
| `PollUnmarked`, `PollVanished`, `PollTorn`, `PollIdle`, `PollNew` | `_drain_once_body` 2376-2558 up to its first POST, one action for each way out |
| `TurnBegin` | the delivery loop 2573-2681: ledger, origin, loop guard |
| `PostArrives`, `PostAnswered`, `AnswerLost`, `PostGivenUp` | `_deliver_with_retry` 2028, `_post_turn` 1958, and what follows 2682-2693 |
| `WatchStart`, `WatchFinish`, `WatchCancelled`, `Unwatch` | `_start_watcher` 2857 around its docker inspect, `_baseline_watermark` 2065, `session_unwatch` 4259 |
| `ResendStart` ... `ResendFails` | `_resend_reply` 2696 |
| `Restart` | memory lost, then `resume_watchers` 1761 |
| `TurnCompletes`, `LineLost`, `FileVanishes`, `LongIdle` | Claude, compaction, the clock |

What is abstracted:

- A read gets as far as some time `k`: `View(f, k)` is the turns it finds and `Times(f, k)`
  the times of all the lines it finds, which a lost turn leaves too. A read with `k < done` is
  one of a transcript being rewritten; the mirror of this repository renames a whole copy
  into place (`transcript-mirror.sh`), so such reads are what the watcher defends against. They
  are also what a poll has in hand whose read grew old in one of its awaits (the screen, 2535;
  the scan of the other transcripts, 2247) before it saves the mark; nothing else can come between, as
  whatever moves the mark or the counts in that time cancels the poll.
  `MaxTears` bounds the torn reads in a row, not their number.
  A turn completes when its line has reached the mirror: the mirror's lag is not modelled.
- The settle gate, coalescing of partial turns, turns that were interrupted or withdrawn (all of these
  are in `TurnState`), and the
  screen reading of a pass decide when a turn counts as complete: `TurnCompletes`
  is that moment. The await of the screen reading remains (`wpc = "read"`).
- A turn answers one prompt, of the server ("mcp") or of a person. `sent_by`, joined
  batches and turns nobody prompted are left out, and so is the expiry of a record.
- Two conversations, a watch that is dropped because its session is gone, and
  `session_resend` with `force`, which is meant to send twice, are left out.
- The ledger line and the watermark are written in one step (there is no await between
  them); a restart at the answer may have written the first and not the second.
- What a pass holds in memory is forgotten when it ends, because the next pass loads it again.

| fault | event |
|---|---|
| `cut` | the server stops in a POST or a `session_watch`; the watcher is replaced or stopped between a POST's arrival and its answer |
| `acklost` | a POST arrives and its answer does not |
| `resendrace` | a resend of a text the watcher is about to post |
| `slowdocker` | docker answers a `session_watch` later than the next poll |
| `cancelcall` | the client cancels a running `session_watch` |
| `tornread` | a half-rewritten transcript is read by a baseline, or by a poll whose anchor is lost |
| `carried` | a half-rewritten transcript is read while `_torn_read_counts` or `_consumed_idle_counts` still holds polls of another transcript or anchor |
| `latelose` | a transcript loses lines while replies are undelivered |
| `quickstart` | Claude starts again before the watcher has followed to its last transcript |

Each of these makes the code break a property, in the way the hazards in `PROJECT.json` say:
`cut` and `acklost` deliver twice (no POST that is retried can do better without the
receiver's help), `cut` also calls a prompt of the server the person's, `slowdocker` and
`tornread` deliver from before the connect, `latelose`, `quickstart` and `carried` skip. The passing
runs show that nothing else does within their bounds, and the theorems that nothing else does at all.

### Runs

| run | instance | shows |
|---|---|---|
| `delivery` | 2 texts, 3 turns, 3 transcripts, 2 calls, 1 restart, no two torn reads in a row, 1 of refusal, lost line or idle gap; no faults | `TypeOK`, `AtMostOnce`, `OriginErrsOneWay`, `LoopGuardHolds`, `NoReplySkipped` |
| `delivery_live` | 2 turns, one text or none, no two torn reads in a row; `cut`, `acklost`, `cancelcall`; `LiveSpec` | `ForwardOnly`, `EveryReplyHandled` |


`resendrace` added to `delivery` violates `AtMostOnce`, and `quickstart` violates `NoReplySkipped`. So
does `carried`, with 4 turns, 3 transcripts and 2 disturbances (section 10, 20); without it
the instance of that size (one call, no restart) passes.

Why the bounds are enough: the properties relate a turn to an earlier one or to a mark
between two. Three turns are one before a connect, one after, and one in the next transcript, or two
in one pass and one that arrives during it; a cap of one and a backstop of two are both reached;
two polls is the shortest wait that is not none; two calls are a connect and a
reconnect, resend or unwatch. Deadlock is not checked: with its turns complete and nobody
watching, the instance rightly stops.

Fairness (`LiveSpec`): the watcher polls as long as it is registered, a pass goes on, docker
answers a `session_watch`, and an orchestrator's answer comes in the end (all weak: nothing
disables them but a stop). None for turns, calls, restarts, refusals and lost lines.

### What is proved

`DeliveryProofs`, for every set of texts and every bound.

- `DeliveredAtMostOnce`, under `Answered` (none of `cut`, `acklost`, `resendrace`):
  `Spec => []AtMostOnce`. `AtMostOnce` is about what a pass and a resend know when they post, so
  `OnceInv` adds that what is about to be posted is not in the ledger (`PostFresh`, `ResendFresh`),
  that the ledger a pass has in memory is up to date for the turns it has left (`FpsCurrent`),
  that a pass and a resend never have the same text in hand (`NoClash`), and that a text which
  arrived is in the ledger or its answer on the way (`ArrivedKnown`). Nothing is said of the mark:
  wherever it moves, back included, no text is delivered twice.
- `NothingBeforeTheConnect`, under `Prompt` (neither `slowdocker` nor `tornread`):
  `Spec => []ForwardOnly`. `ForwardInv` says that a connect leaves its time in the mark
  (`Connected`), that the anchor is a line of the mark's own file and no younger than the mark
  (`AnchorInFile`), and that behind an anchor that can be found there is nothing from before the
  connect (`NothingOlder`). Torn reads need an argument of their own (`LeftIsWhole`): a read
  too short to show an anchor that is there has nothing newer than the mark either, so the anchor
  is never searched for in half a file.

- `OriginNeverMistaken`, under `Prompt` and `Uncut` (neither `cut` nor `cancelcall`):
  `Spec => []OriginErrsOneWay`. The property looks at a turn in hand; whether its record is still
  there was decided when it was sent. `SentInv` says that a turn answering the server has its
  record or has used it up (`Recorded`), that one whose record is used up was delivered,
  dead-lettered, is in hand, or was left behind by a connect or a closed watch (`SpentOnDelivery`,
  `SpentInPass`), and that
  what is posted carries the origin its record gave it (`OriginKnown`). `ForwardInv` is needed
  beside it, as only turns after the connect are passed at all.
- `GuardHoldsAcrossRestarts`, under these and `Heard` (no `acklost`): `Spec => []LoopGuardHolds`.
  `LoopInv` says that the run the conversation has received is at most the one the saved mark
  counts (`MarkCounts`), or the pass's copy of it while it runs (`PassCounts`), and one less while
  a counted reply is on its way (`PostCounts`). A restart or a reconnect goes back to the saved mark,
  which is why the count must be saved before the run can go on.
- `NoReplyPassedBy`, under `Prompt`, `Settled` (neither `latelose` nor `quickstart`) and
  `Gated` (not `carried`, and fewer torn reads in a row than either cap): `Spec => []NoReplySkipped`. `SkipInv` says that turns come in the
  order of their transcripts (`InOrder`), that a reply still owed lies ahead of the mark: in its
  file after its anchor, or in the transcript Claude writes to (`PendingAhead`); that where the anchor
  or the file is lost it came after the mark was saved (`PendingAfterLoss`); and that a pass holds all that its file
  owes (`PassComplete`). Stops, lost answers, vanished files, lost lines and any number of torn
  reads are allowed; that these do no harm is `CountsMean`: where all counted polls were made at the mark
  as it is, an anchor that is there is missing from no more polls than the torn reads in a row,
  and an idle transcript is one Claude has left for good (`LeftForGood`) or was idle in no more polls than these.
  So a torn read that fills a count does so only where it no longer matters. `Gated` is
  what `_rotate_if_stale_pin` relies on ("a transient partial read ... cannot trip it"), and without its
  `carried` the property is false.
- `TypesHold`, with every fault on: `Spec => []TypeOK`.

`Prompt`, `Uncut`, `Heard`, `Settled` and `Gated` name the faults that break the property in question, so
none of these theorems assumes away what its property survives. That a set of turns has a first
and a last one (`FirstExists`, `LastExists`) is proved as an invariant: the induction over numbers
it needs is the one over the steps of the system. Each invariant was checked by TLC before it was
proved. Only model-checked: the liveness, which is out of the prover's reach.

## 5. Headless

One session. An action is the code between two awaits of one call (`pc`), of the task that
stops a run (`stopping`), or of a `session_interrupt` (`ipc`). A call makes at most one run,
named after it.

| state | code |
|---|---|
| `lock`, `locks`, `at` | `_invoke_locks[name]`, the lock objects there have been, the one a call took or waits for |
| `found` | what `container_runs` answered a claim |
| `runs`, `stopped` | `headless._runs`, `Run.stopped` |
| `host`, `proc` | the docker exec on the host; the tagged processes in the container, which outlive it |
| `left`, `unstopped`, `told` | history: callers gone, stops docker could not carry out, runs reported stopped |

| actions | code |
|---|---|
| `Begin` ... `Claimed` | `_claim_headless` 202, then `session_invoke` to its docker exec (3473) or the return of `session_invoke_async` (3603) |
| `ClaimedInVain`, `InFlight`, `WaitEnds`, `Cancel` | `session_invoke` 3478-3503, `_finish_invoke` 3505 |
| `ClientGone` | `disconnect.py`, `stop_invoke_of_gone_client` 250 |
| `AsyncSpawn`, `AsyncNotStarted`, `AsyncInVain`, `Timeout`, `Callback` | `_run_and_notify` 3607-3691 |
| `StopKill`, `StopDone`, `StopFails` | `_stop_headless` 328, `headless.stop` |
| `Interrupt*` | `_interrupt_headless` 285 |
| `ForgetSession`, `Kill`, `Restart` | `_forget_session_send_state` 1659, `cmd-kill.sh`, the server's process |

What is abstracted: a listing is an instant; a stop marks its run and signals the processes in one
step; every run is tagged (`stop_tree` serves runs of older servers); the callback is one
`client.post` (3654) that is not tried again and whose failure is only logged, so it is one step. A new container under the session's name
differs from the old one only in that it holds no runs, so `Kill` stands for both.

| fault | event |
|---|---|
| `nolist` | docker does not list the container's processes |
| `lateexec` | a stop finds nothing because docker has not started the run's process yet |
| `slowstart` | a run becomes an orphan while docker is starting it, or behind a listing |
| `earlygone` | the client drops the connection before its run is in flight |
| `earlycancel` | the client cancels while the docker exec is being started |

Each alone breaks a property: `nolist` and `slowstart` break `OneRun` (an orphan is not
counted), the others `NoRunWithoutCaller`. The first is acknowledged in the code (214-217),
`earlygone` is a finding, and the rest are windows of milliseconds that only a handshake
with the container could close. What needs no fault: the invoke lock may be deleted
under a waiting call and two calls claim at once, and `OneRun` still holds, because `merge`
reads `_runs` again after the await and the claim follows without another.

### Runs

| run | instance | shows |
|---|---|---|
| `headless` | 2 `session_invoke`, 1 `session_invoke_async`, 2 of kill, restart, interrupt; no faults; `LiveSpec` | `TypeOK`, `OneRun`, `SlotHasOwner`, `NoRunWithoutCaller`, `InterruptMeansStopped`, `EveryCallAnswered` |

`earlygone` added to it violates `NoRunWithoutCaller` (MCP-43).

Why the bounds are enough: a slot is contested by two, and the third call finds what they left;
two events put a restart before or behind a kill or an interrupt. Deadlock is not checked:
with every call answered the instance rightly stops.

Fairness: the event loop runs what can run, docker answers a stop in the end, and
`asyncio.wait_for` runs out. Nothing makes a run end by itself.
`EveryCallAnswered` holds over a restart only in that the call is gone: the code keeps
no record of it.

### What is proved

`HeadlessProofs`, for every set of calls and every bound; each rare event the proof has to
exclude is an assumption of the theorem.

- `OneRunAtATime`, under `Tame` (no rare event but `earlygone`): `Spec => []OneRun`. `OneRun` is
  not inductive: a claim is safe because of what its caller knows. `SlotInv` adds that a call
  before its claim has no run (`Fresh`); that a run the listing cannot show yet is in `_runs`
  (`StartingTracked`); that at the claim every run that is up is in the listing or in `_runs`
  (`Seen`), so that an entry of `_runs` may go only with its run; that a queued
  `session_invoke_async` holds the slot alone (`QueuedAlone`); and that a docker exec which is down
  or a stop that is over left nothing (`WaitTracked`, `SpawnUp`, `StopKilled`). The lock is in none
  of these: `OneRun` does not need it.
- `SlotNeverLeaks`, with every rare event allowed: `Spec => []SlotHasOwner`, inductive with its types.
- `InterruptTellsTheTruth`, under `Tame`: `Spec => []InterruptMeansStopped`. What an interrupt found
  had claimed the slot, and what it has dealt with is over and, if still queued, marked
  (`StoppedForGood`).
- `CallerGoneRunStopped`, under `Caught` (none of `earlygone`, `earlycancel`, `lateexec`):
  `Spec => []NoRunWithoutCaller`. A call whose client left is over or waits for the docker exec that
  is being stopped (`LeftStops`), and a stop that docker carried out left nothing.

- `HeadlessTypes`, with every rare event allowed: `Spec => []TypeOK`. The types hold only with what
  relates them: a run marked stopped is in `_runs`, and the lock is made anew at most once for each
  kill the server notices (`LocksNumbered`), so that its number never exceeds `MaxEvents`.

`EveryCallAnswered` is liveness and only model-checked.

## 6. TurnState and Transcript

One session, its claude window, its transcript, the send path that has a prompt to paste, and
the watcher. `Transcript` is the readers of the transcript as operators: a transcript is a
sequence of kinds of lines, a line its place in it, and the text of a line the line itself, so
that lost, repeated and misattributed text can be told. `TurnState` has an action for each await
of the two readers: the screen is captured (`SendLook`, `WatchLook`), the transcript read
(`SendRead`, `Paste`, `WatchRead`), the result posted (`WatchPost`).

| state | code |
|---|---|
| `log`, `claude`, `opener`, `box` | external: the transcript, what Claude does, the line that opened its turn, its input box |
| `row`, `records` | the version of Claude Code: is the status row's working text recognized, does it write stop records |
| `mirrored`, `quiet` | the copy `transcript-mirror.sh` made, and how long it has not changed, in the steps 4 s (settle window), 6 s (`_LOG_QUIET_S`), 120 s (`_STOP_HOOK_WAIT_S`), 600 s (`_LOG_STALL_S`) |
| `known`, `reported` | `_working_indicator_known`, `_reported_interrupts`, both with markers on disk |
| `echo` | `_sent_awaiting_echo` |
| `send`, `since`, `toPaste` | `_wait_until_free`: the screen it captured, its streak, when it began; prompts to paste |
| `watch`, `watched`, `anchor` | a pass of the watcher with `_unanswered_polls`, the registration, the watermark |
| `base`, `got`, `ended`, `went`, `escaped`, `ran` | history, for the properties |

| operators and actions | code |
|---|---|
| `InProgress`, `AwaitingHooks`, `EndsOnTurnEnd`, `Unanswered` | `log_shows_turn_in_progress` 939, `awaiting_stop_hooks` 667, `ends_on_turn_end` 643, `unanswered_prompt_turn` 993 (all in `transcript.py`) |
| `CompletedTurns`, `OpenTurn` | `extract_completed_turns` 700, `open_turn` 1075, as recursive functions of the number of lines read |
| `TurnVerdict`, `Why`, `MayPaste` | `_turn_verdict` 722, `_session_state` 758, `_paste_reason` 785 |
| `SendLook`, `NotFree`, `FreeOnce`, `Paste`, `EchoEnds` | `_wait_until_free` 943, `_check_free` 874, `_inject` 1222, `_watch_for_echo` 1043 |
| `Connect` | `_baseline_watermark` 2110-2154 |
| `SettleGate`, `WatchRead`, `WatchLook`, `WatchPost` | `_drain_once_body` 2501-2537, `_interrupted_before_output` 2284, delivery and watermark 2573-2693 |
| `Mirror`, `Tick`, `Restart` | the mirror, the clock, memory lost |
| the others | Claude Code, its Stop hooks, and the person |

What is abstracted:

- Lines are JSON objects with text; the model has a kind for each class of lines some reader
  tells apart. A tool call and its result are one line "work". Lines without uuid, sidechains,
  compaction, and the counts `superseded` and `late_pushback` are left out.
- The screen's text is four boxes (empty, a person's draft, a prompt put back by an early Esc, a
  menu) and whether the row shows work. While Stop hooks run it may show either.
- The settle window runs on the size of the file and a clock of the process, and starts again
  with the server; here it runs with `quiet`, so that the watcher may be earlier than the code.
- Time passes in steps (`Tick`) only while no reading is under way, as a reading takes far less
  than any of the windows; the send path's second reading, 2.5 s after the first, sees a copy
  newer than the first, as the mirror copies every 2 s; the watcher polls in each of the windows.
- Delivery, its retries and its ledger are `Delivery`: `WatchPost` succeeds at once.
- A paste is `_inject` that lands; all else about it is `SendQueue`. A paste into a running turn
  is held by Claude Code and shown in the transcript at once. The background-agent list, dialogs
  at start, docker that does not answer, and markers of a session that was replaced are left out.

| fault | event |
|---|---|
| `slowhook` | Stop hooks take longer than 120 s, or longer than the settle window where no stop record shows that hooks report |
| `late` | what follows a segment, or the retry of an error, comes after the settle window |
| `lateprompt` | a pasted prompt shows later than `_ECHO_WAIT_S` |
| `silent` | Claude writes nothing for ten minutes, the row not recognized |
| `samecopy` | two polls of the watcher, 2.0 s apart, fall between two copies of the mirror, 2 s apart too |
| `quickrestart` | the server restarts between a paste and the prompt's line |
| `lateesc` | Esc while Claude goes on after a segment or an error |
| `slowpost` | the next prompt is pasted while the POST of an Esc's report is not answered |
| `cutpost` | the server restarts between the record of a reported Esc and the answer to its POST |
| `merge` | a session's message opens a turn where the transcript shows one in progress, which an early Esc stopped |
| `undelivered` | a session's message opens a turn before the watcher delivered the one before |
| `unreadable` | the copy cannot be read when the send path looks, which counts as idle (`transcript_unreadable`, 769) |

Each breaks a property, in an instance like those below: `slowhook` breaks `DeliveredMeansEnded`, which
excepts what `late` brings about, and `NeverIntoRunningTurn`; `silent` that and `ReportTrue`;
`lateprompt` and `quickrestart` `NeverIntoRunningTurn`, once two prompts are pasted; `samecopy` `ReportTrue`; `lateesc` `TextNeverSkipped`;
`slowpost` and `cutpost` `EscReportedFirst`; `merge` `NeverIntoRunningTurn` and `OpenerNamed`; `unreadable`
`NeverIntoRunningTurn` and `EscReportedFirst`; `undelivered` `TextNeverSkipped` and `PromptsTruthful` once the
turns have text, as in `replies`. The code's comments name `slowhook`, `late`, `lateprompt` and `silent` as what it accepts.

### Runs

| run | instance | shows |
|---|---|---|
| `turn_state` | an exchange that is over and 3 or 4 lines more, 1 prompt to paste; prompts, messages of other sessions, drafts, questions, early Esc, a watcher, restarts; both kinds of row and of records; fault `undelivered` | `TypeOK`, `ReportTrue`, `OpenerNamed`, `NeverIntoRunningTurn`, `EscReportedFirst` |
| `replies` | 5 lines; all that Claude writes but messages of other sessions, both kinds of Esc, a watcher; fault `late` | `DeliveredMeansEnded`, `TextOnce`, `TextNeverSkipped`, `PromptsTruthful` |
| `turn_state_live` | 2 lines and a paste; row not recognized, early Esc, drafts, local commands, a watcher or none; `LiveSpec` | `FreeInTheEnd`, `AllToldInTheEnd` |

`NeverIntoRunningTurn` is about turns that were running at the first of the two free
readings: a turn that opens between the second reading and the keystrokes is a window every
pasting from outside has. It also excepts what a transcript cannot show (`Unseen`): that an error will be
retried, that a reply waits for hooks in a transcript without stop records, or a
question put between capture and read. `EscReportedFirst` is about the post of the report, which the code
makes after it records the Esc as reported: without `slowpost` and `cutpost` nothing falls between (§10, 8).
`PromptsTruthful` says which prompts a turn names: the one that opened it, before that only prompts
Esc stopped while nothing had come of them, which the code lets accumulate, and none that another turn named.

Why the bounds are enough: the exchange before gives a reply, an anchor and a stop record to misread,
and three lines a turn that is stopped and one after it, or a question, its answer and what
follows. In `replies`, five lines are a prompt, a
segment or error, more work, its end, and the next prompt, cut into passes anywhere; what needs the
sixth line (`lateesc`) is named as a fault. Liveness needs one prompt stopped early and one to paste.
Deadlock is not checked: a transcript that is full is where the instance stops.

Fairness (`LiveSpec`): the send path and the watcher poll, the mirror copies (weak); time passes
(strong on `Tick`, which readings disable again and again), and `[]<>NoReading`: readings
take a fraction of the poll they belong to. None for Claude, the person, connecting and restarts:
the properties say what must happen once Claude rests for good.

### What is proved

`TurnStateProofs`, for every length of the transcript and number of prompts, whatever Claude, the
person and the host do, and with each fault that is not assumed away.

- `EscReportedBeforeNextPrompt`, without `slowpost`, `cutpost` and `unreadable`: `Spec => EscReportedFirst`. What it needs is what
  the transcript and Claude's state say of each other (`LogInv`): a turn runs from its opener to the
  last line, a prompt nothing answered is being worked on or was stopped by Esc, and what an early
  Esc put back is the last prompt. `SecondSees` adds that the second of two free readings
  sees every line written before the first (`EscRecordedFirst`), and `ReportGoesOut` that an Esc recorded as
  reported was posted, unless its pass is under way.
- `ReportsOnlyWhatEscStopped`, without `silent` and `samecopy`: `Spec => []ReportTrue`.
  `ReportTrue` is about one poll and the watcher needs two: `LookSecond` says that at the second poll
  every prompt it finds cut off was stopped by Esc, `PollsTrue` that this is true from the first on while the
  copy has not changed, and `NotSilent` that a Claude at work writes before the copy counts as
  stalled. TLC breaks `ReportTrue` with either fault alone.
- `NeverPastedIntoRunningTurn`, with `late` and `lateesc` but none of the other faults (`Blinding`):
  `Spec => NeverIntoRunningTurn`. The action property compares the paste with the turn that ran at
  the first reading (`ran`). `FirstLook` and `FirstFree` carry what that reading showed to the second: a turn
  that ran and did not show was in its Stop hooks (`HooksHeld`), in a copy still too new to be
  believed, or on its way in a paste that is waited for (`GivenEcho`); `HooksReport`, `AskedNow` and `PeerFresh`
  say when each of these shows. It includes `ReportInv`, so that an Esc that was reported was one. TLC breaks
  the property with each fault of `Blinding` but `samecopy`, with which it finds no
  counterexample and the proof does not go through, because `ReportTrue` fails.

The readers look for the last line of some kind (`CHOOSE` of a maximum). That each nonempty set of
line numbers has a last one is part of the invariant (`LastExists`): it holds of the transcript at the start, and
one line more keeps it.

`CompletedTurns` and `OpenTurn` go through the lines one by one, as the code does; they are written as
functions of the number of lines read (`Pass`, `Scan`). The library's induction theorems take an operator, which the
provers cannot instantiate; `TranscriptProofs` states the same with sets and functions (`Least`, `Induct`, `Recursion`),
from the facts about well-founded relations that take none, and proves with them what every pass is made
of: which lines a turn holds, where it ends, and that a pass over more lines goes on where
one over fewer stopped (`PassIs`, `PassSame`, `PassSound`, `PassWithin`, `GroupIs`). On these rests the second part of
`TurnStateProofs`:

- `TurnStateTypes`, with every fault: `Spec => []TypeOK`. Of the watermark it says that no pass sets it
  beyond what the copy held.
- `OpenerIsNamed`, without `merge` (and with `undelivered`): `Spec => []OpenerNamed`. `OpenerInv` says of `Scan` at the last line that an
  open turn's opener is the one it names (`ScanTrue`), on what line such a turn can end
  (`ScanOpen`), and that a tool call has left it open (`ScanWork`).
- `ReplyTextGoesOutOnce`, with every fault: `Spec => []TextOnce`. `MarksInv` orders the watermarks (baseline,
  watermark, what was read, the copy) and puts all text delivered behind the watermark (`GotBehind`).
- `NothingPassedOver`, without `undelivered` and `lateesc`: `Spec => []TextNeverSkipped`. The watermark may be set
  anywhere, so `WrittenInv` speaks of a pass from every line behind it: each line of Claude's is in a
  turn of that pass or in the group it has open, an error that was retried excepted (`AllHas`), and what
  the group holds fits what Claude is doing (`AllHeld`).
- `DeliversOnlyWhatEnded`, without `undelivered`, `lateesc`, `slowhook`, `silent` and `samecopy`:
  `Spec => []DeliveredMeansEnded`. `EndInv`: from whatever line a pass starts, what it completed ended where a
  turn of Claude's did (`AllOver`), what it has open fits Claude (`AllLeave`), and a copy that has settled has
  nothing open that may go on (`CopyOver`); so what the watcher read (`ReadOver`) and delivered (`GotOver`) is of
  that kind, or a prompt that Esc stopped (`CutEscaped`, with `ReportInv`). TLC breaks it with `slowhook`; the other
  faults are assumed for `ReportInv` and `WrittenInv`, on which the argument rests.
- `NamesThePromptsAnswered`, without the same five: `Spec => []PromptsTruthful`. `NamesInv` adds that a prompt
  nothing of Claude's follows was stopped by Esc or is what Claude is on (`IdleStopped`), that one another prompt
  follows without a word between was stopped (`PromptStopped`), that a turn delivered names prompts of its own lines up
  to its end, with nothing of Claude's between them (`GotNamed`, from `PassNames`), and that no two
  name the same (`PromptsApart`). TLC breaks it with `undelivered`.

Only model-checked are `FreeInTheEnd` and `AllToldInTheEnd`, which need fairness.

## 7. Watches

One session and the conversations that may watch it. An action is the code between two awaits of
one tool call (`call`) or of `resume_watchers` (`resume`).

| state | code |
|---|---|
| `live`, `dying`, `reg` | the watcher tasks that poll; those cancelled whose done-callback has not run; `_session_watchers[name]` |
| `saved` | `<session>.watch.json` with its `session_instance` |
| `listed` | the tool descriptions name the session |
| `inst` | the session's network, 0 while it has none |
| `asked`, `astray`, `how` of a task | history: what was asked for; a call was overtaken, ran during the resume or was cut short; the instance a resumed watch was saved for and the one docker found |

| actions | code |
|---|---|
| `WatchCalled`, `Inspected`, `WatchSaved`, `WatchAnnounced` | `session_watch` 4113, `_start_watcher` 2857-2885 at its awaits |
| `SendCalled`, `SendChecked` | the automatic watch of `session_send` 3792-3828 |
| `UnwatchCalled`, `UnwatchDone` | `session_unwatch` 4259 around its wait for the task |
| `TaskEnded` | `_make_watcher_done_callback` 2833 |
| `ResumeLoads`, `ResumeTakes`, `ResumeInspected`, `ResumeFinished` | `resume_watchers` 1761: the files of all sessions at once, then this session's turn, around its wait for docker |
| `ClientGone`, `Restart`, `Killed`, `Created` | a cancelled call, the server's process, `aidc kill`, `aidc create` |

Left out: what a watcher delivers and the baseline (`Delivery`), the notice to connected clients,
a session out of scope, a watch file that cannot be parsed (left in place and not resumed).

| run | instance | shows |
|---|---|---|
| `watches` | 2 conversations, 4 calls of which 2 overlap, 1 restart, the session created twice | `OneWatcher`, `SavedIsServed`, `ResumedWasAsked` |

`SavedIsServed` is stated where the system is quiet and nothing is `astray`: after the last call ran
alone, or the server has started again. While calls overlap, or when one is cut short, the file and the
task can part (section 10, 11), and the property says that the next call that runs alone, or
the next restart, mends it. Why the bounds are enough: a watcher is replaced by at most two
others at once, an overlap needs two calls and what it leaves behind a third and a fourth, and a
session re-created once is one that is not the one watched. No fairness: the properties are
of safety. Deadlock is not checked: without calls left the instance stops.

`WatchesProofs`, for all constants: `OneWatcherPolls` (`Spec => []OneWatcher`), from
`CancelledIsOut`, since a done-callback that ran for the registered task would leave a poller
nobody knows; `ResumedWatchWasAsked` (`Spec => []ResumedWasAsked`), from `AskedInv`, which says the same of
the file, of each call about to write it and of a watch that was read and is not open yet.
`SavedWatchIsServed` (`Spec => []SavedIsServed`), from `WatchInv`, the two above and `AgreeInv`: where
nothing is `astray`, the file and the registered task agree unless a call or the resume that is to
bring them together is under way (`CallServed`, `ResumeAlone`, `SavedServed`), and callers are told so
(`ListedTrue`). The property only speaks of quiet states; `AgreeInv` is what the quiet ones are reached from.

## 8. TranscriptRead

One transcript: Claude's file (`src`), the mirror's pass (`mirror`), the copy (`file`, with inode
and time) and the server's reading of it (`read`, `kept` = `_parsed[path]`). Time is counted in
ticks of the file system's clock, since what happens in one tick has one modification time.

| actions | code |
|---|---|
| `ClaudeWrites` | external: a line at once or bit by bit |
| `MirrorStarts`, `MirrorCopies`, `MirrorMoves`, `MirrorFails` | `transcript-mirror.sh` 28-37: the test, `cp -p`, `mv` |
| `ReadOpens`, `ReadFinishes` | `read_transcript` (`transcript.py` 223-265) around its read of the bytes |
| `Forgotten` | `forget_transcripts` 289, and the eviction of another transcript 262 |
| `CopyRewritten`, `Tick` | external: a change of the copy that is no rename; the clock |

A line is its value, `Junk` if it does not parse; an unfinished line parses once all but its newline is
there. Sizes are kept because the stamp is made of them: equal sizes are what the settle time is
for. A reader holds the file it opened (`read.content`): a rename leaves it that one, a change in place does not. The hash of
the bytes parsed is the bytes; `newest_message_ts_of`, whose cache follows the same rule,
the length of the decoded text and the decoding itself are left out.

| run | instance | shows |
|---|---|---|
| `transcript_read` | 2 lines, one of them perhaps no JSON, 3 ticks, a settle time of 1, 1 change in place, failed copies; `LiveSpec` | `ReadIsFile`, `NeverUnsays`, `SeenInTheEnd` |

`ReadIsFile` holds though a copy may be rewritten to the same size in one tick, replaced while it is read, or cut
off in a line: each of `Settled`, `StillBegins` and `Consumed` is needed for it. `SeenInTheEnd`
excepts a source written in the tick of its copy (`stray`; section 10, 13). Why the bounds are
enough: the cache relates two versions of the file, each with one line parsed and one not; a
settle time of one leaves a tick in which a stamp is too young and one in which it is old. Fairness: the
mirror's loop (`user-main.sh` 50-53) passes every two seconds and the watcher polls as often (weak; nothing
disables them for good), and not every pass fails at its `cp` or its `mv` (strong fairness of `MirrorCopies` and
`MirrorMoves`, which `MirrorFails` takes back any number of times).

Nothing in this repository but the mirror writes the copy; `CopyRewritten` is there because the code
defends against it (`StillBegins`, the settle time). It does so between the mirror's passes. The fault `midpass` lets it
happen within one: the copy gets a newer time than the file that is about to replace it, so time goes
back, and if the inode is reused and the size is the same the stamp can be one that was settled for other
content. TLC finds that stale answer with one line, five ticks and one change; the instance of `transcript_read` is too
short for it and leaves the fault out. The comment at `transcript.py` 175-180 takes it for granted that the
time does not go back.

`TranscriptReadProofs`, for files of every length and every value of a line, any settle time and any
number of changes and of failed copies:

- `AnswersAreTheFile`, without `midpass`: `Spec => []ReadIsFile`. Its lemmas say what parsing makes of lines
  (`ObjsMore`, `ParseOn`: what was parsed of a beginning, and then what is parsed of the rest, is
  what is parsed of all), by the induction of `TranscriptProofs`. `ReadInv`: no time is ahead of the clock and what the
  mirror brings is newer than the copy (`Ordered`); what is kept is what the bytes kept say
  (`KeptIsParsed`); and where a stamp was settled as it was taken, the file is newer by now or still as it
  was read, for the open reader (`StillRead`) and for the cache (`StillKept`). The inode is not needed.
- `AnswersGoOn`, with and without it: `Spec => NeverUnsays`. `Grows` orders contents (an unfinished line may be
  continued, a whole one only ended). Along `Chain` each place a line passes through, from reader to copy to
  mirror to source, is behind the next; `Answered` puts the last answer behind them all.

`SeenInTheEnd` needs fairness and is model-checked only.

## 9. SessionMcp

One session, the servers handed to it, and the calls that hand them over. An action is a command of
`INSTALL_SCRIPT` (`session_mcp.py` 59-108) that reads or writes a file, or a step of the container or Claude.

| state | code |
|---|---|
| `state` | `.claude.json`: what of Claude's own it holds (the seed's, a login), and `mcpServers` |
| `token` | `<server>.bearer` beside it, named for the call that brought it |
| `seed`, `up` | the seed in the audit dir; the container: down, before its seed is installed, copying it, up |
| `claude` | the servers the running Claude loaded |
| `pc`, `job`, `draft`, `out`, `gone` | a call's script, what it was given, its temporary file, what it printed; calls given up on |
| `told`, `last` | history: servers whose last answer since Claude started did not say that the running Claude can use them; the last call that put a server in place |

| actions | code |
|---|---|
| `SeedInstalls`, `SeedCopied` | `aidc_install_claude_state_seed` (`claude-state-install.sh` 53-58): `cp` opens, `cp` writes |
| `CallStarts`, `CallGivenUp` | `hand` 168-188, its time limit or a cancel; the script goes on |
| `ScriptChecks` ... `ScriptMoves` | the script: 70, 74-95, 96-101, 103-104, 105-106 |
| `CallAnswers` | `_hand_session_mcp` 3000: the failure, or `needs_claude_restart` |
| `Container*`, `Claude*` | external |

Left out: the refusals of `check`, which start no script; the helper script, which is the same each time;
a state that is not JSON.

| fault | event | what it breaks |
|---|---|---|
| `overlap` | two scripts in the session at once | `NothingLost`: the later `mv` drops the earlier entry |
| `ownwrite` | Claude writes `.claude.json` between the script's read and its `mv` | `NothingLost` |
| `slowcopy` | something happens between the opening and the writing of the seed's copy | `NothingLost`: the seed is never completed |
| `orphan` | Claude starts while the script of a call that was given up on runs | `UsableOrTold` |
| `again` | a server is handed over again, its entry unchanged, before the running Claude has loaded it | `UsableOrTold`: the answer says that no restart is needed (§10, 15) |
| `noexec` | docker does not answer whether Claude runs, which counts as no (559-564) | `UsableOrTold` |

| run | instance | shows |
|---|---|---|
| `session_mcp` | 2 servers, 2 URLs, 3 calls, 2 starts of Claude, with and without a seed; no faults | `NothingLost`, `UsableOrTold` |

`UsableOrTold` is about the last answer: an answer that no restart is needed takes back what earlier ones
said, unless a later call for the server was made meanwhile. So the answer to a call that finds its entry
unchanged is only right where the running Claude loaded that entry, and `again` is left out: the docstring
invites such a call for every new token, and the retry of a call that timed out is one.

Why the bounds are enough: an entry is lost to one other writer; a call, its repetition for the
same server and one for another are three; Claude loads servers twice, before and after. The container
may stop any number of times. Deadlock is not checked: with all calls made the instance may stop.

`SessionMcpProofs`, for all constants: `NothingIsLost` (`Spec => NothingLost`), without `overlap`, `ownwrite` and
`slowcopy` (`Apart`). Its invariant `Safe`: one script at a time; none behind its first question while a seed waits or is
copied (`PastSeed`, `CopyAlone`); Claude only runs where the seed is in place (`ClaudeInside`, `Seeded`);
and what a script is about to move holds all that is there (`DraftHolds`).
`ClaudeCanUseOrCallerKnows` (`Spec => []UsableOrTold`), without any fault, from `Safe` and `UsableInv`: the entry in the
file is that of the last call or in its hands (`EntryIsLast`, `DraftIs`), a token is as new as the call that
put the entry in place (`TokenNew`), a server the running Claude has not loaded as it stands is `told` or
a call is about to tell (`StaleKnown`), what a script finds in place the running Claude has loaded
(`InPlaceLoaded`), the newest call for a server was the last to put it in place (`NewestIsLast`), and of a call that was
given up the caller was told (`GoneTold`). `Faults = {}` is needed: `orphan`, `again` and `noexec` break this property,
`overlap` the invariant.

## 10. Disagreements between the code and its documents

For those that a fault lets happen, `PROJECT.json` says which fault shows them in which run.

1. A prompt accepted while docker did not answer has no owner and survives its session; MCP-33
   forbids it (`unknown`, `NotGivenToReplacement`).
2. The direct paste (3886) relies on a taint reading from the start
   of the call, before the waits for the lock and for a free session; README.md:786: "A tainted session takes no more work".
3. A call cancelled at the tmux notice leaves a queued prompt without a drainer (`cancelcall`,
   `QueueHasDrainer`).
4. `_resend_reply` does not take the drain lock, so it can post what
   the watcher is posting (`resendrace`, `AtMostOnce`); "This never duplicates."
5. The watcher follows to one transcript and passes over one that came and went between two polls
   (or during one long POST); MCP-34 (`quickstart`, `NoReplySkipped`).
6. A dropped connection is looked up among the calls in flight, where
   a call that is still claiming is not (`earlygone`, `NoRunWithoutCaller`); MCP-43.
7. After a reported early Esc, a message of another session opens a turn that reads idle until
   Claude's first line, where the row is not recognized; the comment at 775 (`merge`,
   `NeverIntoRunningTurn`).
8. An early Esc counts as reported before its report is posted; design-10:441 (`slowpost`, `cutpost`,
   `EscReportedFirst`).
9. Work cut off after a segment, read in one pass with the exchange after it, is not delivered
   "on a later poll" (transcript.py:773; `lateesc`).
10. An error that is being retried is delivered as the end after the settle window;
   transcript.py:870 (`late`).
11. Calls that overlap with each other or with the resume, or are cut short, leave a saved watch nobody serves, or a watch that is
   not saved (2873-2876); MCP-34.
12. A watcher goes on over a session that is killed and created again while the server runs; the
   comment at 1779 is true of a restart only.
13. A line written in the tick of a copy waits for the next write (transcript-mirror.sh:34).
14. `parse_jsonl` splits lines at U+2028 and U+0085 too, which JSON may hold unescaped.
15. A second hand-over before a restart of Claude is answered "no restart is needed" (3014; `again`, `UsableOrTold`).
16. `.claude.json` is read, changed and moved without a lock (`overlap`, `ownwrite`, `NothingLost`); MCP-39.
17. The seed is copied in place and never completed (`slowcopy`, `NothingLost`).
18. `file_get` of a file that ends in an unfinished character says `more` for ever (repo.py:359).
19. A dead-lettered reply to the server's own prompt, brought up again after its transcript lost a
   line, is called the answer to a person and starts the loop guard's run anew, which `OriginErrsOneWay` and
   `LoopGuardHolds` except; the docstring of `_terminal_prompts` (1145).
20. `_consumed_idle_counts` and `_torn_read_counts` are not cleared when the watcher follows to another
   transcript, so that one torn read can pass over a reply (`carried`, `NoReplySkipped`); the docstring of `_rotate_if_stale_pin` (2214).

## 11. Not modelled

- Views, `repo.py`, `turns_view.py`, `session_facts.py`, formatting, authentication, scope, audit
  lines and resources: queries that change no shared state.
- `session_run`, `_wait_for_turn_end` and `_reply_from_transcript`: in the file, but registered as no tool.
- `newest_message_ts_of`'s cache of stamps: the rule of `TranscriptRead` over again.
- The CLI's bash drives docker one command at a time; its kill and create appear as they look to
  the server.
- The policy and refresher sidecars: one loop each; the taint appears as the flag it sets.
- Squid and the audit sidecar: configuration and aggregation.

`PROJECT.json` lists every component with its status.
