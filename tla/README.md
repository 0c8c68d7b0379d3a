# FAsset indexer: a TLA+ verification project

`fasset-indexer` copies the events of the FAsset contracts (Flare, Songbird)
and the payments of the underlying chains (XRP, DOGE, BTC) into a relational
database, and an API reads that database.  This directory models the parts of
it that must get ordering, restarts and concurrent passes right, checks the
models with TLC and proves the central ones with TLAPS.

Paths are relative to `packages/fasset-indexer-core/src/` unless another
package is named.

## 1. Inventory

| part | state it keeps | operations | what makes it hard | what makes it correct |
| --- | --- | --- | --- | --- |
| EVM event indexer (`indexer/indexer.ts`, `runner.ts`, `eventlib/event-scraper.ts`, `event-parser.ts`) | `firstUnhandledEventBlock`; `EvmLog` rows and the entities of their handlers | a turn: read pointer and height; per batch fetch logs, commit each log in its own transaction, commit the pointer | crash or RPC failure between any two awaits; replay of a batch; blocks near the head that are reorganised; logs that need rows of earlier logs | no gap below the pointer; nothing of an abandoned fork; each log once, in chain order; every confirmed log in the end |
| Back population (`indexer/reindexing/indexer-back-population.ts`, `indexer-parallel-back-population.ts`) | own pointer and last block per update name | a back turn over the new events, a front turn over all events, then the switch to the plain indexer | two passes write one table; a failing pass starves the other; the end of the pass is fixed once | no gap between the passes; the pass ends |
| Race population (`indexer/reindexing/indexer-parallel-race-population.ts`) | own pointer and a `synced` flag per update name | a back turn, the comparison of the two pointers, the flag, a front turn | pointers read before a turn and used after it; the hand-over must leave no gap | no gap before and after the hand-over; no handler misses a row; the hand-over comes |
| Event handlers (`indexer/eventlib/store-logic/*.ts`, `state-updater.ts`, the lists in `configs/`) | one row per event, resolutions, tickets, balances, settings | one transaction per event | rows other events must have created; counters that must be applied once; events first met long after later ones | no handler misses a row with any shipped list; the state rows agree with the chain's order, whatever the order of storing |
| Watchdog and agent state (`indexer/watchdog.ts`, `utils.ts`, `state-updater.ts`) | agent info, prices, untracked agents | one transaction per round, against the handlers of agent events | two processes write the same rows, one behind the chain and one at its head | the info is what a reader saw last, and converges |
| XRP indexer (`fasset-indexer-xrp/src/indexer/xrp-indexer.ts`) | pointer, ledgers and transactions; tracked addresses and greedy progress in memory | a settled pass up to the ledger the EVM side knows of, a greedy pass to the head | ledgers indexed before the addresses they concern are known; restarts lose the memory | below the pointer no payment is missing; the settled pass skips no transaction of a vault |
| DOGE and BTC indexers (`fasset-indexer-doge/src/indexer/`, `-btc`) | pointer, block rows, transactions and references | remove abandoned blocks, then store new ones | reorganisations at any await; the block and the pointer are separate commits | rows and pointer in step; stored blocks form one chain; the chain is followed |
| Start-up checks and data (`run/`, `utils/updates.ts`) | update name, settings | read once before the indexer starts | decide from what an interrupted run has left | an unfinished update is recognised |
| Migrations and scripts (`scripts/`, `eventlib/migrations/`) | migrated rows, resolutions of old requests, recomputed balances | one transaction or statement per row or kind | run beside the indexer, interrupted, or twice | what they leave is what the handlers would have written |
| Chain clients, context, ORM | none of their own | RPC calls with retries; unique and foreign keys | failures | environment of all modules |
| XRP monitor (`fasset-indexer-xrp/src/run/run-monitor.ts`) | balances | overwrite | nothing that is remembered | - |
| API (`fasset-indexer-api`) | none but a price cache | queries | read only | - |

How they interact: all parts share one database and nothing else.  The EVM
indexer, the watchdog, each underlying indexer and the API are processes of
their own; a re-indexing update is one process that runs two or three event
indexers in turn.  The XRP indexer reads rows of the EVM indexer (agent vaults,
`CurrentUnderlyingBlockUpdated`); the watchdog reads agent vaults and writes
the info rows the handlers also write.  Every process is a loop that catches
what a turn throws, sleeps and starts a new turn from the database.

The hazards each part is exposed to, at their lines, are in `PROJECT.json`.

## 2. Modules and how they correspond to the code

**EventLogs** is the vocabulary: a log is a model value with a block and a log
index; `Source[l]` names the logs whose rows the parser needs to recognise the
emitter of `l`, `Refs[l]` those whose rows its handler fetches with
`findOneOrFail`.  Order (`IsFirst`) is `EventScraper.logOrder`.

**EventIndexer** is `EventIndexer.runHistoric` under `IndexerRunner.run`.
`stored` and `firstUnhandled` are the database, `pc`, `loopBlock`, `endBlock`
and `logs` the locals of a turn.  `BeginTurn` is the head of `runHistoric`,
`GetLogs` the scraper, `SkipLog`, `CommitLog` and `RejectLog` what becomes of
one log (dropped by the parser or known already; committed; the handler
throws), `SetFirstUnhandledBlock` the pointer's commit.  `Fail` is an
exception anywhere or a kill; both leave the database only.  The chain grows,
settles and is reorganised above `final`.  `BeginTurn` takes the range as
parameters because the re-indexers override both ends.

**EventLedger** is the abstract specification: a ledger that records each
settled log once, in chain order, never before the chain has settled it, and
takes nothing back.  `EventIndexer!LedgerSpec` maps `settled` to the tracked
logs of the final blocks; the mapping is checked by TLC and proved.
`ResumedSpec` is the same ledger taken over from an earlier indexer, as every
update does.

**RaceReindex** and **BackReindex** compose three and two instances of
EventIndexer over one database (`Front`, `Back`, `Whole`; `Main`, `Back`), with
the variables of the update and a `stage` that says whose turn it is.  The
front's pointer read before the back turn is a variable of its own
(`frontSeen`), because the code goes on using that value after the turn.
`LedgersKept` is their refinement of EventLedger: one table seen as several
ledgers, each of which resumes.  In a race the old and the new events are one
each.  In a back update the new events are two: those below the hand-over's
block, which the back indexer inserts, and those above it, which the main one
finds; in that block both record new events, in no order that could be promised.

**EventLists** transcribes the lists of `configs/` and, for every event a
handler exists for, the rows the handler fetches with `findOneOrFail`, each
named by the event whose handler creates it.

**EventHandlers** plays the history that leads up to any one of these events
through the indexer: with a shipped list from the beginning, or with an update,
race or back, from a shorter shipped list to a longer one.  A handler stores
its row or, when a row it needs is missing, throws, and the runner starts over.
A turn is one block and one transaction here; what happens inside a turn is
EventIndexer's business.  `LastRequest` is the lookup by which the handler of
`FXrpRedeemed` guesses the redemption a smart account asked for.

**EventStorer** is what handlers keep beyond a row of their own (`db`): the
resolution of a request, the value of a redemption ticket, a token balance, a
setting, and the rows of the old collateral pools' events.  The chain is a
history of events which the indexer works off before, in and after an update
(`mode`); in the update two passes do so, and a pass that fails starts again at
its pointer.  The four request families (reservations, redemptions, core vault
transfers and returns, underlying withdrawals) share `CreateRequest` and
`Resolve`.  Every start (`Start`, `Restart`, `StartUpdate`) ensures the settings' row,
which it reads from the chain if there is none (`EnsureData`), and lists the old
pool rows, which `MigratePoolEvent` then moves one transaction at a time beside
the passes.  `AddResolutions` is one statement of `scripts/add-resolutions.ts`,
at any moment.  A `scenario` says what an older version has left in the
database, which kinds of events are emitted and which of them the update adds;
`OldHistory` bounds what an older version can have left.

**AgentState** is the info row of an agent vault between the indexer and the
watchdog.  A handler reads and commits in two steps, a watchdog round reads
the list, then the chain and the database per agent, and commits at its end;
the rows it has written are locked until then.  An UPDATE is issued only when
the value differs from the one read, as the ORM does it.  `seen` is a history
variable.

**XrpIndexer** is the settled and the greedy pass; what the EVM indexer commits
(`IndexVault`, `IndexCurrentBlock`) is its environment, in chain order.  `early`
is a history variable: the ledgers the greedy pass has stored, each with the
vaults it was not tracking at that moment.

**DogeIndexer** is the deforker and the indexer, with one action per await.
A block's hash is the sequence of branches up to it, so two forks that meet
again cannot occur and a hash fixes everything beneath it.  BTC is the same
class with other conversions.

The MC modules give the constants values for TLC.  Eight modules hold theorems
and their proofs, each named after the module it extends: `EventIndexerProofs`,
`RaceReindexProofs`, `BackReindexProofs`, `EventHandlersProofs`,
`EventStorerProofs`, `AgentStateProofs`, `XrpIndexerProofs`, `DogeIndexerProofs`.

## 3. Runs

| run | instance and bounds | what it shows |
| --- | --- | --- |
| `event_indexer` | six logs in three blocks: one untracked, one with a source, two with references, and one orphan, whose row no tracked event creates; height 4, offset 1, batches of 2, two failures | types, completeness, only final rows, monotonic pointer, the ledger; every confirmed log before the orphan is stored in the end, and at the orphan the indexer stops rather than leave a gap |
| `race_reindex` | six logs in blocks 1, 2, 3 and 5 (old vault and request, new tickets and redemptions that refer to both); every position of the old pointer; height 4 at deployment, 6 at most, two failures or restarts | no gap before and after the hand-over, no missing row, the old and the new events each an ordered ledger, the hand-over comes |
| `back_reindex` | the same with a redemption performed in a later block than its request, so that no new event refers to an old one of its own block | no gap, three ordered ledgers, the pass ends, all is stored for good |
| `back_reindex_synced` | as above, one failure | finding 1 |
| `event_storer` | per scenario one request, one ticket, two holders or the setting; four events after those of the older version; no update, a race, or a back update that adds all, or only the resolving events; old request, resolution and pool rows; one failed turn or restart | resolutions, tickets, balances and the setting agree with the chain; old rows end up in the new tables; no handler waits for ever |
| `event_handlers` | every event of every shipped list, with its ancestors in every order and distribution over blocks; the three lists alone and all six updates between them | no handler misses a row with a shipped list or in a race update; when a back update may wait, and the one case in which it waits for ever; the redemption a smart account's event is linked to |
| `agent_state` | two agents, histories of five events, one failure | the info is explained by a reader, converges, and nothing blocks the indexer |
| `agent_state_destroyed` | two agents, three events | finding 4 |
| `doge_indexer` | two branches, one payment at different heights of different branches, height 3, two reorganisations, two failures | rows and pointer in step, references exact, one chain, the chain is followed unless one of three named situations is met |
| `doge_indexer_purge` | the same, one reorganisation and no failure | finding 2 |
| `xrp_indexer` | two vaults created one ledger after the other; a top-up of the first beside a transaction of nobody's interest; one ledger shared by a referenced payment to the first and a withdrawal of the second; four ledgers, two failures or restarts | below the pointer no referenced payment is missing; a vault's transaction is missing only from a ledger the greedy pass stored for another one before it knew the vault; referenced payments are stored in the end |
| `xrp_indexer_shared` | the same, no failure | finding 3: that exception is reached |

Why the bounds are enough: each instance has at least one block more than the
offset, so that a block is fetched, abandoned and replaced; a batch that ends
within the range and one cut short by it; two failures, so that a replay fails
again; logs on both sides of every hand-over position; and for the passes at
least one event of each kind on each side of each other.  A failure at any
step is already every crash there is, since only the database survives.  The
counters bounded are `MaxHeight`, `MaxLedger`, `MaxHistory`, `MaxEvents`, `MaxFaults`
and `MaxReorgs`, each named in the module it bounds.  Deadlock is checked in every
run: the loops never stop.

EventStorer's objects of different kinds touch no common row, hence one kind of
object per scenario; four events are the creation, two changes and the end of
one.  In EventHandlers one event of each kind is enough because a handler asks
whether a row exists, never how many; only redemptions occur twice in a
transaction, where the handler of `FXrpRedeemed` has to choose.

Some properties name exceptions, each of them a behaviour of the code:

- `OutOfOrder`: a back update that adds a kind of event stores old events of it
  after newer ones the main indexer has handled since; the last to be *stored*
  then decides a resolution, a ticket or a setting.  `BalancesExact` has no
  exception, since sums commute.
- `RowsAwaited`: in a back update a handler may miss a row in two situations,
  the clash below and, in the main pass, an event that needs the row of new
  events which all lie below the hand-over, where the back pass has to come first.
- `HandoverClash`: in a back update, a new event in the hand-over's block that
  refers to an old one of the same block makes the back turn throw, and the
  main turn that would store the old one never comes.
- `LinksFollowChain`: a back pass that comes across an `FXrpRedeemed` when a
  later redemption of the same transaction is stored links it to that one.
- `VaultsUnlessGreedy`: the transactions of a ledger the greedy pass stored,
  because of another transaction in it, before it tracked the vault (finding 3).
- `FollowsChain`: a crash between a block and its pointer (`StoredAhead`), a
  reorganisation within a turn (`Buried`), and a payment both sides of a fork
  contain (`PaymentAbandoned`).  `OneChain` presupposes that reorganisations
  come between turns.

The hazards that are nothing but such an exception, where the code does go wrong
and no line of the repository promises otherwise, stand in `PROJECT.json`
without a property: what the properties show there is that the exception is the
only one.

Each property of a passing run has a mutant (`PROJECT.json`): a change of one
mapped definition, marked `mutant` in the module, that breaks it.

### Fairness

`IndexerRunner.run` and the watchdog are `while (true)` loops around a turn, so
some step of a turn is always taken in the end: `WF(Turn)`, `WF(Run)`.  That
failures cease is a bound (`MaxFaults`), not fairness.  Where a pass has to
reach a block above the head, the chain is assumed to grow and to settle
(`WF(ExtendChain)`, `SF(Finalise)`: a reorganisation may disable it again and
again).  EventStorer's passes alternate in
the code, so each gets its turn whatever the other meets: strong fairness for
`SkipEvent` or `StoreEvent` of each, which the other's turn disables for a
while, weak for the end of a turn (`CommitPointer` or `RejectEvent`), `Start`,
`Switch` and the migration.  That the update is deployed at all
(`SF(StartUpdate)`) is the operator's doing; nobody is assumed to run the
script.  EventHandlers has weak fairness for the loop and for the chain that
completes the history.  AgentState has strong fairness for `SetAvailability` only: an UPDATE
that waits for a row lock is queued by the database and served when the round
ends, and a minute of sleep follows each round.

### Findings

1. `back_reindex_synced`: `utils/updates.ts:32` returns the two variables of an
   update in the order last block, first unhandled block, and `:37` compares
   them in the other, so a finished update counts as unfinished and the reverse
   (`run/integrity.ts:57` warns of "current one ... unfinished").
2. `doge_indexer_purge`: the deforker deletes a block row before its references
   and never its transactions, so the purge of a fork that holds a referenced
   payment is refused at every turn and the indexer stays there.
3. `xrp_indexer_shared`: a ledger whose row the greedy pass stored because of a
   referenced payment is skipped by the settled pass, so that the transactions
   of a vault indexed in between are lost, against the note at
   `xrp-indexer.ts:66`.
4. `agent_state_destroyed`: two event constants have the same value, so
   `onAgentDestroyed` is never reached; a destroyed agent stays listed as live
   with its last info.

Worth knowing besides: the back pass ends at the main indexer's first unhandled
block, one block further than the README says ("to the block last indexed"), so
that block is indexed twice, which `logExists` makes harmless.  A new event of
that block that refers to an old event of the same block makes the back turn
throw, and the front turn that would store the old event never runs.  The
README of the repository keeps the back indexer for events without such
dependencies; the instances of BackReindex do too.  Updating a ticket after
its deletion was handled gives a destroyed ticket a value: it needs an update
that adds `RedemptionTicketUpdated` without `RedemptionTicketDeleted`.  The
constant for the swap parameters' event has the value `SwapExecuted`
(`config/constants.ts:164`), so the `SwapParamsSet` of
`configs/everything.json` selects nothing.

## 4. Proofs

What is proved holds for every set of logs or events, every chain history and
every value of the bounds and of the configuration; the runs check the same
formulas on small instances.  Every proof goes through an inductive invariant
`IInv` (theorem `Invariance`): the property itself only speaks of what is
committed, and a step that commits makes it true only because of what the turn
in memory has done before.

**EventIndexerProofs**: `TypeCorrect`, `Completeness`, `OnlyFinalStored`
(`Spec => []TypeOK`, `[]Complete`, `[]OnlyFinal`), `PointerOnlyAdvances`, and
`ImplementsLedger`: `Spec => LedgerSpec`, the refinement of EventLedger.
`IInv` adds to `Complete` that a turn has handled everything below its batch
(`TurnInv`), that the logs in memory are all that the batch still lacks
(`BatchInv`), that the blocks of a turn are final, so that no reorganisation
changes a batch once it is fetched, and that the chain is causal, so that the
parser never drops a tracked log whose source is in an earlier position.
Assumption: `SourcesTracked`, the event list contains the events that create
the rows the parser needs, and indexing starts before them.

**RaceReindexProofs**: `NoGap` (`RaceComplete`), `RowsInPlace`
(`NoMissingRow`) and `ImplementsLedgers` (`LedgersKept`).  The same invariant,
of the logs the stage at work is in
charge of; what the passes owe each other is that a back turn ends below the
front pointer, so that every old row it needs is there, and that the pointer
compared at the hand-over is still the front one's.  A step of any of the three
indexers is a step of at most one ledger: what it commits belongs to one, and
that all of that ledger before it is there is what `IInv` says of the turn's
batch.  Assumptions:
`SourcesKept`, that the parser recognises each log by what is indexed before
it; for `RowsInPlace` that both lists are closed (`OldClosed`, `AllClosed`) and
no new event precedes `REINDEX_START_BLOCK`.

**BackReindexProofs**: `NoGap` (`BackComplete`) and `ImplementsLedgers`
(`LedgersKept`).  The hand-over's block divides the new events between the two
indexers; the back one stays below the main one.
The back one also scans the hand-over's block, which need not be final and for
which it owes nothing; which logs make up the ledgers is fixed at deployment
(`handover`).  Assumption: `SourcesKept`, here that new events are recognised by
old ones only: were a new event's vault itself a new event, the
main indexer could drop it silently before the back one inserts the vault.

**EventHandlersProofs**: `OnlyAwaited` (`RowsAwaited`) and `LinksOfChain`
(`LinksFollowChain`), for any lists of events and any updates between them that
satisfy `ListsClosed`: a list names with each event all that may create the rows
its handler needs, and a back update adds no vaults.  The shipped lists do; the
run evaluates it (`ClosedAssumption` of MCEventHandlers), and without it
an indexer stops at the first event whose cause it was not told to index.
`IInv` says which logs of the history the passes are through with (`Covered`:
by pointer, pass and hand-over) and that these are stored, within a turn log by
log (`TurnInv`); since a log comes after all it refers to, a handler that throws
can only lack what another pass has still to bring.  The one kind of log a pass
drops in silence is a pool's event whose vault is in the same block, in the back
pass of the hand-over's block, and the main pass takes it.  `LinksOfChain` needs
a second invariant, `LinkInv`: the redemption requests of a transaction follow one
another, and if they are old, the back pass meets all of them stored or none
(`AdjacentInv`), since a handler that throws for one throws for the other.

**EventStorerProofs**: `TypeCorrect`, `ResolutionsInOrder`, `SettingsInOrder`,
`TicketsInOrder`, `BalancesSumUp` (`BalancesExact`).  The core of `IInv` is that
a pass leaves no event of its own behind it, replays and hand-over included, and
that of two kinds the same pass handles none is stored before an earlier event
of the other: what is being stored is then the last of its kind, and may
overwrite what is there.
`ShapeInv` bounds what the rows may hold before a kind's first event.
Assumption for `TicketsInOrder`: `TicketsTogether`, no update adds some of the
kinds of a ticket's events without the others (with one that does, a ticket can
come back to life, as noted above).
`BalancesSumUp` has no assumption.  What a holder was brought is a recursive
function over the places of the history (`Brought`).  That such a function
exists (`SumExists`), that there is but one (`SumUnique`), and that it grows by
the amount of one summand when that one is stored (`SumChanged`), is proved from
the least natural number for which it would fail: the well-foundedness of `<`
(`NatLessThanWellFounded`, `WFMin`) gives that number (`LeastNatural`) without
an induction theorem that takes a predicate as a parameter.

**AgentStateProofs**: `TypeCorrect`, `InfoOfAllTracked` (`InfoUnlessUntracked`),
`InfoAlwaysExplained` (`InfoExplained`).  `IInv` says of each value in the hands
of a handler or of the round that somebody has seen it.

**XrpIndexerProofs**: `TypeCorrect`, `ReferencesStored` and `VaultsStored`
(`VaultsUnlessGreedy`), with no assumption about which transactions share a
ledger.  `IInv` says which payments a turn has stored below the ledger at hand.
`VInv` adds for the vaults what a turn has done below it (`TurnInv`), that a turn
tracks every vault created before the end of its range, because it reads the end
first (`VaultsKnown`), and of each row what must have come with it (`RowsInv`): a
ledger's row holds all transactions of a vault unless the greedy pass stored it
while the vault was unknown, which `early` records.  That this can happen is
finding 3; that nothing else can lose a vault's transaction is the theorem.

**DogeIndexerProofs**: `HeightsInStep` (`NoGap`), `PaymentsInStep`
(`PaymentsRecorded`), `OneChainKept` (`OneChain`), and `TypeCorrect` under
`PaymentsAreTx`.  `IInv` ties the pointer to the heights stored at every await
of the deforker and of the indexer.

Besides, the constants satisfy each module's own assumption (`LogAssumption`,
`IndexerAssumption`, `RaceAssumption`, `BackAssumption`, `StorerAssumption`,
...), which TLC evaluates in the runs, as it does the closure of the lists.
The environment assumes that blocks below the height offset are final: that is
what the offset is configured for, and `OnlyFinal` is false without it.

Every invariant the passing runs check is the statement of a theorem, and so are
their action properties and refinements.  Only model-checked are the liveness properties,
which depend on fairness and `ENABLED` and are out of the prover's reach:
`EventuallyStored`, `EventuallySynced`, `EventuallyWhole`, both `AllStored`,
`FollowsChain`, `EventuallySettled`, `EventuallyGreedy`, `EventuallyMirrored`,
`InfoConverges`, `EventuallyHandled`.  That the shipped lists are closed is
evaluated by TLC: it is a fact about three files, not about all lists.  The
findings are counterexamples, which only TLC can give.

## 5. Not modelled, and why

- `chain/typechain/`: factories, ABIs and types generated from the contracts.
  They are more than four fifths of the code's lines and contain no decision;
- the amounts, addresses and texts of events, and all formatting;
- handlers that only add a row: which rows they need is in EventLists, what
  they write is read by no other part;
- the recalculation of balances and the completion of transactions' metadata:
  run once, by hand, on a stopped indexer;
- prices and the XRP monitor: rows overwritten with what a node returns.  The
  price's upsert is not awaited and may outlive its round's transaction;
- a second FAsset beside XRP in the XRP indexer, whose bound is the largest
  underlying block of any of them (`xrp-indexer.ts:69`): with one the bound is
  exact, with two it is not the ledger the vaults are known up to;
- the comparison of the configured chain with the database at start-up: equality
  tests without concurrency;
- the block cache of the parser: it holds an index and a timestamp;
- the API: read-only queries.

## 6. Plan

Done, in this order: EventLogs, EventIndexer, EventLedger and their proofs;
RaceReindex, BackReindex; DogeIndexer; XrpIndexer; EventStorer; AgentState;
EventLists, EventHandlers; settings, migration, script and restarts in
EventStorer; the proofs about XrpIndexer, DogeIndexer, AgentState, EventStorer,
RaceReindex and BackReindex; the ledgers of the two updates; the proofs about
EventHandlers and the balances.

What would come next:

1. an abstract specification of EventStorer, one object whose state is the last
   of its events, refined by the passes of a race;
2. an abstract specification of the DOGE and BTC indexers, a chain of blocks
   that grows by one or falls back, refined by the deforker and the indexer;
3. the lemmas about turns shared by RaceReindexProofs and BackReindexProofs,
   stated once in EventIndexerProofs;
4. XrpIndexer with two FAssets;
5. watchdog prices, with the upsert that is not awaited;
6. an interrupted update followed by another one, whose name differs.
