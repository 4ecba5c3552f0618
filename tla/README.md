# ArbOS, the Mini compiler and the AVM emulator in TLA+

This repository holds the Mini compiler, the linker and emulator for the AVM (the Arbitrum virtual machine),
and ArbOS, the operating system of an Arbitrum chain, which is written in Mini and compiled by them. This
directory is a TLA+ model of the three: the core of ArbOS, the compiler from the checked files to the linked code,
and the emulator that runs it. TLC runs check it on small instances; TLAPS proofs about retryables, gas accounting and
the inbox hold for every instance. Paths below are relative to the repository's root.

## The system and its parts

| Part | State | Operations |
|---|---|---|
| Inbox and main loop (`arb_os/inbox.mini`, `messageBatch.mini`, `messages.mini`) | current block and time, queue of messages, the message waiting for the end of a block, queues of unpacked messages | take a message from L1, sideload one, end a block, unpack a batch, check and run a transaction |
| Output (`output.mini`) | statistics of the block and of the chain, queued logs, the outbox and its Merkle batches | emit a receipt, append a message to L1, send a batch, end a block |
| Accounts (`accounts.mini`) | balances, sequence numbers, contracts, escrow | transfer, escrow, pay out, create, destroy |
| Retryables (`retrybuffer.mini`, `arbretryable.mini`) | tickets by id, queue of expiry times | submit, auto-redeem, redeem, keepalive, cancel, trim |
| EVM call stack (`evmCallStack.mini`, `evmOps.mini`, `arbsys.mini`) | stack of frames, each with a whole account store and a cached account | start, call, create, self-destruct, store, log, send, return, revert |
| Gas (`gasAccounting.mini`) | prices, gas pool, congestion, the gas of the running transaction | start, pause, resume and end charges, settle, new block, new L1 price, new parameters |
| Precompiles, code segments, decompression, block hashes, tracing, upgrades (`arb_os/`) | tables and parameters | see *Not modelled* |
| Containers (`stdlib/`, `builtin/`) | queues, stacks, heaps, arrays, tries | put, get, update, take |
| Compiler (`src/src/compile`) | files by path, the checked tree, code with labels | load, resolve imports, check, prune, inline, generate |
| Linker (`src/src/link`) | relocated programs, globals in nested tuples, the jump table | join, transform, optimise, strip labels |
| Emulator (`src/src/run`, `mavm.rs`, `uint256.rs`) | two stacks, register, static value, code segments, error code point, gas | 83 instructions, catch an error, block on the inbox, resume |
| Host (`runtime_env.rs`) | inbox, logs, sends, the recorder | insert a message, run, replay a record |

**How they interact.** The compiler turns ArbOS's files into one program; the emulator runs it against the inbox
that the host fills. Within ArbOS, the AVM runs one thread. `mainRunLoop` takes a message at a time; a transaction runs to
its end, or to the error handler, before the next one. Concurrency is nevertheless everywhere in the
design. Messages of different origin (L1, batches, sideloads) are interleaved by three queues. EVM code is
arbitrary and calls back into ArbOS at any depth. Any frame may fail at any instruction, and the failure is
handled by a jump into the error handler. State is held in several copies (global store, one store per
frame, one cached account per frame) that must be merged or dropped. A transaction may redeem a ticket or change
chain parameters while its own gas is being accounted for.

**What must be right.** Wei are neither made nor lost across balances, escrow, frames and withdrawals. A failed call
leaves no trace. A ticket's callvalue is there until the ticket goes and is paid out once. What a transaction pays is
never more than its maximum, and is what its receipt says (with exceptions, see below). Every message is handled once,
in order, in its block, with a receipt that is counted. Below ArbOS: what the type checker accepts compiles, never
meets a value of the wrong kind, and computes what the source says through every pass; an instruction that fails or
blocks leaves nothing half done, so that a run can be taken up again and a record replayed. The hazards behind these,
with the source lines where they bite, are listed in `PROJECT.json`.

## Modules

| Module | Models | |
|---|---|---|
| `AccountStore` | `accounts.mini` | balances and escrow as pure operators |
| `Retryables` | `retrybuffer.mini`, `arbretryable.mini` | the retry buffer; extends `AccountStore` |
| `CallFrames` | `accounts.mini`, `evmCallStack.mini` | contracts, frames, the cached account, what a return adopts |
| `EvmCallStack` | `evmCallStack.mini`, `evmOps.mini`, `arbsys.mini`, `processL2Request` | transactions and EVM instructions over `CallFrames` |
| `Transactional` | (abstract) | nested transactions over whole states; what `EvmCallStack` implements |
| `Output` | `output.mini` | receipts, statistics, outbox as pure operators |
| `Inbox` | `inbox.mini`, `messageBatch.mini`, `queue.mini`, `errorHandler.mini` | the main loop; composes with `Output` |
| `GasAccounting` | `gasAccounting.mini` | charges, fees, prices; extends `AccountStore` |
| `Words`, `Buffers` | `uint256.rs`, `mavm.rs` | words of the machine and their signed view; buffers as trees of bytes |
| `Folding` | | operators that bind a value or skip a failure |
| `Opcodes`, `Mavm` | `mavm.rs` | opcodes, values, instructions, code points and code segments |
| `RuntimeEnv` | `runtime_env.rs` | inbox, logs, sends, recorder as pure operators; extends `Mavm` |
| `Emulator` | `emulator.rs` | every instruction and the turn of a run; extends `RuntimeEnv` |
| `Host` | `runtime_env.rs`, `run/mod.rs` | a host that inserts messages between runs and replays; extends `Emulator` |
| `Link` | `link/` | the linker's passes over code; extends `Mavm` |
| `Types` | `ast.rs` | types, assignability, mismatches; extends `Link` |
| `Typecheck`, `Flow` | `typecheck.rs` | the type checker; purity, references and inlining on the checked tree |
| `Codegen` | `codegen.rs` | code of statements, patterns and expressions |
| `Compile` | `compile/mod.rs`, `stringtable.rs` | the stages between the parser and the linker |
| `Semantics` | (abstract) | what a Mini program means, from `doc/MiniLanguageTutorial.md`; an interpreter of the parsed tree |
| `Compiler` | `compile/mod.rs`, `run/mod.rs` | the stages as actions, then a run; composes `Compile`, `Link`, `Emulator` and `Semantics` |
| `Samples` | `builtin/array.mini` | the programs that are compiled, with the array library as one of them |
| `Collections` | `stdlib/`, `builtin/`, `decompression.mini` | the containers |
| `MCAlgorithms` | | inputs for the pure algorithms and their reference definitions |
| other `MC...` | | values of the constants for TLC |
| `AccountStoreProofs`, `SubmissionProofs`, `RetryablesProofs` | | proofs about retryables |
| `GasPaymentProofs`, `GasAccountingProofs` | | proofs about gas accounting |
| `OutputProofs`, `InboxProofs`, `BlocksProofs` | | proofs about the main loop and what it emits |

Names of definitions are those of the source where TLA+ allows it. A Mini function that returns an option is
a predicate `Can...` and an operator that is applied only where it holds. A definition with a suffix
(`Drop_all`, `Suspended_unsaved`) preceded by a comment *Mutant* is a faulty variant of the definition after it,
used to see that a property notices the fault; no specification uses it.

### Retryables

`store` is the global account store with the buffer's `byTxId` and `fifo`. A step is one message run to its
end. `processRetryableTx` has three exits and so three actions: `SubmitRejected` (the fee exceeds the sender's
limit, or the sender cannot pay), `SubmitDropped` (an early return `?` in the middle, which keeps the
refunds already made and nothing else) and `SubmitAccepted`. Trimming is part of each of them, of `Redeem` and
of `Keepalive`. An accepted submission may leave an auto-redeem, which runs before anything else. `Redeem`,
`Keepalive`, `Cancel` and `TxReverts` are transactions that call the precompile and pay gas. 256-bit sums wrap
(`Wrap`), and inputs that make `totalDue` wrap are among those enumerated. Three history variables record the
wei deposited, the deposits never credited, and the tickets whose callvalue was refunded by a dropped
submission.

### EVM call stack

`stack` holds the frames. A frame has a store, the account it runs as and its cached copy `acct`,
the callvalue, the storage delta, logs, messages to L1, the self-destruct queue, and what it does when its subcall
returns (`then`). EVM code is arbitrary: any frame may take any instruction and any frame may fail at any
time. The code of ArbOS's own contracts is one precompile account that can redeem a ticket or send a message with
wei to L1. Memory, calldata, returndata and arithmetic are left out, as no property depends on them. Of gas only
the wei held for it, the part used, and whether the register charges the transaction are kept. The history variable
`unsettled` adds up what was held for non-mutating transactions that succeeded, which nothing pays back.

### Inbox and Output

A step is one round of `mainRunLoop`, or of the loop in `inbox_get`. A message's contents are abstracted to
what they make the loop do: a transaction with or without a sequence number, a batch, a BLS batch, a retryable,
something ignored. Whether a transaction succeeds, redeems a ticket or sends messages is a choice; `EvmCallStack`
is about those. A failure in the runtime that sends the loop back to its start through the error handler is one of
the outcomes. The host sideloads L2 messages only; `handleUnpackedMessage` would also take a sideloaded end of block
(`inbox.mini:408-414`), which is left out.

### Gas accounting

`reg` is the AVM's gas register, `calls` the gas each frame gave and kept back, `info` the global gas accounting state
with its prices, pool and running transaction, `bill` a history of what the current transaction's payer had, how it
ended and what its receipt says, `unsettled` what was held for transactions that never settled. The payer may be one
of those who take the fees. The limit on L1 fees wraps as the code's unchecked product does, and a cost beyond a word
fails in `safeMul` as the code's checked one does. A parameter change and a new L1 price may come in the middle of a
transaction, as the owner's precompiles allow.

### Emulator and host

A machine is the record `Machine` of `emulator.rs`. `run_one_dont_catch_errors` is a case for each instruction;
it yields the machine and one of *ok*, *blocked* (the inbox is empty), *err* or *panic* (the emulator itself
aborts). `run_one` catches an error with the error code point, `run_step` is a turn of the loop in `Machine::run`,
gas included. Words have 24 bits of four 6-bit bytes and a `usize` has two of these, so that conversions,
sign changes, shifts past the width and offsets that overflow all happen. Hashes, curves and signature recovery
are constants. `Host` starts any of its programs, inserts messages at any time between runs, and replays the
record from the start. An out-of-range access that Rust would turn into a panic is a panic here.

### Compiler

A source is a set of files as the parser leaves them. `Compiler` takes them through the stages of
`compile_from_folder`: files are loaded from a stack of paths; imports are resolved file by file in any order, as
the code iterates over a `HashMap`; all modules are checked; functions nobody refers to are pruned; calls are inlined
under one of the heuristics; code is generated, joined, transformed and stripped of labels; `main` is called on
`Emulator`, one instruction a step. A tree node is `[kind, attr, subs, t]`. Errors keep that they happen and not
what they say.

`Semantics` is the reference: an interpreter of the parsed tree with tagged values, which shares only arithmetic on
words with the other modules. It tells a panic of the program from an operation that does not apply to
its operands (*stuck*). It follows the tutorial, and the order of evaluation the tutorial leaves open follows
the code: operands from the last to the first.

### Algorithms and containers

`MCAlgorithms` has no program of its own: a state is one input of one algorithm, a step makes it larger. The
reference definitions are elementary (sets of values, sequences, functions, bags), and the same run executes
code before and after a linker pass on `Emulator` to compare what is left.

## Runs

| Run | Result | What it asks |
|---|---|---|
| `retryables` | holds | Each live ticket's callvalue lies under its own escrow key (`TicketBacked`); nothing is stranded (`NothingStranded`) or minted (`Conservation`); each live ticket has a queue item with its current expiry (`LiveTicketQueued`); an unexpired ticket goes only by redemption or cancellation (`UnexpiredTicketKept`); an aged-out ticket at the head of the queue is removed while submissions go on (`AgedOutHeadRemoved`, liveness); the inductive invariant of the proofs (`IInv`). |
| `evm_call_stack` | holds | Wei add up in every frame, with its cached account and its messages to L1 (`Conservation`); the storage delta kept by differences is exact (`StorageDeltaExact`); one receipt for each transaction (`OneReceiptEach`); gas funds are held, in the global store and in every frame's, only for the running transaction and for non-mutating ones that succeeded, until a payer who lacks funds sweeps them (`GasHeldOnlyWhileRunning`); tickets are funded whatever fails around a redemption (`TicketsFunded`); suspended frames hold no stale cache (part of `TypeOK`). |
| `evm_refinement` | holds | Frames with cached accounts implement `Transactional` (`ImplementsTransactional`). |
| `inbox` | holds | Block summaries are in order without gaps, each names the block before, and each receipt is in its block (`BlocksInOrder`; the document on formats says otherwise, see `inbox_empty_block` and below); statistics and indices count the logs (`CountsExact`); messages to L1 are in the batch that announces them (`SendsInBatches`); messages are handled in order, once, none lost (`HandledOnce`); no sequence number is used twice (`NoReplay`); the loop gets back to L1 (`ReturnsToL1`, liveness). |
| `gas_accounting` | holds | The escrow for gas is exactly the running transaction's maximum and what non-mutating ones left (`HeldExactly`); nested calls create no gas (`GasWithinMax`); fees move wei only (`Conservation`); nobody pays more than the maximum, and a payer who takes no fees pays what the receipt reports unless the gas could not be covered or a non-mutating transaction succeeded, where what is lost is stated instead (`ChargedAsReceipted`); congestion does not depend on where blocks are cut (`TimeAddsUp`). |
| `avm` | holds | A replay of the record gives the same logs and sends, however the messages were spread over runs (`ReplayReproduces`); an instruction that fails has consumed operands and done nothing else (`FailuresOnlyConsume`); a run that blocks has changed nothing, and code points keep their meaning while code is made (`RunsResume`). |
| `compiler` | holds | A checked program of the samples, which leave out what is known to get past the checker, never gets stuck (`CheckedIsSafe`); value, stacks and every global are what the source says, and an error happens exactly where it panics (`ResultAgrees`); a function found pure changes no global but those a tuple pattern assigns (`PureMeansUnchanged`); what is accepted compiles (`AcceptedCompiles`); every compilation and run ends (`Finishes`, liveness). |
| `algorithms` | holds | Assignability is sound for the values of types, transitive, and agrees with the mismatch reported (`AssignabilitySound`); the peephole pass and trees of tuples keep what code does (`CodeKeepsMeaning`); words and buffers agree with integers and bytes (`WordsAgree`); queues, stacks, heaps, arrays, tries and the address table behave as their abstractions (`ContainersHold`). |

Four more runs state what a comment, a document or an assertion says and are violated by what the code does; the
findings in `PROJECT.json` quote them:

| Run | What the trace shows |
|---|---|
| `retryables_aged_out` | the queue item of a redeemed ticket reaches the head of the queue, and nothing behind it is ever trimmed |
| `inbox_empty_block` | a block whose only message runs no transaction gets a summary that counts nothing |
| `compiler_unary_minus` | the negation of an `int` variable is accepted and then refused by the linker |
| `algorithms_mismatch` | two function types are not assignable, and the search for what to report finds no mismatch |

### Bounds

* `retryables`: two tickets, so that one can block or share with the other; a clock from 0 to 3 with lifetime 1, which
  is a submission, a keepalive and an expiry after it; 3-bit words, with a callvalue of 7 so that `totalDue` wraps; a
  supply of 3 wei; a sender, a destination and a beneficiary of their own. A change of the lifetime is an action, but
  the instance has one lifetime; the proofs cover any set of them.
* `evm_call_stack`, `evm_refinement`: one transaction with four (three) instructions at most three frames deep. The
  nesting of a failure in a success in a failure needs three frames. Two contracts, a user, ArbOS's
  contract, an address without account, a fee account; callvalues 0 and 1; two tickets in escrow. The second
  contract is called by a redeemed ticket only: the created account, which has code too, takes its part. Transactions
  are mutating and non-mutating (gas estimation), and the gas escrow starts with the wei that an earlier non-mutating
  one left. In `evm_call_stack` one of the amounts to be held for gas is more than the user has.
* `inbox`: four messages from L1, only ends of blocks once two have been handled, and one sideloaded message; a batch
  within a batch, a BLS batch that repeats a transaction; later L1 blocks and later timestamps separately. The
  sideloaded message is an L2 message. The loop waits for L1 when there are no more, so a deadlock is no error.
* `gas_accounting`: two transactions, three frames, two blocks, two seconds, one change of price or
  parameters; two payers, one of whom takes the network fee; gas amounts that run, that the payer cannot cover, and
  whose price overflows a word. Prices are large enough that integer division by the congestion constants shows.
* `avm`: every instruction with an operand of each kind below, above and as an immediate; every loop of three
  instructions over the inbox with two messages; every program of four instructions that makes code; 14 steps.
  `Breakpoint` and a blocked `InboxPeek` with an immediate are left out of the replays (see below).
* `compiler`: about a thousand programs, each under the three heuristics: the arithmetic, comparison and bitwise
  operators on small, large and negative operands, constant and not; conditionals, loops in loops, matches on options,
  early returns, question marks and breaks under values on the stack; tuples, structs, unions and arrays, wider than a
  tuple of the instance (`TUPLE_SIZE` 4 for 8); recursion, functions as values, inlining; globals, assigned by name
  and by pattern; files that import each other and re-export; programs wrong in one place, which must be rejected. Not
  among them, though the modules have them: maps, buffers, `asm`, `assert`, the gas register, bitwise or, and the
  logical operators that evaluate both sides. `unsafecast` occurs in the array library only. Programs known to get
  past the checker or to be miscompiled (*Observed while modelling*) are left out.
* `algorithms`: `TUPLE_SIZE` 3 and trees of up to 28 leaves, which is three levels; types two constructors deep
  over recursive names; code of up to four instructions; buffers of three writes at the edges of leaves;
  containers with blocks of two and up to nine items, so that each grows twice; tries with colliding hashes.

The larger runs take one to three minutes with two workers. `MaxTx`, `MaxOps`, `MaxDepth`, `MaxL1` and
the like are guards on starting something new: a transaction, an instruction, a call, a message. What has begun
can always end, as frames may return when no more instructions are allowed. In the runs of `EvmCallStack`, `GasAccounting`,
`Host`, `Compiler` and `MCAlgorithms` the last state of a bounded run has no successor, so deadlock is not checked there.

### Fairness

`Inbox` assumes weak fairness of one round of the loop (`Loop`): the AVM executes as long as it is not blocked
on the inbox. It assumes nothing of L1 or of sideloading. `retryables` assumes that time passes, that a
pending auto-redeem is run, which `handleUnpackedMessage` does at once, and that submissions keep arriving; the
last is an assumption on the environment, because the code trims only when the buffer is modified. They are
submissions that are turned down, which have no effect other than trimming and so can go on for ever in a
bounded model. `Compiler` assumes that the compiler and the emulator do not stop before their end, which is weak
fairness of its only process.

## Proofs

The proofs are about `Retryables`, `GasAccounting` and `Inbox` with `Output`, for every choice of the constants that
satisfies the `ASSUME`s of these modules: accounts are finitely many, amounts are words or natural numbers,
lifetimes and divisors are positive, messages are among the contents, and all the wei there are fit in a word
(`SupplyAssumption`; there are far fewer than 2^256). Nothing is assumed of who pays and who takes fees.

**Retryables.** `RetryablesProofs` proves `Spec => []IInv` (`Invariance`) and from it `TypeCorrect`, `Backed`,
`Unstranded`, `Conserved`, `AlwaysQueued` and the action property `Kept`. The properties are not inductive by
themselves. That a payment out of one ticket's escrow leaves the others alone needs that no two tickets share a key
other than 0, which stands for *no escrow*. That needs that keys not handed out yet are empty and that live tickets
use keys already handed out, and tickets numbers already used. That a balance does not wrap needs `Conservation`.
`IInv` is the conjunction of these, and TLC checks it in `retryables`. `AccountStoreProofs` has the total of a balance
sheet, defined as the number of its coins, and how one update changes it, so that no induction over accounts is
needed. `SubmissionProofs` has what each operation on the store and the buffer does to totals, escrow and tickets, and
the exits of `processRetryableTx`; `RetryablesProofs` one lemma or step for each action.

**Gas accounting.** `GasAccountingProofs` proves `GasTypeCorrect`, `GasHeldExactly`, `NestedCallsCreateNoGas`,
`PayerChargedAsReceipted`, `GasConserved` and `BlocksCutAnywhere`, for every depth of calls and number of transactions
and blocks. The inductive invariant (`IInv` in `GasPaymentProofs`) adds the types of prices and of the running
transaction, and what its payer is poorer by while it runs: the L1 fees and what is held, less when some of the fees
are the payer's own. The settlement then pays out exactly what is held, because its three parts add up to it whatever
the prices have become. That the limit holds rests on the L1 fees in gas being rounded up. `BlocksCutAnywhere` rests
on a turn of the loop of `updateCongestionState` being the identity once the pool is full and the price is down to the
base price.

**Inbox and Output.** `InboxProofs` proves `NeverReplayed` and `InOrderAndComplete` from the invariant `QInv`: what is
handled, what is queued at every level and what is still held back are one line in the order of their origin, a queue
of the stack being handled entirely before the one below it, and nothing is missing from it. `OutputProofs` shows that
every operation of `output.mini` keeps the books (`Books`): statistics and indices count the log. `BlocksProofs` puts
the two together: `InboxTypeCorrect`, `ChainOfBlocks` and `CountsOfTheLog` follow from `QInv` and from `LInv`, that
the books are kept for the block the inbox is in. A receipt is in its block because a message of a later one is held
back until the block has ended.

**Checked by TLC only.** Liveness (`AgedOutHeadRemoved`, `ReturnsToL1`, `Finishes`), as fairness and `ENABLED` are out of the
prover's reach. `SendsInBatches`. The properties of the EVM call stack and its refinement of `Transactional`. The host, the
compiler and the algorithms: the modules of the compiler, the emulator and the containers are recursive, and
what a recursive definition computes for every input is out of the prover's reach too.

## Observed while modelling

Places where the code and a comment or document differ that have no run of their own:

* `retrybuffer.mini:325`: a submission that is dropped in the middle keeps the refunds trimming has paid and
  restores the tickets they were paid for, whose escrow is then empty.
* `evmCallStack.mini:513`: a constructor transaction commits its store before its code has run, so one that
  fails leaves its callvalue at the address of the contract that was not created.
* `evmCallStack.mini:683`: after a call whose callvalue the caller cannot pay, the caller runs on with charging
  paused.
* `evmCallStack.mini:782`: a call can have gas its caller had kept back, once a call of its own has returned.
* `evmOps.mini:1042`: the wei at the address of a contract to be created are lost.
* `retrybuffer.mini:321,325`: a submission whose payments out of escrow fail loses its deposit; `doc/DataFormats.md`
  says that the deposit is credited to the sender. In the model these wei are `dropped`.
* `retrybuffer.mini:363`: the comparison meant to exclude an overflow of gas times price does not exclude all.
* `retrybuffer.mini:227`: a ticket whose timeout is exactly one lifetime away can be extended; `ArbRetryableTx.sol:49`
  says that the call reverts then.
* `evmCallStack.mini:799`: the self-destruct queue of a subcall is not taken over by its caller, although the
  comment on the field (line 118) includes subcalls.
* `evmCallStack.mini:944`: a non-mutating transaction that succeeds ends without settling the funds held for its gas,
  while the comment at `gasAccounting.mini:375-376` has the unused part refunded at the end. They stay in escrow until the
  next payer who cannot cover the gas, when all of it goes to the network fee recipient.
* `gasAccounting.mini:457`: the storage statistic counts storage allocated by a transaction that is then reverted for
  lack of gas; the number of contracts is decremented for each self-destruct, while `ArbStatistics.sol` speaks of
  the number created.
* `gasAccounting.mini:269`: the network fee charged is a share of the base price, while the price quoted
  multiplies it by the base fee multiplier.
* `gasAccounting.mini:405-411`: a payer who cannot cover the gas loses the balance to the network fee
  recipient, which the receipt's wei paid do not show. Nor does the receipt of a non-mutating transaction show what
  stays held.
* `gasAccounting.mini:402,722`: gas times price is multiplied with `safeMul` to hold it, and without a check to limit
  the L1 fees. When the product exceeds a word, the first is an error after the L1 fees have been paid, and the
  transaction has no receipt; the second is a smaller limit than the transaction stated.
* `gasAccounting.mini:181`: any change of a chain parameter sets up the parameters anew, the set of allowed senders
  included.
* The L1 gas price estimate stays 0 once it is 0, since its changes are bounded by multiples of it.
* `doc/DataFormats.md:338` says that a summary names 0 as the previous block when it is the first; it names `~0`
  (`output.mini:196`). As every block gets a summary (run `inbox_empty_block`), the previous one is always the block
  before.
* `blockhash.mini:22,31`: the subtraction of 255 wraps for the first 255 blocks, so none of them has a hash and
  none is written; later, each new hash overwrites those of the 255 blocks before it.
* `emulator.rs:2204`: `SetBuffer64` stores the eight highest bytes of the 256-bit value.
* `emulator.rs:1935`: an `InboxPeek` that blocks and has an immediate has pushed it, and pushes it again when the run is
  resumed. `Host` leaves this instruction out of the programs it replays.
* `typecheck.rs`: constant bitwise operators have type `bool` and constant shifts type `uint`; a difference of
  constants that would wrap is an error of the compiler. A tuple pattern that assigns, and the value of an update of a fixed
  array, are not compared with the declared type. `MiniLanguageTutorial.md:71` believes that only `import func` and
  `unsafecast` let type errors through.
* `typecheck.rs:855`: a tuple pattern that assigns a global does not make its function impure, while
  `MiniLanguageTutorial.md:57` has functions that access globals impure.
* `codegen.rs:676`: `assert` needs `builtin_assert` in the string table, and no built-in import (`typecheck.rs:1120`)
  puts it there.
* `codegen.rs`: the scope of a block without a value is still there after it, so a `break` after an `if` jumps back; a
  return without a value does not remove values of an enclosing expression.
* `typecheck.rs`, inlining: a question mark in an argument of an inlined call leaves the inlined block and not the
  caller. The programs here have none.
* `link/mod.rs:439`: imports are joined with exports by the bare name, whatever the path; an import without
  export is a warning, and the call goes to a code point outside the program.
* `compile/mod.rs:840`: whether a name that a file imports and another imports from it is found depends on the order of
  a `HashMap`.
* `compile/mod.rs:302-330`: the call graph follows an import to the file it names and no further. A function
  reached only through a re-export is pruned, and the linker refuses the program that was accepted.
* `codegen.rs:1423`: a tuple literal of more than eight fields starts as a flat tuple, while its fields are
  written as in a tree.
* `link/optimize.rs`: a pair of `IsZero` is removed, which is the identity on 0 and 1 only; the code generator uses it on
  nothing else.

## Not modelled

* **Parser and messages** (`mini.lalrpop`, `source.rs`, `pos.rs`): a generated grammar; the trees it makes are the inputs
  of `Compiler`. Warnings of the flow checks in `typecheck.rs` change nothing in the code that is made.
* **Test harness and tools** (`src/src/evm`, `src/src/minitests`, `buffertests.rs`, `main.rs`, `upload.rs`, `gen_code`,
  `contracttemplates.rs`): fixed lists of messages compared with literals, input and output. In `runtime_env.rs` the
  builders of particular messages and the decoders of receipts; in `emulator.rs` the profiler and the debugger.
* **Cryptography and big numbers** (`keccak`, `sha256`, `ripemd160`, `bls`, `biguint`, `blake2b.rs`,
  `ripemd160port.rs`): functions on 256-bit words without state, out of reach of explicit-state checking. Where the
  emulator applies one it is a constant.
* **Code segments** (`codeSegment.mini`): to say that the translation of EVM bytecode is right takes a semantics of EVM
  bytecode, which the repository does not have. **Upgrades and ArbOwner's code upload**: the code uploaded is arbitrary
  and the bridge in the repository maps nothing. **Block hashes**: see above.
* **ABI decoding, formatting, tracing, logs' contents, RLP, compressed transactions**: no property here depends on them.
* Within the modelled parts: gas estimation requests, retryable prices and the set of allowed senders of
  `gasAccounting.mini`; the inbox's hash accumulator; the patching of logs with send numbers; code references and
  aggregator fields of accounts; the function and BLS tables behind ArbSys; in the compiler, constants read from
  files and options that turn warnings into errors.
