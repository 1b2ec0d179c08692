# TLA+ verification of the Cairo debugger

The repository is a Debug Adapter Protocol (DAP) server for Cairo programs. It is
a library hooked into the Cairo VM: the VM executes CASM, the debugger sees a
program counter before and after every instruction, and from this sequence alone
it works out which Sierra statements were executed, which Cairo functions are on
the stack and which variables they have, while a client sends requests whenever
it likes.

Paths below are relative to the repository; `call_stack.rs` is
`src/debugger/state/call_stack.rs`, the other files of `src/debugger` and
`src/connection.rs` go by their names too. In `PROJECT.json` every path has one
more `src/` in front.

## 1. The system

| Part | State | Operations | Hard because |
|---|---|---|---|
| program look-ups (`context.rs`, `file_locations.rs`) | none, built once | statement of a pc, branches, function of a statement, locations, statements of a breakpoint | statements without CASM have no pc |
| call stack (`call_stack.rs`) | stack of substacks with the context of each suspended function, current context (trace, last statement, first reference), pending action, registry of nested variables with its counter | `update_pre_step`, `update_post_step`, `get_frames`, `get_variables`, `depth` | calls, returns and branches are inferred; changes are decided in one hook and applied in another; cached references |
| state (`state.rs`, `ui_state.rs`) | flags, breakpoints, current statement, last breakpoint hit, step action | `update_state`, `was_breakpoint_hit`, `has_step_action_happened`, set and clear breakpoints | what was last seen may be long ago or of another activation |
| handlers (`handler.rs`) | those of state | one per DAP request | any request at any stop, in any order |
| debugger (`debugger.rs`) | connection, context, state | `initialize`, the two hooks, the pause loops, `Drop` | three places in one hook where requests are served |
| connection (`connection.rs`) | two channels, two threads, a TCP stream | receive (blocking or not), send, end | threads, ends, order of drops |
| values of variables (`call_stack/variables.rs`, `vm_reader.rs`) | none, read again at each stop | decoding of memory cells | read while parts are not written yet; layouts of enums and arrays |
| Cairo variables (`context/variables.rs`, `get_values_of_variables`) | maps built once | which Sierra variable a name stands for, parameters | shadowing, reused Sierra ids, iteration over HashMaps |
| VM (cairo-vm, external) | pc, fp, ap, memory | one instruction between the two hooks | leaves the program area at any time |

The VM's thread is the debugger's thread: `pre_step_instruction` calls
`sync_with_vm_pre_step`, which at a new statement updates the call stack, checks
breakpoints, checks the pending step, then polls requests; in each of the three it
may block in `process_until_resume`. An error it returns stops the VM. The reader
and writer threads share with it nothing but two unbounded channels.

What makes each part correct:

- call stack: it agrees with the VM's stack of calls at every hook; the trace is
  what was executed; a reference stands for one thing, and for nothing that is over;
- state and debugger: a step stops at the depth the VM says and never runs past its
  end; a breakpoint stops whenever it is reached anew; no request panics;
- session: what the client has been told is what the debugger does; every request
  is handled in its turn; a session without a client ends;
- values: a variable is shown with its value or not at all, whatever part of it is
  written and whatever it is made of; what a name stands for does not depend on the order of a HashMap and
  never falls back while the function runs;
- connection: everything sent before the end is written, and the threads end.

`PROJECT.json` lists the hazards behind these, each at its line.

## 2. The modules

| Module | Models | Uses |
|---|---|---|
| `SierraProgram` | the immutable program, the look-ups, the assumptions on compiler output | |
| `CasmVm` | the VM as the hooks see it (external) | `SierraProgram` |
| `CallStack` | `call_stack.rs`, `update_state`, the order of the hooks | `CasmVm` |
| `CallStackInvariant` | the inductive invariants of `CallStack`: `IInv`, `ReadInv` | `CallStack` |
| `CallStackProofs` | lemmas about the program, theorems: types, the shadow stack | `CallStackInvariant` |
| `CallStackReadings` | theorems: what is read at a stop | `CallStackProofs` |
| `Session` | `debugger.rs`, `state.rs`, `handler.rs`, the queues of `connection.rs`, the client | `CallStack` |
| `Connection` | `connection.rs`: threads, channels, stream, drops | |
| `ConnectionProofs` | theorems | `Connection` |
| `DapSession` | what a client may rely on (abstract) | |
| `SessionProofs` | theorems: `Session` implements `CallStack` and `DapSession` | `Session`, `CallStackProofs` |
| `SessionInvariant` | the inductive invariant of `Session`: `SessionInv` | `Session`, `CallStackInvariant` |
| `SessionSteps` | theorems: types, steps, panics | `SessionInvariant`, `SessionProofs`, `CallStackReadings` |
| `SessionBreakpoints` | theorems: breakpoints | `SessionSteps` |
| `CairoVariables` | `context/variables.rs`, `get_values_of_variables`, parameters | |
| `CairoVariablesProofs` | theorems | `CairoVariables` |
| `Values` | the decoding of cells, `vm_reader.rs` | |
| `ValuesProofs` | theorems | `Values` |
| `MCCallStack`, `MCSession`, `MCCairoVariables`, `MCValues` | instances for TLC | |

### SierraProgram

A program is `NStatements` statements, each with a kind (other invocation, call,
return), branch targets, CASM or not, code locations and function names. A location
is opaque but for its file and line. `FallThrough` and `LeadsTo` are the walks of
`handle_branch_entrances` over statements without CASM.

The assumptions are what the code relies on and its comments say: a statement
without CASM only falls through (`call_stack.rs:454`), control moves forward in a
function (Sierra loops are recursive functions), a function ends with a return and
functions are sorted (the `partition_point` at `context.rs:293`).
`RecursionAssumption` excludes a function whose first CASM is the call that entered
it: it would never end, and the compiler puts a gas check in every cycle of calls.
Two more are made by the shape of the constants: a list of locations or names that is
there is not empty (else `call_stack.rs:146` would subtract from zero), and a branch to
the next statement is a fallthrough (`call_stack.rs:487` takes every such branch for
one; the `unwrap` of `context.rs:223` would fail for one that names its target).
Conditions the code needs but no one promises are *not* assumed; the theorems that
need them name them, and the instances of the passing runs satisfy those their
properties depend on: `NoTailRecursion` (no function returns right after calling
itself), `UnambiguousBranches` (no two branches of a statement lead to the same
statement, `call_stack.rs:472`), `CallsToldApart` (`SessionInvariant`: two calls of
one function are at different locations), `LinesKnown` (`SessionSteps`: every
statement that compiles to CASM has a location) and `LinesToldApart` (`SessionSteps`:
no line number is used in two files).

### CasmVm

State: the statement of the pc, whether the pc is in the program area (`mapped`),
the parameters of the activation (all that fp tells the debugger), the suspended
activations, and a ghost `executed` with the truth about executed statements. An
instruction stays in its statement, leaves the program area, branches, calls or
returns. A call or return is one instruction (`call_stack.rs:97`). `MaxDepth`
bounds the calls active at once; the theorems hold for every value of it.

### CallStack

`phase` is the place in the VM's loop: `pre` hook, `handle` (the hook has reached a
new statement and may serve requests), `exec`, `post` hook.

| Code | Model |
|---|---|
| `call_frames_and_vars` | `frames` (flattened) and `contexts` (per substack its first flat index and its context) |
| `current_sierra_function_context` | `current_context` |
| `action_on_new_statement` | `action_on_new_statement`, kinds none, push, pop |
| `nested_var_registry`, `next_nested_ref` | the same |
| `update_state`, `update_pre_step` | `SkipInstruction`, `EnterStatement` |
| `handle_branch_entrances` | an operator of that name; its `unwrap` leads to phase `panicked` |
| `update_post_step` | `ApplyPush`, `ApplyPop`, `PopNothing`, `NothingToApply` |
| `get_variables` | an action of that name; every function has one variable that can be expanded `Nesting` times |
| an error of a hook, of an instruction; the end | `HookError`, `VmError`, `VmEnd` |

The variables of a function are abstracted to what they depend on: function, parameters, and the
recorded statements that produce a Cairo variable. VM memory is write-once, so equal dependencies
give equal values (`Values` and `CairoVariables` say which values). A trace is a set of entries here
and a sequence, as the `IndexMap` of the code, in `CairoVariables`. The frames of a statement are
its locations, the least nested first, zipped with the names of its functions (`FrameNames`: "test"
if it has none), so that the shorter list decides how many there are. `MaxRefs` bounds the
references in use at once, and `References` is what a client may ask for, shown to it or not.

Definitions called `X_without_...`, `X_with_...` and the like are variants of `X`
with a mistake a change of the code could bring in. The specification does not use
them: replacing `X` by one shows that a property notices.

### Session

`at` is the place in the debugger's thread: the loop of `initialize`, the VM, the
three stages of the hook (`breakpoint`, `step`, `poll`) with their pause loops, and
the two ends (`gone`, `panicked`). The panics are those of the branch search, of the
lines and the current statement that the handlers unwrap, and of the location of a
breakpoint that is hit (`state.rs:126`). A handler is one action: the code handles a
request and sends its event and response without giving way. `HandleQuery` stands
for the requests that are answered and change nothing; `Unsupported` for the list of
`handler.rs:86`.

Outbound messages are reduced to what they tell the client of the execution
(`announced`: what the last message that tells it anything says, `Told`). Inbound is a
FIFO queue. `InboundCloses` is the end of the reader: stream closed, or a message it
could not parse. The client starts with one of the `Handshakes` already sent and
may then send any of `Requests`, `MaxRequests` times; if `Polite` it resumes only
when told that it is stopped. Lines in requests count from 1, those of locations
from 0, as in the code.

`SendFails` is the failure of a send to a client that is gone; `Connection` shows
when that can be.

Ghosts: `resumption` (the request that last resumed), `wanted` (lines last asked
for), `last_stop` (where the last breakpoint stop was, by the VM's own stack).
`VmDepth` and `VmPath` are read off the VM, never off the shadow stack.

### DapSession

The abstract specification has the queue of requests, `execution` (starting,
running, stopped, over) and `told`. Requests are served in the order they came, one
at a time; the program starts when a request of `Configuring` is served; only one of
`Resuming` lets a stopped program go on; nothing happens after the end; and every
step leaves the client told of the execution. `FairSpec` adds that requests do not
wait for ever. `Session` instantiates it as `Dap`, with
`execution` read off `at` and `execution_stopped` (`Execution`).

### CairoVariables

One activation of a function executes statements; at any of them its variables may
be asked for, and are read again from the whole trace. One action considers one
variable, so that the variables of a statement, a HashMap, come in any order.

| Code | Model |
|---|---|
| `sierra_to_cairo_variable`, `CairoVarId` | `CairoVariable`, `SameVariable`; a definition span is its start |
| `extract_cairo_var_map`, `produced` | operators of these names |
| `build_function_to_param_vars_map` | `function_param_vars`, with both kinds of debug info |
| the loop of `get_values_of_variables` | `NextEntry`, `Consider` with `Eligible`, `Ignored`, `Insert` |
| `get_values_of_function_params`, `extend` | `ParamValues`, `Extend` in `FinishReading` |

Statements without CASM (`Casm`) have no stop: they are passed until the next one with
CASM. One that is the entrance of a branch is not recorded (`IsRecorded`),
so what it produces is never shown. `TargetAssumption` says that two branches
of a statement have different targets: the code keeps what a branch produces by its
target, the last one counting, and its types by the first one (`context.rs:223`); with
two branches to one target the types could be wrong, or the `unwrap` of
`context.rs:251` fail.

A value is the place where it was produced. Whether it can be read is chosen when it
is produced, and may change from unreadable to readable only. Which type a result has
(`branch_signature_and_results`, `var_type_id`) is part of the result. `InScope` is
Cairo's own rule, for the finding `scopes`.

### Values

The first part, external, is what the compiler promises. A variable is a tree of parts: the members
of a struct, the payload of an enum, what a snapshot is of, the elements of an array. `IsLaidOut`
says, part by part, how the cells of a part hold those in it (members one after the other, a payload
at the end behind its padding, a discriminant that is an index or an offset into a jump table,
elements between two pointers) and which value it should be shown with; `StandsFor` says which
expressions the compiler may give for a cell: reads through ap or fp, double reads, constants, the
four operations on cells. A type without an arm of its own, or a starknet type without a name, may
have felts and pointers for cells: boxes, nullable values, dictionaries, handles. What the code
makes of those is no value of theirs (section 5). `Transparent` tells the variables without such
pointers, and without arrays of elements that take no cells; `NeverWrong` and `ShownWhenWritten` are
about these. These are conditions on `Samples`, the variables that may be read, not a way to build
them; `SampleAssumption` collects them, and its instances are built in `MCValues`. No part lies in
one that comes after it, so that their number, `MaxNesting`, bounds how deep the decoding calls
itself.

The second part is the code's way back from expressions to a value:

| Code | Model |
|---|---|
| `read_cell`, `extract_felt`, `read_relocatable` | operators of these names; an unwritten cell is `NoCell` |
| `extract_var_value` | the same; `NoValue` for its `None` |
| `maybe_relocatables_to_cairo_value`, `member_slices`, `fallback_value`, `extract_array_from_pointers` | the same, the arms for structs and enums as `extract_struct`, `extract_enum` |
| `collect::<Option<_>>`, `?` on a value | `Collect` |
| the recursion | `Decoded[n]`: the code with `n` calls inside each other, one `Level` per call |
| the arms for `bool` and starknet types | `extract_bool`, `extract_starknet` |
| a discriminant above `UsizeMax`, an index out of bounds, a slice longer than the payload, `unreachable!` | `Panic` |

`Write` writes one cell after the other in any order; at every state the variable is
read. Kinds of types stand for the arms of the `match`; `bool` and `tuple` are kinds,
for the `is_bool` and `is_tuple` of `type_name.rs`. Names of types, members and
variants are left out.

### Connection

The reader polls the stream and sends into `inbound`; the writer receives from
`outbound` and writes; the debugger receives, answers, sends events and is dropped.
A channel's sender lives as long as the thread that owns it (`inbound_tx`,
`outbound_rx`). `After` is the order of the drop: the two events of
`CairoDebugger`, the members of `Connection` as declared, the joins of `IoThreads`.
The client writes requests or something that is not one, and closes the stream
whenever it likes; a write to a closed stream is lost or panics, a read from it
may end before all was read. `MaxWrites` and `MaxEvents` bound the messages. Why and
when the debugger stops is the matter of `Session`; here `RunEnds` may always
happen. A stop is told between requests, a Pause and the first event of a session while
a request is handled (`SendEvent`).

## 3. The runs

| Run | Shows |
|---|---|
| `callstack` | shadow stack, trace, references, types, and `IInv` and `ReadInv` of the proofs |
| `session` | announced state, no panic, steps end where they should, a StepIn at the next line, breakpoints set, moved and removed before and during the run, with a client that is not polite; all of it is a behaviour of `DapSession`; `SessionInv` of the proofs holds |
| `session_live` | every kind of request, after the handshake or in place of it; the fair `DapSession` is implemented and the session ends, under fairness |
| `connection` | delivery of what was sent, order of answers, end of the threads, `ConnectionInv` and `AnswersInv` of the proofs |
| `values` | a variable that can be told from felts is shown right or not at all while memory is written in any order, and is shown once it is written; what was once shown of any variable stays |
| `cairo_variables` | what a name stands for, whatever the order of the HashMaps, and that it only moves forward |
| `tail_recursion`, `stale_step`, `step_panic`, `step_in_line`, `scopes`, `frame_scopes` | the findings below |

Instances. `MCCallStack` has a program of 15 statements: main calls f, f calls
itself; statements without CASM at the start of a function, at both targets of a
branch, after an invocation, after a call; one without location; a call from an
inlined function. Three activations are the least in which a recursive call returns
into a caller that is itself not the first; two values of parameters tell them
apart. Three references and two levels make a nested reference outlive a call and be
given out again. `NESTED_VAR_REF_START` is 17, the
least that `StartsAboveScopes` allows for three activations of two frames each, as
100000 is meant to be above those of any stack. `InlinedLocations` is the annotation
with a call from an inlined function, for the finding `frame_scopes` too.

`MCSession` has 10 statements in two files, two statements on one line in both
functions, two calls from main, a recursive call from an inlined function, and one
recursion deep. Parameters have one value: nothing a session decides depends on them. Three
requests after the handshake are enough for a step, an interruption and a
resumption, at any of the three stops and while the VM runs. `HiddenLocations` and
`SameNumberLocations` change the annotations for two findings.

`Connection` is checked with three messages from the client and one event, enough
for a Disconnect or garbage between two requests while the writer is behind.

`MCCairoVariables` has a function with a variable of a block that shadows another,
fields mapped back to the whole (`variables.rs:103`), two of them by one statement, a
Sierra id that a local variable takes from a parameter (`context/variables.rs:192`),
a PanicResult and a unit. Four of its ten statements have no CASM: the tuple before the
first one that has, the entrance of the block and the statement after it, and the one
that takes apart what a call returned, which is never recorded. Its path through the
block is the least in which each of them competes with the others.

`MCValues` has 23 types: members and variants of unequal sizes, enums of two and
three variants, arrays of enums, of units and of arrays, snapshots and NonZero, and types
whose cells are pointers: a box (or a nullable value, or a dictionary), a point that is a
dictionary with its length, handles in a tuple and in an array. From each
of 28 values it builds the tree of parts, and from each tree ten variables, one for
each of the ten kinds of `ExpressionKind`, 280 in all; TLC checks that all of these satisfy
`SampleAssumption`, so that the assumption of the proofs is one the instance meets.
The field has 31 elements: all numbers of the instance are smaller. `UsizeMax` is 20,
below the field as in the code and above every discriminant. Seven parts are
those of the largest sample.

Deadlock is not checked: every session, function and writing of a value ends.

### Fairness

`FairSpec` assumes that the debugger's thread is scheduled (weak fairness of
`DebuggerStep`), and of the VM that code outside of the program area comes back,
that the CASM of a statement is finite, and that the runner stops once main has
returned (strong fairness, since the hooks run in between). Nothing is assumed of
the client: it may stop sending and never close, and then a stopped session stays
stopped. In the instance a request waits only while the VM is outside or runs
within a statement, which is what polling at new statements (`debugger.rs:59`)
costs.

`FairSpec` of `Connection` assumes that the threads are scheduled, that a running
debugger asks for requests again and again, and that a client that was told of the
exit of the debuggee closes the stream in the end. The last is needed: the drop
joins a reader that blocks on the stream (`connection.rs:93`). A client that leaves
earlier ends the session without this assumption (`ClosedClientEndsSession`).

### Findings

1. `tail_recursion`: a function that returns right after calling itself reaches the
   same statement twice in two activations; `state.rs:56` takes the second for
   already seen, no pop is scheduled, and a later search for the branch taken
   panics at `call_stack.rs:485`. `call_stack.rs:95` argues from the number of
   instructions of a return, which does not exclude this.
2. `stale_step`: Continue leaves a pending step action (`handler.rs:132`), which
   stops the execution after the Continue.
3. `step_panic`: Next and StepIn unwrap a line that a statement need not have
   (`handler.rs:168`, `184`); a Pause can stop there.
4. `step_in_line`: a `Line` has no file, so StepIn passes a function that begins at
   the same number in another file. Where no number is used in two files StepIn does
   what it should: the run `session` and the theorem `StepInReachesNextLine`.
5. `scopes`: the variable shown under a name is the one defined furthest in the code
   (`variables.rs:96`); one of a block that is over goes on hiding the outer one. The
   guide (`guide.md:52`) speaks of current values.
6. `frame_scopes`: `call_stack.rs:51` gives each frame the id `1 + 2 * flat_index` of its
   own position; `next_frame_id` (`call_stack.rs:393`) takes the number of frames below
   the substack, so all frames of a substack have the id of its first one. If functions
   are inlined at a call, the scope of each of its frames is that of the first, which
   has no variables, and the caller's variables, kept with the last frame
   (`call_stack.rs:146`), cannot be inspected by a click on a frame (`guide.md:57`).

## 4. The proofs

TLAPS proves what follows for every program that satisfies the assumptions, every
`MaxDepth`, `MaxRefs` and `Nesting`, every client and every number of requests. The
conditions on the program are those of section 2; `StartsAboveScopes` and
`NoSourceRequest` are explained below.

| Theorem | States | Given |
|---|---|---|
| `TypesCorrect` (`CallStackProofs`) | `TypeOK` | |
| `BranchAlwaysFound` | `NoPanic` | `NoTailRecursion` |
| `ActionsReachNewStatements` | `ActionMeansNewStatement` | `NoTailRecursion` |
| `StackMirrors` | `StackMirrorsVm` | `NoTailRecursion` |
| `DebuggerFollowsVm` | `IInv` | `NoTailRecursion` |
| `ScopesStayInSubStacks` (`CallStackReadings`) | `ScopeStaysInSubStack` | `NoTailRecursion` |
| `NoReferenceIsStale` | `NoStaleReference` | `NoTailRecursion` |
| `ReferencesAreUnique` | `ReferencesUnique` | `NoTailRecursion`, `StartsAboveScopes` |
| `TraceIsAlwaysSound` | `TraceIsSound` | `NoTailRecursion`, `UnambiguousBranches` |
| `ReadingsFollowVm` | `ReadInv` | `NoTailRecursion`, `UnambiguousBranches` |
| `SessionRefinesCallStack` (`SessionProofs`) | `SessionSpec` implements `CallStack` | |
| `SessionStackMirrors` | `StackMirrorsVm` in a session | `NoTailRecursion` |
| `Announced` | `AnnouncedState` | |
| `SessionImplementsDap` | `ImplementsDapSession` | |
| `SessionTypes` (`SessionSteps`) | `SessionTypeOK` | |
| `StepsStopAtTheirDepth` | `StepStopsAtItsDepth` | `NoTailRecursion` |
| `NoStepRunsOn` | `NoStepIsMissed` | `NoTailRecursion` |
| `StepInReachesNextLine` | `StepInStopsAtNextLine` | `NoTailRecursion`, `LinesToldApart` |
| `NothingPanics` | `SessionNoPanic` | `NoTailRecursion`, `LinesKnown`, `NoSourceRequest` |
| `SessionInvHolds` (`SessionBreakpoints`) | `SessionInv` | `NoTailRecursion` |
| `BreakpointsStop` | `BreakpointsAreHonoured` | `NoTailRecursion`, `CallsToldApart` |
| `Delivered` (`ConnectionProofs`) | `EverythingIsDelivered` | |
| `ConnectionTypes`, `ConnectionInvariant` | `ConnectionTypeOK`, `ConnectionInv` | |
| `AnsweredInOrder` | `AnswersInOrder` | |
| `AnswersFollowRequests` | `AnswersInv` | |
| `LastDefined` (`CairoVariablesProofs`) | `LastDefinedIsShown` | |
| `ReadingIsRight` | `VariablesInv` | |
| `Forwards` | `NamesMoveForward` | |
| `ValuesAreExact` (`ValuesProofs`) | `ShownExactly` | `Transparent`, in the statement |
| `ValuesAreRight` | `NeverWrong` | `Transparent`, in the statement |
| `WrittenIsShown` | `ShownWhenWritten` | `Transparent`, in the statement |
| `ValuesStay` | `ValueStays` | |

### The shadow stack

`CallStackProofs` begins with the facts all proofs rest on: the last entry point before a
statement exists and is unique, the next statement with CASM exists and is unique,
falling through stays in a function, and what a substack or a trace contains.
`TypeOK` is inductive with little beside it (`TypeInv`). The others are not: that a
branch is found needs the right context, hence the right stack, hence that no action
was missed.

`IInv` (`CallStackInvariant`) says where the debugger and the VM are relative to
each other. While the VM is in a statement that the debugger has entered
(`AtStatement`), the last statement of the context is the current one and the
pending action is the one that statement calls for. After the instruction
(`post`), either the VM is still there, or it has moved and the pending action is
exactly the difference between the two stacks (`PushPending`, `PopPending`). At the
next `pre` the stacks agree again and the statement reached is one the recorded
last statement leads to (`Arriving`). `CallsChain` keeps the call sites of the
stack consistent with the functions they call, `BasesOrdered` and `FramesMatch` tie
the flattened frames to the contexts. `NoTailRecursion` and `RecursionAssumption`
are used at one place each: when a return, or a call, arrives at a statement, it
is not the current one, so the hook does not skip it. The finding
`tail_recursion` shows that the first cannot be dropped. TLC checks `IInv` in the
run `callstack`.

### What is read at a stop

`ReadInv` has two parts, both on top of `IInv`. `RegistryInv` is why a registered reference is never
stale (of an id that was dropped nothing is claimed: section 5): the registry is cut where a
function starts its references, on a call as on a return, so `StartsOrdered` keeps the starts of the
suspended contexts in the order of the stack, and `RegistryMatches` says of each start that what is
registered below it belongs to variables of frames below it. What the current function has
registered are its variables until the next statement clears them, or those of the substack about to
be pushed, which is how a reference survives a call. `ReferencesAreUnique` also needs that scopes
and nested references do not meet: `FramesBounded` bounds the frames by `MaxDepth` times those of
one statement, and `StartsAboveScopes` puts the start above that. Nothing in the code enforces it
(`call_stack.rs:27`).

`TraceInv` says of a suspended context that its trace is what the VM executed in its
activation, as a set of statements with the branches they were left by, and of the
current one that it will be once the hook has added what lies
between the last statement seen and the pc (`Recorded`), be it a call, a return or a
branch that led there. `UnambiguousBranches` is used where the hook works out the
branch.

### Sessions

`Session` implements `CallStack` because each of its actions is one of `CallStack`
or leaves the variables of `CallStack` alone; the requests a client may send ask for
`References`, so that `HandleVariables` is a `get_variables`. `Announced` is inductive
with only the types of `at`, `execution_stopped` and `announced` beside it
(`AnnouncedInv`): each action that changes the execution sends, last of all that tells
anything, the message that says so. `SessionImplementsDap` maps every
action to `Ask`, `Serve`, `Stop`, `End` or a stutter, with `Announced` giving `told`.

Steps, panics and breakpoints need `SessionInv` on top of `IInv`. The depth a step is
measured by is a length of the shadow stack; `FramesCounted` ties it to the VM, as the
number of frames of the VM's calls. That is a cardinality (`VmFrames`) and no sum along the
stack, since the sum would have to be proved by induction. `StepIsLast` says that a
pending step is the one last asked for or a leftover, `StepIsChecked` that the hook has
found it not to be over at the statement it is at: the first makes a step stop where it
should, the second keeps it from running on. Continue may leave a step of before
pending (finding `stale_step`), so neither says that a pending step was wanted.
`StepInReachesNextLine` adds to `StepIsChecked` that the line a StepIn leaves is the
one it was asked on (`StepInIsFromLine`); that equal numbers are one line is
`LinesToldApart`, without which there is the finding `step_in_line`.

`NothingPanics` collects what each `unwrap` rests on: the branch search on `IInv`, the
lines of Next and StepIn on `LinesKnown`, the current statement on `PlaceOfHook`. The findings
`tail_recursion` and `step_panic` are what happens without the first two conditions;
`NoSourceRequest` excludes the `todo!()` of `handler.rs:203`.

`BreakpointsStop` is about the comparison with the last hit (`state.rs:132`): what is
compared is the location and the `UiState`, which is a stack trace without the
activations it is of. It loses no stop if equal stack traces are traces of the same
calls. Frames of one substack share one id and each substack has an id of its own, so a
trace falls into substacks in one way only, and shows one path of locations
(`ShownPathIsUnique`, by the least place at which two paths would differ);
`CallsToldApart` makes it one path of calls, starting in main (`StartsInMain`).
The condition is needed: were the two calls of main in `MCSession` at one location, TLC
finds a stop in the second activation missed. The user could not tell them apart
either, so this is no finding. `LinesAreSet` is the other half: the statements set are
always those of the lines last asked for.

### Connection

For `Delivered` the invariant is `ConnectionInv`: unless the client closed early, what
was sent is what was delivered, what is being written and what is in the channel,
end to end (`Pipe`); "exited" is the last message (`ExitedIsLast`), so a client that
saw it has seen everything; the writer ends only with an empty channel and no
sender, the debugger only after the writer (`WriterOutlivesSender`).

For `AnswersInOrder` it is `AnswersInv`: the channel holds the numbers that follow the
request being handled, up to what the reader has read, with no garbage among them
(`RequestsFollow`); a debugger that runs has answered all requests before that one, each
once and none of them a Disconnect (`AnswersFollow`); what the client gets is an initial
part of what was sent (`DeliveredIsPrefix`), wherever the stream breaks. TLC checks both in
the run `connection`.

### Cairo variables

For `CairoVariables` the invariant is `VariablesInv`: while the trace is read, `current`
is what outranks all that has been considered, no more and no less. A new candidate
is newer than what it replaces because positions are read in order and no two
results of one statement are one Cairo variable (`ExtractIsInjective`): this is what
makes the order of the HashMap irrelevant. `NamesMoveForward` follows since what could
be read at one stop can be read at the next (`CandidatesGrow`).

### Values

`ShownExactly` is more than the runs check: a variable that can be told from felts
(`Transparent`: no pointer in it but those of its arrays, whose elements have cells) is
shown, with its value, from the moment that every cell it is read through is written (`Complete`: the cells
its expressions read, and those its parts point to), and before it is not shown at
all. `NeverWrong` and `ShownWhenWritten` are weaker. Without the condition they fail
(section 5). The proof has three steps.

1. `ReadsCell`: `read_cell` gives the cell that an expression stands for if the cells it
   reads are written and none is a pointer to be added to, and nothing otherwise. A
   quotient is the one the compiler meant because a felt has one (`FieldAssumption`,
   which holds in a field and is assumed of `Prime` as such: the prover cannot
   derive it from primality).
2. One lemma per kind of part (`DecodesStruct`, `DecodesEnum`, `DecodesArray`, ...): if
   the parts in it decode to their values when their memory is written and to nothing
   otherwise, so does the part. Here lie the arithmetic of discriminants, the padding,
   the slices of a struct and the division of an array by its elements.
3. `DecodedParts`: the parts of a variable decode so, given enough calls inside each
   other. `Decoded` and `Offsets` are recursive functions. The induction theorems of
   the library take an operator as a parameter and are out of reach, but the proof needs only
   that a set of natural numbers that is not empty has a least element
   (`WellFoundedInduction`): take the least depth at which a recursive equation or a
   part fails.

What is assumed of a variable (`SampleAssumption`) is a promise of the compiler for
one value at a time. The theorems then hold for every type, however nested, arrays of
every length, and memory written in every order.

`ValuesStay` has no condition, and a proof of its own, since a variable that is shown
wrong must stay as well: of two memories one of which is part of the other (`Grows`), the
larger gives every value that the smaller gives (`StaysDecoded`), by one lemma per arm
(`StructStays`, `EnumStays`, `ArrayStays`) and, over the depth of the calls,
`DecodedStays`.

### Model-checked only

- `ImplementsFairDapSession`, `SessionEnds`, `DropEnds` and `ClosedClientEndsSession`:
  liveness under fairness needs ENABLED, which the prover does not handle.
- The findings: each is a counterexample.

## 5. Not modelled

Loading and compiling a program (done before the session; its result is assumed),
the wording of types, members and values, labels of statements in development
builds (`readable_sierra_ids.rs`, one pass over the program), the map of consumed variables (which
nothing reads), logging, presentation hints and column numbers. Answering `Source` is
a `todo!()` in the code (`handler.rs:203`) and the end of the session in the model. A
registered reference may be asked for after it was invalidated; the code then takes
it for a scope and answers with the variables of the current function, and so does
the model; and an invalidated id may be given out again for other variables.
`NoStaleReference` is only about the references that are registered. Frames of one
substack share one id, which the model has as the code does. `ScopeStaysInSubStack` says
exactly what a scope then shows, no other activation, and nothing for a call with
inlined functions; that it should show more is the finding `frame_scopes`.

A branch target without CASM never enters the trace (`call_stack.rs:496` starts after
it), although `call_stack.rs:406` and `:467` count it among the statements executed. What
it produces is not shown. `Traces` names this exception and `TraceIsSound` shows that
nothing else is left out; `CairoVariables` has it as the code does (`IsRecorded`).

Two things the code does with values are modelled, in the instance `MCValues` too, but
are in disagreement with what it says, so that no property asks more of them than that
they stay as they are (`ValuesStay`):

- `fallback_value` leaves out the cells that are pointers (`variables.rs:287`): a box, a
  nullable value or a dictionary is shown as `[]` whatever it holds, where the guide
  speaks of current values (`guide.md:52`). An array of elements without cells is shown
  as empty (`variables.rs:328`).
- The arm for starknet types asserts that they are felts (`unreachable!`,
  `variables.rs:269`). It is for all of them, those without a name in the debugger
  included, and some are pointers (a `Sha256StateHandle`): reading one panics.

`NeverWrong` and `ShownWhenWritten` say of all other variables that they are shown right,
and TLC refutes both for these if their condition `Transparent` is left out.

Panics that need a program of a shape that the assumptions exclude are not reached: an
empty list of locations (`call_stack.rs:146`), a branch that names the next statement or
two branches to one target (`context.rs:223`, `:251`). The names of functions are zipped
with the locations as the code does it; what the annotations say of the order of the
names, and so whether a frame has the right one, is not part of the model.

The end of an array to which was just appended may be a sum of a pointer and a
number, which `extract_felt` does not compute: such an array is not shown, and the one
before it stays. `ShownWhenWritten` names this exception.

## 6. Plan

Every safety invariant and action property of the passing runs is proved. Left is
what a Continue can be promised: `ContinueEndsSteps` fails as soon as a step can be
interrupted, by a breakpoint, a pause or a Continue sent while the step runs, so it
waits for a decision about the code.
