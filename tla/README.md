# A TLA+ verification of MyDistributedServer

The repository is the base library of a C++ server (namespace `sylar`): a fiber
on `ucontext`, a configuration system with change listeners, a logging system
configured through it, locks and threads over pthread, and the program's
arguments and help. This directory models the parts with control flow and
shared state, checks them with TLC on small instances, and proves with TLAPS,
for every value of the constants, every safety property that is checked (a few
under conditions named below). Paths such as `fiber.cc:146` mean `src/src/fiber.cc`,
line 146.

## The system

| Component | State | Operations | Talks to | Modules |
|---|---|---|---|---|
| Fiber (`fiber.*`) | `m_state`, `m_ctx`, `m_cb` per fiber; thread-local `t_fiber`, `t_threadFiber`; id and count | `GetThis`, constructor, `swapIn`, `swapOut`, `YieldToReady/Hold`, `MainFunc`, `reset`, destructor | the client's callback, `swapcontext`, shared pointers | `Fiber`, `Coroutine`, `FiberProofs` |
| ConfigVar (`config.h`) | `m_val`, `m_cbs`, lock; one listener counter per type | `getValue`, `setValue`, `fromString`, `addListener`, `delListener`, `clearListener` | listeners, called under the read lock | `ConfigVar`, `ConfigVarProofs` |
| Config registry (`config.*`) | `GetDatas()`, its lock | both `Lookup`s, `LookupBase`, `LoadFromYaml` | ConfigVar, in both lock orders | `ConfigRegistry`, `ConfigRegistryProofs` |
| Loggers, appenders (`log.*`) | levels, formatters, lists, three layers of spin locks | `log`, `setFormatter`, `add/del/clearAppender(s)`, `toYamlString`, `getLogger` | root logger as fallback, streams | `Logger`, `LoggerProofs` |
| Pattern parser (`log.cc`) | positions and pieces of one parse | `LogFormatter::init`, `format` | format items | `FormatPattern`, `FormatPatternProofs` |
| Log events, items (`log.*`) | the fields of an event | the `SYLAR_LOG` macros, `LogLevel`, thirteen `FormatItem`s | formatter, logger | `LogLevel`, `LogLine` |
| Log configuration (`log.cc`) | variable `logs`, the loggers | conversion of a document, `setValue`, listener of `LogIniter`, the ways back to YAML | ConfigVar, Logger, `Env::has("d")` | `LogConf`, `LogConfProofs` |
| Thread (`thread.*`) | object members; thread-local `t_thread`, `t_thread_name`; the pthread | constructor, `run`, `SetName`, `join`, destructor | pthread | `Thread`, `Program`, `ProgramProofs` |
| Env (`env.*`) | `m_args`, `m_helps`, lock | `init`, `add`, `del`, `addHelp`, `removeHelp` | Config (`getAbsoluteWorkPath`) | `Env`, `Selection`, `Program`, `ProgramProofs` |
| Locks (`mutex.*`) | the pthread lock, `m_locked` of a guard, the semaphore | constructor, `lock`, `unlock`, destructor of the guards; `wait`, `notify` | pthread | `Locks`, `Exclusion`, `LocksProofs` |
| LexicalCast (`config.h`) | none | text to value and back: scalars, six containers, nested | yaml-cpp | `LexicalCast`, used by `ConfigRegistry` |
| Util, macros, singletons | none worth keeping | ids, backtraces, `SYLAR_ASSERT` | | `Faults` of `Fiber` |

What makes it hard: fibers move between threads and record in five places where
they are; listeners run inside locks; a setter gives its lock up between telling
and storing; the logger list is rebuilt call by call while others log; Thread
objects and the threads they started end in either order; the parser walks an
unsigned index forwards and back. `PROJECT.json` lists each hazard at its line,
with the properties that would catch it going wrong or the reason why none does.

## The models, one by one

### Fiber and Coroutine

`Fiber` keeps what the code *records* (`m_state`, `t_fiber`, `t_threadFiber`,
`s_fiber_count`) apart from what the machine *does*: `on[t]` is the stack thread
`t` executes and `ctx[o]` the place a saved context would resume. Assertions
(`marco.h`), a freed stack in use and a resumed dead context set `fault`.
Each method is one action up to its `swapcontext` and another for the switch:
`SwapIn`/`SwapInSwitch`, `Yield`/`SwapOut`, `Finish`/`EndSwitch`. Two threads
can interleave between them, because the state is stored before the context is
saved. References are two facts: a client handle (`held`) and the
`cur` on the fiber's stack (`inMain`); `t_fiber` is a raw pointer and counts for
nothing.

`Liberty` says what clients may do beyond `test_fiber.cpp`: yield from main code,
call without a look at `getState()`, share a handle. The proofs and the run
`fiber` take none, `fiber_shared` the last; under the first two, assertions fail
and abort, which is what they are for. A `swapIn` from inside a fiber is excluded altogether:
`fiber.h:152` says a fiber returns to the thread's main fiber.

`Coroutine` is the promise: asymmetric coroutines, without contexts or
counters. The mapping reads `on`, `ctx` and `life`, never `m_state`.

### ConfigVar and ConfigRegistry

In `ConfigVar` a `setValue` is: compare under the read lock, one action per
listener called and one per return (or throw), unlock, store under the write
lock. `addListener` is split at the load and the store of its counter, which
variables of one type share and their locks do not protect.

`ConfigRegistry` has the table and its lock, `Lookup`, which holds it from its
search to what it returns or throws and, on a mismatch of types, waits for the
variable's lock meanwhile, and `LoadFromYaml`, one action per node, which lets the
table go before it sets the variable found. A listener may itself call `Lookup`.
It may also throw (`Thrown` says what), of its own accord or because a `Lookup` in
it has: `fromString` catches a `std::exception` as it does one of the conversion,
and the loop goes on without the value (`ThrowCaught`); anything else leaves
`LoadFromYaml` where it is, and either leaves a client's `setValue`
(`ThrowLeaves`). The history `refused` keeps which nodes a listener has thrown at,
and `DocumentApplied` says what stands of the others. What a document holds is the
list of nodes in the order `ListAllMember` visits them; `todo` has the positions a
load still has to visit. Readers are preferred to waiting writers, as pthread's
default lock does; the mutant `CanRead_InTurn` shows that with the other kind the
two lock orders block for good.

`LexicalCast` says what a node becomes: a vector and a list keep order, a set
neither order nor repetition, a map the first of equal keys, and a scalar
gives an empty container rather than an error. Texts are nodes, and
YAML's reading and printing is modelled where it changes something: an empty
text and `~` are null. `RoundTrip` holds it against `toString` in every state of
the registry, of containers whose strings YAML prints as it has read them; an
assumption of `MCConfigRegistry` evaluates the same for the containers its
variables leave out, one and two levels deep. `IsOf` says what the values of a
type are, down to the containers in a container; C++ gives a variable no other.

### Locks and Exclusion

`Locks` keeps what a guard believes (`m_locked`) apart from what the lock holds
(`writer`, and a count of readers that does not know who they are). Every method
of a guard is an action; a call that waits is not enabled. `Exclusion` is the
promise: sections that exclude each other, no locks, no guards. The liberty
`again` lets a thread lock what it holds for writing: pthread then refuses with
EDEADLK, which `rdlock` and `wrlock` do not look at, and `NoFault` fails. No code
of the repository does it. The semaphore has its two throws: `sem_wait`
interrupted, `sem_post` at the limit.

### Logger

One action per critical section of each method; `log` steps through the
appenders and takes each one's lock, and falls back to root with its own lock
held. `Stream` says where an appender writes: those on `std::cout` (`Stdout`) all
to one stream, though each has a lock of its own, a file appender to its own.
`OneWriter` states what the locks then give: two threads write to one stream at
once only through two appenders on `std::cout`. `bin/conf/log.yaml` has two of
those, so lines can mix on the console; no comment says that they do not.
`LogAppender::setFormatter` is called before an appender is attached, as
`LogIniter` does; the liberties `late` and `unset` call it later or with null.

### FormatPattern

`LogFormatter::init`, one action per turn of a loop and branch taken, over all
patterns up to a length, and then `LogFormatter::format` of an event. `Grammar`
is the reference, a recursive function over positions written from the comment
at `log.cc:502`; `Line` is the line `log.h:280` promises for the pattern, in
terms of the log statement, but for what `Undocumented` names: in place of the
fiber's id and of the time since the start there is the 0 the macros pass, and in
place of a time that does not fit what `buf` holds. In between is `LogLine`: the
event the macros make, argument by argument, the item classes with the 64 bytes
of the time (`TooLong` are the formats that need more, `Leftover` what the buffer
may then read as), and the table of letters. A printed field is one value, told
apart from all others.

### LogConf

`LogDefines` is the conversion of a document into a set of defines (a name seen
twice counts once, nodes that throw spoil the document, appenders without file or
with an unknown type are left out); then `setValue` and the two loops of the
listener, one action per locked call on a logger, with threads that log in
between. `Logger::log` is split where it gives others room: it reads the level
before the lock (`Log`), looks at its appenders under it (`LogHere`), and, when it
has none, reads root's level (`LogRoot`) and looks at root's appenders
(`LogThere`) with its own lock held, which keeps the listener from that logger
(`Unlocked`). Who writes what in which order inside a list is `Logger`'s.
`Installed` says what it is for a logger to have the first appenders of a define:
a place in the define's list for each of the logger's, in order, that leaves out
what `-d` silences. `Equal` is `LogDefine::operator==` as written. `DefineNode`,
`LoggerDump` and `AppenderDump` are the ways back (`LexicalCast<LogDefine,
std::string>` and the `toYamlString`s); levels are texts in documents and numbers
in loggers, with the conversions of `LogLevel` between them. `Selected`, of the
module `Selection`, is the part of a list at a set of positions: the appenders of
a define that are usable here, the help entries that `removeHelp` leaves in `Env`.

### Thread, Env and Program

`Thread` has the object, the pthread and the thread-local pointers. `run` is
three stretches that use the object, then the callback; `Use` records a use
after the destructor. Objects belong to the thread that made them, which may
destroy one, joined or not, once its callback has begun. `Env` parses the command
line one turn at a time; its other methods are single critical sections, except
`addHelp`, which is two. `Program` composes them: every thread that is inside
its callback may call the Env.

## The runs

| Run | Shows | Instance |
|---|---|---|
| `fiber` | no fault; `GetThis()` is right; one thread per stack; states match contexts; the count is exact; the way back of a yield and every fiber's return to main; Coroutine implemented; `IInv`, the invariant of the proofs, holds | 2 threads, 2 fibers |
| `fiber_shared` | *violation*: a shared handle resumes a stack that still executes | 2 threads, 2 fibers |
| `config_var` | undisturbed notification; a throwing listener vetoes; ids find their callbacks; calls return | 1 variable, 2 threads, 3 calls each |
| `config_var_ids` | *violation*: the shared counter gives an id that finds nothing or another's callback | 2 variables |
| `config_registry` | one variable per name; a document is applied but for what listeners refuse; what `toString` prints reads back; both lock orders end | 3 threads, 4 calls together; an unordered map of lists or a set of numbers; listeners that return, look up or throw |
| `logger` | no null formatter, one writer per stream but for two appenders on `std::cout`, no write after detaching, own formatters kept, formatters pinned while in use, no circular wait | 2 loggers, 3 appenders of which 2 on `std::cout`, 2 threads, 2 calls each |
| `program` | no use after destruction, no double release of a pthread, names agree, command lines mean what they say, help entries replace | main and 2 threads, all command lines of two arguments and seven of three |
| `format_pattern` | indices in range, exactly the grammar accepted, lines show what is documented (`%F`, `%r` and times too long aside), it ends | all 55 987 patterns of up to 6 out of 6 characters; every letter; the default pattern; a time too long |
| `format_escape` | *violation*: `%%` is not an escape | up to 4 characters |
| `log_conf` | loggers are what the document says and print it back; no mixture of generations; no event that no level refuses vanishes while root has appenders; loads end | 3 loggers, 6 documents in any order, 1 loader, 1 worker |
| `log_conf_equal` | *violation*: a document that changes appenders only is not applied | 2 documents |
| `locks` | guards tell the truth, release nothing they do not hold, and leave nothing locked; guarded sections exclude each other | 2 threads, 4 guards, a mutex and a read-write lock |

The type invariants of `Fiber` and `Locks` are conjuncts of `IInv`, which the
proofs need; the other modules spend their properties on what is not typing.

**Bounds.** Two threads show every pairwise race; three are needed in
`config_registry` (a reader, a waiting writer and one who holds the table) and
`program` (a thread that owns another while main joins it). `MaxCalls` bounds the
calls of clients, never the steps inside them; three calls are enough to set a
variable up and race two operations on it. Six characters hold a whole `%x{y}`
with text beside it, or two directives. `MaxHelps = 2` leaves the duplicate a race
makes. The document of `config_registry` holds the same name three times, so that
a listener can refuse the first, the last or both of the values that fit. Of the
three appenders of `logger` two share a stream. The documents of `log_conf` let
loggers appear, change, go, come back and be refused; they avoid pairs that differ
in appenders alone, which is what `log_conf_equal` is for. Four guards are two of
one thread beside two of another, or three readers and a writer; threads and
guards of `locks` are symmetric, and the run checks no liveness. Deadlock is
checked in every run; `Done` and `Stopped` are the stuttering steps of clients
that have used up their calls.

`program` declares the two Thread objects symmetric: nothing names either of
them, and the run checks no liveness. Its clients destroy a Thread they have not
joined only once the callback has begun.

**Fairness.** Weak fairness of a thread's steps *inside* a call, never of calls:
the operating system schedules it, callbacks and fiber functions return, throw
or yield, and a spin lock free for good is taken. Nothing makes a spin lock fair:
`LoadEnds` is about runs in which the workers do not log for ever.
`config_registry` and
`config_var` need no more, because a reader never waits for a reader.

## The proofs

Eight modules hold theorems, `PROJECT.json` lists them. Unless a condition is
named, a theorem holds for any values of its module's constants that meet the
module's assumption, and for clients that take any liberty the model knows. The
bounds (`MaxCalls` and the like) are constants too: nothing depends on them.
Every inductive invariant was evaluated by TLC on the instance of its run before
it was proved.

**Fibers** (`FiberProofs`; `Liberty = {}`, the discipline of `test_fiber.cpp`).
None of the properties is inductive. `NoFault` needs to know what a state a
client tests says about the context it resumes; that is `StateMatchesContext`,
which breaks while a thread is between storing a state and switching. So `IInv`
says for every thread in which of three situations it is — in its main code,
about to enter a fiber, in a fiber or leaving it — with all that is then true of
`t_fiber`, `t_threadFiber`, the main context and the fiber it handles; and for
every fiber *nobody* handles, that state, context and `cur` go together in one
of three ways. That two threads never handle one fiber follows from ownership of
the handle (`HandledByOwner`). One lemma per action shows that it preserves
`IInv`; the theorems `NoFaultEver`, `GetThisCorrect`, `MainContextCorrect`,
`StacksApart`, `StateCorrect` and `DeadStackSafe` follow from it. `CountCorrect`
adds that each step adds or removes at most one live object.
`FibersAreCoroutines` shows under `IInv` that each action is one step of one
coroutine or a stutter.

**Scoped locks** (`LocksProofs`; `Liberty = {}`). `IInv` is `TypeOK` with
`GuardsTell`, `NoFault` and the semaphore's sum; `GuardsTell` is what makes
`NoFault` inductive, because a read lock does not know its readers, and only the
number of locked read guards tells that there is one left to release. Two lemmas
say how the set of a lock's guards, and its cardinality, changes when one guard
is locked or lets go; one lemma per action uses them. `LocksExclude` shows that
each action enters or leaves one abstract section or stutters.

**Loggers** (`LoggerProofs`). Every property comes down to lock ownership by
location: `Holds` says which loggers and which appender a thread at a place of a
member function has locked, the logger it came from included when `log` has
gone on to root. With it goes what the thread has read under the lock and still
relies on: its index is in the list, and the list at it is the appender. `OwnOnly`
is what a step of one thread may change at all, and the lemma `Others` turns it
into: no other thread's part of `IInv` is disturbed. Each action then shows two
things, that it is `OwnOnly` and that its own thread's part is kept.
`OneWriterEver`, `DetachedSilent`, `RootForEmpty` and the action property
`Pinned` follow, whatever the clients do. `NoNullFormatterEver` and `OwnKept`
need the clients of the repository (`Liberty = {}`: an appender gets its formatter
before it is attached): `FormatterInv` says that an attached appender, or one
past the check of `addAppender`, has a formatter, and that `m_hasFormatter` marks
the one it was given.

**ConfigVar** (`ConfigVarProofs`). `IInv` gives each place of a call its lock:
in its loop `setValue` is among the readers, `addListener` is the writer, and
never both on one variable; the loop knows which listeners of its comparison it
has called. `Undisturbed` and `StoredAfterAll` follow for any variables.
`IdsFind` has a condition, that no two variables share a type
(`\A x, y \in Var : x = y`), because only then the write lock guards the
counter; `config_var_ids` is the counterexample with two.

**Config registry** (`ConfigRegistryProofs`). `IInv` says that the table gives each
name a variable of its own, and that between `Lookup`'s search and its use of the
result nobody else can enter a name, because the searcher still has the
lock; so `OneVariableEver`: two threads that look one name up at once get one
variable. `LoadInv` follows `LoadFromYaml` through its document: the nodes
still to visit are the one it is at and those behind it; each variable has the
last value that fits among those it is done with, as long as nobody else has
stored. A node at which a listener throws is done with and refused, which changes
no last value (`ThrowCaught`); when something leaves `LoadFromYaml`, the node it
was at is not among those done with (`ThrowLeaves`). `Thrown` may be anything,
so listeners that never throw are a special case. It survives other threads' steps
because names keep their variables and these their types (`Grown`), and gives
`DocumentAlwaysApplied`. `RoundTripEver` has two halves. One is about
`LexicalCast`: a value of a type is read back from its text
(`EveryValueReadsBack`), and a conversion that does not throw makes a value of
its type (`ConversionFits`), shown level by level of the types, which have three.
The other is `ValueInv`: that `setValue` stores in no variable what was converted
for another type, or what a conversion that threw has left.

**Threads and arguments** (`ProgramProofs`). `ThreadInv` reads off the place in
`run` whether the object exists, what `t_thread` and the names are, and that the
pthread is joined or detached once; `NamesAlwaysAgree` follows for any client, and
`NoFaultEver` for those that wait for the callback before they destroy the
object. `ArgsInv` relates the turns of `Env::init` to `Meaning`, the
meaning of a command line: `Upto` what the arguments before the index mean,
`Waiting` the option whose value may follow. `EveryLineParsed` holds for command
lines of any length, among calls of other threads. `HelpInv` is what `addHelp`
relies on between its two critical sections: no entry has its key, unless another
`addHelp` has appended one; `HelpAlwaysReplaced` follows.

**Pattern parser** (`FormatPatternProofs`). `IInv` bounds both counters, with the
inner one ahead of the outer and an open brace in between; `IndicesEver` is that
no `substr` leaves the pattern, for patterns of any length. `AlwaysFurther` is
the variant of the two loops: each turn moves the outer counter on, or comes to
a later part of the directive it is at, and neither counter passes the end. That
is why `Terminates` holds, which itself needs fairness and stays with TLC.
`AlwaysParsesGrammar` relates the loops, which go forwards, to the grammar, which
reads a pattern from its end. `ScanInv` says that what the inner loop has scanned
of a directive is what the grammar finds there; `GrammarInv`, that the pieces
there are, the text held back and the grammar's reading from the outer counter on
are together its reading of the whole, or that both have found an error. Only
`%%` is excluded, which the two read differently (`format_escape`).
`AlwaysPrintsWhatIsDocumented` adds, letter by letter, that the item of the table
prints the field of the statement that is documented (`ItemDocumented`), and for
`%F`, `%r` and a time that does not fit, what it prints instead
(`ItemUndocumented`), whatever formats are `TooLong` and whatever the buffer holds.

**Log configuration** (`LogConfProofs`). `NoneVanishes` needs types alone (an
appender in a list is at level 0 or 1, an event not below), and so holds for any
number of loaders at once, between any two steps of `Logger::log`. It speaks of
each step that ends a call of it, by what that step has read; which appenders an
event then reaches is `OneGeneration`'s. `ConfiguredEver` and `OneGenerationEver` have two
conditions, each of which the code needs: one loader, because two listeners
interleave under their read locks; and `Distinguished`, that no two documents
have defines that differ in appenders alone, because `operator==` takes them for
equal (`log_conf_equal`; TLC finds `Distinguished` true of the documents of
`log_conf` and false of those). `LoaderInv` says for every logger whether it agrees
with the old or the new configuration, by what the loops have visited, and for the
one the listener is at how many of its appenders it has. The lemmas about
`Installed` are its core: an empty list is the first none of any define,
`addAppender` takes one more or leaves a silenced one out, and `setFormatter`
leaves each appender as it would be made now. `PrintsAlwaysReadBack` needs
neither condition: `PrintInv`, that each appender in a logger is one a document
could define, and that a formatter not its own is the logger's, is kept in the
middle of any number of listeners.

**What stands in for induction.** What a recursive function computes, or what
a choice from a set of numbers finds, is proved from a least counterexample:
every nonempty set of numbers has a least member (`Least`, from the well-founded
order of the naturals), so a statement that fails at some position fails at a
first or last one, where one step of the definition refutes it.

**Assumptions.** The modules assume of their constants what their comments say:
that sets of threads do not overlap, that a null is no member, that command
lines, patterns and documents are sequences. `DefaultFits` has the text of the
default time within 64 bytes. `CastAssumption` is about
`lexical_cast`: a number's text is read as that number, every number that is
read has a text, and none is an empty text or `~`. `RegistryAssumption` has
what C++'s types see to, that defaults and the values clients set are values of
their types, and that documents consist of nodes. `LogConf` assumes that the
level of a define without one is UNKNOW, as `LogLevel::FromString` has it. TLC
evaluates all of them.

**Model-checked only.** Liveness: `BackToMain`, `Terminates`, `LoadEnds`, and
`CallsReturn` of `config_var`, `config_registry` and `logger`. Fairness is out
of the prover's reach. Every other property of a passing run is a theorem.

## Where code and comments disagree

The four violation runs: a yield publishes its state before the fiber has left
its stack (`fiber.cc:146` against `fiber.h:140`); listener ids are not unique
(`config.h:386` against `config.h:380`); `%%` (`log.cc:519` against
`log.cc:505`); `operator==` compares the appenders with themselves (`log.cc:679`
against `log.cc:661`).

Seen, without a run of their own:

* `config.h:353` says all listeners are told; one added between the unlock at
  `config.h:367` and the store is not.
* The character set at `config.h:473` lacks the digit 9, which `config.h:441`
  allows; `ListAllMember` refuses upper case before `LoadFromYaml` lowers it.
* `addAppender` (`log.cc:361`) overwrites a formatter that is set on the appender
  at that moment: `Logger` with the liberty `late` violates `OwnFormatterKept`.
* A Thread destroyed before its `run` has come to the callback is used after its
  destructor, and so is one whose thread calls `SetName` later: `Thread` with
  the liberties `early` and `rename` violates `NoFault`.
* `%F` is always 0: `log.h:290` documents the fiber's id, and `util.h:32` says it of
  `GetFiberId`, which returns 0 for every fiber (`util.cc:14`). `%r` is always 0:
  `log.h:282` has accumulated milliseconds, `log.h:34` has them as a to-do. A
  `%d{...}` whose text and its end do not fit 64 bytes, such as `%d{%c%c%c}`, shows
  what is in the buffer, because what `strftime` returns is not looked at
  (`log.cc:214`; `log.h:286` says the time). These three are the exceptions of
  `PrintsWhatIsDocumented`.
* Two `StdoutLogAppender`s mix their lines on `std::cout` (`log.cc:460`); what
  keeps lines apart is a lock per appender.
* A listener that throws while a document is loaded costs the variable the
  document's value; what is left is a line in the log (`config.h:333`).
* A scalar empties a container variable without an error
  (`config.h:108`: a scalar has size 0); strings that are empty or `~` come back
  from YAML as `~`; `fromString` returns false whatever happened
  (`config.h:339`) and throws nothing of what `config.h:328` says it does.
* The level of an appender is printed (`log.cc:437`) and never read
  (`log.cc:708`).
* `FileLogAppender`'s constructor truncates its file, so every reconfiguration
  does; two appenders on one file overwrite each other (`log.cc:452`).
* `-c` without a value makes `getConfigPath()` `/` (`env.cc:153`).
* `root` loses its appenders when it is reconfigured, and for good when a later
  document leaves it out.
* Two threads that load `logs` documents at once interleave their listeners.

## Not modelled

The state of the streams and `FileLogAppender::reopen`; the characters a field is
printed with; paths and the system's environment in `Env`, and
`getAbsoluteWorkPath`, whose variable nothing registers; backtraces of `util.*`;
build files and tests. Names are model values, so the check for illegal characters
is a set. Memory order is sequential consistency, except for `addListener`'s
counter and the context switch, whose races matter.

## Plan

1. More of the system: `ConfigVar` under callbacks that call back into their
   own variable; streams and `reopen` in `Logger`; `getConfigPath` and the static
   of `getAbsoluteWorkPath` in `Env`.
2. Abstract specifications: a configuration as an atomic map that `LogConf`
   implements between loads; an atomic register with veto for `ConfigVar`; a set of
   help entries for `Env`.
3. Proofs: `ConfigVar` as an implementation of the register of 2; the condition
   of `IdsFind` from one variable to those of different types; `RoundTrip` for
   containers nested deeper than those of any variable here.
