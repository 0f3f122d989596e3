# Formal model of autojsoncxx

autojsoncxx maps JSON to C++ values.  A parse is a stream of SAX events
(from rapidjson's `Reader` or from a DOM value's `Accept`) that is delivered
to a *handler*, an object that fills one C++ value and that may forward the
event to the handler of a part of that value: an element of a vector, a
mapped value, a member of a class.  Handlers for scalar and container types
are templates in `include/autojsoncxx`; the handler of a class is generated
by `autojsoncxx.py` from a definition file and `code_template`.

Everything is sequential.  What is hard is **protocol and reuse**: a handler
sees one event at a time, does not know the grammar, and is given value
after value; where a value begins and ends, whom an event belongs to and what
must be forgotten between two values is inferred from a few counters, stacks
and flags.  That is what the modules are about.

## 1. Inventory

| component | source | state | operations |
|---|---|---|---|
| sequence handlers | `array_types.hpp` (`VectorBaseSAXEventHandler`, `std::vector`, `std::deque`, `std::array`) | stack of open containers, current element and its handler, error; `index` of `std::array` | the SAX methods, `HasError`, `ReapError`, `PrepareForReuse` |
| map handlers | `map_types.hpp` (`MapBaseSAXEventHandler`, `std::map`, `std::unordered_map`) | the same, and the current key | the same |
| class handler | `code_template`, `autojsoncxx.py` (`HelperClassCodeGenerator`) | `state` (current member), `depth`, `has_` flags, one handler per member, error | the same |
| tuple handler | `tuple_types.hpp` | per element `total_depth`, `finished`, handler; `array_depth` | the same |
| nullable handlers | `nullable_types.hpp` | the smart pointer, the handler of the pointee, `depth` | the same |
| DOM handler | `dom.hpp` | the document, a stack of unfinished values | the same, and `from_document` |
| scalar handlers | `base.hpp` | the value, error | the same |
| `utility::stack` | `utility.hpp` | linked nodes of raw storage, `current_size`, `total_size` | `push`/`emplace`, `pop`, `top`, `clear` |
| error stack | `error.hpp` (`ErrorStack`, its iterator, `ErrorBase`) | `head`, `m_size`, and `next` in the errors it owns | `push`, `pop`, `swap`, `empty`, destructor, iteration |
| parsing result, entry points | `error.hpp` (`ParsingResult`), `from_json.hpp`, `dom.hpp` | the parse result and its error stack | `from_json*`, `from_document`, `set_result`, `operator<<` |
| event source | rapidjson, **external** | the text read so far | delivers events, stops at the first `false` |
| definition checks | `autojsoncxx.py` (`ClassInfo`, `MemberInfo`, ...) | none | validation of one record |
| serializers | `to_json.hpp` and each types file | none | write a value to a `Writer` |
| boost types | `boost_types.hpp` | `boost::optional`: the value, the handler inside an optional of its own, `depth`; the others: those of the base classes above | a handler of its own for `boost::optional`, copies of the derived classes for the rest |

How they interact:

- *Calls.*  A composite handler calls the same method of its part's handler
  and uses the returned `bool`; on `false` it records an error *link*
  ("element 3", "member x") and returns `false`, which ends the parse.
- *Errors.*  After the parse `from_json` calls `ReapError`: each handler
  pushes its own link and then asks the part's handler for its error.  The
  trace is complete only if the link and the part agree.  A class with
  `no_duplicates` also *notes* an error at a repeated key and accepts the key
  (`autojsoncxx.py:331`); its `HasError()` is then true in the middle of a value
  nobody has refused, and so is that of a tuple, pointer or optional around
  it, but not that of a vector, map or class around it, which answer for
  their own error only.  The errors are
  linked through their own `next` and owned by the stack they are pushed on,
  until `swap`, `pop` or the destructor passes them on.
- *Reuse.*  A vector or a map moves a finished element away and calls
  `PrepareForReuse` on the element's handler.  The generated class handler
  calls `PrepareForReuse` on its members only when it is prepared itself: a
  key that is repeated in one object gives the member's handler a second
  value **without** preparation.
- *Shared structure.*  Vector and map handlers and the DOM handler keep their
  stack in `utility::stack`, whose assertions protect `top` and `pop`.

What must be right, component by component: a part is finished exactly when its
JSON value ends; events reach the part they belong to and no other; a finished
part is stored once, in order, under its own key; nothing of an earlier value
is left when the next begins; a rejected event always leaves an error, whose
links lead to the part that failed; an error object has one owner and is freed
once, and a call's result speaks of that call; `required`, `no_duplicates` and
strict mode judge the object at hand; integers are stored unchanged or refused;
objects on the linked stack are constructed and destroyed once. `PROJECT.json`
lists the hazards one by one, each at its line, with the properties that watch
it.

## 2. Modules

### Structure

```
JsonSource                 the event source: JSON grammar, stop on false, syntax errors
├── AbstractHandler        what a composite may assume of a part's handler
│   ├── VectorHandler      ── VectorHandlerProofs
│   ├── MapHandler         ── MCMap, MapHandlerProofs
│   ├── ObjectHandler      ── MCObject, ObjectHandlerProofs
│   ├── TupleHandler       ── TupleHandlerProofs
│   └── NullableHandler, OptionalHandler
│                          ── NullableHandlers, both under the same texts,
│                             NullableHandlersProofs
├── DomHandler             ── LeafHandlersProofs
└── SourceLemmas           facts about open containers, numbers and joined
                           sequences, for the proofs
NodeStack (implements Lifo) ── LeafHandlersProofs
BasicHandlers              ── LeafHandlersProofs
ErrorStack                 the linked list of errors
└── Program                ErrorStack with ObjectHandler, OptionalHandler and
                           VectorHandler composed; implements Session
                           ── ProgramProofs
```

The MC modules add a symmetry set; the other modules are checked as they are,
with the `.cfg` of the same name.  One module proves things of the three
handlers without parts, so the specifications of NodeStack and BasicHandlers
are named apart (`StackSpec`, `ScalarSpec`); the others have a `Spec`.

Each handler module EXTENDS the source, so that its actions are joint steps:
the source emits an event and the handler's whole method, including the calls
it makes, happens in the same step.  `Emit(e, ok)` says which event the
grammar allows and what the returned `ok` does to the source.  Three actions
end or begin a value: `SyntaxError` (the text is cut off anywhere, also after
a complete value), `PrepareForReuse` (an enclosing container goes on to its
next element) and `RepeatedMember` (an enclosing class meets the key again:
**no reset**, `autojsoncxx.py:285-291`).

`AbstractHandler` is the interface of a part.  The part's type is arbitrary,
so its verdict on each event is left open (`\E ok \in BOOLEAN`); what is kept
of it is the protocol: the containers the events fed to it have opened, and
whether it is fresh, busy, complete or failed, and whether it holds an error.
That is what allows a property such as "the element's handler got the events
of exactly one element" (`ElementIsolated`) without composing concrete types.

A part that has failed holds an error, but one may hold an error earlier:
`noted` says that a part in the middle of a value does.  Every composite
conjoins `PartNotes` to its steps, which lets its part do whatever
`ErrorProtocol` allows: a rejection leaves an error; in the middle of a value
one may appear at an accepted key, and stays; a value that ends without a
rejection leaves none.  A member of a class with `no_duplicates` is such a
part, so the composites are checked against nested classes whose text breaks
off behind a duplicate key.  The argument is one of assumption and guarantee:
each composite assumes `ErrorProtocol` of its parts and keeps it as a part of
another, at any depth of nesting.  For classes, tuples, pointers and optionals
that is the action property `KeepsErrorProtocol`; a vector or a map has an error
exactly when it has refused an event (`TraceContinues`), which is the protocol
without notes.  `Program` composes concrete handlers and checks that they keep
it step by step (`MembersKeepPromise`).

Data is abstracted to its origin.  An element of a vector is the set of
positions of the JSON elements whose events were written into it; a mapped
value is the same; a DOM value is the text it would serialise to.  The eight
scalar events are one event, `Scalar`, wherever the code treats them alike;
`BasicHandlers` is where they differ.

### Module by module

- **VectorHandler**.  `state`, `the_error`, `current`, `inner`
  (= `internal_handler`), `value` (= `*m_value`), `index` are the members of
  the C++ classes.  `push_when_time_is_right`, `check_depth`,
  `check_array_length`, `checked_event_forwarding`, `Push`, `CheckLength` and
  `GetCurrentSize` are operators of the same names (or, for the error
  branches, `RejectedByDepth`, `LengthMismatch`, `RejectedByElement`);
  `container` is the type, chosen in `Init` and never changed, and `Fixed`
  says that it is `std::array`.  `base` remembers the size of the container
  when the value began.  Note that `StartArray` pushes on `state` before it
  forwards, so a rejection leaves the stack one higher than the text.
- **MapHandler**.  The same shape; `Emplaced` and `NotEmplaced` are the
  `pair::second` of the map's insertion, with which `RefuseDuplicate` stops
  the parse.
- **ObjectHandler**. `state` is the member the last key of depth 1 named
  (`Unknown` for -1), `has` the flags the generator declares (all members with
  `no_duplicates`, otherwise the required ones), `handlers` the `handler_i`.
  `options` are those of the class definition, chosen in `Init`. `KnownKey`,
  `UnknownKey`, `Validated`, ... are the fragments the generator substitutes
  for the template's comments. A duplicate is recorded at the key and reported
  at the end of the object, so the model keeps the interval in between.
  `named`, `earlier` and `fedBy` are history.
- **TupleHandler**.  `reached` is the element the inheritance chain forwards
  to (the first one not `finished`), `TupleSize` is the base class at its
  end, which accepts everything.
- **NullableHandler**.  The pointer is `"null"` or owns an `"object"`;
  `current` says whether the handler fills the object that the pointer owns;
  `fault` records a call through a null or dangling handler.  `Init` lets the
  user's pointer own an object already.
- **OptionalHandler**.  `boost::optional` is not a copy of the smart
  pointers' handler: the value lives inside the optional and `initialize()`
  makes value and handler together.  The variables have the names and values
  of NullableHandler's, so that **NullableHandlers** can run both under the
  same texts and check that every step of the one is a step of the other
  (`OptionalIsNullable`); `InPlace` is what `current` means here.
- **DomHandler**.  `AllValues` is the document and the working stack as one
  sequence whose last element is `top_value()`.  `pre_processing` and
  `post_processing` are the functions of these names.
- **NodeStack**.  `nodes` is the linked list behind `head`; a slot holds
  `Raw` while no object lives in it.  Constructing over an object, destroying
  what does not exist and freeing a node with an object in it set `fault`.
  `StackSpec` has every call the class allows, `UsedSpec` the calls the handlers
  make: they clear only an empty stack (`StackMirrorsText` of VectorHandler
  and MapHandler, `EmptyBetweenValues` of DomHandler).
- **Lifo**.  The abstract specification: a sequence with push, pop, clear.
- **BasicHandlers**.  One step is one event on a handler of each scalar type;
  `HalfInt` and `HalfInt64` are half the number of values of the machine
  integers, `Threshold` stands for 2^53.  The comparisons and the casts are
  translated separately, so a number could be changed between them.
- **ErrorStack**.  `heap` and `next` are the storage the error objects live
  in, `head` and `m_size` the members of each stack.  `push`, `pop`, `swap`,
  the turns of the destructor's loop (`destroy_head`) and the constructor are
  operators on them; `Position` iterates as `const_iterator` does.  `released`
  holds what `pop` has given to the caller, `fault` records that freed storage
  was read or deleted.
- **Program**.  A program that reads objects of a class with a
  `boost::optional` and a required `std::vector`, by `from_json` and
  `from_document`, into one `ParsingResult` and one `ErrorStack`, and prints
  and pops the errors in between.  The class handler is an instance of
  ObjectHandler, its members' handlers are instances of OptionalHandler and
  VectorHandler whose text is what the class handler forwards (`OpenOf`,
  `KeyedOf`, `PhaseOf`): one `Event` is a joint step of the class handler and
  of the member it calls, and a repeated key is the member's `RepeatedMember`.
  The elements of both members are abstract parts and may note errors, and
  `MemberNoted`, the class handler's `noted`, is what its members' handlers
  really hold.
  After the parse the call goes on step by step: `set_result` swaps the old
  errors into a temporary, `ClearTemporary` destroys them one by one,
  `ReapClass`, `ReapMember` and `ReapElement` are the chain of `ReapError`,
  each pushing the error its handler releases, and `Return` answers.  One
  error stands for all that an element's handler pushes.
- **Session**.  The abstract specification of the calls: one atomic step each,
  the trace a sequence of errors named by call and level.  The outcome of a
  parse is an input there: no error with a complete parse, at least one with a
  termination, any number with a syntax error (`MCObjectMalformed` shows that
  one can be left).  `ImplementsSession` shows that `Program` implements it:
  a call takes effect when its parse has ended, and `Pending` is the number of
  errors `ReapError` will still push, read off the handlers' state.  Since
  `Session` takes the outcomes for granted and `Program` gets them from the
  handlers, the refinement also shows that the handlers have no others.

Operators whose name ends in a description after the code's name
(`push_WithoutReset`, `Pop_KeepsHead`, ...) and whose comment begins with
"Mutant" are deliberately wrong versions of the definition below them.  No
specification uses them; `PROJECT.json` pairs each property with the mutant
that breaks it, which shows that the property depends on the code.

## 3. Runs

Passing runs:

| run | distinct states | what it shows |
|---|---|---|
| `vector` | 3334 | `std::vector`, `std::deque`, `std::array<T, 2>`: the stack mirrors the text, elements are isolated, stored once, in order; `index`, which the code never resets, is 0 whenever a value begins and an accepted array fills every slot; the trace of a rejection continues into the element and names it, whatever the element has noted |
| `map` | 2139 | members are stored once, under their own key, of their own events; an occupied key is refused and its value kept; a duplicate is real |
| `object` | 19500 | all four combinations of `no_duplicates` and strict: events reach the member the key names; no error is lost, whatever the members note, and the handler is itself such a member; `required`, duplicates and unknown keys are judged right |
| `tuple` | 1498 | arrays shorter, as long and longer than the tuple, and values that are no arrays: every element is made of its own part of the text; an error of an element, noted or rejected, is found where it is |
| `nullable` | 5694 | smart pointers and `boost::optional`: `null` for the pointer and inside the pointee are told apart; every event finds a handler of the right object; the pointer has its pointee's error, no less and no longer; the optional does in every step what a pointer does |
| `dom` | 89488 | the document serialises to the text, for every text of at most 7 events and every earlier document |
| `stack` | 340 | `utility::stack` implements `Lifo` and pairs construction with destruction |
| `scalars` | 4052 | all integer events on all scalar types at every boundary |
| `session` | 315530 | `Program`: the composed handlers keep the interface, the errors a rejection leaves are one path to the failure, no error is leaked or owned twice, every call answers for itself as `Session` says, and each call and each printing ends |

Runs that refute what the documentation or an assertion says; the lines are
quoted under "findings" in `PROJECT.json`:

| run | violated | the program does |
|---|---|---|
| `object_required` | `RequiredPresent` | a repeated object member is accepted without its required members |
| `object_malformed` | `MalformedHasNoMappingError` | a syntax error after a duplicate key leaves a mapping error in the trace |
| `stack_clear` | `AssertProtects` | after `clear()` of a stack that is not empty, `assert(!empty())` passes and the head is null |

`object_required` stands for a family.  `definition_file_syntax.md:12` says
that without `no_duplicates` "the last occurrence will be retained"; in fact a
repeated key gives the member's handler a second value without
`PrepareForReuse`.  The other properties describe what the code does then,
and a clause of each marks it:

- a vector keeps both occurrences' elements (`base` in `VectorExact`, and in
  the index of `ErrorNamesElement`);
- a map refuses keys that stand once in each occurrence (`DOMAIN base` in
  MapHandler's `DuplicateIsReal`);
- a class with `no_duplicates` refuses fields that stand once in each, and
  does not ask again for required ones (`earlier` in ObjectHandler's
  `ErrorIsReal` and `AcceptanceIsEarned`);
- a tuple goes on behind the elements filled already (`first` in
  `PrefixMatched`);
- a Document that is an array is extended (`Before` in `DocumentIsText`).

Further behaviour that a reader of the documentation may not expect, visible in
the models: an element beyond the end of a `std::array` is reported with its
position modulo N (`ErrorNamesElement`); a tuple accepts a value that is not an
array as its first unfinished element (the second clause of `PrefixMatched`); a
smart pointer that is not null when the parse begins has no handler (`preset`
in `HandlerExists`); `from_json_file` of a file that cannot be opened returns
`false` and leaves the result as it was; a syntax error behind a duplicate key
leaves the duplicate in the trace if the class is the outermost one, or is
inside tuples, pointers and optionals only, but not if a vector, a map or a
class is around it: they have no error of their own and do not ask their part
(`TraceContinues` speaks of rejections only, and of where an unreported note
can be; a class that has noted a duplicate of its own does go on to the member
that `state` names, as `TraceIsPath` says); `from_document` answers
`errs.empty()`, so it returns `false` for a conversion that succeeded when the
caller's stack held errors before (`AnswerIsTrue` therefore states only that it
never reports success for a failure).

### Bounds, and why they are enough

- `MaxDepth` (3 to 5) bounds the open containers.  Every handler tells apart
  at most three levels: outside its own container, directly inside, and
  deeper.  Depth 3 reaches the third, depth 4 adds a mixed pair of brackets
  inside an element.  Below the outermost container the number of elements is
  not bounded: no variable depends on it.
- `MaxCount` (3) bounds the elements of the outermost container: one more
  than `N`, `TupleSize` or the number of keys in the same run, so that arrays
  are too short, right and too long, and every key can be repeated.
- `MaxPrior` (2) and `MaxText`, `MaxHeld` (7 and 3 events) bound what a
  container holds before the parse and the size of a DOM text; 7 events are
  enough for an object in an array in an object, and for two members.
- The symmetry sets exchange keys, or required members, that no action and no
  property tells apart; the runs with symmetry check invariants and, in `object`,
  one property of single steps, no liveness.
- `MaxSize` 7 with two elements per node: three full nodes and one more, so
  that an empty head is met above a full node repeatedly.
- Widths 8, 32 with threshold 8 keep the order int < 2^53 < int64 of the real
  ones, which is all the handlers compare; the proofs are for every width.
- `Program` bounds each object to two members and each vector to two
  elements: a required member missing, both present, one of them twice, and
  an element behind another that failed or was stored.  A third member of the
  object is met by the run `object`.  `MaxCalls` 2: a call with errors before,
  and after, one without, on the same and on the other stack.  `MaxErrors` 6
  is two calls' errors at their longest (three levels each), so `push` is
  never blocked; the program holds one popped error at a time.  Each call has
  a new object and a new handler, as `from_json` makes one per call.
- Deadlock is not checked where a parse is modelled: a parse, or a program
  with no calls left, ends.  The stack never blocks and is checked for it.
- Every module with a specification of its own except `Lifo` states a `TypeOK`
  (`StackTypeOK`, `ScalarTypeOK`; OptionalHandler shares NullableHandler's).
  It is proved for all of them but Session, whose variables `Program` computes,
  and the runs leave it out; add it to the cfg after changing a module.

### Fairness

`Program` assumes weak fairness of `ClearTemporary`, `Reap`, `Return` and
`PrintNext`, and nothing else.  These are the turns of loops and the
consecutive statements of one call: once the parse has ended, nothing but the
processor is needed for them to go on.  `Finishes` says that the call then
returns and that printing ends, which depends on the lists: a cycle in one
would keep the destructor or the iterator going for ever.  No fairness of
reading is assumed, since a parse is as long as its text, nor of anything the
caller chooses to do.  The handlers' modules state no liveness: each method is
one step, and what comes next is the source's choice.

## 4. Proofs

All by TLAPS, for every value of the constants.  The bounds of section 3 are
constants of arbitrary size in the proofs, so the theorems hold for texts of
any depth and length, and for any number of calls and errors.  They rest on
the assumptions the modules name and on nothing else: `BoundsAssumption`,
`TextAssumption` (the bounds are natural numbers), `VectorAssumption`,
`TupleAssumption`, `StackAssumption`, `ErrorStackAssumption` (sizes are
positive), `KeysAssumption` and `ClassAssumption` (no key is `NoKey`; finitely
many members, the required ones among them, `Unknown` is none),
`WidthAssumption` (the order of the integer widths) and `ProgramAssumption`
(the bounds of `Program`, that its options are options of a class, and which
three lists there are).

**Every invariant and every action property that a passing run checks is a
theorem, and so are the three refinements** (`ImplementsLifo`,
`OptionalIsNullable`, `ImplementsSession`).  In each module there is one
inductive invariant (`IInv`; `DomIInv`, `StackIInv`, `ScalarInv`,
`ProgramKnown`); `InitInvariant` and `StepInvariant`, or lemmas of like names,
are the two halves of the induction, with one step per action.  Proved and in
no run are the type invariants, that the class handler's `depth` counts the
open objects (`DepthMirrorsText`, part of its inductive invariant) and that a
refused scalar keeps the user's value (`RefusalKeepsValue`).

**SourceLemmas** holds what pushing and popping does to a stack of open
containers, to what is above its bottom, and to the number of containers of
one kind in it; and what the proofs of DomHandler and Program need of numbers
and sequences: every nonempty set of naturals has a least member
(`LeastNumber`), a set that holds 0 and every successor holds them all, and
what `FlattenSeq` makes of a sequence one longer or one shorter.

What a part notes (`noted`) changes nothing a composite's method does, so
`IInv` says no more than its type and is proved of the methods alone. What is
said about errors is a second invariant, inductive given `IInv` (`NotedInside`;
for classes and tuples `ErrorInv`): only a part in the middle of a value can
hold a noted error (`BusyIsOpen`), and of several parts only the one being read
(`OneReads`).

**VectorHandlerProofs**: `TypeOK`, `StackMirrorsText`, `ElementIsolated`,
`VectorExact`, `TraceContinues`, for `std::array` of every size and for
growing containers with any prior contents.  None of the last four is
inductive alone; their conjunction with `SourceConsistent` (what the grammar
keeps: `open` is empty exactly outside a value, a key is pending only in an
object) is.  The argument goes in a circle: the container is exact because
each pushed element is isolated; an element is isolated because it is pushed
exactly when the element's value ends; that moment is right because `state`
mirrors `open`; and `state` mirrors `open` because the invariant rules out the
methods' early returns that would leave them apart.  The lemmas follow the
code: `InsideArray` (what an event finds), `Acceptance` and `Rejection` (what
`checked_event_forwarding` leaves), `DepthRejection` and `LengthRejection`
(the two early returns), `OuterStart` and `OuterEnd` (the handler's own
brackets).

On top of it `Positions` is a second invariant, inductive given `IInv`: for a
`std::array` the `index` that is never reset is `count` modulo `N`, and the
first `N` slots hold the first `N` elements.  Only an array of exactly `N`
elements passes `CheckLength`, so `index` is 0 whenever the next value begins;
an array that failed is not followed by another value.  `ArrayExact` and
`ErrorNamesElement` follow; `StepKinds` reduces the actions to the five ways
they move the positions.

**MapHandlerProofs**: `TypeOK`, `StackMirrorsText`, `ElementIsolated`,
`MapExact`, `TraceContinues`, `DuplicateIsReal`, for every set of keys and
every prior map.  The circle of VectorHandler, with `KeyOfMember` added: the
handler's `key` is the last of the `names` read, which holds because a nested
object's keys are read with more than one container open.

**ObjectHandlerProofs**: `TypeOK`, `DepthMirrorsText`, `MemberIsolated`,
`TraceContinues`, `KeepsErrorProtocol`, `AcceptanceIsEarned`, `ErrorIsReal`,
for every class and every combination of options. `depth` is the cardinality of
the set of open objects, so the lemmas about it are about what an event adds to
that set. `StateOfMember` says that `state` is the member the last key of the
outermost object named; `FlagsMean` that a flag is set exactly when its member
was named, now or in an occurrence before; `NotedSoFar` what can have been
noted while the parse goes on, since a duplicate is noted long before it is
reported. The last one is what acceptance and the reality of errors need:
without it a state with a note nobody wrote would be accepted or refused
wrongly.

**TupleHandlerProofs**: `TypeOK`, `PrefixMatched`, `ElementIsolated`,
`RejectionIsReported`, `KeepsErrorProtocol`, for every tuple size. Only one
element of the chain is `Current`, the first that is not finished; its
`total_depth` is the number of open containers less the one the most derived
class has taken (`DepthsMatch`), and `array_depth` counts open arrays
(`ArraysCounted`). `DepthOfElement` is the heart: the depth is 0 after an event
exactly when it closes an element of the JSON array, or, in a value that is no
array, when the whole value ends, although the class takes an array's brackets
out of the count at any depth of such a value.

**NullableHandlersProofs**: `TypeOK`, `HandlerExists`, `NullIsNull`,
`KeepsErrorProtocol`, for smart pointers and `boost::optional` together, and
`OptionalIsNullable`: every step of OptionalHandler is a step of
NullableHandler.  The refinement is proved first, so that the invariant is
needed for the pointers only.  `HandlerOwned` is the strengthening: whoever
owns an object has the handler that fills it, except for an object the user
put there.

**LeafHandlersProofs**, about the handlers that have no handler inside.

*DomHandler*: `TypeOK`, `DocumentIsText`, `NeverCorrupted`,
`EmptyBetweenValues`.  The stack holds values and keys without telling them
apart, and `post_processing` looks at the types of what is below.  `Placed`
says where the container of each open bracket is: the next one is directly
above an array, and one further above an object, with a string in between;
the outermost is the document, or above it if the document was an array
already.  `Awaiting` and `Whole` say where the stack ends, `Vacant` where the
next value goes; `Structured` is the invariant.
Then `Closing` shows that a value that ends finds its container below it, with
its key if it has one, and that moving it there keeps the text that all values
on the stack, joined, stand for.  A string is taken for a key only where the
container below is an object, because an array's element never has a string
below it: what is below it is the array.

*NodeStack*, about `UsedSpec`: `StackTypeOK`, `LifetimesPaired`,
`AssertProtects`, `TopIsLast`, and `ImplementsLifo`, the refinement of `Lifo`,
for every node size.  The strengthening is `SizesAgree`,
`total_size = N * (Len(nodes) - 1) + current_size`.  `Place(n, s)` counts the
slots from the bottom, `NodeAt` and `SlotAt` count back; each of push, pop and
clear is then a step of `Lifo` on the sequence of places.  Of `StackSpec`,
where anyone may call `clear()`, `AssertProtects` is false (run
`stack_clear`).

*BasicHandlers*: `ScalarTypeOK`, `Exact`, `RangeErrorIsReal` and the action
property `RefusalKeepsValue` for every width that keeps the order
`WidthAssumption` states.  `SmallRemainder` and `Narrowing` say that a cast
does not change a number in range; each handler is then shown to meet one
`Contract` (store the number, or refuse it and keep the value; refuse for size
exactly when the type cannot hold it).

**ProgramProofs** puts the components together: `MembersKeepPromise`,
`ListsSound`, `TypeOK`, `ImplementsSession`, `TraceOfLastParse`,
`AnswerIsTrue` and `TraceIsPath`, for any length of texts, any number of calls
and of errors.

- *Handlers* (`HandlersSound`). The invariants of ObjectHandlerProofs and of
  VectorHandlerProofs are used as they stand: those modules are instantiated
  for the class and for its vector, and `ClassEventIsStep` and
  `VectorStepIsStep` show that what `Program` does is a step of theirs. The
  text of the vector is not a text of its own but what the class handler
  forwards; that this is a possible text is part of the proof. `OptionalSound`
  is the small invariant that OptionalHandler needs here. `MembersKeepPromise`
  closes the circle: ObjectHandlerProofs assumes arbitrary members that keep
  `ErrorProtocol`, and `OptionalProtocol` and `PromiseStep` show that the two
  real ones keep it. The circle is not vicious: no method looks at what a part
  has noted, so the invariants of the class need its `PartNotes` only where
  they speak of errors (`EventInvariant`).
- *Lists* (`ListsKnown`).  There is an assignment `L` of a sequence of addresses
  to each stack such that `head` and `next` lead through it (`Chained`), no
  address is in two places (`Apart`), and what is allocated is in a list or
  with the caller of `pop` (`Owned`).  Each operation gives a new `L`
  explicitly: `Consed` for `push`, `Cut` for `pop` and the destructor, exchanged
  for `swap`.  `VisitedIsChain` shows that the iterator sees exactly `L`, by
  induction over its positions, and with it that a list is never longer than
  there are addresses, so that iteration ends.
- *Session*. A call takes effect in `Session` when its parse has ended. From
  then on `Coming`, the errors `ReapError` is still to push, are counted as if
  they were in the list, and pushing one is a stutter: the last to come becomes
  the first that is there. That their number is what the handlers' states say
  (`PendingKept`, `ReapPushes`), at least one after a termination and none
  after a complete parse, is where `HandlersSound` enters. `SessionStep` is the
  step lemma; `TraceOfLastParse` and `AnswerIsTrue` are invariants of Session's
  steps and are carried over by it.
- *Path* (`PathKnown`). Of the list that is being filled, the first `reaped`
  errors are this call's, and each `Fits` its place: after a rejection all but
  the last are links, and the last is one exactly when there are more to come;
  after a syntax error none is. `MembersLeft` is what the handlers still hold;
  `ClassLink` and `VectorLink` relate a link to the key or the position in the
  text. The errors of earlier calls have smaller numbers.

Consequences worth naming.  The assertions of `utility::stack` cannot fail in
the sequence and map handlers, and their `PrepareForReuse` always clears an
empty stack (`StackMirrorsText`), so the call that `stack_clear` needs never
comes from them and `UsedSpec` is what they use.  The findings about repeated
members are not accidents of small instances either: the clauses with `base`,
`earlier` and `first` are part of what is proved.

Only model-checked: `Finishes`, since liveness under fairness is out of the
prover's reach.  What it depends on is proved: the lists are finite and have no
cycle (`ListsSound`), and `ReapError` has at most three errors to push
(`TypeOK`).  The three runs that refute something have counterexamples instead
of proofs.  The mutants are checked by TLC only.

Recursion would be out of reach as well: the iteration over a list is therefore
stated with a recursive function (`Position`) or a set of positions, never
with a recursive operator, and inductions are done with sets of numbers
(SourceLemmas).

## 5. Not modelled

- *rapidjson* is external: characters, encodings, allocators and its own
  error codes.  Its `Reader` is assumed to respect the grammar and to stop at
  the first `false`.
- *Serializers*: straight-line writing, no state.  `to_json_file` asks
  `ferror` before the file is closed and drops the result of `fclose`; that is
  listed as a hazard without a property, because stdio is not modelled.
- *Boost containers and pointers*: they derive from the base classes modelled
  for `std`; only `boost::optional` has a handler of its own.
- *`ParsingResult::swap`*, its move constructor and
  `set_result(code, offset)`: no entry point calls them.
- *`to_document`*: a serializer driving DomHandler.
- *multimaps*: their `Emplace` asks the iterator that `insert` returns for
  `.second`, so no instantiation compiles.
- *Move operations of the error classes*: guarded by a misspelt macro
  (`AUTOJSONCXX_HAS_RAVLUE`) and spelt `operator==`; a matter of which text
  compiles.
- *The generator's checks* of names and definition records, and the command
  line: one record at a time (planned as pure operators).
- *Descriptions of errors, quoting of strings, the tests and examples.*

## 6. Plan

Done in this order: source and abstract part, sequence handlers with proofs,
maps, classes, the linked stack with its abstract specification, scalars with
proofs, tuples, smart pointers, DOM, sessions, `boost::optional`, the error
stack, and the composed program with the refinement of Session; then the
proofs of section 4.  Left, most important first:

1. More members in `Program`: a map, a tuple, a class within the class.  The
   proofs of their handlers can be instantiated as those of the vector are.
2. `Generator`: the checks of `MemberInfo` and `ClassInfo` as operators on
   records, against `definition_file_syntax.md`.
3. Serialising a value and parsing it again.
