# Verification of the ThousandEyes Go SDK

TLA+ models of `go-sdk-thousandeyes`, the TLC configurations that check them on
small instances, and theorems about them that the TLA+ proof system checks for
every value of the constants.

About 100,000 of the repository's lines of Go are generated service packages. The
logic that can go wrong sits in `thousandeyes/client`, in the templates of the
generated code and in the tools that collect the OpenAPI specification and
generate the code from it. The models are about those. Of the generated packages
they have what differs from one to the next: the methods, the enumerations and
the unions, as tables that the models of the templates are checked against.

## 1. The system

| Part | Source | State | Operations | What makes it correct |
|---|---|---|---|---|
| Request executor | `client/transport.go` | none of its own; per call a context, a slot, a response | `executeRequest` | every call returns, gives its slot back on every way out, and repeats an attempt only for a cause |
| Semaphore | `client/concurrency.go` | elements in a channel | `acquire`, `release` | slots taken are slots held; waiters are served or leave |
| Retry policy | `client/retry.go`, `no_retry.go` | a mark in the request's context | `retryCondition`, `DisableRetry`; resty's own conditions beside it | no POST or PATCH is sent twice, and nothing else without a cause |
| Rate-limit tracker | `client/ratelimit.go` | the last quota, behind a mutex | `observe`, `snapshot` | pacing makes the budget last and stalls nobody past the window |
| Response-time tracker | `client/ratelimit.go` | a moving average, behind a mutex | `record` | delays bounded, and only for a slowdown |
| Pagination | `client/pagination.go` | position in the walk, items merged by the caller | `executePaginated` | all of a collection, once and in order, or an error |
| Request builder | `client/request_builder.go`, `options.go` | headers, query, body, context | setters, verbs | every page carries what the first request did |
| Error parsing | `client/errors.go` | none | `ParseErrorResponse` | one shape of body makes the whole error |
| Settings and defaults | `client/settings.go`, `defaults.go`, `config`, `with_options.go` | a settings record | options, `NewTransport` | an option does what it says, zero included |
| Collector | `scripts/openapi/GetOpenAPISpecs`, `internal/openapi`, a workflow | snapshots on disk and in the repository, pull requests | `run`, `LatestSnapshot`, `Write`, `Compare`, `emit` | no published change goes by, no snapshot is overwritten, a dead run does no lasting harm |
| Type resolver | `internal/codegen/types.go`, `generate.go` | per tag: maps of models, enums, unions, names under way | `GoType`, `namedType`, `registerUnion`, `resolveNameCollisions` | a package that names only types it declares, each once, whatever circles the schemas run in |
| Operation builder | `internal/codegen/generate.go` | none | `buildOperation` | a method that sends what the specification describes |
| Code generator | `internal/codegen`, `scripts/openapi/GenerateServices`, a workflow | the generated tree, what is committed of it | generate, clean, write, verify | a tree of one specification, whole, and nothing stale verified |
| Union and templated values | `internal/templates/unions.go.tmpl`, `shared/templating` | a tag, a pointer for each variant, the payload as received | `UnmarshalJSON`, `MarshalJSON`, constructors | what is read is written back, and unions are values |
| Generated services | `internal/templates/service.go.tmpl`, `thousandeyes_api` | none | 323 methods: one request or one walk each | the whole result or an error |
| Enumerations | `internal/templates/enums.go.tmpl`, `thousandeyes_api` | none | `Values`, `IsKnown`, `String` | packages that declare one type agree on it |
| Tracing, response helpers, constants, test server, examples | the rest | none | | |

How they interact. Goroutines of the program share one `Transport`. A call of
`executeRequest` puts the total retry budget on the request's context, waits for
a slot of the semaphore, and lets resty make attempts, after each of which resty
asks its own conditions and `retryCondition`, of which one yes is enough. A failure
returns at once. A success is observed by the rate-limit tracker, and the call sleeps for the pace it is given, slot in hand,
before it returns. `executePaginated` calls `executeRequest` once for each page
and merges into the slice of the generated operation. The collector is another
program: a workflow starts it on a schedule, it compares what is published with
the newest snapshot of its checkout, and its pull request carries the new
snapshot and the code generated from it. Between runs developers generate too, for
one tag or for all, and commit what they have; another workflow generates once
more and compares.

The hard behaviours: callers that race for slots while contexts end; attempts
that fail after the server acted on them; workers that share one quota and see
each other's answers late and out of order; walks that fail in the middle or
never end; pages that repeat a request under a context that must not be that of
the page before; unions that are decoded into while copies share what is behind
them; runs of the collector and of the generator that die between two writes, and
pull requests merged in another order than they were opened. `PROJECT.json` lists each at its
line under `hazards`.

## 2. The modules

| Module | Models | Proofs |
|---|---|---|
| `Retry` | the verdict of `retryCondition` as an operator, and the one of resty's own conditions | |
| `CallSlots` | abstract: clients wait for, hold and leave a number of slots | |
| `Transport` | `executeRequest` by several callers, with `Retry` and the semaphore; implements `CallSlots` | `TransportProofs` |
| `RateLimit` | `observe` and `record` as operators: what is kept, how long to wait | |
| `Pacing` | workers, the two trackers they share and a server that counts | `PacingProofs` |
| `Pagination` | one walk over any chain of pages | `PaginationProofs` |
| `OperationBuilder` | `buildOperation` as operators: what is made of an operation of the specification | |
| `ErrorResponses` | `ParseErrorResponse` as operators | |
| `Catalogue` | the 323 generated methods | |
| `Operations` | a call of a generated method: arguments, builder, options, pages, outcome | `OperationsProofs` |
| `TypeResolver` | the resolution of one tag's schemas into named types, and the model that gives way to the service | `TypeResolverProofs` |
| `Generate` | runs of the generator, the tree, commits, and the workflow that verifies them | `GenerateProofs` |
| `UnionValues` | abstract: holders of values with a tag and a variant for each kind | |
| `Templated` | reading and writing a templated value, as operators | |
| `Unions` | a generated union, decoded, built, copied and retagged; implements `UnionValues` | `UnionsProofs` |
| `OpenEnums` | a generated enumeration: `Values`, `IsKnown`, `String` | |
| `AccountEnumerations`, `TestEnumerations`, `InstantTestEnumerations`, `EndpointEnumerations`, `ResultEnumerations`, `DashboardEnumerations`, `GeneratedUnions` | the 667 enumerations and the 19 unions of the generated packages | |
| `Enumerations` | a value that is handed from package to package | |
| `Collector` | runs of the collector, the directory of snapshots, the repository, pull requests | `CollectorProofs` |

The modules whose names begin with `MC` instantiate them for TLC. An operator whose
comment begins "Mutant of" is a plausible slip in the operator of that name; each
property is seen to fail when the slip is put in the operator's place.

### Transport

`pc` says where a caller is: `acquiring` at `sem.acquire`, `ready` before
`req.Execute`, `inflight` and `backoff` inside resty's loop, `settled` when
Execute returned, `pausing` during the sleeps at the end. `ctx` is the context
the request carries: which deadline it has, whether it still has the mark of
`DisableRetry`, and whether it is done. `tokens` is the length of the channel.
`Begin` is the top of `executeRequest` with `WithBudget`; `Acquire` and
`AcquireCancelled` are the two arms of the select, which Go picks from freely
when both are ready; `ReturnError` and `ReturnResponse` run the deferred
`release`. resty is external: it makes up to `RetryCount` further attempts of a verb that
it takes for safe to repeat, each after a yes of its own conditions or of
`RetryCondition`, and gives up when the context ends. `NewTransport` adds
`retryCondition` to resty's conditions and leaves those on (`transport.go:136`):
a temporary error, a 429 and every 5xx but 501. They do not look at the mark of
`DisableRetry`. An attempt that fails comes back with a response that names its
request or with none, since the callback is written for both.

Time is left out of this module: a deadline can pass at any moment.

### Pacing

Time is a clock in small units. The server counts requests in windows of fixed
length, refuses beyond the limit, and reports limit, what is left and the end of
the window, or leaves headers out, or fails a request that it counted. A worker
is `idle`, has an answer it has not handled (`answered`), or is `asleep`; between
the server's answer and `Observe` anything may happen, so answers are observed in
any order. A success observes the headers, and where they ask for no sleep records
the time the response took: `Observe` is both, in that order, as at the end of
`executeRequest`. The two mutexes are held one after the other, and what is read
under the first is not used under the second, so one step stands for both. Three
simplifications: the clocks of client and server agree, nobody outside the program
uses the quota, and workers do nothing between requests. The time a response took is
a property of the answer and no part of the clock, so that any answer may have taken
any time. The headers of a failure, a 429 included, are not observed, since
`executeRequest` returns for it (`transport.go:286-308`) before it comes to `observe`
(`transport.go:341`), so `Fail` leaves both trackers alone. `fastest` and `impaired` are
history. The division of a
duration is rounded down to the unit of the clock, as Go rounds it down to the
nanosecond. The reserve is compared with integers, which agrees with
the comparison of floats in the code.

### Pagination

`chain` is what the server links, an arbitrary function, so walks that circle
are included. `executeRequest` is one step. Each answer has one of six shapes,
which are the cases the code tells apart: `_links` of a type that does not fit
`halPage`, for instance, is "unlinked". On an error the generated operation
returns nil, so `items` becomes empty. What a page's request has of the first one, the
filters of its query included, is in `Operations`.

### Operations

One call of one method. The method is one of `Catalogue`, or is built from an
operation of a specification by `BuildOperation`; so the builder of the generator,
the template of its methods and what came out of them are held to one property. Of a
generated method the placeholders are those of its path as the comment "URL:" of
`service.go` has it, and the arguments those of its signature, so that one which is
never filled would show; of a method that is built here, what it should send is read
off the specification (`AsDescribed`) and not off what the builder made of it. For that
a specification has to be in order (`InOrder`): that a request body offers JSON is part
of it, for the builder drops any other, and holds of all 130 bodies of
`openapi-specs/7.0.99`, seven of which are references.
`Refuse` is the checks for missing arguments, `Prepare` the builder as the template
sets it up, `ApplyOption` the loop over the options, `Send` and the steps after it
the walk, seen from the request: `context` is the time left in the context of the
builder, from which each page is made, `Allowed` what `executeRequest` leaves a
request of it. `wire` records what was sent. An error has the fields of one shape of
body, or is one of the client's own. A number of pages is bounded by `MaxRequests`.
Query parameters other than the account group, and what is in a body, are left out.

### TypeResolver

`document` is a component map: each schema is an object, a composition (`allOf`),
a union (`oneOf`), an array, a template (`anyOf`), an enumeration or a scalar, and
refers to others by name. `models`, `enums`, `unions` and `resolving` are the maps
of `TypeResolver`. The recursion of `namedType` is a stack of frames, one for each
call under way, the operations of `Build` at the bottom: `Resolve` gives one
property its type when the name is known, `Descend` reserves a name that is not
and pushes a frame, `DefineModel`, `DefineUnion` and `WithdrawUnion` are the three
ends of a frame, and `Finish` is `resolveNameCollisions`. What `goIdentifier` makes
of a name is a parameter, so that schemas may share an identifier. Of a type
expression are kept its base, its wrapper and the pointer. Inline objects, which
have no name, descriptions, and schemas that are a composition and an object at
once are left out.

### Generate

`tree` has for each tag and kind of file its text, nothing, or what an interrupted
write left, and for each of them the `.broken` file that `Write` keeps of a text
gofmt rejects. `Start` is everything before the first change on disk; `Clean` is
`os.RemoveAll`; `WriteFile` is one file, packages in order, files of a package in
the order a Go map gives them; `Finish` writes the root client where all was asked
for. `Die` interrupts any of them, and leaves a part of what was to be removed or
written. `Commit` commits the tree with or without the files that are new, and
`Verified` is the workflow: a full run on a fresh checkout, then a comparison that,
like `git diff`, looks at tracked files alone. What a snapshot generates is the
parameter `Rendered`, so the module is about files and not about their text.

### Unions

`variant` has the pointers of each union, `heap` what they point at, `raw` a slice of a
buffer. `Decode` is `UnmarshalJSON` with its three ends: a tag that does not decode, a
variant that does not, and success; `Construct` is a constructor, `Copy` an assignment,
`SetTag` an assignment to the exported discriminator. Appending to `Raw[:0]` writes over
the array when the payload fits, also under the eyes of copies. `sharers` and
`disturbed` are history: with which unions one was copied, and whether one of those was
decoded into since. What is sent is `Encode`, a function of the state. The variant is an
object with one templated field, since such fields are what does not read back
trivially: an absent one is sent as null, and an expression may be any text, also one
that does not decode as the field's type, which is sent as a string and cannot be read
again. Two slices of one array are told apart by their lengths, so that a payload seen
through the wrong length is "garbled".

Not there: writing through the pointer that an accessor returns (`unions.go.tmpl:48-53`)
changes a variant under every copy of the union. And a named type such as
`type NumberTemplate templating.TemplatedValue[float64]` (`templates/models.go:570`) has
neither of the two methods of `TemplatedValue`, Go giving a new type none; `Templated` is
about fields of the type itself.

### Enumerations

The tables have the packages' enumerations with their values in the order of
`Values`; the constants, `String` and `IsKnown` of each list the same values, and the
model has them once. A value is decoded as the type of one package and converted to
its namesakes in others: generated packages share no types, so that is how a value
of one is used with another.

### Collector

A snapshot is a record of the time in its name, the state of `api.yaml` and the
catalogue in `metadata.json`. `api.yaml` is absent, whole, or what an interrupted
write left, which may still decode (`Torn`) or not (`Garbled`). A run goes through
the phases of `run` and `emit`, one step for each fetch and for each file; a
failed fetch or write ends the run as a crash does, and both are `Interrupt`.
With `FreshCheckout` a run works on a copy of the repository and what it leaves is
lost unless the workflow proposes it; a failing build of the regenerated code is
an `Interrupt` too. Without it, runs share a directory, as on a developer's
machine, where a run that ends without a pull request has nothing else to do; that
deployment is what `torn_snapshot_doc` and the proofs cover.
The workflow's concurrency group runs one at a time, so one run is modelled at a
time. The clock is taken to move between two writes, so names are unique. The
operation-level difference and the text of the report are left out.

## 3. The runs

| Run | Question |
|---|---|
| `transport_calls` | Can three callers on two slots, with a retry and contexts that end at any time, lose or double a slot? Is an attempt repeated only for a cause, and one that opted out only for resty's own? Does every call return, a cancelled one also behind a hung server, and is the semaphore an implementation of `CallSlots`? |
| `pacing_shared` | Two workers, missing headers, failures, slow answers: are sleeps bounded, is the recorded quota never too low, does only slowness delay, and does the budget last as long as nothing failed or came without headers? |
| `pagination_walk` | Every chain of three pages, every shape of answer, bounds below and above the default: is what a walk returns justified, and does it end? |
| `operations` | Each generated method, and each method built from a small specification, with arguments missing or there, options, deadlines, failures: is what is sent what was specified, on every page, and is what is returned a whole result or an error? |
| `type_names` | Does resolution end on every circle of three schemas, declare every name it hands out, once, compose completely, and leave alone what is done? |
| `generate_runs` | Full runs and runs for one tag, from any snapshot, cleaning or not, that die or are rejected by gofmt, with a commit between: is a success whole, does the root client name what is there, and can anything stale pass verification? |
| `unions` | Decode, build, copy and retag in any order: is an unknown kind sent back as received, a known one as decoded, and are copies values? |
| `enumerations` | Each value of each of the 667 enumerations, handed from package to package: do those that declare one type agree, and do `IsKnown` and the union's decoder? |
| `collector_ci` | Do scheduled runs with a crash, two upstream changes and merges in any order miss, overwrite or damage anything, do they catch up, and do they stay there? |

Three further runs, `opted_out_doc`, `recursion_doc` and `torn_snapshot_doc`, check what
a comment says and TLC refutes; see section 6.

**Bounds.** Three callers and two slots make a caller wait behind two holders while one
of them fails; one retry has a first, a repeated and an exhausted attempt; a good
status, a definitive one, and one that `retryCondition` holds for transient and resty
does not, tell the two kinds of verdict apart, and errors come temporary and not. The
callers use one idempotent verb, with and without `DisableRetry`, and contexts that have
no deadline but may end; `RetriesWarranted` is proved for every verb, status and
deadline. One caller and a 429 are what `opted_out_doc` needs. Two workers are enough to
observe answers in the wrong order, and a clock of four to carry an answer from one
window of three into the next; a limit of ten is the smallest with a reserve of one
request; response times of one and three with a ceiling of one are a fast answer, one
slow enough to delay, and one whose delay is cut off. Three pages and a default of four
have every walk that ends before, at and after each bound, and circles of length one,
two and three. A call in `Operations` sends up to three requests, a first, a second and
one after a second, with a budget of two and a caller's deadline of one, so that either
may be the one that ends; its specifications have every way to declare a placeholder, a
body and a result that the builder tells apart. Three schemas are the shortest circle
that is neither a self-reference nor a pair, and with a depth bound of one a composition
of three levels just fits; the identifier of the third schema clashes with nothing, with
that of another, with the enum of a union's tag, or with the service. The generator's
four snapshots are one to start from, one that loses a package and a file, one with a
file gofmt rejects, and one that does not decode; one death and one commit each leave a
tree from which everything else goes on. Two unions and four steps are a decode, a copy,
and two more decodes, into original and copy; two known kinds let a variant of another
kind stay behind, payloads of two lengths fit an array or do not, and fields are there,
null or of the wrong type. Two specifications and a catalogue that gains, loses or
renames the entry that is collected, with two changes, let a published change be taken
back or happen between the two fetches; two open pull requests can be merged out of
order.

**Symmetry** is used for workers, whose properties are invariants and action
properties; a run with liveness properties uses none.

**Deadlock** is checked everywhere. `Done`, `Finished` and `Horizon` are the
stuttering of a walk or a call that has returned, of a package that is resolved, and
of the bounded clock and the bounded number of steps.

**Fairness.** In `Transport`, goroutines that can run do, and `Acquire` is strongly fair
because Go queues the senders that block on a channel in order of arrival. That an
attempt ends is assumed only where a property says so (`ServerFairness`), on the grounds
of the timeout that `NewTransport` always sets; `CancelledCallReturns` holds without it.
In `Pagination`, the goroutine runs and a request returns. In `TypeResolver`, the one
goroutine runs. In `Collector`, a run that was started goes on, the schedule starts a
run that is not dry again and again, whatever else is started by hand in between, and
pull requests are merged. Interruptions and upstream changes are bounded in number, so
"in the end" is after the last of them, and `CatchesUp` asks that upstream goes on
listing the specification.

## 4. What is proved

Every invariant below holds for any number of callers, workers, pages, holders,
methods or runs and any bounds, under the assumptions named in the modules, which
give the constants their types. Three say more. `ResolverAssumption` has that some
spare name is no schema's, which the code has by counting up, that a document has
finitely many schemas, and that the members of a composition are schemas of it;
`GenerateAssumption` that a tag with any file has a service file, since `Write` always
writes one; and `OperationsAssumption` that a
specification is in order (each placeholder has a name and is declared as a path
parameter, under a name no other parameter has, and a request body offers JSON), and that
an option of a call sets a query value, a header, the bound on pages or whether to
retry, and never the path or the body.

* **Transport.** The inductive invariant `IInv` adds to the safety properties that a
  call has sent nothing before it holds a slot, that it waits for a retry only if an
  attempt is left and one of the two verdicts was yes, and that its context still has
  the mark of the caller's opt-out. Without the last, nothing says that `retryCondition`
  was not the one that said yes to a request that opted out. From it: `NoSlotLost`,
  `InFlightCapped` (those in flight are among the holders), `RetriesWarranted`, and
  `TransportKeepsSlots`, the safety part of the refinement. `CallsGetCloser` is what
  liveness needs beside fairness: a call has at most `2 * RetryCount + 5` steps of its
  own before it returns, nothing sets it back, and whoever waits for a slot waits for
  holders that have steps to take.
* **Pacing.** `IInv` says that an answer carries nothing, or no reset later than
  the window's end, and that a sleep ends with that window or with the ceiling for slow
  responses. It gives `PaceEndsWithWindow`. `QuotaStaysTrue`
  has an invariant of its own: no answer or record names a window to come, and
  for the running one it claims at least what is left. `LastOnesNotRefused` is about
  any number of workers, before the first answer that fails or lacks a header, which
  `impaired` records. By `RestInv`, whoever is told that nothing is left, or with a
  limit of ten or more that one request is, rests until the window ends. So a worker
  that is refused is another than the one that sent the window's last request, or the
  last two, which are at rest: of `n` workers at most `n - 1`, or `n - 2`, are refused
  in a window. `BudgetSuffices` follows for one worker, or two with a limit of ten or
  more: nobody is left to be refused. With a third worker somebody is, which is a
  finding below.
  `OnlySlownessDelays` rests on the average never being below the shortest time that
  was recorded: then twice the average, which the sample has to exceed, is more than
  twice that time, in whatever order workers record.
* **Pagination.** `WalkFollowsLinks`, `SuccessHasReason`, `WalkIsBounded` and
  `EverythingMergedOnce`, for any pages and links. The last says that an
  order-preserving map takes what is merged onto the steps that brought items: a page
  with items makes the map longer by one, another leaves it as it is.
  `WalkGetsCloser` is what `WalkEnds` needs beside fairness: at most
  `2 * MaxPages + 2` steps are left, none exactly when the walk has returned, and every
  step that is no stuttering leaves fewer, also where links lead in a circle.
* **TypeResolver.** `IInv` says that names under way are reserved among the
  models, that models have names of schemas, and that every mention, also in the
  half-finished bodies on the stack, is declared. It gives `NamesAlwaysDeclared`
  for any schemas and identifiers, shared ones included, until a model gives way to the
  service; of what is mentioned then it speaks only as far as `resolveNameCollisions`
  rewrites it, which is not definitions that are a bare name nor the variants of unions
  (section 6). The renaming rests on there being a name that no model has, found by a
  least-element argument.
  `NamesDeclaredOnce` adds that a name's map follows from the kind of its schema, and
  `DefinitionsStay` that no two frames of the stack are at work on the same
  definition, which for each is reserved and not there yet, so that none is written
  twice.
  `CompositionsComplete` needs what a composition collects. `Collect` is a recursive
  function over the depth, whose existence is itself a lemma; at each depth it says
  what is said by the members one level down (`LevelSays`). What it finds comes from
  an object in every set that has the composition and, with a composition, its members
  (`FoundIsComposed`). Conversely, each such object is reached by members of members
  that name no composition twice (`ReachedThroughMember` leaves out the one it starts
  from): by a chain of compositions each of which is a member of the one before. That no
  such chain is longer than the depth bound follows (`ShortChains`) is the hypothesis of
  the property; how many schemas there are does not matter (`NothingMissed`).
  `ResolutionGetsCloser` is the part of termination that is no liveness: every step
  adds a name, of which there are finitely many, or leaves the names and does less of
  what the stack has still to do.
* **Generate.** `IInv` says how far a full run is: after its cleaning there is
  nothing but files of its snapshot, and all but those still to do (`Progress`); and,
  as long as no run died or failed, that the root client names packages of some
  snapshot which are there or are yet to be written (`RootFits`). From it:
  `FullRunsAreWhole`, `RootStaysCoherent`, `OnePackageTouched` as an action property
  and `NothingStaleVerified`. `FreshCommitsVerified` is the converse of the last: what
  is committed right after a full run from the newest snapshot passes the verification,
  also when `git commit -a` left the new files out. It needs `Accepted`: `gofmt` has not
  rejected what a run has written so far, and a snapshot that a full run finished with
  generates, so that the verification, which runs the generator again, does not fail.
* **Unions.** `Owned` says that whoever has a `Raw` has an array behind it; that whoever
  shares that array was copied with its owner, and is in the same group of copies; that
  the array of a union that was not disturbed holds the payload it was decoded from
  last; and that the variant of that payload's kind is what the payload reads as,
  disturbed or not, since a decode makes an object of its own. From it:
  `UnknownKindsRoundTrip`, `KnownKindsRoundTrip`, for which a field that reads is written
  as it was (`ReadWritten`), and `UnionsAreValues`, the refinement of `UnionValues`.
* **Operations.** `IInv` says that every request on the wire is one of a builder that no
  longer changes, that a caller's context without a deadline keeps having none, and that
  what is merged is what was answered so far. From it: `TypeCorrect`, by which what is
  left of a caller's deadline is never negative, `PagesCarryAll`,
  `PagesHaveWholeBudget`, `WholeResultOrError`, `ErrorsFromOneShape`.
  `RequestsAsSpecified` adds that the builder came from the specification of the method
  that is called (`OfSpecification`) and that the options leave the body of the request
  and a type for it (`Prepared`). That every generated method fills its path is a
  hypothesis of the theorem, which the run checks for the 323 of the catalogue; of
  methods built from a specification nothing is assumed but its order. That the
  arguments fill the placeholders needs the rule by which the collector takes arguments
  from declarations: of several with one name the last counts, and for a placeholder
  each of them is one in the path.
* **Collector.** `IInv` says that a run that writes owns the newest record of
  all, whose files are those its phase implies, that names are unique, that one
  snapshot is the newest, and that what a checkout brings or a pull request
  carries is complete. From it: `RepositoryStaysComplete`, `PullsCarryTheirCode`,
  `NothingMissedInCI` where runs start from a checkout, and, as an action property,
  `CompleteSnapshotsKept`: a run that writes, or is interrupted while it does, replaces
  nothing but the record of its own time, which is not complete before its last file.
  `CaughtUpStays` is the half of `CatchesUp` that is no liveness. `CaughtUp` says that the
  newest snapshot is what is published and that nothing else is under way: what the
  run has fetched is published, every pull request newer than the baseline carries it,
  and in a shared directory no run is about to write. No start, step, interruption or
  merge ends that before upstream changes.

Only model-checked: all liveness (of `EveryCallReturns`, `CancelledCallReturns`,
`ResolutionEnds` and `WalkEnds` the ranking is proved, and of `CatchesUp` that it stays
so; the rest is fairness), and `KnownAlike` and `KnownIsDecoded`, which are about the
concrete tables of the generated packages: a run evaluates them on exactly those tables,
and there is no constant to quantify over.

## 5. What is not modelled

* `models.go` of the generated packages, `models.go.tmpl` and the root client: some
  28,000 lines that declare structs and construct services, without control.
* Of the generated code, the text: names of constants, comments, the order of
  declarations, the spelling of identifiers.
* `NewTransport` and its options: assignments that are over before the first request.
* Parsing of YAML and JSON, of which the models keep whether it succeeds; the
  operation-level difference of two specifications and the text of reports, which
  decide nothing.
* The waiting times of resty and its headers. Its retry conditions are in `Retry`, as
  external.
* Tracing, response accessors, constants, the test server and examples, which have no
  state or logic of their own.

## 6. Findings

Each is a run that TLC refutes, against a sentence of the repository.

* `opted_out_doc`: a PUT that opted out with `DisableRetry` is sent again after a 429, a
  5xx or a temporary error, because resty's own retry conditions stay on beside
  `retryCondition` (`transport.go:136`), where `no_retry.go:9` has "must never be retried
  by the transport". For the same reason a 429 is retried for any idempotent verb, where
  `retry.go:23` has "Definitive client errors (4xx excluding 408) are never retried".
* `torn_snapshot_doc`: a truncated `api.yaml` is not skipped but becomes the
  baseline and fails every later run on that directory (`snapshot.go:93`).
* `recursion_doc`: a schema that refers to itself becomes a struct that contains
  itself by value, since the pointer that was to break the recursion is never
  reached (`types.go:323`).

Seen while modelling and not given a run:

**Client.** A caller's deadline that is later than the total retry budget switches
the budget off (`transport.go:266`). A caller who bounds a walk by the runaway
default or more gets the runaway error (`pagination.go:158`). Three workers that pace
themselves still earn a 429, because each paces as though the rest of the quota were
its own (`ratelimit.go:98`). Headers of failures, a 429 included, are never recorded,
although `transport.go:36` has "on every response"; two answers observed in the wrong
order leave the older quota in `RateLimit()`. The average takes in the sample it is
then compared with, so a delay needs a response of more than 8/3 of the average
before it, where the comment has "more than twice the current EMA"; the tracker also
runs for answers that had quota headers but no pace, although its comment has "for
endpoints that report no quota headers". Both sleeps hold the slot and ignore the
context. A network error without a response gives `retryCondition` no verb to judge, so
only resty's conditions can retry it. A retry count of zero means three
(`transport.go:109`). Options are applied in
a fixed order, a proxy or TLS setting before the HTTP transport that replaces what it
was set on. A page in the middle of a walk whose `_links` does not fit `halPage` ends
the walk as a success (`pagination.go:142`), as one without `_links` does on purpose. A
builder that is executed a second time under a budget runs under the context the first
call cancelled; generated methods make a new one for each call. Fields beside the
collection of a paginated answer are dropped. Arguments are put into the path
unescaped. `WithAccountGroupID("")` cannot clear the client's account group. An error
body of the legacy shape with a message of blanks gives an empty message.

**Generated values.** A union that is copied shares the array behind `Raw`: decoding
again into the original, as a loop over one variable that appends copies does, changes
the copies' `Raw` (`unions.go.tmpl:26`), and a copy of unknown kind then sends
something else. `Raw` is empty after a constructor, though it is to be "always
populated". A discriminator set by hand to an unknown kind sends the stale `Raw`; one
set to a known kind drops another's variant without an error; a decode that fails into
a union that was in use keeps the variant it had. `omitempty` never omits a templated
value, so what was absent is sent as null. `NewValue("{{x}}")` reads back as an
expression, and an expression whose text does not decode as the field's type, as in
`templating.TemplatedValue[int]` (`templates/models.go:479`), is sent as a string that
cannot be read back (`templated_value.go:107-123`). The counts of `README.md` (315
operations, 641 enumerations, 18 unions) are older than the generated code (323, 667, 19).

**Collector.** A run that dies between its two files leaves a baseline without a
catalogue, and as long as the specification does not change no later run reports a
change of the catalogue. A dry run writes the pull request body, although its usage
says "write nothing".

**Generator.** A model that gives way to the service keeps its old name in
definitions that are the bare name and in the variants of unions, and an enum or a
union of the service's name does not give way at all. An optional property whose type
is a named scalar, an alias of a struct, or a union takes no pointer, so its zero
cannot be told from its absence, or it is sent when unset. Two schemas that reduce to
one identifier share the definition of the first, as two enumerations do. The values
of a discriminator keep a kind whose variant was skipped (`types.go:652`); none of the
generated unions has one. Parameters are told apart by name alone, where OpenAPI tells
them apart by name and place. A run for one tag leaves an `enums.go` or `unions.go`
that has become empty, and a rejected file stays beside the tree as `.broken` where
the root client is concerned. `git diff` ignores untracked files
(`codegen-verify.yml:70`), so a commit that lacks a new package passes, and so does
one that lacks the packages a dead run had removed, when the verification finds only
files that are there unchanged.

## 7. Running the checks

    tlc -config TransportCalls.cfg MCTransport
    tlapm TransportProofs.tla

`PROJECT.json` lists each run with its module, configuration and properties, the
mutants, the lines of source each definition models, and the theorems.
