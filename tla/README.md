# dandi in TLA+

[dandi](https://github.com/just-dandi/dandi) is a TypeScript framework: a
dependency injector (`packages/dandi/core`), the start of an application, an
HTTP pipeline with an MVC layer on top of it, and adapters to hosts, databases
and services (`packages/dandi-contrib`). JavaScript runs one step at a time, but
almost everything in dandi is `async`: two injections, two queries of one
transaction, or a dispose and whatever it disposes, interleave at every
`await`. That is what these modules model. A step of a model is the code that
runs between two awaits; an `await` is a boundary at which every other step may
happen.

Contents: [the system](#the-system), [the modules](#the-modules),
[the runs](#the-runs), [fairness](#fairness), [the proofs](#the-proofs),
[what the runs found](#what-the-runs-found),
[what is not modelled](#what-is-not-modelled), [the plan](#the-plan).

To check a run: `tlc -config <cfg> <MC module>`; to check the proofs:
`tlapm AsyncMutexProofs.tla`, and likewise `PgTransactionProofs`,
`InjectorFindProofs`, `InjectorInstancesProofs`, `HttpPipelineProofs`,
`ApplicationInitProofs`, `ComponentsProofs` and `MvcProofs`. `PROJECT.json` lists, for every
component, definition, property and theorem, the code it stands for.

## The system

Paths are relative to `src/packages`; `dandi/` holds the framework,
`dandi-contrib/` the adapters.

| component | state | operations | talks to |
|---|---|---|---|
| `AsyncMutex` (`dandi/common`) | `MUTEXES`: lock object to mutex; the queue of locks of a mutex | `for`, `getLock`, `runLocked`, `release`, `dispose` | `Disposable`; used by `data-pg`, `mvc-view` |
| `Disposable` (`dandi/common`) | marks on an object: disposing, disposed | `dispose`, `use`, `useAsync`, `remapDisposed`, `makeDisposable` | everything that has a `dispose` |
| transactions (`dandi-contrib/data-pg`) | client: `state` of a transaction, its pool client; server: the open transaction | `query`, `queryModel(Single)`, `commit`, `rollback`, `dispose`; `PgDbClient.transaction`, `dispose` | the mutex of the pool client; PostgreSQL |
| DI injector (`dandi/core/internal`) | tree of contexts; per context `findCache`, `instanceRequests`; per repository providers, instances, children | `inject`, `invoke`, `createChild`, `register`, `find`, `dispose` | providers' constructors and factories; `dispose` of instances |
| scopes, restrictions, providers (`core/internal/util`, `core/types`) | the scope of each context; the context that keeps an instance | `isProvider`, `scopesAreCompatible`, `findInstanceContext` | injector |
| application start (`core/internal`) | `initialized`, `started`, root and app injector, queued log entries | `run`, `preInit`, `init`, `scan`, `runConfig`, `bootstrap` | injector, scanners, config callbacks |
| logging | queue of `QueueingLogger`, log stream | `log`, `flush` | application start |
| HTTP pipeline (`http-pipeline`) | per request: the results of the steps, the response | `handleRequest`, preparers, handler, error handlers, transformers, render, terminate | injector (a child per request), MVC |
| CORS (`http-pipeline/src/cors`) | none | `isCorsRequest`, `corsRequestAllowed`, headers | pipeline, routes |
| body parsing, rendering (`http-pipeline`, `http`) | a cache of parsers | choice by content type or accept header; parsers of text, JSON, forms, multipart forms | pipeline |
| MVC (`mvc`, `mvc-express`) | metadata of controllers, routes, bindings | decorators, `generateRoutes`, `mapRoute`, authorization, `execRoute` | pipeline, Express |
| views (`mvc-view`) | cache of resolved views | choice of a view; `resolve` | files, pipeline |
| HAL (`hal`, `mvc-hal`) | resources being composed | `compose`, `executeEmbed` | controllers, pipeline |
| models (`model`, `model-builder`, `http-model`) | metadata of members | decorators, `constructModel`, `constructMember` | request bodies and parameters |
| caches (`cache`) | entries, expiry timers | `get`, `set`, `delete`, `clear` | `setTimeout`, other caches |
| RxJS (`rxjs`) | buffer and trigger of `DequeueReplaySubject` | `next`, `subscribe`, dequeue | observers |
| builder (`src/builder`) | configurations written; versions published; the registry | commands: build, publish, ... | npm, tsc |
| config, AWS Lambda, Sentry, SendGrid, Firebase | mostly none; Lambda keeps the started application | one call per event | outside services |
| examples, test helpers | not part of a running system | | |

What is hard about them, and what makes them correct:

* **Mutex.** A lock request links itself to the last lock and awaits it while
  locks are released, requested, and mutexes are disposed and made anew. At most
  one holder per lock object, no request lost or overtaken, every request served.
* **Transaction.** Error handlers roll back from inside a locked task; calls may
  be concurrent; any statement may fail; the transaction function may throw, or
  leave calls behind; the application may shut down. The client's idea of the
  transaction must agree with the server's, no write may become durable outside
  a transaction or be lost after success was reported, the connection must go
  back to the pool clean, and nothing may deadlock.
* **Injector.** Injections of one singleton race; constructors and dependencies
  fail while others wait for them; contexts are disposed while injections are
  under way; answers of `find` are cached in contexts that shadow one another
  and share repositories. One instance per home, failures leave nothing behind,
  every instance is disposed and none before those that use it, everything
  settles, and the cache is invisible.
* **HTTP pipeline.** Every step may fail, and so may a handler of errors;
  some steps hand their errors to the error handlers and go on with what these
  return, others reject the request; hooks run at once; the caller of the
  pipeline disposes the request's injector and answers with what has been
  rejected. A request must be answered, and once; its handler must not run
  before what guards it; a failure must not be answered as a success; CORS
  headers must survive failures.
* **Application start.** Calls of `run()` may overlap, or retry one that has
  failed; scanners and callbacks that run in parallel may end after another one
  has failed the start; the application may be disposed at any point. The entry
  point must run once and only when everything is registered, log entries must
  reach their listeners, disposal must reach every injector made on the way.
* **Scopes.** Restrictions of tokens, providers and injectors compete, and the
  scopes compared are of five kinds with different fields. An instance must be
  kept in the context its restriction names, or the request fail.
* **Routes.** Decorators run in any order and share metadata that the first of
  them makes; a preflight evaluates the siblings of its route. No condition may
  get lost, and a preflight must agree with the request that follows it.
* **Bodies, rendering, models, views, HAL.** The caches of parsers and views are
  shared by all requests; parts and resources are handled in parallel, files
  come and go, renderers and calls fail while others go on. A part of a body
  that the code cannot read properly must not disturb the others, the next best
  renderer must answer, what was asked for be embedded and nothing else.
* **Caches.** Timers of entries that were replaced must not touch their
  successors. **Replay subject.** Observers call the subject from within its
  calls. **Builder.** A command fails while what it has begun goes on, and is
  run again: nothing may be published before what it depends on.

## The modules

### FifoLock, AsyncMutex

`FifoLock` is what a lock promises to the code that runs under it: per lock a
queue of requests of which the first may hold the lock. `AsyncMutex` is
`dandi/common/src/async-mutex.ts` with the parts of `disposable.ts` that decide
about locks, and implements `FifoLock` (`ImplementsFifoLock`): the queue is
`locks`, the holders are the requests that are `held` or `abandoned`.

| code | model |
|---|---|
| `MUTEXES`, `AsyncMutex.for` | `mutexes`, `For` |
| `getLock` up to `await prevLock[RELEASED]` | `GetLock` |
| `getLock` after it, with the check of the DISPOSED mark | `Grant`, `Resolved` |
| `release` (the `dispose` of a lock) | `Release` |
| `useAsync` skipping the release of a lock that looks disposed | `Abandon`, `CanDisposeLock` |
| `AsyncMutex.dispose` before and after its await | `DisposeMutex`, `FinishDispose` |
| `Disposable.dispose(lockObject)` by others | `MarkDisposing`, `RemapObject` |

A lock is made with `Object.create(lockObject)`, so it inherits the marks of its
lock object: that is why `Disposable.dispose(lockObject)` makes the `finally` of
`useAsync` skip the release of its locks.

### PgTransaction

One call of `PgDbClient.transaction(fn)`. The client part (`state`, `queue`,
`stage`, ...) is `PgDbTransactionClient`; `queue` is a `FifoLock` queue whose
entries are the `runLocked` tasks of calls and of `dispose()`. The server part
(`conn`, `written`, `committed`, `loose`) is PostgreSQL as this code uses it and
is marked external. Every statement may fail, `COMMIT` of an aborted transaction
rolls back without an error, and what is written outside a transaction is durable
at once. Each operation is split at its awaits: *Refused* (the state does not
allow it, or the client has been remapped), *Sends* / *Begins*, *Succeeds*,
*Fails*; `ModelFails` is a query whose rows cannot be turned into models.
`ahead` is a history: the commits that a failing query finds waiting for the
lock when it joins the queue for its rollback (`CommitsWaiting`).
`tidy` says whether the transaction function awaits all calls before it
settles; `Shutdown` is `PgDbClient.dispose` while it runs. `faulted` records
that a `BEGIN` or `ROLLBACK` has failed: the code leaves its state machine in a
state from which it does not recover, so most properties are stated for
transactions in which they did not.

### InjectorFind

`DandiInjectorContext.find` with `findCache` on a tree of contexts that grows,
is searched, registered with, and disposed in any order. A context is given by its
`path` from the root. Children with one scope object under one repository
share a repository (`SameRepo`), which is named by the context it was made for.
A context whose repository has been disposed gets no children (`CreateChild`).
`Stops` is where the recursion `doFind`/`cachedFind` ends: at a context that has
a cached answer, that provides the token, or that throws because it, or its
repository, has been disposed. On the way back every context caches the answer
(`Cached`). `sought` and `late` are history variables: which tokens have been
found, and which were registered with a repository after that, when a cached
answer is legitimately older than the registry.

### InjectorInstances

What `inject()` does once tokens are fixed: a *job* is one call of `inject` for
one provider, made by the application or for a parameter of another provider.
The context of a job for a parameter is the child injector the generator makes
for it, so contexts are the named injectors and these jobs. The stages of a job
follow the awaits of `DandiInjector.inject` and `DandiGenerator`:

    new --Request / Generate--> resolved --+--FetchesInstance----> done
                                           +--FetchesRequest-----> waiting --Resumes--> done | failed
                                           +--Generates----------> generating --Created | NotCreated--> done | failed
                                           +--GeneratesForNobody-> done (undefined)
                                           +--FetchFails---------> failed

`home` is the context chosen by `findInstanceContext` *before* the dependencies
are awaited. Disposal of an injector is `BeginDispose` (which reaches every child that
is not disposing itself, in one step), `Clear` (children are done: forget
everything and tell the instances to dispose themselves), `EndDispose`, or
`DisposeFails` and, above it, `DisposeFailsAbove`. Phases `stuck` and `broken`
are contexts whose disposal ended with an error.

The two injector modules split the component: `InjectorFind` has many providers
and shared repositories but no instances, `InjectorInstances` has instances,
failures and concurrency with one registration per token.

### HttpPipeline

One request on its way through `HttpPipeline.handleRequest` and its caller: the
route executor of `dandi/mvc` (`execRoute`) or the Lambda class
(`handleEvent`); `host` says which. `pc` is the step of the pipeline, named as
in the code; `result` is what the step before has provided.

| code | model |
|---|---|
| `execRoute` / `handleEvent` up to `injector.invoke(pipeline, ...)` | `Start`, `StartFails`, `Authorize`, `EnterPipeline` |
| `config.before`, one preparer after the other | `Prepare`, `StepRejects` |
| `beforeInvokeHandler`: all hooks at once, `Promise.all` | `BeforeInvoke`, `HooksNotInjected`, `HookDone`, `HookFails` |
| `checkCors` in `handleRequest` | `CheckCors` |
| `invokeHandler` | `InvokeHandler`, `HandlerFails` |
| `transformResult`, `executeTransformers` | `TransformResult`, `TransformersNotInjected`, `Transform`, `TransformerFails` |
| `renderResult` | `RenderResult`, `NoRenderer` |
| `safeInvokeStep`, `handleError`, `executeErrorHandlers` | `HandleError`, `ErrorHandled`, `ErrorHandlerFails`, `StepAfter` |
| a rejection, through `useAsync` and `catch` of the caller | `Reject`, `EndDispose`, `CaughtAnswer` |
| `terminateResponse` and its Lambda subclass | `Terminate`, `TerminatorFails`, `ResponseOf` |

What is abstracted: a body is left out, a response is a status (unset, success,
error) and headers that remember whose result they come from; whether CORS
allows the request is an input. `faults` is a history of what has failed.
Transformers and error handlers are sequences of names, because their order
matters: CORS headers must be added whichever transformer fails before or
after, and the status of `DefaultHttpPipelineErrorHandler` must survive handlers
that come after it. `CorsTransformer` is always one of the transformers
(`CorsTransformerAssumption`), as `HttpPipelineModule` registers it itself.

### PipelinePreparers

What `HttpPipeline` takes for one step, `Prepare`: the preparers of
`config.before`, one after the other, each with those it depends on.

| code | model |
|---|---|
| `@HttpPipelinePreparer(...deps)` | `DepsOfPreparer` |
| `httpPipelinePreparerResultProvider`: `deps`, `providers` | `Dependencies`, `Below` |
| `generateForFactoryProvider`: all dependencies are asked for at once | `AskedFor`, `InjectResult`, `PreparerFails` |
| the factory: `preparerInjector.inject(preparer)`, `prepare(req)`, `concat` | `RunPreparer`, `PreparerReturns` |
| the loop of `HttpPipeline.prepare` | `NextPreparer`, `PrepareEnds` |

`httpPipelinePreparerResultProvider` makes a new provider each time it is
called, and a preparer's provider brings new ones for its dependencies; an
injector knows an instance by its token, but a request under way by its
provider. So what is asked for is named by the path of preparers that leads to
it, what is kept by the preparer alone.

### ApplicationInit

`DandiApplicationInit` and the `DandiApplication` around it: `Run(r)` is a call
of `run()` (or `start()`), and `pc[r]` the method it is in.

| code | model |
|---|---|
| `run()` up to its first await, with the test of `started` | `Run`, `RefusesRun` |
| `preInit`: root injector, providers, `makeDisposable` | `MakeRoot`, `DisposesToo` |
| `preInit`: `appInjector`, `initialized` | `InitRoot` |
| `runConfigInternal` with `LoggerConfig` | `ConfigInternal` |
| `init`: `flush`, `this.logger = logger`; `scan` | `InitApplication`, `FlushFails`, `ScannerEnds`, `ScannerFails` |
| `started = true`, `runConfig` | `Scanned`, `ConfigEnds`, `ConfigFails`, `Configured` |
| `bootstrap`, `Bootstrapper.run` | `Bootstrap`, `EntryPointEnds` |
| `DandiApplication.dispose`, `DandiInjector.dispose` of a root | `Dispose`, `RootDisposed` |
| `QueueingLogger`, `ContextualLogger`, `LogStream` | `queue`, `logger`, `subscribed`, `seen`, `Log`, `Deliver` |

A root injector is named by the run that made it, since a start that fails in
`preInit` leaves its root injector behind and the next one makes another.
`injector[r]` is the `appInjector` that run `r` read last: overlapping runs
overwrite `appInjector` between two reads of another run. `raced`, `entered`
and `logged` are history variables.

### Scopes, Caches, DequeueReplay, PackageBuilder

| code | model |
|---|---|
| `isProvider`, `isClassProvider`, ... `scopesAreCompatible`, `getScopeRestriction` | `Scopes`: the operators of these names |
| `findInstanceContext`, a child context per instance being made | `FindInstanceContext`, `PathUp`; `GenerateInstance`, `CreateChildContext` |
| `MemoryCache` and its timers; `keyFor`; `CascadingCache` | `Caches`: `SetEntry`, `DeleteEntry`, `ClearMemory`, `TimerFires`; `KeyFor`, `Joined`; `BeginGet`, `AskRemote` |
| `DequeueReplaySubject`, operator `dequeueReplay` | `DequeueReplay`: `NextValue`, `Subscribe`, `Replay`, `Subscribed`, `TriggerEmits`, `TriggerFails`; `Call` |
| the commands of the builder, and `Publisher` | `PackageBuilder`: `Run`, `TaskEnds`, `TaskFails`, `PhaseDone`, `Exit`; `NextBatch`, `FindVersion`, `SpawnPublish`, ... |

In `DequeueReplay` there is no event loop: RxJS calls observers synchronously,
so the model has a stack of calls, and code outside may act only when the stack
is empty or an observer has just been called. The values are told apart, and
what an observer is owed (`owed`, a history variable) is a set: the order is
that of `sent`. In `Caches` the clock is explicit
and a timer may fire late. In `PackageBuilder` a process ends at the first
failure; npm processes that it has begun (`orphans`) and the registry outlive it.

### Routing, RouteRequests

`Routing` goes from decorators to bindings: the decorations of an application
are a set, which is applied in any order that has members before their class;
`generateRoutes` and the mapping to Express follow. `RouteRequests` extends it
with requests: authorization, then CORS as in `CorsPreparer`, `CorsHandler` and
`CorsTransformer`. `HttpPipeline` takes the answer of CORS for an input;
`RouteRequests` says what it is.

### Negotiation, BodyParsing, Models, ViewResolver, HalComposer

The parts that work on what is sent and answered. Values are kept as far as the
code tells them apart: an entry of an `Accept` header has a type and a weight,
and whether the weight is written with a decimal point, because the pattern that
reads it needs one; a directive says whether its value has a colon, because
`splitRawHeader` cuts there. The cache of renderers is registered below the
provider that reads it, so it is empty whenever it is read and no variable.
In `BodyParsing` a part is the sequence of blocks between its
blank lines and an entry of a form what stands between its signs `=`, so that
the model does with them what the code does:

| code | model |
|---|---|
| `part.trim()`, `prepPart` | `Held`, `First`, `IsSingle`: blank blocks at the ends go; `PartHeaders`, `ContentOf`: the first block that is left is the headers, or the content if it is the only one; `Prepared`: a blank second block makes it no part |
| `Object.assign` of the results | `Assign`; `Spread`: text without a name is an object with a character per index, of which `"0"` is modelled |
| `entry.split('=')`, `decodeURIComponent(rawValue)` | `KeyOf` (not decoded), `ValueOf` (up to the second `=`; the text `undefined` without any), `CannotBeDecoded` |

`BodyParsing` parses the parts of a body in any
order and merges them when all are done. `Models` applies decorators in any
order, then builds models (by recursive operators, so it is checked, not
proved) and nests dotted keys. In `ViewResolver` one step is one `exists()`.
`HalComposer` names a call of a controller and a resource by its place in the
tree, `<<>>` being the result of the route: `composedCalls[c]` is the call that
embeds, `composed[Append(c, k)]` the k-th resource that it returned. The
metadata of a class are made by the first decorator for it, or for a class that
extends it, and inherit the accessors that its parent has at that moment;
`decoratorOrder` is the order of decorators (one of `DecoratorOrders`), from
which `HasAccessor` follows. `RenderResponse` is `toJSON` of the composed root, which
fails where null has been embedded for a single resource; a resource without an
id fails when its links need one (`idless` in `ControllerReturns`).

## The runs

| run | module, cfg | checks | distinct states |
|---|---|---|---|
| `mutex` | `MCAsyncMutex.cfg` | `ObjectExclusion`, `ImplementsFifoLock`, `EveryRequestServed` | 285,081 |
| `tx` | `MCPgTransaction.cfg` | seven safety properties of a transaction | 285,818 |
| `tx_liveness` | `MCPgTransactionLiveness.cfg` | `TransactionSettles` | 54,002 |
| `tx_throw` | `MCPgTransactionThrow.cfg` | `ThrowRollsBack` (violated) | |
| `find` | `MCInjectorFind.cfg` | `CacheIsNearest` | 30,222 |
| `find_parents_only` | `MCInjectorFindParentsOnly.cfg` | `ParentsOnlyFromParents` (violated) | |
| `instances` | `MCInjectorInstances.cfg` | six safety properties, `EverythingSettles` | 142,531 |
| `http` | `MCHttpPipeline.cfg` | `AnsweredOnce`, `HandlerGuarded`, `FailuresReported`, `CorsHeadersKept`, `EveryRequestAnswered` | 17,436 |
| `http_lambda` | `MCHttpPipelineLambda.cfg` | `EventHeadersOnly` (violated) | |
| `app_start` | `MCApplicationInit.cfg` | `ReadyToEnter`, `LogsSeen`, `DisposeReachesAll`, `RunsSettle` | 98,548 |
| `components` | `MCComponents.cfg` | one property of each component in the table below | 530,672 |
| `hal_embed` | `MCHalComposerNested.cfg` | `AnswerableIsComposed` (violated) | |

The run `components` checks eleven components that share no state (`Routing` and
`RouteRequests` are one, with a property each). Its states are
the union of theirs, not the product: a variable `which` picks the component
that moves, the others stay as they begin. `MCServices` has the instances of
the first four, `MCComponents` adds those of the others.

| component | property | what it says |
|---|---|---|
| `DequeueReplay` | `SeesWhatIsQueued` | a subscriber receives what was queued and what comes later, once and in order |
| `Caches` | `EntriesAreKept` | an entry stays until deleted, replaced or out of date, and no longer |
| `Scopes` | `KeptWhereMeant` | an instance is kept where its restriction says, and the search fails only if there is no such place |
| `PackageBuilder` | `DependenciesFirst` | nothing is published before what it depends on is visible, whatever failed before |
| `PipelinePreparers` | `PreparedInOrder` | a preparer runs after what it depends on and sees what that provides, and once unless two preparers ask for it at once |
| `Negotiation` | `BestRendererAnswers` | no renderer is passed over that the request prefers and that can be injected |
| `BodyParsing` | `BodiesSurvive` | a field with content arrives, whatever other parts are like and whichever is parsed first, unless a later part adds its name; the values of a key, as the code reads them, in order |
| `Routing` | `RoutesAsDeclared` | the routes are those of the decorators, with all conditions and CORS, in any order |
| `RouteRequests` | `ServedAsDeclared` | conditions hold for what is handled; preflights agree with requests, in origin and credentials |
| `Models` | `ModelsAsDeclared` | what is built fits what is declared, at every depth |
| `ViewResolver` | `PreferredView` | a template is taken only if all preferred to it were missing |
| `HalComposer` | `EmbedsWhatIsAsked` | what was asked for is embedded, and nothing fails but for what a controller does |

No run checks for deadlock: all these systems may stop, having nothing to do
(every request served, every bound used up). The liveness properties say what
must have happened by then.

Why the bounds are enough:

* *mutex*: one lock object (objects do not interact), three mutexes (a mutex is
  disposed, its successor is made, and disposing the first one again forgets
  the successor), three requests (the least for a request to be overtaken, or
  to wait behind one that waits).
* *tx*: three calls: one that fails, one queued behind it before its rollback,
  one that comes between that and the next rollback. Two for liveness, without
  symmetry; that a call waits for a lock it holds needs only one.
* *find*: the root and three contexts, two scopes, one token with two providers:
  a grandchild that caches what a child shadows, siblings that share a
  repository, a context disposed below or above an answer. Tokens do not affect
  one another, so each run has one token; that `CacheIsNearest` holds for any
  number of anything is proved.
* *instances*: root, application and request injector; a singleton of the
  application with a `perInjector` dependency, and a provider kept by the
  request that depends on it. Two injections race for both, six jobs are what
  two complete injections need, and both injectors may be disposed, in either
  order or at once. Every constructor and every `dispose` may fail.
* *http*: one request, on either host: with MVC requests share nothing, and the
  response that the events of a Lambda share does not decide which steps are
  taken. Two preparers, three hooks (one fails while others still run), a
  transformer before and one after that for CORS, and an error handler after
  the default one. The Lambda run has two events, the least to share a header,
  and `CorsTransformer` alone, the fewest transformers a pipeline can have.
* *app_start*: two calls of `run()`, which overlap or of which the second
  retries a failed start or must be refused; two scanners and two callbacks, so
  that one may end after another has failed the start. With and without a
  `LogStream`. More runs, scanners and callbacks are covered by the proofs.
* *components*: three values, two subscribers, and calls two deep (a callback
  within a callback); two keys whose arguments have the same characters, two
  stored entries, so that one replaces the other while its timer is pending;
  contexts to a depth of four with two instances, of seven providers that
  differ in kind and restriction; three packages in a chain, in a circle, with
  an unknown and with an unreadable one, and two commands in a row; preparers
  that depend on one another in a chain and in a diamond, with those they depend
  on configured before and after them; three
  requests with nine headers and three renderers that share types; two bodies
  after one another out of eighteen, of which the multipart ones have fields
  without content, parts without headers, blank lines at either end, colons in
  headers, and names that come twice, the forms values with a second `=`,
  entries without one, and some that cannot be decoded; four applications, one request each from
  all combinations of origin, caller, method and path; four view requests, two
  at once, with files that change twice; lists of two resources, embedded two
  deep, by seven combinations of paths, with the decorators of a class before and
  after those of one that extends it.

For each property of a passing run `PROJECT.json` names a *mutant*: a change of
a definition that a plausible bug of the code would make (a link to the wrong
lock, a rollback awaited with the lock held, a request not removed after a
failure, ...), under which TLC finds the property violated. The mutated forms
stand next to the definitions they replace, and nothing else uses them.

What the properties say, beyond the module comments:

* `RolledBackBeforeFailure` and `FailedQueryNotDurable` concern the window
  between a failed query and its rollback, which joins the lock's queue *behind*
  calls that are waiting. A `commit()` made in the window runs first and makes
  what the query wrote durable before its failure is reported: the code does
  not promise that a query which fails has been rolled back. What it does is
  that, when the failure is reported, no open transaction has anything the query wrote and the
  transaction is over, and that what it wrote is durable only if a `commit()` that was
  *already waiting* when it failed (`ahead`) has succeeded; one made later comes
  too late. `FailedQueryNotDurable` excludes calls of `commit()` by the
  transaction function.
* `NothingSentAfterRelease` needs `ProperUse`: without it, late calls do send
  statements on a pool client that has been released.
* `UsersDisposedFirst` excepts contexts that were disposing already, or that
  were created after the disposal above them began: the code does not await
  those.
* `NotUndefined` says how far a required injection can be trusted when its
  context is disposed meanwhile: as long as its registry and its cache are there
  it does not resolve to undefined. Without the cache (its mutant) it would.
* `AnsweredOnce` excepts requests of which an instance fails to dispose itself:
  `execRoute` then sends an error on a response that has been ended already.
  `HandlerGuarded` excepts hooks that are still running when another one has
  failed, whose error has been handled: the code goes on to the handler then.
* `EntersOnce` (proved) and `ReadyToEnter` except calls of `run()` that overlap before
  `started` is set, which the code does not refuse. `LogsSeen` excepts these and
  a retry after an `OnConfigInternal` callback has failed: `preInit` is
  skipped then, so nobody ever subscribes to the stream.
* `DisposeReachesAll` is about the start of disposal. The `dispose` that
  `makeDisposable` wraps around an earlier one does not await it, so
  `DandiApplication.dispose` may resolve before older root injectors are done.

* `SeesWhatIsQueued` excepts subscribers whose replay was disturbed (the queue
  changed while it was replayed by index) and those that a nested `next()`
  overtook; even these receive nothing twice.
* `EntriesAreKept` excepts durations that `setTimeout` cannot represent, whose
  entries expire at once, and falsy values, which the cascade skips.
* `ServedAsDeclared` says of preflights what the code can keep: what is
  permitted is not denied, and is answered with the same origin. A preflight is
  answered with the settings of the route of the path that was mapped first, so
  the credentials are the same, and what is handled has been permitted, only if
  the routes of the path have the same CORS. If they have not, a page may be
  told that credentials are allowed by a preflight and not by the answer, or
  the other way round.
* `BodiesSurvive` says what survives of a body, since not all does: see
  *Bodies* under [what the runs found](#what-the-runs-found). It holds of fields
  with one name and content right after the blank line (`IsField`); of all
  other parts, what they may add or overwrite (`MayAdd`).
* `CacheIsNearest` excepts contexts whose repositories are being disposed:
  `Dispose` is one step for the repository's and the context's disposal, so the
  states between the two are not told apart.

## Fairness

* `AsyncMutex`: a request whose previous lock was released resumes, and the
  function run under a lock settles (`useAsync` then releases). The second is an
  assumption about callers; without it no lock is fair.
* `PgTransaction`: the event loop runs continuations (`Task`, `UseAsyncEnds`,
  `Remap`), the server answers every statement (with success or an error), and the
  transaction function settles once it may. That a query fails, or that `fn`
  throws, is never assumed either way.
* `InjectorInstances`: *some* job that can go on goes on, and *some* disposal
  that can go on goes on. This is weaker than what the event loop gives every
  promise; it suffices because a finite number of injections has a finite
  number of steps. Constructors and `dispose` methods are assumed to settle.
  Requests and disposals by the application are never forced to happen.

* `HttpPipeline`: a request that can go on goes on (the event loop), and each
  hook settles, as do preparers, handlers and transformers, which the pipeline
  awaits without a limit of time. Failing or succeeding is never forced.
* `ApplicationInit`: a run that can go on goes on, and each scanner, callback,
  entry point and disposal settles. `run` and `dispose` need never be called.

Safety runs use the specifications without fairness, except where one run has
both kinds of properties.

## The proofs

TLAPS checks these for every value of the constants; the runs check the same
formulas on the small instances above.

* **`AsyncMutexProofs`**: `TypeCorrect`; `QueueInvariant`: links, statuses and
  queue never disagree. `QueueInv` is inductive given the types: each lock of a queue waits
  for the one before it (`Chain`), every request in line is in its queue
  (`Queued`), once (`NoRepeats`), and no mutex ever carries the DISPOSED mark
  (`NeverMarked`, without which a grant could reject and leave a place in the
  queue that nobody gives up). From it follow `HolderIsFirstAlways` (the
  assertion 'should not happen!' in `release` never fails),
  `ObjectExclusionAlways`, whose own induction is that `MUTEXES` names the only
  mutex of an object until one is disposed, and `AsyncMutexImplementsFifoLock`,
  one step of `FifoLock` or a stutter per action.
* **`PgTransactionProofs`**: `TypeCorrect` (with `QueryInFlight`: the task of a
  query in flight belongs to a call), `NothingLooseAlways` and
  `StateMatchesServerAlways`. The invariant is `AgreementInv`: per statement in
  flight the state the client is in, and at rest one of three combinations of
  state and server transaction, the third being a failed commit whose
  rollback is in the queue; with it `QueryInside`, `ReleasedFirst` and
  `NothingInFlight`, which carry the argument over the disposal of the client.
  Then what the client keeps to for any set of calls.
  `CleanReleaseAlways`: under proper use, whoever waits in the queue has not
  settled and waits there once, for what it was called for or a rollback, and
  the disposer comes when all calls have settled (`UseInv`); so nobody changes
  the state before its commit or rollback, which is therefore allowed and ends
  the transaction (`CloseInv`). `NoLostWriteAlways`: as long as nothing has
  failed, what was reported done is in the transaction or durable (`KeptInv`).
  `FailedQueryNotDurableAlways`: what failed is in the queue for its
  rollback, or undone, and no commit can come before (`UndoneInv`).
  `NothingSentAlways` needs of `UseInv` that the queue is empty at the release.
  `RolledBackAlways` holds under any use: a call that is pending is in the
  queue, and has not been answered (`CallInv`); a commit that is in the queue
  before the rollback of a query was there when the query failed (`OnlyAhead`),
  and only such a one can have made durable what waits for its rollback (`DurableAhead`).
* **`InjectorFindProofs`**: `TypeCorrect` and `CacheIsNearestAlways`. The
  invariant `FindInv` adds to `CacheIsNearest`: paths are closed under prefixes
  (`PathInv`), contexts not yet created have nothing (`NewInv`), and a cached
  token has been sought (`SoughtInv`). The heart is `CacheFind`: below the
  context where the search stops nobody provides the token (`NoneBelow`), and if
  it stopped at a cached answer, that is the nearest provider of *that* context,
  whose path is a prefix of the path that was searched.
* **`InjectorInstancesProofs`**: `TypeCorrect`, `OneInstanceAlways`,
  `RequestsRunAlways`, `NothingLeaksAlways` and `NotUndefinedAlways`, for any
  tree of injectors, providers and restrictions. `InstancesInv` ties jobs and
  registries together in both directions: a pending request is that of a job
  that generates for this home and provider (`RequestInv`), and as long as a
  home has not been cleared, a job that generates is the pending request there,
  with no instance beside it, and one that has created an instance finds it
  kept (`KeptInv`). So two jobs with one home and provider are the same, and
  `Clear` disposes what was created. `CachedInv` is for `NotUndefined`: a job
  that has found its provider finds it again in the cache of its own context. Jobs that start
  others are treated once (`StartGrows`, `GrownInv`, `GrownKeeps`), as are all
  steps of disposal (`DisposalInv`: no home becomes readable again).
  `UsersDisposedFirstAlways` and `NoDeadDependenciesAlways` need more, `OrderInv`:
  paths are those of a tree (`PathsInv`), a home is on the path of its job, and
  a dependency is asked for in a child of its user's home (`LineageInv`); a
  context is cleared only when all it awaits is disposed, and only from above if
  it is that of a job (`ClearedInv`). From these, by induction along the path
  from a home down to that of the user (`DisposedBelow`): if the upper one is
  being cleared, all that were marked with it have been disposed.
* **`HttpPipelineProofs`**: `TypeCorrect`, for which the types are strengthened
  by what each step needs (`StageInv`: a step that reads a result has one).
  `AnsweredOnceAlways`: `AnswerInv` says that nothing is answered before the
  terminator, and by the caller only if the request was rejected, which means the
  terminator did not answer. `HandlerGuardedAlways`: `GuardInv` carries
  what a request has passed from step to step. `FailuresReportedAlways`:
  `FailureInv`, with `RecoveryInv` for the error handlers (once the default one
  is among those that are done the status is that of an error), for any order of
  transformers and error handlers. `CorsHeadersKeptAlways`: from
  `CorsTransformer` on the result carries the headers, unless a step that would
  lose them has failed and stays in `faults` (`CorsInv`), and so do the answers
  made of it (`CorsAnswers`).
* **`ApplicationInitProofs`**: `TypeCorrect`; `EntersOnceAlways` from `OrderInv`
  (unless calls have overlapped one run at most is under way, and none that has
  not reached its entry point once another one has); `ReadyToEnterAlways` from
  `ReadyInv`, which needs `OrderInv` to know that nobody replaces the
  application injector meanwhile; `LogsSeenAlways` from `LogInv` (until the
  `QueueingLogger` is replaced all entries are in its queue; then the listeners
  of the application that replaced it have seen all); `DisposeReachesAllAlways`
  from `RootInv` (a root injector is registered with the host as it is made).
* **`ComponentsProofs`**: six components of the run `components`.
  `DependenciesFirstAlways` (builder): a phase has the files of the one before
  it (`PreparedInv`), a batch consists of packages whose dependencies this
  process has published, and what it has published or is done with can be seen
  (`BatchInv`); that nothing is left but circles when `publish()` ends is an
  argument about the order that a set of packages without circles has.
  `EntriesAreKeptAlways` (caches): `TimersInv` says that `timeouts` names the
  one pending timer of an entry, so that no timer of an earlier entry can delete
  a later one; `EntryInv` and `GetInv` relate the map to what callers stored.
  `SeesWhatIsQueuedAlways` (`dequeueReplay`): the queue is in order, no
  observer is registered twice (`QueueInv`, `ObserversInv`), and the calls on the stack agree
  with how far the subscriptions are (`FramesInv`). A subscriber that is not
  disturbed has what it is owed up to where its replay is, later all but the
  value of the `next()` that has not got to it yet (`UndisturbedInv`); and what
  is still to come to any subscriber is not among what it has (`OnceInv`).
  `KeptWhereMeantAlways` (scopes): where the comparison is not confused it is
  what the restriction means (`CompatibleMeans`, by the kinds of the scopes);
  the path up from a context is well defined, stays in the tree and does not
  change when contexts are added (`UpIs`, `UpInTree`, `UpStays`, by induction over
  the contexts), so that what was true of a request when it was answered stays
  true (`KeptStays`).
  `PreparedInOrderAlways` (preparers): what has been asked for is on a path that
  begins with the preparer whose turn it is, since the paths are closed under
  going on to a dependency (`PathsGoOn`, by induction over the preparers, those
  depended on first). `PrepInv`: the result of a preparer has one of each preparer
  it depends on, directly or not, wherever the result is (`GenerationsFit`,
  `KeptAreComplete`, `EarlierAreThere`, all of the form `Backed`), and who has
  run was reached in the turns before or is on a path of this one (`RunsAreKnown`). So a preparer
  that runs again has two paths in one turn and none before (`RunTwice`).
  `EmbedsWhatIsAskedAlways` (HAL): the work is a tree whose contexts at a depth
  are what is left of the paths that are longer (`ContextAt`, `HalTree`); what is
  done has all below it done, and a resource embeds the relations of its calls
  that are done (`HalProgress`), so that when the root is done everything is
  (`AllIsDone`, by induction over the depth). When the paths have one branch and exist,
  the type of a call is the one its paths lead to, so nothing fails but by a
  controller (`HalUnfailing`); null is embedded only if one returned it, and what
  has been rendered no longer changes (`HalAnswered`, `AnsweredGoesOn`).
* **`MvcProofs`**: the parts of MVC that share no state, in five arguments.
  `RoutesAsDeclaredAlways`: after any decorators, in any order, the metadata say
  what those that have run have said, member by member and nothing else
  (`MetaInv`, with `EntryOf` for a member and `ClassOf` for a class); a decorator adds
  to one entry (`EntryStored`) and leaves the others (`EntryStays`,
  `OtherClassStays`). So the routes that are generated list the HTTP decorators
  once each, with what their entries say (`GeneratedInv`), and mapping binds each
  of them, with one `OPTIONS` route for a path that has CORS (`BoundOf`);
  `RoutesInv` is these by phase.
  `ServedAsDeclaredAlways`: an answer is what the mapped bindings give for its request
  (`RequestsInv`); the binding that a request meets is the route of a decorator
  (`BindingIs`), so what was required of its caller is what was declared, and a
  preflight asks the same routes as the request after it
  (`PermittedIsAllowed`, `HandledIsPermitted`), with the settings of the route
  that has CORS and was mapped first.
  `PreferredViewAlways`: a rendering that tries a place has seen every template of a better
  place missing since it began (`Missed`; `ViewInv`); the places are those of
  the configured engines in their one arrangement by priority and registration
  (`SortedIsRanked`), so a template that is found is preferred to
  all that are left (`ResolvedIsPreferred`).
  `BestRendererAnswersAlways`: what is selected is in order
  (`NegotiationInv`, `LeftInOrder`): the order of the types decides which
  renderer comes first, and the weights decide that order (`ComesWithBest`,
  `SelectionFits`). Renderers that cannot be injected leave the others in order, so
  the first that is left is the best that could be (`FirstIsBest`).
  `BodiesSurviveAlways`: what is remembered for a content type is what would be selected
  (`ParsersInv`), so a part gives what its own type says, whichever part was
  parsed first (`PartsInv`); a field with content is not taken for something
  else (`FieldIsPrepared`, `FieldGives`), and no part has more keys than it may
  add (`PartAdds`, `ParsedKeys`); what merging the parts and adding the entries of a
  form give is shown by induction over their number (`AllAssigned`,
  `FormHolds`: each value that is not empty has a place, after those sent before it).

To be reasoned about, sorting is stated in these modules by what it gives, the
arrangement of a finite set in an order (`ArrangedBy`, `Sorted`), and a fold as
the recursive function that it computes (`ParseForm`, `Assigned`); that there is such an
arrangement, and such a function, is part of the proofs (`Arranged`,
`ResultsExist`, `AssignmentsExist`).

The proofs assume what the modules assume of their constants and nothing else;
TLC evaluates these assumptions in every run. They say, for instance, that `None` is
not a context, that the paths of the named injectors are those of a tree
(`TreeAssumption`), which commands the builder has (`CommandsAssumption`), that
durations are positive and `undefined` is not stored (`DurationAssumption`,
`EntryAssumption`), that scopes have the fields of their kind
(`ScopesAssumption`), that preparers do not depend on one another in a circle
(`PreparersAssumption`: a class is decorated after those its decorator names), 
that a path of `_embedded` names at least one relation and relations lead to
resources (`HalAssumption`), that a class is decorated as controller once and none is
named like the handler of `OPTIONS` routes (`ApplicationsAssumption`), that the
views of routes and errors are views (`ViewAssumption`), that a class which is
not registered as renderer renders no type (`NegotiationAssumption`), and
that forms are sequences of entries, multipart bodies sequences of parts, and
these of blocks (`BodiesAssumption`).
`EntriesAreKeptAlways` has the hypothesis `KeysTellApart`: callers with
different arguments have different keys. The code does not grant it for
arguments whose text contains `:`. For all others it is proved
(`PlainArgumentsTellApart`): the last separator of a key is the one before its
last argument (`LastSeparator`), so that equal keys, taken apart from the end,
have the same arguments and the same tag (`SameKey`, by induction over the
number of arguments; texts are sequences over any set of symbols).
`PlainEntriesAreKept` is the theorem about the caches for such callers.

Only model-checked: the liveness properties `EveryRequestServed`,
`TransactionSettles`, `EverythingSettles`, `EveryRequestAnswered` and `RunsSettle` (TLAPS does not do
fairness or `ENABLED`), and `ModelsAsDeclared`. Models are built from values of any depth
by recursive operators, and the property itself descends with them: this is
induction over data, for which the prover has no rule. Where induction is over
numbers it is possible (`NatSetInduction`, which takes a set, not an
operator): over the places of a sequence, the paths of `Scopes` and of
`PipelinePreparers`, the depth of a composed resource. All other properties
of passing runs are proved, `EntriesAreKept` for arguments without `:`.

## What the runs found

Four runs are expected to end with a violation; each checks what a document, a
comment or a message in the code says.

* `tx_throw`: `PgDbTransactionClient.dispose` commits whenever the state is
  `ready`; if the transaction function throws an error of its own after its
  queries succeeded, they are committed, where `packages/dandi/data/README.md`
  says they are rolled back.
* `find_parents_only`: `findCache` is keyed by the token alone; once a child has
  found a `parentsOnly` provider of a context, the context itself finds it too.
* `hal_embed`: in `CompositionContext` the parameter `rel` of a callback hides
  the constructor's `rel`, so every child context gets the tails of all nested
  paths: `_embedded=owner,tasks.owner` fails because the owner has no relation
  `owner`.
* `http_lambda`: `LambdaTerminator` asks for `LambdaHttpResponse` by its class,
  which is a singleton (only as `HttpResponse` it is one per request), so
  the events of a Lambda instance share one response, and headers of earlier
  results stay in it.

Observed while modelling, and part of the models:

* `AsyncMutex.dispose` marks the mutex as disposed only `if
  (!Disposable.isDisposable(this))`, which is never the case: requests that wait
  meanwhile are granted, not rejected with `DISPOSED_ERROR`.
* An instance kept by the root injector is made by whichever child of the root
  asked first; its `perInjector` dependencies are disposed with that child while
  the instance lives on. `NoDeadDependencies` excepts the root for that reason.
* `DequeueReplaySubject`: a value dequeued while the queue is replayed makes the
  replay skip another one; a value that comes during a replay does not reach
  that subscriber; the trigger stays subscribed if the queue was empty
  when the source completed.
* Caches: `delete` and `set` reach the first cache only; arguments with a `:` in
  them may share a key.
* Scopes: `isCustomInjectionScope` asks whether the scope is a constructor, not
  its type; all string scopes are compatible with each other.
* Builder: a command that gets arguments gets them as one array, so that
  `deprecate` always fails; whatever npm writes to stderr reads as a package
  without versions.
* Preparers: two that are prepared at once and depend on the same third one make
  it run twice, since its requests are known by provider; whoever asks later gets
  the result of the run that ended last. What earlier preparers in `before`
  provide is registered with an injector below the one where a preparer is made,
  so that it finds only what its declared dependencies provide. (README.md:34-35
  says preparers are "automatically ... invoked in the correct order", which
  holds.)
* Negotiation: `q=0` reads as 1, and `q=0.0` does not exclude a type; `text/*`
  becomes the content type of the response as it is.
* Bodies: header values of a part end at their second colon, contents at the
  next blank line, and content that begins with one is dropped. A multipart field without
  content does not arrive: its part is trimmed to the headers, which are taken for
  content without a name and spread by characters, as any text part without a name. In a
  form, a value ends at its second `=`, a key is not decoded, and an entry
  without `=` has the value `undefined`.
* Renderers: the map meant to remember the renderers of a request is made anew
  for each rendering, as its provider is registered below the one that uses it.
* Routes: `allowHeaders` of a route is not among its providers; siblings without
  CORS are in the preflight's list, yet denied; a handler of `OPTIONS` of one's
  own comes after the one of CORS; an origin that is no http(s) URL is a
  `TypeError`. A route's own `allowCredentials: false` does not override a
  global `true`.
* Models: decorating an inherited member changes the class it comes from; the
  empty text is the number 0; a set never satisfies a bound on its length;
  nested keys that are all falsy are dropped.
* HAL: two paths that begin with one relation call its controller twice; a
  failure does not stop the calls that run beside it; null for a single relation
  counts as embedded and fails the response only when it is rendered; a class
  inherits the accessors of its parent only if these were decorated before its own
  metadata are made.

## What is not modelled

* Of the mutex: the getters that throw after a lock was released.
* Of transactions: the rewriting of arguments and select lists, queries outside
  transactions, and the limit of the pool (transactions nested deeper than the
  pool has connections wait for one another).
* Of the injector: providers with `multi` (their instances are stored under
  another key than they are looked up with), value and optional
  providers, the call that `invoke` makes in the end, the intermediate child
  injectors of class scopes, repositories shared by injectors that create
  instances, tokens registered in several contexts while instances are made,
  cyclic dependencies (they wait for each other for ever; the code does not
  detect them).
* Of the HTTP pipeline: what preparers and handlers compute, parts of a body
  that are multipart bodies themselves, the conversion of Lambda events, and the
  start of the application by the first event.
* Of models: options other than the defaults of the builder, dates, URLs,
  comparison of models, HAL models. Of HAL: the text of URLs (that none can be
  made is), links by index, metadata that another method of a class hides; of
  HAL and views the text of what is rendered.
* Of the start of an application: what is registered and which of two
  providers of a token wins (scanners register in the order in which they end).
* Of the builder: what is in the files it writes; `tsc`, `yarn` and npm.
* Parsing and formatting (URIs, dates, log entries), decorators of the injector
  that record metadata at load time, configuration, external services,
  examples, test helpers.

## The plan

Modelled so far: the mutex, transactions, the injector with its scopes, the
HTTP pipeline with its preparers, routes, CORS, bodies, rendering, models, views
and HAL, the start of an application, caches, the replay subject, and the
builder. Next, in this order:

1. Multi providers in `InjectorInstances`, and the pool's limit.
2. `Negotiation` and `BodyParsing` as steps of `HttpPipeline`, so that a failure
   to render or parse is one of that module's failures.
3. Lambda as a caller of `ApplicationInit` that keeps the promise of the first
   start.
4. `Models` with values as trees of bounded depth, so that `ModelsAsDeclared` can
   be proved by induction over the depth.
