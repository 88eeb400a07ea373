# Formal models of Ninject.Web.AspNetCore

Ninject.Web.AspNetCore makes the Ninject kernel usable as the dependency
injection container of ASP.NET Core: it translates an `IServiceCollection` into
Ninject bindings and gives Ninject the lifetimes, the disposal order, the
precedence of registrations and the keyed services that
`Microsoft.Extensions.DependencyInjection` expects. This directory holds TLA+
models of that translation, the TLC configurations that check them on small
instances, and theorems about them with proofs for the TLA+ proof system.

File names without a directory are those of `src/src/Ninject.Web.AspNetCore/`.

- [The system](#the-system)
- [Modules](#modules)
- [Runs](#runs)
- [Where code and documentation disagree](#where-code-and-documentation-disagree)
- [Proofs](#proofs)
- [What is not modelled](#what-is-not-modelled)
- [Plan](#plan)

## The system

### Components, their state and their operations

| Component | State | Operations |
| --- | --- | --- |
| Disposal: `DisposalManager`, `OrderedDisposalStrategy`, `NinjectServiceScope`, `ServiceProviderScopeParameter` | the AsyncLocal `_area` (the collector area of a call context); in each `OrderedAggregateDisposalArea` the list `_disposals`; in each scope `IsDisposed` and the TransientScopes in `_children` | `CreateArea`, `RemoveInstance`, `Register`, `Dispose` of an area, `Dispose` of a scope with its `Disposed` event |
| Activation cache: `WeakTableActivationCache`, `ActivationEntry` | per instance `Order`, `IsActivated`, `IsDeactivated` and a weak reference; the static counter `_counter` | `AddActivatedInstance`, `AddDeactivatedInstance`, `IsDeactivated`, `GetEntry`, `Clear` |
| Kernel: `AspNetCoreKernel` | `RootScope`; Ninject's bindings and cache | `Dispose`, `SatifiesRequest`, `AddComponents`, `DisableAutomaticSelfBinding` |
| Registration: `ServiceCollectionAdapter`, `BindingIndex`, the descriptor adapters, `NinjectServiceProviderBuilder` | `Count` and `_bindingIndexMap` of the index, the `Item` in the metadata of a binding | `Populate`, `Next`, `Build`, `ConfigureLifecycle` |
| Choice of a binding: `IndexedBindingPrecedenceComparer`, `KeyedServicesMetaDataExtensions`, `KeyedServiceAnyKeyResolver` | the bindings that the resolver added | `Compare`, `DoesMetadataMatchServiceKey`, `Resolve` |
| Service provider: `NinjectServiceProvider`, `NinjectServiceProviderIsService` | the scope it belongs to | `GetService`, `GetRequiredService`, `GetKeyedService`, `GetRequiredKeyedService`, `IsService`, `IsKeyedService` |
| Scopes: `RequestScope`, `RequestScopeMiddleware`, `AspNetCoreApplicationPlugin`, `ServiceProviderScopeResolutionRoot` | the AsyncLocal `_current`; which scope owns an instance | the constructor and `Dispose` of `RequestScope`, `GetRequestScope`, `Invoke` of the middleware |
| Keyed injection: `KeyedRequest`, `ServiceKeyParameter`, `ParameterTargetWithKeyedSupport`, `ConstructorReflectionStrategyWithKeyedSupport` | the parameters of a request | `CreateChild`, `ResolveWithin`, `ResolveFromKeyedService`, `ResolveServiceKeyValue` |
| Generic constraints: `ConstrainedGenericBindingResolver` | none | `Resolve` |
| Controllers and adapters: `ControllerActivationAdapter`, `IPopulateAdapter`, `AspNetCoreModule` | none | `AdaptDescriptor`, `AdaptAfterPopulate` |
| Hosting: `Hosting/*` and the IIS and HttpSys packages | the configuration of the host | builder calls, start |

### How they interact

1. `NinjectServiceProviderFactory` and `NinjectServiceProviderBuilder` call
   `Populate`, which binds every descriptor in its order and hangs a
   `BindingIndex.Item` on it as metadata. `Build` returns the provider of
   `RootScope`.
2. `NinjectServiceProvider` makes a request with the
   `ServiceProviderScopeParameter` of its scope and a constraint on the key.
   Ninject asks `AspNetCoreKernel.SatifiesRequest`, which only lets the latest
   `Item` of a type and key satisfy a unique request, sorts by
   `IndexedBindingPrecedenceComparer` and, when there is no binding at all, asks
   `KeyedServiceAnyKeyResolver` to make one. What the resolver returns stays in
   the kernel.
3. The scope callback of the binding decides who owns the new instance: the root
   scope, the scope of the request's parameter, a `TransientScope` that hangs on
   the parameter, or the `RequestScope` of the call context. Ninject's cache
   remembers the instance for its owner and the activation cache numbers it.
4. `NinjectServiceScope.Dispose` opens a collector area and raises `Disposed`.
   The parameter disposes the TransientScopes, the cache forgets everything the
   scope owned, and each deactivation ends in `OrderedDisposalStrategy` and
   `DisposalManager.RemoveInstance`, which puts the instance in the area. The
   area is sorted by `Order` and disposed when it is closed. Without an area the
   instance is disposed on the spot, inside Ninject's lock.
5. All of this happens on many threads. Ninject locks the scope object of a
   binding from before it looks in its cache until the new instance and all that
   it depends on are there, locks a scope while it raises `Disposed`, and has one
   lock for its cache. The list of TransientScopes has none.
6. `AspNetCoreKernel.Dispose` disposes `RootScope` and then the kernel, whose
   cache forgets all there is.

### What is hard to test here

- An AsyncLocal is copied into every flow that is started meanwhile. Both
  `_area` and `_current` are such values, and flows outlive what they point to.
- The Dispose methods of services run inside the library: inside a drain, inside
  the cache lock, and they may resolve, dispose another scope, or throw.
- A disposal passes four stages (in the cache, deactivated, on the list,
  disposed), on several flows, and only a weak reference holds the instance
  between the second and the last.
- Who holds which lock follows from the lifetimes: a scoped service that needs a
  singleton locks its scope and then the root. Whether threads can wait for each
  other in a circle depends on everything a constructor or a Dispose method does.
- `List.Add` in `DeriveTransientScope` is several reads and writes, and another
  thread may be between any two of them.
- Bindings are added while requests are answered, and the answer to a request
  depends on earlier ones.
- A request inherits its parameters from the request it is made for: the scope is
  to be inherited, the key is not.
- An instance lives as long as its owner; that it does not hold one that goes
  earlier depends on the lifetimes, on which provider it was resolved through,
  and on the call context.

The hazards are listed one by one, at their lines and with the properties that
are about them, under `hazards` in `PROJECT.json`.

### What makes the components correct

- Disposal: nothing is disposed twice; dependents before what they depend on; a
  scope that is disposed leaves nothing undisposed; a flow is not left with an
  area; every Dispose call ends.
- Parallel resolution: an owner gets one instance of a service and a singleton has
  one owner, whoever asks at once; nobody waits in a circle.
- Registration and choice: the last descriptor of a type and key wins; a
  collection keeps the order of registration; keys do not mix; racing threads
  share the binding that an AnyKey registration is turned into.
- Scopes: a request keeps its `RequestScope`, and who is waited for finds none that
  was disposed; what an instance holds lives as long as it does.
- Keyed injection: a service is told the key it was asked for and no other; a
  service that is missing below a `[FromKeyedServices]` parameter raises
  `InvalidOperationException`.

## Modules

| Module | What it is |
| --- | --- |
| `DisposalPromise` | the abstract specification of disposal: instances, groups that are disposed in order, nothing else; with its one theorem |
| `ScopeDisposal` | how instances are tracked, go out of scope and are disposed, on several flows |
| `ScopeDisposalProofs` | theorems: types, nothing is disposed twice |
| `ScopeDisposalPromise` | theorems: `ScopeDisposal` implements `DisposalPromise`, and what follows |
| `DisposalLossProofs` | theorems: which areas stay behind, what can be lost, and where nothing is |
| `ParallelResolution` | threads that resolve and dispose, with Ninject's locks and the list of TransientScopes |
| `ParallelResolutionProofs` | its theorems |
| `ServiceResolution` | registration, and which binding a request gets, on several threads |
| `ServiceResolutionProofs` | its theorems |
| `ScopeSelection` | who owns an instance and which provider it gets, over requests, scopes and flows |
| `ScopeSelectionProofs` | its theorems |
| `KeyedInjection` | the key a service is told along a chain of constructor parameters, and how failures leave it |
| `KeyedInjectionProofs` | its theorems |
| `MC...` | small instances for TLC: dependencies, registrations, symmetry |

The modules share no variables, but for `DisposalPromise`, whose variables are
functions of those of `ScopeDisposal`. Each takes from the next what it needs as
a choice: `ScopeSelection` says who owns an instance and `ScopeDisposal` lets any
owner have any instance; `ScopeSelection` resolves in one step and
`ParallelResolution` shows that the locks let it; `ServiceResolution` says which
of several registrations counts and `KeyedInjection` has one per type and key.
Every module therefore covers at least the behaviours that the others leave.

Operators with a comment that starts with "Mutant" are plausible errors in the
definition below them. No action uses them; `mutants` in `PROJECT.json` names
the property each of them breaks.

### ScopeDisposal

A *flow* is an ExecutionContext: the AsyncLocal `_area` is `area[f]`, and `Fork`
copies it. `stack[f]` holds the Dispose calls the flow is in, with the program
counter of each:

| frame | code |
| --- | --- |
| `raise` | `NinjectServiceScope.Dispose` inside its `using`: the `Disposed` event is next |
| `close` | the `Dispose` of the area that `CreateArea` returned |
| `drain` | the `foreach` of `OrderedAggregateDisposalArea.Dispose` over the sorted copy of the list |
| `clear` | `AspNetCoreKernel.Dispose` after `RootScope.Dispose()` |
| `forget` | Ninject's `Cache.Clear` or `Release`, with Ninject's lock held |

`running` is the service whose Dispose method the frame is in; user code runs in
it, and its calls are frames above. An exception takes the frame away (`Unwind`)
and what it skips stays undone: the rest of the drain, `_area.Value = null`,
`base.Dispose` of the kernel.

`RaiseDisposed` is one step. In the code it is a sequence of deactivations, but
each only appends to the list of the flow's area (there always is one, opened in
the same method), the lock of the cache keeps others out of the entries, and no
user code runs in it. When the flow's area was inherited and is closed already,
`Register` dereferences null; `RaiseFails` is the prefix of the event that was
done by then. `Resolve` is one step too: what matters here is that an instance
gets its number after those it depends on.

An area is `unused`, `open`, `draining`, `closed` (list set to null), or
`abandoned`: its `Dispose` returned early or threw, the list is still there and
a flow may still have it. `late` remembers what was registered with an area that
was no longer open.

`Env` says what the application does. It is how one run asks its question
without the noise of the others: with all of it, hardly anything but
`DisposeOnce` could be said.

`Promise` instantiates `DisposalPromise`, and `KeepsPromise` is its
specification. A group is what an area collected while it was open
(`items[a] \ late`); a closed group is a closed area; what went out of scope is
what was deactivated; what is lost is what the garbage collector took; and an
instance was created when it has a number. Flows, stacks, owners and the cache are
hidden. The abstract specification leaves the three ways in which the code
does not keep the sentence of the documentation open by name: `Forfeit` (out of
scope, and in no group), `Lose`, and a group that is never closed. All else it
excludes: a group that grows after part of it was disposed, one that is closed
with work left, a member disposed before its dependents, a second disposal.

### ParallelResolution

`stack[t]` holds a frame for each service a thread is resolving, a dependency
above its dependent, or one for the Dispose call it is in.

| frame | code |
| --- | --- |
| `derive`, `size`, `slot` | `DeriveTransientScope`: `_children.Add` reads the size and counts the version up, writes the size, writes the element |
| `enter`, `try`, `create` | Ninject's `Context.Resolve`: before `lock (scope)`, before `Cache.TryGet`, and while the dependencies are made |
| `raise` | `Dispose` of a scope before its lock |
| `children` | the `foreach` over `_children` in the `Disposed` handler |
| `clear` | the cache forgets what the scope owns; `forget`: and what a RequestScope owns is disposed meanwhile |

Nothing records who holds a lock: `HeldBy` says which frames are inside which
monitor, `Wanted` which ones the next step of a frame enters, and a thread can go
on when no other holds one of those. Monitors are reentrant: a thread does not
wait for itself. What an owner has is counted in `entries`, so that a second
instance would show.

`Env` names what the application should not do: `inuse`, dispose a scope while
another thread resolves from it (or the root while anything runs); `late`, ask a
scope that was disposed; `callback`, resolve in a Dispose method that a
RequestScope calls with the cache locked. In the run it does all of them, and
`StuckOnlyByMisuse` says that threads only wait in a circle when the first or the
last has happened. Both really do lead to a deadlock: without either disjunct the
property is violated.

`List` is a size, a version and its elements; that it grows its array is left
out. A foreach that finds another version throws, as in .NET, and leaves the
scope undisposed. The disposal of the kernel and constructors that open scopes of
their own are not in this module.

### ServiceResolution

`bindings` is the kernel's list in the order of addition: from `Populate`
(`root = "populate"`, with its `TotalIndex`), from a Ninject module of the
application (`"none"`), or made by `KeyedServiceAnyKeyResolver` (`"own"`, an
index of its own). `count` and `latest` are the fields of `BindingIndex`.
`Compare` is the five bit comparison of the code, with its subtraction; `Sorted`
is the stable descending sort of Ninject. A request without a matching binding
takes three steps, `Miss`, `AddMissing` and `Retry`, as Ninject leaves its lock
between them.

### ScopeSelection

`ScopeOf` and `ScopeOfDep` are `ConfigureLifecycle`, `GetRequestScope` and the
binding of `IServiceProvider`, as functions of the flow, of the scope of the
provider that was asked (`source`, or `NoScope` for the kernel itself) and of
the service. `holds` remembers which instance was given what, owned by whom; it
is what the properties about lifetimes are stated over. A flow that is inside
the `using` of the middleware has `inside[f]`, the AsyncLocal is `current[f]`.

`Detached` are the forked flows that nobody waits for: a request ends
(`LeaveRequest`) when the other flows it forked have, and a detached flow keeps the
`RequestScope` it was forked in.

When a scope is disposed its instances disappear here; `ScopeDisposal` is about
how. That goes for the root scope too, which the kernel and the root's
`IServiceProvider` dispose; the model goes on after it, as what the kernel forgets
besides is in `ScopeDisposal`. Neither `NinjectServiceProvider` nor
`ServiceProviderScopeResolutionRoot` asks whether its scope was disposed, so
`Activate` does not either: a disposed scope makes and owns new instances.
`HeldAlive` allows for that. Who is made in a disposed scope has the provider of
that scope, and nothing else that is gone; when the root scope is disposed its
singletons go before those who hold them.

### KeyedInjection

The stack holds the instances under construction, of a chain of any length. A
frame's `keys` are the
`ServiceKeyParameter`s of its request, `via` is the parameter or the call it was
requested through, `todo` are the constructor parameters left to resolve, in any
order. `raised` is an exception on its way up; `Unwind` is the `catch` of
`ResolveFromKeyedService`, which makes an `InvalidOperationException` of an
`ActivationException` or puts the default value in its place; every other exception
passes. Conversion of the key to the type of the `[ServiceKey]` parameter is the
set `fits` of keys that can be converted. For those that cannot,
`ResolveServiceKeyValue` catches `InvalidCastException` only: the keys in
`malformed` have the right kind and no value of the type (a text that is no number, a
number out of range), and raise `"format"`, a `FormatException` or
`OverflowException`; the others raise `"invalid"`. `cause` and `crossed` remember
the exception as it was thrown and the parameters it left.

## Runs

Deadlock is not checked: in each of the models the application may have done all
it wants to do. State counts are those of TLC.

| Run | Instance | Question |
| --- | --- | --- |
| `ScopeDisposal_faults` | a flow and one it forks, x made with y, root scope, a request scope, two areas, three nested calls, everything in `Env`; 711129 states | Whatever the application does: is an instance disposed twice, in the wrong order, or left out of a drain that came to its end? Is every step one that `DisposalPromise` allows? |
| `ScopeDisposal_flows` | two flows, two scopes, releases, kernel disposal, nothing that throws or calls back; 242801 states | Do flows that race lose instances or keep areas, and does the disposal of the kernel reach all there are? |
| `ScopeDisposal_live` | a flow and one it forks, two scopes, a request scope, reentrant and failing Dispose methods, kernel disposal, two nested calls; 176669 states, with fairness | Does every Dispose call end? |
| `ParallelResolution_threads` | two threads, root and a service scope, a RequestScope, two TransientScopes; a transient that needs a scoped service that needs a singleton and a transient; everything in `Env`; 375406 states | Is anything made twice, and who can wait for whom? |
| `ServiceResolution_requests` | up to three descriptors of one type with keys k1, k2, AnyKey or none in any order, one binding of a module anywhere, two threads; 64753 states | Which binding does each kind of request get, and for which registrations is it the documented one? |
| `ScopeSelection_scopes` | two request flows, a forked one and a detached one, two request scopes, root and two service scopes, all of which are used on after they were disposed, a singleton, two scoped and a transient service; 271878 states | Does a request keep its scope, who finds a disposed one, and does anything outlive what it holds? |
| `KeyedInjection_services` | four registrations of three types with two keys and AnyKey; 15607 states | Which key is a service told, and what comes of a failure? |
| `ScopeDisposal_idle`, `_collect`, `ParallelResolution_children`, `ServiceResolution_anykey`, `_plain` | the smallest instance in which it happens | see the next section |

Why these bounds are enough to see what could go wrong:

- Disposal: an order needs a pair of instances, x with y as its dependency, one
  of them transient. A stale area needs a second area or a second scope after
  the first one, a race two flows, a reentrant call a nesting of two, kernel
  disposal one more. `Area` bounds how many areas are ever opened; both are used
  up in most behaviours.
- Threads: a lost update of the list is one of two threads, and so is a circle in
  which one has what the other wants; larger circles are the subject of
  `NoDeadlock`, which has no bound. `Asks` has one request for each
  kind of owner, `Child` and `MaxSize` allow two transients at once, which the
  transient service and its own dependency use up in one request.
- Resolution: for the order of three items all permutations of types, keys and
  overriding occur with three descriptors. The resolver's race is one of two
  threads. Types do not interact in any definition, so there is one.
- Scopes: two requests, to tell "this request's" from "another's", and two
  service scopes besides the root; a flow that is waited for and one that is not;
  the dependencies cover each pair of lifetimes that `NoCaptives` permits.
- Keys: chains of three services, as an inherited key that is wrongly passed on
  needs a parameter between the one with the key and the one that is told it.

Fairness (`FairSpec`) is used by `ScopeDisposal_live` alone. Weak fairness of
`LibraryStep(f)`: the library's code is sequential and runs when its thread
does; only the lock of the cache can stop it. In this run the lock is
held by the disposal of the request scope and by that of the kernel. Each
succeeds once and fails at most once per instance, so the lock cannot be taken
away from a flow for ever. With `release` in
`Env` it could, by a flow that releases without end, and the property would need
a lock that is fair. Strong fairness of `DisposeReturns(f)`: a Dispose method of
a service comes to its end, also when it disposes other scopes on its way.

What `ScopeDisposal_flows` shows about loss: `LostInAbandonedArea` says that in
the absence of exceptions, reentrant calls, forks and garbage collection the
*only* way to lose a service is the area of an empty scope that was left on the
flow. It is `ScopeDisposesServices` with the one flaw of `ScopeDisposal_idle`
taken out, and `TrackedUntilDeactivated` covers what was never deactivated. That the
kernel's disposal reaches the rest is `KernelDeactivatesAll`. The theorems about
these properties need less than the run leaves out; see below.

## Where code and documentation disagree

Five runs expect a violation. Each checks one sentence of the repository.

- `ScopeDisposal_idle`: a scope that has nothing to dispose leaves its area in
  `_area` (`DisposalManager.cs:86` returns before line 96). The next scope that
  is disposed in this flow takes it for an outer area, registers with it, and
  nothing is disposed.
- `ScopeDisposal_collect`: between deactivation and drain only a weak reference
  holds an instance. The garbage collector may take it, and its Dispose is not
  called.
- `ParallelResolution_children`: two threads that resolve transients through one
  provider write the same element of `_children`. One TransientScope is not
  reached when the scope is disposed, nor is its instance.
- `ServiceResolution_anykey`: a binding that was made of an AnyKey registration
  for a key is returned by a later collection for AnyKey.
- `ServiceResolution_plain`: a constructor parameter without attributes can get
  a binding with a key although there is one without.

For four of these there is a theorem that says where the sentence does hold:
`PromiseHolds` for the first two, `TransientsGo` and `PlainGetsItsOwn`. An
application that stays within their hypotheses is not affected. For the collections
of `ServiceResolution_anykey` it is `AnyKeyCollectsAll`: where a type has a
registration with another key, the collection holds exactly those.

Seven more are visible in the models without a run of their own:

- A scope that is disposed by a service's Dispose method within a drain registers
  with the area that drains, after the `foreach` took its copy of the list
  (`DisposalManager.cs:91`): `late` in `ScopeDisposal`, `Forfeit` in
  `DisposalPromise`. Its services are not disposed.
- `IsService` is true of a type that is registered with keys only, as its request
  has no constraint (`NinjectServiceProviderIsService.cs:36`), while
  `GetService` returns null.
- README.md ("Binding Precedence") says that the kernel throws for two
  descriptors of a type. `AspNetCoreKernel.cs:41-46` drops all but the latest for
  requests to the kernel too, and `DuplicateDescriptorTest.cs` expects that.
- A detached flow keeps the disposed `RequestScope` of its request, which
  `AspNetCoreApplicationPlugin.cs:23` calls the currently active one, and activates
  services in it. `CurrentIsActive` is about all other flows.
- The factory of a singleton is handed the provider of the scope that asked
  first (`ServiceCollectionAdapter.cs:103`), a constructor that of the root
  (`NinjectServiceProviderBuilder.cs:23`). With a singleton whose factory keeps it
  `HeldAlive` is violated; `NoCaptives` excludes that.
- A constructor parameter with `[FromKeyedServices]` "must always resolve, otherwise
  an InvalidOperationException is expected" (`ParameterTargetWithKeyedSupport.cs:90`).
  If the service has a `[ServiceKey]` parameter and the key is malformed for its type,
  `Convert.ChangeType` throws a `FormatException` or `OverflowException`, which
  neither line 141 nor line 95 catches: it reaches the application as it is, and a
  default value does not stop it (`ConversionError`, `Unwind`). `MissingIsInvalid`
  says which exceptions do become an `InvalidOperationException`.
- A keyed singleton that a collection for AnyKey makes is told AnyKey as its
  key, and keeps it. `ToldTheKey` makes this one exception.

## Proofs

TLAPS proves these for every value of the constants that meets the assumptions
of the module: any number of flows, threads, scopes, instances, services,
descriptors, keys and nested calls, any dependencies, any `Env` and `Detached`.

| Theorem | Statement | Assumptions |
| --- | --- | --- |
| `PromiseIsKept` | `DisposalPromise`: groups are disposed in order and completely | none |
| `TypeCorrect` | `ScopeDisposal` keeps its types | `ConstantsAssumption` |
| `DisposedOnce` | `[]DisposeOnce` | the same |
| `ImplementsPromise` | `Spec => KeepsPromise` | the same |
| `DependentsGoFirst` | `[]DependentsFirst` | the same |
| `DrainIsComplete` | `[]DrainComplete` | the same |
| `IdleFlowHasNoArea` | `[]IdleFlowArea` | the same |
| `TrackedUntilGone` | `[]TrackedUntilDeactivated` | and `Straight`, no `"throw"` in `Env` |
| `KernelLeavesNothing` | `[]KernelDeactivatesAll` | and `Straight`, no `"throw"` |
| `OnlyAbandonedAreasLose` | `[]LostInAbandonedArea` | and `Straight`, no `"collect"` |
| `PromiseHolds` | `[]ScopeDisposesServices` | and `Steady` |
| `TypeCorrect` | `ParallelResolution` keeps its types | `ParallelAssumption`, `NoCaptives`, `NoCycles` |
| `OneInstancePerOwner` | `[]OneInstance` | the same |
| `NoDeadlock` | `[]StuckOnlyByMisuse` | the same |
| `TransientsGo` | `[]OneAdds => []TransientsGoWithScope` | and no `"inuse"`, no `"late"` in `Env` |
| `CompareIsLexicographic` | `Compare` orders by index, then condition, closedness, explicitness | two records of criteria |
| `LastWins` | `[]LastRegistrationWins` | `KeysAssumption` |
| `LastKeyedWins` | `[]LastKeyedRegistrationWins` | the same |
| `OnePerKey` | `[]OneBindingPerKey` | the same |
| `ResolutionTypeCorrect` | `ServiceResolution` keeps its types | the same |
| `CollectionsKeepOrder` | `[]RegistrationOrderPreserved` | the same |
| `AnyKeyCollectsAll` | `[]AnyKeyCollection` | the same |
| `PlainGetsItsOwn` | `[]PlainKeepsOwn` | the same |
| `SelectionTypeCorrect` | `ScopeSelection` keeps its types | `ScopesAssumption`, `ServicesAssumption` |
| `RequestScopeKept` | `[]RequestKeepsScope` | the same |
| `CurrentStaysActive` | `[]CurrentIsActive` | the same |
| `HeldStaysAlive` | `[]HeldAlive` | and `NoCaptives` |
| `TypeCorrect` | `KeyedInjection` keeps its types, and a request has at most one key | `RegistrationAssumption` |
| `NearestKey` | `[]ToldNearestKey` | the same |
| `MissingSurfaces` | `[]MissingIsInvalid` | the same |
| `KeyIsTold` | `[]ToldTheKey` | and `ReachedByKey` |

The hypotheses on `Env` and on registrations say what an application must not do.
Each of those of `TrackedUntilGone`, `KernelLeavesNothing`, `OnlyAbandonedAreasLose`,
`PromiseHolds`, `TransientsGo`, `PlainGetsItsOwn`, `HeldStaysAlive` and `KeyIsTold`
is needed: with it taken away TLC finds the property violated on an instance of
the size of the runs.

**DisposedOnce.** `DisposeOnce` is not inductive: a drain could hold an instance
that was disposed elsewhere. `OnceInv` adds what excludes it. `ItemsOK`: what is
on a list was deactivated, and is on one list only; this is where the check of
`IsDeactivated` in Ninject's pipeline enters, since an instance that
several owners cached is deactivated once. `CallsOK`: only deactivated
instances were disposed, and none of those that an open area holds. `FramesOK`:
what is left of a drain was not disposed. `AreasOwned`: no two calls
work on the same area, although flows share areas through the AsyncLocal. The
step is proved action by action; forks, exceptions and reentrant calls need
`AreasOwned`, and a reference to an open area that a flow inherited is harmless
since only the frame that opened it drains it.

**ImplementsPromise, DependentsGoFirst, DrainIsComplete.** `DrainInv` is `OnceInv`
with two more parts. `OrderInv`: an instance is numbered after those it was made
with, and only numbered instances are cached, listed or deactivated. `DrainsOK`:
for an area that drains, what it collected in time and is not in the `rest` of
its frame any more is settled (disposed, not disposable, or collected by the
garbage collector). Each action of `ScopeDisposal` is then
a step of `DisposalPromise` or changes nothing it sees: a `RaiseDisposed` is a
`Condemn`, or a `Forfeit` where the area no longer is open; a step of a drain is a
`Dispose`, and that dependents are settled follows from `IsNext` and the two
parts; the end of a drain is a `Close`. `PromiseKept` of the abstract
specification, read through the refinement, is `DependentsFirst`, so that the
argument about order is made once, where there are no stacks.

**IdleFlowHasNoArea.** `FlowInv`: the area in the AsyncLocal of a flow that ran
from the start is abandoned, or that of a frame of this flow. It needs
`AreasOwned` of `OnceInv`: no other flow closes the area meanwhile.

**TrackedUntilGone, KernelLeavesNothing, OnlyAbandonedAreasLose.** These are about
an application that is `Straight`: no Dispose method resolves or disposes, and no
flow is forked. `ShapeInv` fixes what stacks then look like: a flow is in one call,
or in the disposal of the kernel and one more, and no flow finds its area closed.
`TrackInv` says that what a `forget` frame will remove from a cache is deactivated
or in its `rest`, and that the lock of the cache admits one such frame. With it the
cache forgets nothing that is not deactivated, and when the kernel is through
(`KernelOK`) no instance is left, not even one that was resolved through a scope
that had been disposed: `NinjectServiceScope` raises its event once, so that the
kernel is what catches these. Both need that Dispose methods do not throw; an
exception leaves instances that the cache forgot and nobody deactivated, and
the kernel's own disposal undone. The garbage collector may run. It is the other way
round for `OnlyAbandonedAreasLose`: exceptions are allowed, since the areas they
leave are abandoned ones, and the garbage collector is not.
`LossInv` says of every deactivated disposable instance where it is: disposed, on
the list of an abandoned area, or of an area that a frame holds and, if the frame
drains, in the `rest` of the frame (`Accounted`).

**PromiseHolds.** The sentence of the documentation, without exception, for an
application that is `Steady`: it disposes scopes, request scopes and the kernel,
each scope once and with something to dispose, and does none of the other things
`Env` has names for. Any single one of those makes it false. Flows still race, and
what takes an argument is the race with the kernel: a scope that
had work when its disposal started may find none, because the kernel forgot
everything in between, and then leaves an area behind all the same. `SteadyOK`
says that this is the only way (`AbandonedEmpty`: such an area is empty and the
kernel goes, or is gone), that what scopes have is disjoint (`CachedApart`), and
that one call is about to raise the event of a scope (`RaiseAlone`). That nobody
runs into the empty area later is `KernelLeavesNothing`: there is nothing left to
register.

**OneInstancePerOwner, NoDeadlock.** The invariant says of every stack
(`GoodStack`) that frames are a path of the dependency graph below one request,
with the owner that `OwnerOf` gives and a TransientScope derived from the scope
that is asked, and of every two threads that they lock different objects and
construct for different ones. With `NoCycles` no frame of a path repeats, so that
who looked in the cache and found nothing (`Fresh`) is the only one to remember.
`NoCircle`: the cache is only held by who forgets what a RequestScope had, and
waits for nothing unless it resolves there; a TransientScope is only locked by who
resolves from its scope; by `NoCaptives` who holds the root scope and is no
disposer needs no other scope. So who holds a scope and waits, waits for the root,
and who holds the root does not wait for a thread of the circle.

**TransientsGo.** The sentence of README.md:229 about transients, up to the list of
TransientScopes. `OneAdds` says that no two threads are between the first read and
the last write of `List.Add` for one scope; it is a hypothesis about the
behaviour, since nothing in the code ensures it, and `ParallelResolution_children`
is what happens otherwise. `TransientsOK` has three parts. `ListOK`: every
TransientScope of a scope is in its list below the size, but for the one that is being
added. `DisposalOK`: a disposal has emptied what it has passed (`Cleared`) while
nobody resolves from the scope. `GoneOK`: what is disposed stays empty.
A scope that is disposed in use, or used after it was disposed, gets transients that
the event has passed already; hence the two conditions on `Env`.

**LastWins, LastKeyedWins, OnePerKey.** `RegistryInv` ties the index to the
kernel: items are numbered in the order of the bindings (`ItemsAscend`) and the
map knows the last one of every type and key (`IndexKnowsLatest`).
`CompareIsLexicographic` makes the packed comparison an order whose first
criterion is the index; with it, the first element of `Sorted` is the latest
descriptor and no second one ties with it. For the resolver, `OwnOK` says that a
binding made for a key stands for the last AnyKey descriptor and that no
descriptor has that key, and `PendingOK` that what a thread found before it left
the lock is still right when it comes back.

**CollectionsKeepOrder, AnyKeyCollectsAll.** Counting the bindings that come
before one (`Rank`) gives a permutation, so `Sorted` has one value, which lists
every binding of a set once and follows `Compare`. `CollectedOK` says of each
answer that it lists what was registered in the order of registration; it
stays true when the resolver adds bindings, since none of them is a descriptor.

**PlainGetsItsOwn.** The sentence that `ServiceResolution_plain` refutes holds for
registrations of a certain form, whatever is resolved in whatever order, and
`PlainKeepsOwn` says it type by type. `KeysLast`: the last registration of a type
without a key comes before the last of each key. It then has the smallest index of
those that `SatifiesRequest` lets through, and a binding that the resolver made is
implicit and loses against it (`PlainResult`).

**RequestScopeKept, CurrentStaysActive, HeldStaysAlive.** Three layers.
`RequestInv`: a scope that a request is inside of is in use by that flow only and
not disposed. `ActiveInv`: only detached flows have a `RequestScope` that was
disposed, since a request ends after the flows it waits for, and a detached flow
forks detached ones. `HeldInv`: what an instance holds is owned by its own owner, by
the root or by nobody (`HeldByOwner`), which the lifetimes give for every dependency
that `NoCaptives` permits. A scope that is disposed then takes the holder with it, or
is the root; and what is made in a disposed scope holds what that scope or the
root owns. `NoCaptives` is a condition on the application; without it the property
is false, as a singleton then keeps an instance of the scope that asked for it
first.

**NearestKey, MissingSurfaces.** `KeysOK`: along a run of "inherit" parameters
each request carries the key that the first of them was asked for, once, and a
request in between that was asked for without a key carries none or null.
`CrossedOK`: the exception under way is what `Surfaces` makes of the one that was
thrown and the parameters it left, so that an `ActivationException` has only left
parameters without attributes. Chains are stacks and not a recursive definition, so
that one step of a chain is one step of the induction.

**KeyIsTold.** `ToldTheKey` is about instances that outlive the request they were
made for, and about registrations: `ReachedByKey` says that a keyed singleton is
never the first registration of its type, which a parameter without attributes would
get and make without a key, and that no parameter has
`[FromKeyedServices(KeyedService.AnyKey)]`, which would make it with AnyKey where
no collection was asked for. `ToldInv` says of each frame and each singleton that was
made that it was told its key, or AnyKey after a collection for AnyKey.

Only model-checked: `DisposeTerminates`, since liveness under fairness is out of the
prover's reach. It would need the number of pending instances as a measure
and an induction over it.

## What is not modelled

- Ninject itself. Its cache, pipeline, `KernelBase` and `DisposableObject` are
  modelled as far as the code in `src/` relies on them and marked external.
- `ConditionalWeakTable.GetValue` may call its factory twice for one instance
  that two threads activate, which wastes a number of `_counter`. `Clear` of the
  activation cache, which nothing in `src/` calls.
- The wrap-around of `_counter`, a 64 bit integer that counts instances for the
  life of the process (`ActivationEntry.cs:17-20` gives the same reason). `Order`
  is a natural number here.
- `IsService` and `IsKeyedService`: they change nothing, and their one divergence
  is described above.
- In `ParallelResolution`: the disposal of the kernel, constructors that make
  scopes and dispose them, the growth of the array of a `List`, and liveness. .NET
  monitors promise no order among the threads that wait, so that a thread may be
  passed over for ever.
- A second `Populate` or `Build` on one kernel, and the `IPopulateAdapter` hooks.
- The missing binding resolvers of Ninject, which come before the one for AnyKey:
  services are interfaces here, and have no default value where an AnyKey
  registration would serve them.
- `ConstrainedGenericBindingResolver`, the scoring of constructors, controller
  bindings and hosting: no state of their own, or configuration of ASP.NET Core.
- `ServiceScopeFactory` and `CreateScope` are the scopes of the models; that a
  scope is created is not a step, an unused one has no effect.

## Plan

Done, in this order: `ScopeDisposal` with its faults, since nearly everything
in the list of hazards is about disposal; `ServiceResolution`; `ScopeSelection`;
`KeyedInjection`; their first theorems; `DisposalPromise` and the refinement;
`ParallelResolution`; theorems for all invariants; theorems that
say where the properties hold that the violations refute.

Left, in this order:

1. The activation cache at the grain of `GetValue`, with two threads that activate
   one instance, and that `Resolve` of `ScopeDisposal` is an abstraction of it.
2. A second `Populate`, modules that bind after `Build`, and Ninject's own missing
   binding resolvers in `ServiceResolution`. The index invariants of its proofs
   (`ItemsAscend`, `IndexKnowsLatest`) then hold for each index only.
3. The disposal of the kernel in `ParallelResolution`.
