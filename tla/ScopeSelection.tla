--------------------------- MODULE ScopeSelection ---------------------------
(***************************************************************************)
(* Which scope owns a service instance and which IServiceProvider it gets: *)
(* the lifetimes of ServiceCollectionAdapter, the scope parameter that a   *)
(* NinjectServiceProvider adds to its requests, GetRequestScope of the     *)
(* AspNetCoreApplicationPlugin, RequestScope with its AsyncLocal, the      *)
(* RequestScopeMiddleware and the binding of IServiceProvider.             *)
(*                                                                         *)
(* A flow is a logical call context.  What a scope does to its instances   *)
(* when it is disposed is the subject of ScopeDisposal, and so is what the *)
(* kernel forgets after its RootScope: here they are gone.  Nothing keeps  *)
(* a flow from using the provider of a scope that was disposed.  Instances *)
(* of one service that one scope owns are not told apart.                  *)
(***************************************************************************)
CONSTANTS
    Flow,           \* logical call contexts
    Main,           \* the flows that handle requests; the others are forked
    RequestScope,   \* RequestScope objects (bounds the number of requests)
    ServiceScope,   \* NinjectServiceScope objects
    Root,           \* AspNetCoreKernel.RootScope, a member of ServiceScope
    NoScope,        \* null; as the source of a request: kernel.Get
    Service,        \* the registered services
    Singleton, Scoped, Transient,  \* their lifetimes
    Factory,        \* the services with an ImplementationFactory
    Provider,       \* the service IServiceProvider
    Deps,           \* Deps[t]: the services an instance of t holds on to
    Detached        \* the forked flows that nobody waits for

SourceScope == ServiceScope \cup {NoScope}
Owner == ServiceScope \cup RequestScope

ASSUME ScopesAssumption ==
    /\ Main \subseteq Flow
    /\ Detached \subseteq Flow \ Main
    /\ Root \in ServiceScope
    /\ ServiceScope \cap RequestScope = {}
    /\ NoScope \notin Owner

ASSUME ServicesAssumption ==
    /\ Service = Singleton \cup Scoped \cup Transient
    /\ Singleton \cap Scoped = {} /\ Singleton \cap Transient = {}
    /\ Scoped \cap Transient = {}
    /\ Factory \subseteq Service
    /\ Provider \notin Service
    /\ Deps \in [Service -> SUBSET (Service \cup {Provider})]

VARIABLES
    current,    \* the AsyncLocal RequestScope._current of every flow
    inside,     \* the RequestScope of the using block a flow is in
    used,       \* the RequestScopes that were constructed
    disposed,   \* the scopes that were disposed
    started,    \* the flows that run
    instances,  \* <<t, o>>: o owns an instance of t
    holds       \* <<t, o, d, p>>: that instance holds one of d that p owns

vars == <<current, inside, used, disposed, started, instances, holds>>

Init ==
    /\ current = [f \in Flow |-> NoScope]
    /\ inside = [f \in Flow |-> NoScope]
    /\ used = {} /\ disposed = {}
    /\ started = Main
    /\ instances = {} /\ holds = {}

(***************************************************************************)
(* RequestScope and its middleware                                         *)
(***************************************************************************)
\* _current.Value = ...
SetCurrent(f, r) == current' = [current EXCEPT ![f] = r]

\* using (new RequestScope()): the constructor throws when there is one.
EnterRequest(f) ==
    /\ f \in started /\ inside[f] = NoScope
    /\ current[f] = NoScope
    /\ \E r \in RequestScope \ used :
          /\ SetCurrent(f, r)
          /\ inside' = [inside EXCEPT ![f] = r]
          /\ used' = used \cup {r}
    /\ UNCHANGED <<disposed, started, instances, holds>>

\* What a disposed scope owned is gone.
Dispose(o) ==
    /\ disposed' = disposed \cup {o}
    /\ instances' = {i \in instances : i[2] # o}
    /\ holds' = {h \in holds : h[2] # o}

\* Mutant: Dispose leaves _current as it is.
KeepCurrent(f) == current' = current

\* Mutant: one field for all flows is cleared.
ClearCurrentOfAll(f) == current' = [g \in Flow |-> NoScope]

\* _current.Value = null
ClearCurrent(f) == SetCurrent(f, NoScope)

\* The end of the using block.  A handler is not through before the flows it
\* waits for.
LeaveRequest(f) ==
    /\ f \in started /\ inside[f] # NoScope
    /\ \A g \in started \ (Detached \cup {f}) : current[g] # inside[f]
    /\ ClearCurrent(f)
    /\ inside' = [inside EXCEPT ![f] = NoScope]
    /\ Dispose(inside[f])
    /\ UNCHANGED <<used, started>>

\* A flow that the application forks gets a copy of the AsyncLocals.  Nobody
\* waits for what a detached flow forks either.
Fork(f, g) ==
    /\ f \in started /\ g \notin started /\ g \notin Main
    /\ f \in Detached => g \in Detached
    /\ started' = started \cup {g}
    /\ current' = [current EXCEPT ![g] = current[f]]
    /\ UNCHANGED <<inside, used, disposed, instances, holds>>

End(g) ==
    /\ g \in started \ Main /\ inside[g] = NoScope
    /\ started' = started \ {g}
    /\ UNCHANGED <<current, inside, used, disposed, instances, holds>>

\* NinjectServiceScope.Dispose; that of the root scope is called by the kernel
\* and by the root's IServiceProvider.
DisposeScope(s) ==
    /\ s \notin disposed
    /\ Dispose(s)
    /\ UNCHANGED <<current, inside, used, started>>

(***************************************************************************)
(* The scope of an instance, for a request through the provider of source, *)
(* or through the kernel, in flow f                                        *)
(***************************************************************************)
\* Mutant: RequestScope.Current ?? scope
GetRequestScopeCurrent(f, source) ==
    IF current[f] # NoScope THEN current[f] ELSE source

\* scope ?? RequestScope.Current ?? throw
GetRequestScope(f, source) == IF source # NoScope THEN source ELSE current[f]

\* ConfigureLifecycle.  A singleton is the root scope's.  A transient belongs
\* to a TransientScope that its source disposes; without one nobody owns it.
ScopeOf(f, source, t) ==
    IF t \in Singleton THEN Root
    ELSE IF t \in Scoped THEN GetRequestScope(f, source) ELSE source

\* An ImplementationFactory gets the IServiceProvider of the source, or the
\* kernel's: its requests go there.  Constructor arguments inherit the
\* parameters of the request.
SourceOfDeps(source, t) ==
    IF t \in Factory /\ source = NoScope THEN Root ELSE source

\* Mutant: no exception for singletons.
InjectedProviderOfSource(source, t) == IF source = NoScope THEN Root ELSE source

\* The binding of IServiceProvider: the source's, the root's for a singleton.
InjectedProvider(source, t) ==
    IF source = NoScope \/ t \in Singleton THEN Root ELSE source

ProviderOf(source, t) ==
    IF t \in Factory THEN SourceOfDeps(source, t) ELSE InjectedProvider(source, t)

ScopeOfDep(f, source, t, d) ==
    IF d = Provider THEN ProviderOf(source, t)
    ELSE ScopeOf(f, SourceOfDeps(source, t), d)

Owned(t, o) == t = Provider \/ o = NoScope \/ <<t, o>> \in instances

\* Mutant: no exception where there is no scope.
HasScopeUnchecked(o) == TRUE

\* GetRequestScope throws without a scope; a transient that nobody owns is not
\* tracked.
HasScope(o) == o # NoScope

\* An instance is made when those it depends on are there.  A scope that was
\* disposed makes and owns instances like any other.
Activate(f, source, t) ==
    LET o == ScopeOf(f, source, t)
    IN  /\ f \in started
        /\ HasScope(o)
        /\ t \notin Transient => <<t, o>> \notin instances
        /\ \A d \in Deps[t] : Owned(d, ScopeOfDep(f, source, t, d))
        /\ \A d \in Deps[t] \cap Scoped : HasScope(ScopeOfDep(f, source, t, d))
        /\ instances' = instances \cup {<<t, o>>}
        /\ holds' = holds \cup
              {<<t, o, d, ScopeOfDep(f, source, t, d)>> : d \in Deps[t]}
        /\ UNCHANGED <<current, inside, used, disposed, started>>

Next ==
    \/ \E f \in Flow :
          \/ EnterRequest(f) \/ LeaveRequest(f) \/ End(f)
          \/ \E g \in Flow : Fork(f, g)
          \/ \E s \in SourceScope, t \in Service : Activate(f, s, t)
    \/ \E s \in ServiceScope : DisposeScope(s)

Spec == Init /\ [][Next]_vars

-----------------------------------------------------------------------------
(***************************************************************************)
(* Properties                                                              *)
(***************************************************************************)
TypeOK ==
    /\ current \in [Flow -> RequestScope \cup {NoScope}]
    /\ inside \in [Flow -> RequestScope \cup {NoScope}]
    /\ used \subseteq RequestScope
    /\ disposed \subseteq Owner
    /\ started \subseteq Flow
    /\ instances \subseteq Service \X Owner
    /\ holds \subseteq
          Service \X Owner \X (Service \cup {Provider}) \X (Owner \cup {NoScope})

\* A singleton takes its dependencies along only where they are singletons
\* or the IServiceProvider of its constructor.
NoCaptives ==
    \A t \in Singleton :
        /\ Deps[t] \subseteq Singleton \cup {Provider}
        /\ t \in Factory => Provider \notin Deps[t]

\* A provider is alive until its scope is disposed.
Alive(d, o) ==
    IF d = Provider THEN o \notin disposed ELSE o = NoScope \/ <<d, o>> \in instances

\* Given NoCaptives, no instance that is alive holds one that is gone or the
\* provider of a disposed scope: no path a request for a service takes mixes
\* lifetimes, through whichever provider and in whichever flow, also after its
\* scope or request came to an end.  Disposal of the root scope takes the
\* singletons from under everybody, and what is made in a disposed scope has
\* the provider of that scope
\* (AspNetCoreApplicationPlugin.cs:17-25, NinjectServiceProviderBuilder.cs:29-39,
\* ServiceCollectionAdapter.cs:120-137).
HeldAlive ==
    \A h \in holds :
        \/ Alive(h[3], h[4])
        \/ h[4] = Root /\ Root \in disposed
        \/ h[3] = Provider /\ h[4] = h[2]

\* While its handler runs, the RequestScope of a request is the current one,
\* whatever other requests and forked flows do (RequestScope.cs:9-24).
RequestKeepsScope ==
    \A f \in Flow : inside[f] # NoScope =>
        current[f] = inside[f] /\ inside[f] \notin disposed

\* "returns the currently active request scope"
\* (AspNetCoreApplicationPlugin.cs:23), but for the flows that nobody waits for,
\* which keep the one they were forked in.
CurrentIsActive == \A f \in started \ Detached : current[f] \notin disposed

=============================================================================
