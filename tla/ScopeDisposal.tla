--------------------------- MODULE ScopeDisposal ---------------------------
(***************************************************************************)
(* How service instances of Ninject.Web.AspNetCore are tracked, go out of  *)
(* scope and are disposed: DisposalManager with its collector areas,       *)
(* OrderedDisposalStrategy, NinjectServiceScope.Dispose, the Disposed      *)
(* handler of ServiceProviderScopeParameter, AspNetCoreKernel.Dispose and  *)
(* the flags of WeakTableActivationCache.  Ninject's own Cache, Pipeline   *)
(* and DisposableObject are external; they are modelled as the code in src *)
(* relies on them.                                                         *)
(*                                                                         *)
(* A flow is one logical call context (an ExecutionContext): the value of  *)
(* the AsyncLocal DisposalManager._area belongs to a flow.  A flow runs    *)
(* user code when its stack is empty or when the top frame is inside the   *)
(* Dispose method of a service.                                            *)
(***************************************************************************)
EXTENDS Naturals, Sequences

CONSTANTS
    Flow,          \* logical call contexts
    Main,          \* the flows that run from the start; the others are forked
    Instance,      \* service instances
    Scope,         \* NinjectServiceScope objects
    Root,          \* AspNetCoreKernel.RootScope, a member of Scope
    RequestScope,  \* RequestScope objects: disposed without a collector area
    Kernel,        \* the kernel, owner of Ninject's own singletons
    Area,          \* OrderedAggregateDisposalArea objects (bounds their number)
    NoArea, NoInstance, NoOwner,
    Deps,          \* Deps[x]: the instances x was constructed with
    Disposable,    \* the instances that implement IDisposable
    Transient,     \* the instances owned by a TransientScope of their scope
    MaxDepth,      \* bound: nested Dispose calls of one flow
    Env            \* what the application does, see Allows

Owner == Scope \cup RequestScope \cup {Kernel}
Pc == {"raise", "close", "drain", "clear", "forget"}

\* One call on the stack of a flow: what it does, for whom, with which area of
\* its own, which instances are left to dispose or to forget, which entries it
\* removes at its end, and whose Dispose method it is in.
FrameRecord ==
    [pc : Pc, owner : Owner \cup {NoOwner}, area : Area \cup {NoArea},
     rest : SUBSET Instance, purge : SUBSET Instance,
     running : Instance \cup {NoInstance}]

Frame == {fr \in FrameRecord : fr.owner = NoOwner => fr.pc = "forget"}

(***************************************************************************)
(* The application may: "idle" dispose a scope that has nothing left to    *)
(* dispose; "reenter" dispose and resolve in a service's Dispose; "throw"  *)
(* let a Dispose fail; "fork" start a flow; "collect" let the garbage      *)
(* collector run; "share" cache an instance for a second owner; "request"  *)
(* use RequestScopes; "release" release instances; "kernel" dispose the    *)
(* kernel.                                                                 *)
(***************************************************************************)
Allows(e) == e \in Env

ASSUME ConstantsAssumption ==
    /\ Main \subseteq Flow
    /\ Root \in Scope
    /\ Kernel \notin Scope \cup RequestScope
    /\ Scope \cap RequestScope = {}
    /\ NoArea \notin Area
    /\ NoInstance \notin Instance
    /\ NoOwner \notin Owner
    /\ Deps \in [Instance -> SUBSET Instance]
    /\ Disposable \subseteq Instance
    /\ Transient \subseteq Instance

VARIABLES
    counter,      \* ActivationEntry._counter
    order,        \* ActivationEntry.Order, 0 before the activation
    cached,       \* Ninject's Cache: the entries of every owner
    deactivated,  \* the instances with ActivationEntry.IsDeactivated
    calls,        \* how often the library called Dispose of an instance
    disposed,     \* IsDisposed of every owner
    area,         \* the AsyncLocal _area of every flow
    items,        \* the _disposals list of every area
    status,       \* what became of an area
    stack,        \* the Dispose calls every flow is in
    started,      \* the flows that run
    gone,         \* the instances the garbage collector took
    late          \* history: registered when the area was no longer open

vars == <<counter, order, cached, deactivated, calls, disposed, area, items,
          status, stack, started, gone, late>>

Init ==
    /\ counter = 0
    /\ order = [x \in Instance |-> 0]
    /\ cached = [o \in Owner |-> {}]
    /\ deactivated = {}
    /\ calls = [x \in Instance |-> 0]
    /\ disposed = [o \in Owner |-> FALSE]
    /\ area = [f \in Flow |-> NoArea]
    /\ items = [a \in Area |-> {}]
    /\ status = [a \in Area |-> "unused"]
    /\ stack = [f \in Flow |-> <<>>]
    /\ started = Main
    /\ gone = {} /\ late = {}

(***************************************************************************)
(* Frames                                                                  *)
(***************************************************************************)
Top(f) == stack[f][Len(stack[f])]
At(f, pc) == stack[f] # <<>> /\ Top(f).pc = pc /\ Top(f).running = NoInstance
InDispose(f) == stack[f] # <<>> /\ Top(f).running # NoInstance

NewFrame(pc, o, a, rest, purge) ==
    [pc |-> pc, owner |-> o, area |-> a, rest |-> rest, purge |-> purge,
     running |-> NoInstance]

Push(f, frames) == stack' = [stack EXCEPT ![f] = @ \o frames]
SetTop(f, fr) == stack' = [stack EXCEPT ![f] = [@ EXCEPT ![Len(@)] = fr]]
Pop(f) == stack' = [stack EXCEPT ![f] = SubSeq(@, 1, Len(@) - 1)]

\* An exception leaves the top frame.  AspNetCoreKernel.Dispose calls
\* RootScope.Dispose first: it does not get to base.Dispose then.
Unwind(f) ==
    LET n == Len(stack[f])
        k == IF n > 1 /\ stack[f][n - 1].pc = "clear" THEN 2 ELSE 1
    IN  stack' = [stack EXCEPT ![f] = SubSeq(@, 1, n - k)]

\* Code of the application that may call into the library.
UserCode(f) ==
    /\ f \in started
    /\ stack[f] = <<>> \/ (InDispose(f) /\ Allows("reenter"))

\* Ninject's Cache locks its entries for all of Clear and Release, user Dispose
\* methods that run inside included.
CacheFree(f) ==
    \A g \in Flow \ {f} : \A i \in DOMAIN stack[g] : stack[g][i].pc # "forget"

\* Mutant: no IsDeactivated check.
PendingUnchecked(xs) == xs

\* Pipeline.Deactivate does nothing for an instance IsDeactivated already.
Pending(xs) == xs \ deactivated

\* Mutant: OrderBy instead of OrderByDescending.
IsOldest(x, xs) == x \in xs /\ \A y \in xs : order[x] <= order[y]

\* OrderByDescending(entry => entry.Order)
IsNext(x, xs) == x \in xs /\ \A y \in xs : order[y] <= order[x]

\* RemoveInstance with an area: Register on the area of the outermost scope.
Register(a, xs) ==
    /\ items' = [items EXCEPT ![a] = @ \cup xs]
    /\ late' = IF status[a] = "open" THEN late ELSE late \cup xs

(***************************************************************************)
(* Activation: the instance is constructed and remembered by the cache, and*)
(* gets its ActivationEntry, once the instances it depends on have theirs. *)
(* Nothing here asks whether the owner is disposed.                        *)
(***************************************************************************)
CanBeCached(f, x, o) ==
    /\ CacheFree(f)
    /\ ~disposed[Kernel]
    /\ x \in Transient => o \in Scope
    /\ o \in RequestScope => Allows("request")

\* Mutant: Interlocked.Decrement.
NextOrderDown == counter - 1

\* Interlocked.Increment(ref _counter)
NextOrder == counter + 1

Resolve(f, x, o) ==
    /\ UserCode(f) /\ CanBeCached(f, x, o)
    /\ order[x] = 0
    /\ \A d \in Deps[x] : order[d] > 0 /\ d \notin gone
    /\ counter' = counter + 1
    /\ order' = [order EXCEPT ![x] = NextOrder]
    /\ cached' = [cached EXCEPT ![o] = @ \cup {x}]
    /\ UNCHANGED <<deactivated, calls, disposed, area, items, status, stack,
                   started, gone, late>>

\* A factory of the second owner returns an instance that exists already.
Share(f, x, o) ==
    /\ Allows("share")
    /\ UserCode(f) /\ CanBeCached(f, x, o)
    /\ order[x] > 0 /\ x \notin gone /\ x \notin cached[o]
    /\ cached' = [cached EXCEPT ![o] = @ \cup {x}]
    /\ UNCHANGED <<counter, order, deactivated, calls, disposed, area, items,
                   status, stack, started, gone, late>>

(***************************************************************************)
(* NinjectServiceScope.Dispose: using (CreateArea()) { base.Dispose }.  The*)
(* frame "raise" is inside the using block, "close" is area.Dispose, and   *)
(* "drain" is the foreach of OrderedAggregateDisposalArea.Dispose.         *)
(***************************************************************************)
\* _area.Value = ...
SetArea(f, a) == area' = [area EXCEPT ![f] = a]

\* CreateArea
EnterScope(f, s, below) ==
    IF area[f] = NoArea
    THEN \E a \in Area :
            /\ status[a] = "unused"
            /\ SetArea(f, a)
            /\ status' = [status EXCEPT ![a] = "open"]
            /\ Push(f, Append(below, NewFrame("raise", s, a, {}, {})))
    ELSE /\ Push(f, Append(below, NewFrame("raise", s, NoArea, {}, {})))
         /\ UNCHANGED <<area, status>>

\* Without "idle" the application disposes a scope once and only when the
\* cache holds instances for it that are not deactivated yet.
HasWork(s) ==
    /\ ~disposed[s] /\ Pending(cached[s]) # {}
    /\ \A f \in Flow : \A i \in DOMAIN stack[f] : stack[f][i].owner # s

DisposeScope(f, s) ==
    /\ UserCode(f)
    /\ Len(stack[f]) < MaxDepth
    /\ Allows("idle") \/ HasWork(s)
    /\ EnterScope(f, s, <<>>)
    /\ UNCHANGED <<counter, order, cached, deactivated, calls, disposed,
                   items, started, gone, late>>

\* The entries that DisposableObject.Dispose makes the cache forget: those of
\* the TransientScopes and of the scope itself, unless it IsDisposed.
Entries(s) == IF disposed[s] THEN {} ELSE cached[s]

\* The Disposed event: first the handler of ServiceProviderScopeParameter
\* disposes the TransientScopes, then the cache clears the scope.  No user code
\* runs meanwhile, the flow has an area.
RaiseDisposed(f) ==
    LET s == Top(f).owner
        xs == Pending(Entries(s))
    IN  /\ At(f, "raise") /\ CacheFree(f)
        /\ xs # {} => status[area[f]] # "closed"
        /\ Register(area[f], xs)
        /\ deactivated' = deactivated \cup xs
        /\ cached' = [cached EXCEPT ![s] = @ \ Entries(s)]
        /\ disposed' = [disposed EXCEPT ![s] = TRUE]
        /\ SetTop(f, [Top(f) EXCEPT !.pc = "close"])
        /\ UNCHANGED <<counter, order, calls, area, status, started, gone>>

\* _disposals is null: the first Register throws and neither the rest of the
\* event nor IsDisposed = true happens.  The cache removed the entry of the
\* TransientScope, or all of those of the scope, before.
RaiseFails(f) ==
    LET s == Top(f).owner
        xs == Pending(Entries(s))
        first == IF xs \cap Transient # {} THEN xs \cap Transient ELSE xs
    IN  /\ At(f, "raise") /\ CacheFree(f)
        /\ status[area[f]] = "closed"
        /\ \E x \in first :
              /\ deactivated' = deactivated \cup {x}
              /\ cached' = [cached EXCEPT ![s] =
                              IF x \in Transient THEN @ \ {x} ELSE {}]
        /\ Unwind(f)
        /\ UNCHANGED <<counter, order, calls, disposed, area, items, status,
                       started, gone, late>>

\* InnerDisposalArea.Dispose does nothing.
CloseInner(f) ==
    /\ At(f, "close") /\ Top(f).area = NoArea
    /\ Pop(f)
    /\ UNCHANGED <<counter, order, cached, deactivated, calls, disposed, area,
                   items, status, started, gone, late>>

\* _disposals.Count == 0: return.  The flow keeps the area.
CloseEmpty(f) ==
    LET a == Top(f).area
    IN  /\ At(f, "close") /\ a # NoArea /\ items[a] = {}
        /\ status' = [status EXCEPT ![a] = "abandoned"]
        /\ Pop(f)
        /\ UNCHANGED <<counter, order, cached, deactivated, calls, disposed,
                       area, items, started, gone, late>>

\* The foreach works on a sorted copy of the list.
StartDrain(f) ==
    LET a == Top(f).area
    IN  /\ At(f, "close") /\ a # NoArea /\ items[a] # {}
        /\ status' = [status EXCEPT ![a] = "draining"]
        /\ SetTop(f, [Top(f) EXCEPT !.pc = "drain", !.rest = items[a]])
        /\ UNCHANGED <<counter, order, cached, deactivated, calls, disposed,
                       area, items, started, gone, late>>

\* (Reference.Target as IDisposable)?.Dispose() begins.
BeginDispose(x) ==
    IF x \in Disposable \ gone
    THEN calls' = [calls EXCEPT ![x] = @ + 1]
    ELSE calls' = calls

Running(x) == IF x \in Disposable \ gone THEN x ELSE NoInstance

\* Mutant: an entry without an IDisposable is not passed over.
DrainableLiveOnly(xs) == xs \cap (Disposable \ gone)

Drainable(xs) == xs

DisposeNext(f) ==
    /\ At(f, "drain")
    /\ \E x \in Drainable(Top(f).rest) :
          /\ IsNext(x, Top(f).rest)
          /\ BeginDispose(x)
          /\ SetTop(f, [Top(f) EXCEPT !.rest = @ \ {x}, !.running = Running(x)])
    /\ UNCHANGED <<counter, order, cached, deactivated, disposed, area, items,
                   status, started, gone, late>>

\* A Dispose method of a service returns.
DisposeReturns(f) ==
    /\ InDispose(f)
    /\ SetTop(f, [Top(f) EXCEPT !.running = NoInstance])
    /\ UNCHANGED <<counter, order, cached, deactivated, calls, disposed, area,
                   items, status, started, gone, late>>

\* Mutant: a dead reference ends the foreach.
DrainedEarly(xs) == xs = {} \/ xs \cap gone # {}

Drained(xs) == xs = {}

\* Mutant: the flow keeps the area.
KeepArea(f) == area' = area

\* _area.Value = null
ResetArea(f) == SetArea(f, NoArea)

FinishDrain(f) ==
    /\ At(f, "drain") /\ Drained(Top(f).rest)
    /\ ResetArea(f)
    /\ status' = [status EXCEPT ![Top(f).area] = "closed"]
    /\ Pop(f)
    /\ UNCHANGED <<counter, order, cached, deactivated, calls, disposed, items,
                   started, gone, late>>

\* A Dispose method throws out of the foreach or out of the cache.
DisposeThrows(f) ==
    LET fr == Top(f)
    IN  /\ Allows("throw") /\ InDispose(f)
        /\ status' = IF fr.pc = "drain"
                     THEN [status EXCEPT ![fr.area] = "abandoned"] ELSE status
        /\ Unwind(f)
        /\ UNCHANGED <<counter, order, cached, deactivated, calls, disposed,
                       area, items, started, gone, late>>

(***************************************************************************)
(* Ninject's Cache forgets instances outside of a NinjectServiceScope: for *)
(* a disposed RequestScope, a released instance or the disposed kernel.    *)
(***************************************************************************)
DisposeRequestScope(f, p) ==
    /\ Allows("request") /\ UserCode(f) /\ CacheFree(f)
    /\ Len(stack[f]) < MaxDepth /\ ~disposed[p]
    /\ cached' = [cached EXCEPT ![p] = {}]
    /\ Push(f, <<NewFrame("forget", p, NoArea, cached[p], {})>>)
    /\ UNCHANGED <<counter, order, deactivated, calls, disposed, area, items,
                   status, started, gone, late>>

Release(f, x) ==
    /\ Allows("release") /\ UserCode(f) /\ CacheFree(f)
    /\ Len(stack[f]) < MaxDepth /\ ~disposed[Kernel]
    /\ \E o \in Owner : x \in cached[o]
    /\ Push(f, <<NewFrame("forget", NoOwner, NoArea, {x}, {x})>>)
    /\ UNCHANGED <<counter, order, cached, deactivated, calls, disposed, area,
                   items, status, started, gone, late>>

\* AspNetCoreKernel.Dispose: RootScope.Dispose(), then base.Dispose ("clear").
DisposeKernel(f) ==
    /\ Allows("kernel") /\ UserCode(f)
    /\ Len(stack[f]) + 1 < MaxDepth /\ ~disposed[Kernel]
    /\ Allows("idle") \/ HasWork(Root)
    /\ EnterScope(f, Root, <<NewFrame("clear", Kernel, NoArea, {}, {})>>)
    /\ UNCHANGED <<counter, order, cached, deactivated, calls, disposed,
                   items, started, gone, late>>

\* Mutant: only the kernel's own entries.
OwnEntries == cached[Kernel]

\* KernelBase.Dispose: Cache.Clear() forgets every entry there is.
AllEntries == UNION {cached[o] : o \in Owner}

KernelClear(f) ==
    /\ At(f, "clear") /\ CacheFree(f)
    /\ SetTop(f, NewFrame("forget", Kernel, NoArea, AllEntries, Instance))
    /\ UNCHANGED <<counter, order, cached, deactivated, calls, disposed, area,
                   items, status, started, gone, late>>

\* OrderedDisposalStrategy without an area: ImmediateDisposal.
ForgetNow(f) ==
    /\ At(f, "forget") /\ area[f] = NoArea
    /\ \E x \in Pending(Top(f).rest) :
          /\ deactivated' = deactivated \cup {x}
          /\ BeginDispose(x)
          /\ SetTop(f, [Top(f) EXCEPT !.rest = @ \ {x}, !.running = Running(x)])
    /\ UNCHANGED <<counter, order, cached, disposed, area, items, status,
                   started, gone, late>>

ForgetIntoArea(f) ==
    /\ At(f, "forget") /\ area[f] # NoArea /\ status[area[f]] # "closed"
    /\ \E x \in Pending(Top(f).rest) :
          /\ deactivated' = deactivated \cup {x}
          /\ Register(area[f], {x})
          /\ SetTop(f, [Top(f) EXCEPT !.rest = @ \ {x}])
    /\ UNCHANGED <<counter, order, cached, calls, disposed, area, status,
                   started, gone>>

\* _disposals is null: Register throws.
ForgetFails(f) ==
    /\ At(f, "forget") /\ area[f] # NoArea /\ status[area[f]] = "closed"
    /\ \E x \in Pending(Top(f).rest) :
          /\ deactivated' = deactivated \cup {x}
    /\ Unwind(f)
    /\ UNCHANGED <<counter, order, cached, calls, disposed, area, items,
                   status, started, gone, late>>

\* Entries that were cached while the kernel forgot the others go unseen.
FinishForget(f) ==
    LET fr == Top(f)
    IN  /\ At(f, "forget") /\ Pending(fr.rest) = {}
        /\ cached' = [o \in Owner |-> cached[o] \ fr.purge]
        /\ disposed' = IF fr.owner = NoOwner THEN disposed
                       ELSE [disposed EXCEPT ![fr.owner] = TRUE]
        /\ Pop(f)
        /\ UNCHANGED <<counter, order, deactivated, calls, area, items, status,
                       started, gone, late>>

(***************************************************************************)
(* The runtime                                                             *)
(***************************************************************************)
\* A new flow starts with a copy of its parent's AsyncLocal values.
Fork(f, g) ==
    /\ Allows("fork") /\ f \in started /\ g \notin started
    /\ stack[f] = <<>> \/ InDispose(f)
    /\ area' = [area EXCEPT ![g] = area[f]]
    /\ started' = started \cup {g}
    /\ UNCHANGED <<counter, order, cached, deactivated, calls, disposed, items,
                   status, stack, gone, late>>

\* An instance is reachable from the cache, from a Clear that goes on, from its
\* own Dispose method and from the instances that depend on it; an
\* ActivationEntry only holds it weakly.
Reachable(x) ==
    \/ \E o \in Owner : x \in cached[o]
    \/ \E f \in Flow : \E i \in DOMAIN stack[f] :
          \/ stack[f][i].running = x
          \/ stack[f][i].pc = "forget" /\ x \in stack[f][i].rest
    \/ \E y \in Instance : x \in Deps[y] /\ order[y] > 0 /\ y \notin gone

Collect(x) ==
    /\ Allows("collect")
    /\ order[x] > 0 /\ x \notin gone /\ ~Reachable(x)
    /\ gone' = gone \cup {x}
    /\ UNCHANGED <<counter, order, cached, deactivated, calls, disposed, area,
                   items, status, stack, started, late>>

LibraryStep(f) ==
    \/ RaiseDisposed(f) \/ RaiseFails(f)
    \/ CloseInner(f) \/ CloseEmpty(f) \/ StartDrain(f)
    \/ DisposeNext(f) \/ FinishDrain(f)
    \/ KernelClear(f) \/ ForgetNow(f) \/ ForgetIntoArea(f) \/ ForgetFails(f)
    \/ FinishForget(f)

ApplicationStep(f) ==
    \/ \E x \in Instance, o \in Owner : Resolve(f, x, o) \/ Share(f, x, o)
    \/ \E s \in Scope : DisposeScope(f, s)
    \/ \E p \in RequestScope : DisposeRequestScope(f, p)
    \/ \E x \in Instance : Release(f, x)
    \/ DisposeKernel(f)
    \/ DisposeReturns(f) \/ DisposeThrows(f)
    \/ \E g \in Flow : Fork(f, g)

Next ==
    \/ \E f \in Flow : LibraryStep(f) \/ ApplicationStep(f)
    \/ \E x \in Instance : Collect(x)

Spec == Init /\ [][Next]_vars

\* The library's steps are plain code that runs when it can; every Dispose method
\* of a service comes to its end, whatever it calls.
Fairness == \A f \in Flow : WF_vars(LibraryStep(f)) /\ SF_vars(DisposeReturns(f))

FairSpec == Spec /\ Fairness

-----------------------------------------------------------------------------
(***************************************************************************)
(* The abstract specification.  An area is a group of what it collected    *)
(* while it was open; all else a disposal goes through is hidden.          *)
(***************************************************************************)
Promise ==
    INSTANCE DisposalPromise WITH
        Group <- Area,
        created <- {x \in Instance : order[x] > 0},
        condemned <- deactivated,
        group <- [a \in Area |-> items[a] \ late],
        closed <- {a \in Area : status[a] = "closed"},
        lost <- gone

\* Whatever the application does, disposal keeps its promise: instances go out of
\* scope once, an area only collects while none of it is disposed, disposes each
\* after those that depend on it and is through when nothing is left
\* (DisposalManager.cs:12-22, 84-98, 116-119).
KeepsPromise == Promise!Spec

-----------------------------------------------------------------------------
(***************************************************************************)
(* Properties                                                              *)
(***************************************************************************)
TypeOK ==
    /\ counter \in Nat
    /\ order \in [Instance -> Nat]
    /\ cached \in [Owner -> SUBSET Instance]
    /\ deactivated \subseteq Instance
    /\ calls \in [Instance -> Nat]
    /\ disposed \in [Owner -> BOOLEAN]
    /\ area \in [Flow -> Area \cup {NoArea}]
    /\ items \in [Area -> SUBSET Instance]
    /\ status \in [Area -> {"unused", "open", "draining", "closed", "abandoned"}]
    /\ stack \in [Flow -> Seq(Frame)]
    /\ started \subseteq Flow
    /\ gone \subseteq Instance
    /\ late \subseteq Instance

\* The library calls Dispose of an instance at most once, however many owners
\* cache it, whichever flows dispose them and whatever the Dispose methods do
\* (Pipeline.Deactivate with IsDeactivated, DisposalManager.cs:40-43, 91-94).
DisposeOnce == \A x \in Instance : calls[x] <= 1

\* Of the services an area collected while it was open, one that another was
\* constructed with is disposed after the other: DisposesInReverseOrderOfCreation
\* (DisposalManager.cs:12-17, 91), across owners and nested Dispose calls.
DependentsFirst ==
    \A a \in Area : \A x, y \in items[a] \ late :
        y \in Deps[x] /\ calls[y] > 0 => calls[x] > 0 \/ x \notin Disposable \ gone

\* When an area's Dispose is through, everything it collected while it was open
\* has been disposed or was collected by the garbage collector before
\* (DisposalManager.cs:84-98).
DrainComplete ==
    \A a \in Area : status[a] = "closed" =>
        \A x \in (items[a] \ late) \cap Disposable : calls[x] = 1 \/ x \in gone

\* A flow that was not forked and has no Dispose call pending has no collector
\* area left over, but for one that was left empty or by an exception
\* (DisposalManager.cs:57-65, 86-97).
IdleFlowArea ==
    \A f \in Main : stack[f] = <<>> /\ area[f] # NoArea =>
        status[area[f]] = "abandoned"

\* Where no Dispose method resolves or throws and no flow is forked, an instance
\* the cache was given is still there to be forgotten until it is deactivated:
\* no order of scope, request scope, release and kernel disposal loses one
\* (NinjectServiceScope.cs:25-31, AspNetCoreKernel.cs:77-85).
TrackedUntilDeactivated ==
    \A x \in Instance : order[x] > 0 /\ x \notin deactivated =>
        \/ \E o \in Owner : x \in cached[o]
        \/ \E f \in Flow : \E i \in DOMAIN stack[f] :
              stack[f][i].pc = "forget" /\ x \in stack[f][i].rest

\* A disposed kernel leaves no instance behind, not even one that was resolved
\* through a scope that had been disposed already: where no Dispose method resolves
\* or throws and no flow is forked (AspNetCoreKernel.cs:77-85,
\* NinjectServiceScope.cs:25-31).
KernelDeactivatesAll ==
    disposed[Kernel] => \A x \in Instance : order[x] > 0 => x \in deactivated

\* A disposable service that went out of scope and was not disposed is on the
\* list of an area that a flow was left with: where no Dispose method resolves or
\* disposes a scope, no flow is forked and the garbage collector does not run,
\* nothing else can lose one, Dispose methods that throw included
\* (DisposalManager.cs:40-43, 84-98, 116-119).
LostInAbandonedArea ==
    (\A f \in Flow : stack[f] = <<>>) =>
        \A x \in deactivated \cap Disposable :
            \/ calls[x] = 1
            \/ \E a \in Area : status[a] = "abandoned" /\ x \in items[a]

\* When no Dispose call is under way, every disposable service that went out of
\* scope has been disposed (README.md, "Disposal Ordering"; the comments of
\* DisposalManager.cs:12-22 and 109-126).
ScopeDisposesServices ==
    (\A f \in Flow : stack[f] = <<>>) =>
        \A x \in deactivated \cap Disposable : calls[x] = 1

\* Every Dispose call comes to its end: the drain of an area and the forgetting
\* of a cache never wait for each other (DisposalManager.cs:84-98).
DisposeTerminates ==
    \A f \in Flow : stack[f] # <<>> ~> stack[f] = <<>>

=============================================================================
