------------------------ MODULE ParallelResolution ------------------------
(***************************************************************************)
(* Threads that resolve services and dispose scopes at the same time, step *)
(* by step: the scope an instance belongs to (ConfigureLifecycle), the     *)
(* TransientScopes a ServiceProviderScopeParameter keeps in a List without *)
(* a lock, and the monitors Ninject takes.  Ninject locks the scope object *)
(* of a binding from before it looks in its cache until the instance is    *)
(* activated, its dependencies included, and locks a scope object while it *)
(* raises Disposed; the cache has a lock of its own.                       *)
(*                                                                         *)
(* The stack of a thread has a frame for every service it resolves, the    *)
(* dependency above its dependent, or one for the Dispose call it is in.   *)
(* Which monitors it holds follows from the frames.                        *)
(***************************************************************************)
EXTENDS Naturals, Sequences

CONSTANTS
    Thread,
    Scope,         \* NinjectServiceScope objects
    Root,          \* AspNetCoreKernel.RootScope, a member of Scope
    RequestScope,  \* RequestScope objects
    Child,         \* TransientScope objects (bounds their number)
    Cache,         \* the lock of Ninject's Cache
    NoLock, NoService,
    Service,
    Lifetime,      \* Lifetime[x]: "singleton", "scoped" or "transient"
    Needs,         \* Needs[x]: the services x is constructed with
    Asks,          \* bound: which scope is asked for which service
    MaxSize,       \* bound: elements of a _children list
    Env            \* what the application does, see Allows

Asking == Scope \cup RequestScope
Owner == Asking \cup Child
Index == 0 .. MaxSize - 1
Pc == {"derive", "size", "slot", "enter", "try", "create",
       "raise", "children", "clear", "forget"}

\* What a frame resolves and for which scope, or which scope it disposes; the
\* object it locks; the dependencies left to resolve; the size of the List that
\* was read, or the index and the version of its enumerator.
Frame ==
    [pc : Pc, svc : Service \cup {NoService}, asking : Asking,
     owner : Owner \cup {NoLock}, left : SUBSET Service, n : Nat, ver : Nat]

\* The application may: "inuse" dispose a scope that another thread uses; "late"
\* ask a scope that was disposed; "callback" resolve in a Dispose method that a
\* RequestScope calls.
Allows(e) == e \in Env

\* No singleton depends on a scoped service, directly or not.
ASSUME NoCaptives ==
    \E apart \in SUBSET Service :
        /\ \A x \in Service : Lifetime[x] = "singleton" => x \in apart
        /\ \A x \in apart : Lifetime[x] # "scoped" /\ Needs[x] \subseteq apart

\* Nothing depends on itself: Ninject refuses cyclic dependencies.
ASSUME NoCycles ==
    \A xs \in (SUBSET Service) \ {{}} : \E x \in xs : Needs[x] \cap xs = {}

ASSUME ParallelAssumption ==
    /\ Root \in Scope
    /\ Scope \cap RequestScope = {} /\ Asking \cap Child = {}
    /\ Cache \notin Owner /\ NoLock \notin Owner \cup {Cache}
    /\ NoService \notin Service
    /\ Lifetime \in [Service -> {"singleton", "scoped", "transient"}]
    /\ Needs \in [Service -> SUBSET Service]
    /\ Asks \subseteq Asking \X Service
    /\ MaxSize \in Nat

VARIABLES
    stack,      \* what every thread is doing
    entries,    \* Ninject's Cache: how many instances of a service an owner has
    disposed,   \* IsDisposed of the scopes
    parent,     \* the scope a TransientScope was derived from
    size,       \* _children._size of every scope
    slot,       \* _children._items
    version     \* _children._version

vars == <<stack, entries, disposed, parent, size, slot, version>>

Init ==
    /\ stack = [t \in Thread |-> <<>>]
    /\ entries = [o \in Owner |-> [x \in Service |-> 0]]
    /\ disposed = {}
    /\ parent = [c \in Child |-> NoLock]
    /\ size = [s \in Scope |-> 0]
    /\ slot = [s \in Scope |-> [i \in Index |-> NoLock]]
    /\ version = [s \in Scope |-> 0]

(***************************************************************************)
(* Frames and monitors                                                     *)
(***************************************************************************)
Top(t) == stack[t][Len(stack[t])]
At(t, pc) == stack[t] # <<>> /\ Top(t).pc = pc

SetTop(t, fr) == stack' = [stack EXCEPT ![t] = [@ EXCEPT ![Len(@)] = fr]]
Pop(t) == stack' = [stack EXCEPT ![t] = SubSeq(@, 1, Len(@) - 1)]
Push(t, fr) == stack' = [stack EXCEPT ![t] = Append(@, fr)]

\* Monitors are held from pc to pc of a frame and given back with the frame.
HeldBy(fr) ==
    (IF fr.pc \in {"try", "create", "children", "clear", "forget"}
     THEN {fr.owner} \ {NoLock} ELSE {})
    \cup (IF fr.pc = "forget" THEN {Cache} ELSE {})

Held(t) == UNION {HeldBy(stack[t][i]) : i \in DOMAIN stack[t]}

NextChild(fr) == slot[fr.asking][fr.n]

\* The foreach goes on: the list was not changed and has another element.
HasNext(fr) == fr.ver = version[fr.asking] /\ fr.n < size[fr.asking]

\* The monitors the next step of a frame has to enter.
Wanted(fr) ==
    (IF fr.pc \in {"enter", "raise"} THEN {fr.owner} \ {NoLock} ELSE {})
    \cup (IF \/ fr.pc = "clear"
             \/ fr.pc = "try" /\ fr.owner # NoLock
             \/ fr.pc = "create" /\ fr.left = {} /\ fr.owner # NoLock
          THEN {Cache} ELSE {})
    \cup (IF fr.pc = "children" /\ HasNext(fr) /\ NextChild(fr) # NoLock
          THEN {NextChild(fr), Cache} ELSE {})

\* A thread waits for another one that is in a monitor it has to enter.
WaitsFor(t, u) ==
    stack[t] # <<>> /\ t # u /\ Held(u) \cap Wanted(Top(t)) # {}

Waits(t) == \E u \in Thread : WaitsFor(t, u)

(***************************************************************************)
(* Resolving                                                               *)
(***************************************************************************)
\* Mutant: the scope that is asked.
SingletonOwnerAsked(s) == s

\* context.Kernel.RootScope
SingletonOwner(s) == Root

\* ConfigureLifecycle and GetRequestScope.  A transient has no owner yet.
OwnerOf(x, s) ==
    IF Lifetime[x] = "singleton" THEN SingletonOwner(s)
    ELSE IF Lifetime[x] = "scoped" THEN s ELSE NoLock

\* Without a ServiceProviderScopeParameter a transient has no scope.
Resolving(x, s) ==
    [pc |-> IF Lifetime[x] = "transient" /\ s \in Scope THEN "derive" ELSE "enter",
     svc |-> x, asking |-> s, owner |-> OwnerOf(x, s), left |-> {}, n |-> 0, ver |-> 0]

\* A thread is in the Dispose call of a scope.
Disposes(t, s) ==
    stack[t] # <<>> /\ stack[t][1].svc = NoService /\ stack[t][1].asking = s

\* A thread resolves a service from a scope.
Uses(t, s) ==
    \E i \in DOMAIN stack[t] : stack[t][i].svc # NoService /\ stack[t][i].asking = s

Request(t, s, x) ==
    /\ <<s, x>> \in Asks
    /\ stack[t] = <<>> \/ (At(t, "forget") /\ Allows("callback"))
    /\ s \in disposed => Allows("late")
    /\ Allows("inuse") \/ \A u \in Thread \ {t} : ~Disposes(u, s) /\ ~Disposes(u, Root)
    /\ Push(t, Resolving(x, s))
    /\ UNCHANGED <<entries, disposed, parent, size, slot, version>>

\* Mutant: one TransientScope for all transients of a scope.
CanDeriveSame(c, s) ==
    parent[c] = s \/ (parent[c] = NoLock /\ \A d \in Child : parent[d] # s)

\* new TransientScope()
CanDerive(c, s) == parent[c] = NoLock

\* DeriveTransientScope: List.Add reads the size, ...
DeriveTransientScope(t) ==
    LET s == Top(t).asking
    IN  /\ At(t, "derive") /\ size[s] < MaxSize
        /\ \E c \in Child :
              /\ CanDerive(c, s)
              /\ parent' = [parent EXCEPT ![c] = s]
              /\ SetTop(t, [Top(t) EXCEPT !.pc = "size", !.owner = c, !.n = size[s]])
        /\ version' = [version EXCEPT ![s] = @ + 1]
        /\ UNCHANGED <<entries, disposed, size, slot>>

\* Mutant: the capacity the list grows to.
NewSizeGrown(n) == IF n = 0 THEN 4 ELSE 2 * n

NewSize(n) == n + 1

\* ... writes it ...
AddSize(t) ==
    LET fr == Top(t)
    IN  /\ At(t, "size")
        /\ size' = [size EXCEPT ![fr.asking] = NewSize(fr.n)]
        /\ SetTop(t, [fr EXCEPT !.pc = "slot"])
        /\ UNCHANGED <<entries, disposed, parent, slot, version>>

\* ... and puts the child in its place.
AddSlot(t) ==
    LET fr == Top(t)
    IN  /\ At(t, "slot")
        /\ slot' = [slot EXCEPT ![fr.asking][fr.n] = fr.owner]
        /\ SetTop(t, [fr EXCEPT !.pc = "enter", !.n = 0])
        /\ UNCHANGED <<entries, disposed, parent, size, version>>

\* Context.Resolve: lock (scope)
Enter(t) ==
    /\ At(t, "enter") /\ ~Waits(t)
    /\ SetTop(t, [Top(t) EXCEPT !.pc = "try"])
    /\ UNCHANGED <<entries, disposed, parent, size, slot, version>>

\* Mutant: nothing is looked up.
FoundNever(fr) == FALSE

\* Cache.TryGet
Found(fr) == fr.owner # NoLock /\ entries[fr.owner][fr.svc] > 0

TryGet(t) ==
    LET fr == Top(t)
    IN  /\ At(t, "try") /\ ~Waits(t)
        /\ \/ Found(fr) /\ Pop(t)
           \/ ~Found(fr) /\ SetTop(t, [fr EXCEPT !.pc = "create", !.left = Needs[fr.svc]])
        /\ UNCHANGED <<entries, disposed, parent, size, slot, version>>

\* A constructor parameter is resolved for the same scope.
ResolveNeed(t) ==
    LET fr == Top(t)
    IN  /\ At(t, "create")
        /\ \E d \in fr.left :
              stack' = [stack EXCEPT ![t] =
                          Append([@ EXCEPT ![Len(@)] = [fr EXCEPT !.left = @ \ {d}]],
                                 Resolving(d, fr.asking))]
        /\ UNCHANGED <<entries, disposed, parent, size, slot, version>>

\* Cache.Remember and Pipeline.Activate
Remember(t) ==
    LET fr == Top(t)
    IN  /\ At(t, "create") /\ fr.left = {} /\ ~Waits(t)
        /\ entries' = IF fr.owner = NoLock THEN entries
                      ELSE [entries EXCEPT ![fr.owner][fr.svc] = @ + 1]
        /\ Pop(t)
        /\ UNCHANGED <<disposed, parent, size, slot, version>>

\* A constructor throws: out of all the frames.
ConstructorThrows(t) ==
    /\ At(t, "create") /\ Top(t).left = {}
    /\ stack' = [stack EXCEPT ![t] = <<>>]
    /\ UNCHANGED <<entries, disposed, parent, size, slot, version>>

(***************************************************************************)
(* Disposing                                                               *)
(***************************************************************************)
Disposing(s) ==
    [pc |-> "raise", svc |-> NoService, asking |-> s, owner |-> s, left |-> {},
     n |-> 0, ver |-> 0]

Dispose(t, s) ==
    /\ stack[t] = <<>>
    /\ s \notin disposed
    /\ Allows("inuse") \/ \A u \in Thread \ {t} : ~Uses(u, s) /\ (s = Root => stack[u] = <<>>)
    /\ Push(t, Disposing(s))
    /\ UNCHANGED <<entries, disposed, parent, size, slot, version>>

\* DisposableObject.Dispose: lock (this), and Disposed is raised once.
Raise(t) ==
    LET fr == Top(t)
        s == fr.asking
    IN  /\ At(t, "raise") /\ ~Waits(t)
        /\ \/ s \in disposed /\ Pop(t)
           \/ /\ s \in Scope \ disposed
              /\ SetTop(t, [fr EXCEPT !.pc = "children", !.ver = version[s]])
           \/ /\ s \in RequestScope \ disposed
              /\ SetTop(t, [fr EXCEPT !.pc = "clear"])
        /\ UNCHANGED <<entries, disposed, parent, size, slot, version>>

None == [x \in Service |-> 0]

\* child.Dispose(): the cache forgets what the TransientScope owns.  (Its lock is
\* only needed where it owns anything.)
DisposeChild(t) ==
    LET fr == Top(t)
        c == NextChild(fr)
    IN  /\ At(t, "children") /\ ~Waits(t)
        /\ HasNext(fr) /\ c # NoLock
        /\ entries' = [entries EXCEPT ![c] = None]
        /\ SetTop(t, [fr EXCEPT !.n = @ + 1])
        /\ UNCHANGED <<disposed, parent, size, slot, version>>

\* The list was changed meanwhile, or its element is not there yet: the exception
\* leaves Dispose, the scope is not disposed and keeps its instances.
ChildrenThrow(t) ==
    LET fr == Top(t)
    IN  /\ At(t, "children")
        /\ \/ fr.ver # version[fr.asking]
           \/ HasNext(fr) /\ NextChild(fr) = NoLock
        /\ Pop(t)
        /\ UNCHANGED <<entries, disposed, parent, size, slot, version>>

ChildrenDone(t) ==
    LET fr == Top(t)
    IN  /\ At(t, "children")
        /\ fr.ver = version[fr.asking] /\ fr.n >= size[fr.asking]
        /\ SetTop(t, [fr EXCEPT !.pc = "clear"])
        /\ UNCHANGED <<entries, disposed, parent, size, slot, version>>

\* The cache forgets what a service scope owns; its area disposes it later.
ClearScope(t) ==
    LET s == Top(t).asking
    IN  /\ At(t, "clear") /\ ~Waits(t) /\ s \in Scope
        /\ entries' = [entries EXCEPT ![s] = None]
        /\ disposed' = disposed \cup {s}
        /\ Pop(t)
        /\ UNCHANGED <<parent, size, slot, version>>

\* What a RequestScope owns is disposed at once, under the lock of the cache.
Forget(t) ==
    LET fr == Top(t)
    IN  /\ At(t, "clear") /\ ~Waits(t) /\ fr.asking \in RequestScope
        /\ entries' = [entries EXCEPT ![fr.asking] = None]
        /\ SetTop(t, [fr EXCEPT !.pc = "forget"])
        /\ UNCHANGED <<disposed, parent, size, slot, version>>

Forgotten(t) ==
    /\ At(t, "forget")
    /\ disposed' = disposed \cup {Top(t).asking}
    /\ Pop(t)
    /\ UNCHANGED <<entries, parent, size, slot, version>>

Step(t) ==
    \/ DeriveTransientScope(t) \/ AddSize(t) \/ AddSlot(t)
    \/ Enter(t) \/ TryGet(t) \/ ResolveNeed(t) \/ Remember(t) \/ ConstructorThrows(t)
    \/ Raise(t) \/ DisposeChild(t) \/ ChildrenThrow(t) \/ ChildrenDone(t)
    \/ ClearScope(t) \/ Forget(t) \/ Forgotten(t)

Next ==
    \E t \in Thread :
        \/ Step(t)
        \/ \E s \in Asking : Dispose(t, s) \/ \E x \in Service : Request(t, s, x)

Spec == Init /\ [][Next]_vars

-----------------------------------------------------------------------------
(***************************************************************************)
(* Properties                                                              *)
(***************************************************************************)
TypeOK ==
    /\ stack \in [Thread -> Seq(Frame)]
    /\ entries \in [Owner -> [Service -> Nat]]
    /\ disposed \subseteq Asking
    /\ parent \in [Child -> Scope \cup {NoLock}]
    /\ size \in [Scope -> 0 .. MaxSize]
    /\ slot \in [Scope -> [Index -> Child \cup {NoLock}]]
    /\ version \in [Scope -> Nat]

\* However many threads ask at once, the cache gets one instance of a service for
\* each scope and one of a singleton altogether: what is locked between TryGet
\* and Remember is the object that ConfigureLifecycle returns
\* (ServiceCollectionAdapter.cs:120-137, AspNetCoreApplicationPlugin.cs:17-25).
OneInstance ==
    \A x \in Service : \A o, p \in Owner :
        /\ entries[o][x] <= 1
        /\ Lifetime[x] = "singleton" /\ entries[o][x] > 0 /\ entries[p][x] > 0 => o = p

\* A scope is disposed while another thread resolves from it.
DisposedInUse ==
    \E t, u \in Thread, s \in Scope : t # u /\ Disposes(t, s) /\ Uses(u, s)

\* A Dispose method that the disposal of a RequestScope calls resolves services.
ResolvesInDispose ==
    \E t \in Thread : Len(stack[t]) > 1 /\ stack[t][1].pc = "forget"

\* Threads that resolve and dispose only ever wait for each other in a circle
\* where the application disposes a scope that is in use, or resolves in a
\* Dispose method that a RequestScope calls: the root scope is locked after the
\* others and the cache last (ServiceCollectionAdapter.cs:120-137,
\* ServiceProviderScopeParameter.cs:19-25, DisposalManager.cs:116-119).
StuckOnlyByMisuse ==
    (\E ts \in (SUBSET Thread) \ {{}} : \A t \in ts : \E u \in ts : WaitsFor(t, u))
    => DisposedInUse \/ ResolvesInDispose

\* When a scope was disposed, after all its users were through, the transient
\* instances that were resolved from it are forgotten too (README.md:229: "their
\* disposal is directly tied to the service provider scope in which they were
\* created").
TransientsGoWithScope ==
    (\A t \in Thread : stack[t] = <<>>) =>
        \A c \in Child : parent[c] \in disposed => entries[c] = None

=============================================================================
