------------------------- MODULE ServiceResolution -------------------------
(***************************************************************************)
(* Which binding a request gets: ServiceCollectionAdapter.Populate with    *)
(* BindingIndex, AspNetCoreKernel.SatifiesRequest, the order of            *)
(* IndexedBindingPrecedenceComparer, the constraints NinjectServiceProvider*)
(* puts on requests and KeyedServiceAnyKeyResolver, which adds a binding   *)
(* for a key when a service is registered with KeyedService.AnyKey only.   *)
(* Ninject's KernelBase (Resolve, HandleMissingBinding, CanResolve) is     *)
(* external.  The services are interfaces: Ninject's SelfBindingResolver   *)
(* has no part.                                                            *)
(***************************************************************************)
EXTENDS Integers, Sequences, FiniteSets

CONSTANTS
    Type,            \* service types
    Key,             \* service keys other than AnyKey
    AnyKey,          \* KeyedService.AnyKey
    NoKey,           \* no ServiceKey metadata, or a null key in a request
    Thread,          \* threads that resolve services
    MaxDescriptors,  \* bound: descriptors of the IServiceCollection
    MaxNative,       \* bound: bindings of the application's Ninject modules
    Ops,             \* the kinds of requests that are made
    NoRequest        \* a thread that has not asked yet

ASSUME KeysAssumption ==
    /\ AnyKey \notin Key /\ NoKey \notin Key /\ AnyKey # NoKey
    /\ MaxDescriptors \in Nat /\ MaxNative \in Nat

AllKeys == Key \cup {AnyKey, NoKey}

(***************************************************************************)
(* root says which BindingIndex the binding's Item belongs to: that of     *)
(* Populate, one of the binding's own, or none (no metadata).  from is the *)
(* position of the AnyKey binding a dynamic one was made of.               *)
(***************************************************************************)
Binding == [type : Type, key : AllKeys, root : {"populate", "own", "none"},
            total : Nat, implicit : BOOLEAN, from : Nat]

(***************************************************************************)
(* A request: "Get" GetService, "GetAll" GetService of a collection,       *)
(* "GetKeyed" GetKeyedService or a [FromKeyedServices] parameter,          *)
(* "GetAllKeyed" GetKeyedService of a collection, "Plain" a constructor    *)
(* parameter without attributes or kernel.Get.                             *)
(***************************************************************************)
Request ==
    { r \in [op : Ops, type : Type, key : AllKeys] :
        /\ r.op \in {"Get", "GetAll", "Plain"} <=> r.key = NoKey
        /\ r.op = "GetKeyed" => r.key # AnyKey }  \* EnsureNotAnyKey

VARIABLES
    bindings,  \* the kernel's bindings in the order they were added
    count,     \* BindingIndex.Count of Populate's index
    latest,    \* its _bindingIndexMap: the TotalIndex of the latest Item
    built,     \* Build has returned
    pc,        \* per thread: "idle", "missing" or "retry"
    request,   \* the request of a thread
    candidate, \* the binding the missing binding resolver came up with
    answer     \* the thread's last result: positions, or what went wrong

vars == <<bindings, count, latest, built, pc, request, candidate, answer>>

NoItem == -1
Nothing == <<>>
Ambiguous == <<0>>

Init ==
    /\ bindings = <<>>
    /\ count = 0
    /\ latest = [tk \in Type \X AllKeys |-> NoItem]
    /\ built = FALSE
    /\ pc = [th \in Thread |-> "idle"]
    /\ request = [th \in Thread |-> NoRequest]
    /\ candidate = [th \in Thread |-> 0]
    /\ answer = [th \in Thread |-> Nothing]

(***************************************************************************)
(* Registration                                                            *)
(***************************************************************************)
NewBinding(t, k, root, total, implicit, from) ==
    [type |-> t, key |-> k, root |-> root, total |-> total,
     implicit |-> implicit, from |-> from]

\* Mutant: an Item is numbered after a decrement of Count.
TotalIndexBelow == count - 1

\* The TotalIndex of the next Item: Count++
TotalIndex == count

\* Mutant: an Item does not replace the one its type and key had.
KeepFirst(t, k) ==
    latest' = IF latest[<<t, k>>] = NoItem
              THEN [latest EXCEPT ![<<t, k>>] = TotalIndex] ELSE latest

\* _bindingIndexMap[serviceTypeKey] = next
SetLatest(t, k) == latest' = [latest EXCEPT ![<<t, k>>] = TotalIndex]

\* A descriptor of the IServiceCollection: kernel.Bind with the metadata of its
\* key and of BindingIndex.Next.
Populate(t, k) ==
    /\ ~built /\ count < MaxDescriptors
    /\ bindings' = Append(bindings, NewBinding(t, k, "populate", TotalIndex, FALSE, 0))
    /\ count' = count + 1
    /\ SetLatest(t, k)
    /\ UNCHANGED <<built, pc, request, candidate, answer>>

\* A binding of the application's own modules, without any metadata.
BindNative(t) ==
    /\ ~built
    /\ Cardinality({i \in DOMAIN bindings : bindings[i].root = "none"}) < MaxNative
    /\ bindings' = Append(bindings, NewBinding(t, NoKey, "none", 0, FALSE, 0))
    /\ UNCHANGED <<count, latest, built, pc, request, candidate, answer>>

Build ==
    /\ ~built
    /\ built' = TRUE
    /\ UNCHANGED <<bindings, count, latest, pc, request, candidate, answer>>

(***************************************************************************)
(* Which bindings satisfy a request                                        *)
(***************************************************************************)
\* Item.IsLatest; a binding without an Item counts as the latest.
IsLatest(b) == b.root = "populate" => latest[<<b.type, b.key>>] = b.total

IsUnique(r) == r.op \in {"Get", "GetKeyed", "Plain"}

\* Mutant: AnyKey matches every binding with a key.
MatchesKeyOfAny(b, k) == IF k = AnyKey THEN b.key # NoKey ELSE b.key = k

\* DoesMetadataMatchServiceKey
MatchesKey(b, k) == IF k = AnyKey THEN b.key \notin {NoKey, AnyKey} ELSE b.key = k

\* The constraint of the request: no key metadata, a matching key, or none.
MeetsConstraint(b, r) ==
    CASE r.op \in {"Get", "GetAll"} -> b.key = NoKey
      [] r.op \in {"GetKeyed", "GetAllKeyed"} -> MatchesKey(b, r.key)
      [] OTHER -> TRUE

SatifiesRequest(b, r) ==
    /\ b.type = r.type
    /\ MeetsConstraint(b, r)
    /\ IsUnique(r) => IsLatest(b)

Satisfied(r) == {i \in DOMAIN bindings : SatifiesRequest(bindings[i], r)}

(***************************************************************************)
(* IndexedBindingPrecedenceComparer                                        *)
(***************************************************************************)
\* Mutant: later Items first.
PrecedenceAscending(b) ==
    CASE b.root = "populate" -> b.total + 1 [] b.root = "own" -> 1 [] OTHER -> 0

\* Item.Precedence is Count - TotalIndex; 0 without an Item.
Precedence(b) ==
    CASE b.root = "populate" -> count - b.total [] b.root = "own" -> 1 [] OTHER -> 0

\* What Compare looks at; the bindings of this module are closed and
\* unconditional.
Criteria(b) == [precedence |-> Precedence(b), conditional |-> FALSE,
                closed |-> TRUE, explicit |-> ~b.implicit]

Bit(on, weight) == IF on THEN weight ELSE 0

\* The 5 bit number of a binding, given the difference of the indexes.
Bits(x, difference) ==
    Bit(x.explicit, 1) + Bit(x.closed, 2) + Bit(x.conditional, 4) + 8
        + Bit(difference > 0, 16)

Compare(x, y) ==
    Bits(x, x.precedence - y.precedence) - Bits(y, y.precedence - x.precedence)

\* KernelBase sorts the bindings of a service by descending precedence; equal
\* ones stay in the order they were added.
Before(i, j) ==
    LET c == Compare(Criteria(bindings[i]), Criteria(bindings[j]))
    IN  c > 0 \/ (c = 0 /\ i < j)

Sorted(S) ==
    [n \in 1..Cardinality(S) |->
        CHOOSE i \in S : Cardinality({j \in S \ {i} : Before(j, i)}) = n - 1]

(***************************************************************************)
(* KernelBase.Resolve                                                      *)
(***************************************************************************)
IsAmbiguous(s) ==
    /\ Len(s) > 1
    /\ Compare(Criteria(bindings[s[1]]), Criteria(bindings[s[2]])) = 0

\* Implicit bindings only count for a collection when there are no others.
ForCollection(S) ==
    LET explicit == {i \in S : ~bindings[i].implicit}
    IN  IF explicit = {} THEN S ELSE explicit

Result(r) ==
    LET s == Sorted(Satisfied(r))
    IN  IF ~IsUnique(r) THEN Sorted(ForCollection(Satisfied(r)))
        ELSE IF IsAmbiguous(s) THEN Ambiguous ELSE <<s[1]>>

\* Mutant: registrations that were overridden count too.
AnyKeyBindingsOld(r) ==
    {i \in DOMAIN bindings :
        /\ r.op = "GetKeyed"
        /\ bindings[i].type = r.type /\ bindings[i].key = AnyKey}

\* KeyedServiceAnyKeyResolver: the AnyKey bindings a dynamic binding can be
\* made of.
AnyKeyBindings(r) ==
    {i \in DOMAIN bindings :
        /\ r.op = "GetKeyed"
        /\ bindings[i].type = r.type /\ bindings[i].key = AnyKey
        /\ IsLatest(bindings[i])}

Answer(th, r) ==
    /\ built /\ pc[th] = "idle"
    /\ Satisfied(r) # {} \/ AnyKeyBindings(r) = {}
    /\ request' = [request EXCEPT ![th] = r]
    /\ answer' = [answer EXCEPT ![th] = IF Satisfied(r) = {} THEN Nothing ELSE Result(r)]
    /\ UNCHANGED <<bindings, count, latest, built, pc, candidate>>

\* HandleMissingBinding: the resolver looks at a copy of the bindings, outside
\* of the lock.
Miss(th, r) ==
    /\ built /\ pc[th] = "idle"
    /\ Satisfied(r) = {}
    /\ \E i \in AnyKeyBindings(r) :
          /\ \A j \in AnyKeyBindings(r) : i <= j
          /\ candidate' = [candidate EXCEPT ![th] = i]
    /\ request' = [request EXCEPT ![th] = r]
    /\ pc' = [pc EXCEPT ![th] = "missing"]
    /\ UNCHANGED <<bindings, count, latest, built, answer>>

\* Mutant: no second look under the lock.
StillMissingUnchecked(r) == TRUE

\* if (!CanResolve(request)), under the lock.
StillMissing(r) == Satisfied(r) = {}

AddMissing(th) ==
    LET r == request[th]
    IN  /\ pc[th] = "missing"
        /\ bindings' =
              IF StillMissing(r)
              THEN Append(bindings,
                          NewBinding(r.type, r.key, "own", 0, TRUE, candidate[th]))
              ELSE bindings
        /\ pc' = [pc EXCEPT ![th] = "retry"]
        /\ UNCHANGED <<count, latest, built, request, candidate, answer>>

Retry(th) ==
    /\ pc[th] = "retry"
    /\ answer' = [answer EXCEPT ![th] =
                     IF Satisfied(request[th]) = {} THEN Nothing
                     ELSE Result(request[th])]
    /\ pc' = [pc EXCEPT ![th] = "idle"]
    /\ UNCHANGED <<bindings, count, latest, built, request, candidate>>

Next ==
    \/ \E t \in Type, k \in AllKeys : Populate(t, k)
    \/ \E t \in Type : BindNative(t)
    \/ Build
    \/ \E th \in Thread :
          \/ \E r \in Request : Answer(th, r) \/ Miss(th, r)
          \/ AddMissing(th) \/ Retry(th)

Spec == Init /\ [][Next]_vars

-----------------------------------------------------------------------------
(***************************************************************************)
(* Properties                                                              *)
(***************************************************************************)
TypeOK ==
    /\ bindings \in Seq(Binding)
    /\ count \in Nat
    /\ latest \in [Type \X AllKeys -> Nat \cup {NoItem}]
    /\ built \in BOOLEAN
    /\ pc \in [Thread -> {"idle", "missing", "retry"}]
    /\ request \in [Thread -> Request \cup {NoRequest}]
    /\ candidate \in [Thread -> Nat]
    /\ answer \in [Thread -> Seq(Nat)]

\* The positions of the descriptors that were registered for a type and a key.
Registered(t, k) ==
    {i \in DOMAIN bindings :
        bindings[i].root = "populate" /\ bindings[i].type = t /\ bindings[i].key = k}

Latest(S) == CHOOSE i \in S : \A j \in S : j <= i

Answered(th, op) ==
    pc[th] = "idle" /\ request[th] # NoRequest /\ request[th].op = op

\* A request for one service without a key gets the descriptor that was
\* registered last for the type without a key, whatever else is bound
\* (README.md, "Binding Precedence"; AspNetCoreKernel.cs:35-49).
LastRegistrationWins ==
    \A th \in Thread : Answered(th, "Get") =>
        LET S == Registered(request[th].type, NoKey)
        IN  S # {} => answer[th] = <<Latest(S)>>

\* A request for a service with a key gets the last descriptor with that key,
\* or else a binding for the key made of the last descriptor with AnyKey, also
\* when threads ask for it at once (KeyedServiceAnyKeyResolver.cs:25-77).
LastKeyedRegistrationWins ==
    \A th \in Thread : Answered(th, "GetKeyed") =>
        LET S == Registered(request[th].type, request[th].key)
            A == Registered(request[th].type, AnyKey)
        IN  /\ S # {} => answer[th] = <<Latest(S)>>
            /\ S = {} /\ A # {} =>
                  /\ Len(answer[th]) = 1
                  /\ bindings[answer[th][1]].key = request[th].key
                  /\ bindings[answer[th][1]].from = Latest(A)

IsIncreasing(s) == \A i, j \in DOMAIN s : i < j => s[i] < s[j]

\* A collection holds the descriptors of its type and key, in the order of their
\* registration, then the bindings of modules
\* (RegistrationOrderIsPreservedWhenServicesAreIEnumerableResolved,
\* IndexedBindingPrecedenceComparer.cs:9-16).
RegistrationOrderPreserved ==
    \A th \in Thread :
        \/ Answered(th, "GetAll")
        \/ Answered(th, "GetAllKeyed") /\ request[th].key # AnyKey
        =>
        LET S == Registered(request[th].type, request[th].key)
            n == Cardinality(S)
            s == answer[th]
        IN  S # {} =>
                /\ {s[i] : i \in 1..n} = S
                /\ IsIncreasing(SubSeq(s, 1, n))
                /\ \A i \in DOMAIN s : i > n => bindings[s[i]].root = "none"

\* A collection requested with AnyKey holds every descriptor with a key but
\* those registered with AnyKey (KeyedServicesMetaDataExtensions.cs:15-28).
AnyKeyCollection ==
    \A th \in Thread : Answered(th, "GetAllKeyed") /\ request[th].key = AnyKey =>
        LET S == UNION {Registered(request[th].type, k) : k \in Key}
        IN  S # {} => {answer[th][i] : i \in DOMAIN answer[th]} = S

\* There is one binding, hence one singleton, for a key that is served by an
\* AnyKey registration (KeyedServiceAnyKeyResolver.cs:27-29, 61-76).
OneBindingPerKey ==
    \A i, j \in DOMAIN bindings :
        /\ bindings[i].implicit /\ bindings[j].implicit
        /\ bindings[i].type = bindings[j].type /\ bindings[i].key = bindings[j].key
        => i = j

\* "if the service is registered with KeyedService.AnyKey, it must not be
\* returned when querying with AnyKey" (KeyedServicesMetaDataExtensions.cs:19-20).
AnyKeyNotReturned ==
    \A th \in Thread : Answered(th, "GetAllKeyed") /\ request[th].key = AnyKey =>
        \A i \in DOMAIN answer[th] :
            /\ bindings[answer[th][i]].key # AnyKey
            /\ bindings[answer[th][i]].from = 0

\* A binding with a key does not override one without: a parameter that asks
\* for no key gets a binding without one where there is one
\* (BindingIndex.cs:72-76).
PlainGetsNoKey ==
    \A th \in Thread : Answered(th, "Plain") =>
        LET S == Registered(request[th].type, NoKey)
        IN  S # {} => answer[th] = <<Latest(S)>>

\* The last registration of a type without a key comes before the last one of
\* each key.
KeysLast(t) ==
    \A k \in Key \cup {AnyKey} :
        Registered(t, NoKey) # {} /\ Registered(t, k) # {}
            => Latest(Registered(t, NoKey)) < Latest(Registered(t, k))

\* Then the parameter does get it, whatever was resolved before: bindings that the
\* resolver made of an AnyKey registration do not count
\* (AspNetCoreKernel.cs:35-49, IndexedBindingPrecedenceComparer.cs:26-46).
PlainKeepsOwn ==
    \A th \in Thread : Answered(th, "Plain") =>
        LET S == Registered(request[th].type, NoKey)
        IN  S # {} /\ KeysLast(request[th].type) => answer[th] = <<Latest(S)>>

=============================================================================
