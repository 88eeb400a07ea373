--------------------------- MODULE KeyedInjection ---------------------------
(***************************************************************************)
(* The key a service is told it was resolved with: KeyedRequest and its    *)
(* ServiceKeyParameter, ParameterTargetWithKeyedSupport for constructor    *)
(* parameters with [ServiceKey] or [FromKeyedServices], and the key that   *)
(* KeyedDescriptorAdapter hands to a factory; also how a failure leaves    *)
(* such a parameter.  Which of several registrations of one type and key   *)
(* counts is the subject of ServiceResolution: here there is one.          *)
(*                                                                         *)
(* A frame of the stack is an instance under construction (an IContext of  *)
(* Ninject with its request).                                              *)
(***************************************************************************)
EXTENDS Integers, Sequences, FiniteSets, SequencesExt

CONSTANTS
    Type,          \* service types
    Key,           \* service keys other than AnyKey
    AnyKey,        \* KeyedService.AnyKey
    NoKey,         \* null
    Registrations  \* what is registered: sequences of bindings in their order

AllKeys == Key \cup {AnyKey, NoKey}

(***************************************************************************)
(* A constructor parameter: "plain" without attributes, "keyed" with       *)
(* [FromKeyedServices(key)], "null" and "inherit" with these LookupModes.  *)
(***************************************************************************)
Parameter ==
    [kind : {"plain", "keyed", "null", "inherit"}, type : Type,
     key : AllKeys, default : BOOLEAN]

RegistrationOK(registered) ==
    /\ DOMAIN registered \subseteq Nat
    /\ \A n \in DOMAIN registered :
          LET r == registered[n]
          IN  /\ r.type \in Type /\ r.key \in AllKeys
              /\ r.singleton \in BOOLEAN
              /\ r.factory \in BOOLEAN          \* made by a factory
              /\ r.fits \subseteq AllKeys       \* what [ServiceKey] can take
              /\ r.malformed \subseteq Key      \* FormatException, OverflowException
              /\ r.parameters \subseteq Parameter
    /\ \A m, n \in DOMAIN registered :
          /\ registered[m].type = registered[n].type
          /\ registered[m].key = registered[n].key
          => m = n

ASSUME RegistrationAssumption ==
    /\ AnyKey \notin Key /\ NoKey \notin Key /\ AnyKey # NoKey
    /\ \A registered \in Registrations : RegistrationOK(registered)

(***************************************************************************)
(* A singleton with a key is reached by its key only: it is not the first  *)
(* registration of its type, which a request without a key gets, and no    *)
(* parameter asks for [FromKeyedServices(KeyedService.AnyKey)].            *)
(***************************************************************************)
ReachedByKey ==
    \A registered \in Registrations : \A n \in DOMAIN registered :
        /\ registered[n].singleton /\ registered[n].key \in Key =>
              \E m \in DOMAIN registered :
                 registered[m].type = registered[n].type /\ m < n
        /\ \A p \in registered[n].parameters : p.kind = "keyed" => p.key # AnyKey

VARIABLES
    registration, \* the bindings in the order of their registration
    stack,   \* the instances under construction, the outermost first
    dynamic, \* the bindings KeyedServiceAnyKeyResolver came up with
    made,    \* the singletons: <<binding, key it was told>>
    raised,  \* the exception under way, or "none"
    cause,   \* history: that exception as it was thrown
    crossed, \* history: the parameters that exception left
    asked,   \* history: the keys of the application's requests
    answer   \* the last request of the application and what came of it

vars == <<registration, stack, dynamic, made, raised, cause, crossed, asked, answer>>

\* "activation" ActivationException; "invalid" InvalidOperationException; "format"
\* FormatException and OverflowException.
Exception == {"none", "activation", "invalid", "format"}

\* A registration, or the binding for a key made of one with AnyKey.
Binding ==
    {b \in (DOMAIN registration) \X AllKeys :
        \/ b[2] = registration[b[1]].key
        \/ registration[b[1]].key = AnyKey /\ b[2] \in Key}

RootRequest == [op : {"Get", "GetKeyed", "GetAllKeyed"}, type : Type, key : AllKeys]
Via == Parameter \cup RootRequest
NoAnswer ==
    [outcome |-> "none", key |-> NoKey, told |-> NoKey, cause |-> "none", crossed |-> {}]

Init ==
    /\ registration \in Registrations
    /\ stack = <<>> /\ dynamic = {} /\ made = {}
    /\ raised = "none" /\ cause = "none" /\ crossed = {} /\ asked = {}
    /\ answer = NoAnswer

Top == stack[Len(stack)]
Idle == stack = <<>> /\ raised = "none"
Working == stack # <<>> /\ raised = "none"

(***************************************************************************)
(* Which binding a request gets                                            *)
(***************************************************************************)
RegistrationOf(b) == registration[b[1]]

\* The explicit bindings for a type that meet a condition.
Explicit(t, P(_)) ==
    {<<n, registration[n].key>> :
        n \in {m \in DOMAIN registration :
                  registration[m].type = t /\ P(registration[m].key)}}

First(S) == {b \in S : \A c \in S : b[1] <= c[1]}

\* A request without a constraint: the first registration.
Unconstrained(t) == First(Explicit(t, LAMBDA k : TRUE))

\* GetService: no binding with a key.
Unkeyed(t) == Explicit(t, LAMBDA k : k = NoKey)

\* DoesMetadataMatchServiceKey with AnyKey; implicit bindings count when there
\* are no others.
ForAnyKey(t) ==
    LET explicit == Explicit(t, LAMBDA k : k \notin {NoKey, AnyKey})
    IN  IF explicit # {} THEN explicit
        ELSE {b \in dynamic : RegistrationOf(b).type = t}

\* The binding for the key, or else one KeyedServiceAnyKeyResolver makes.
ForKey(t, key) ==
    LET exact == Explicit(t, LAMBDA k : k = key)
    IN  IF exact # {} THEN exact
        ELSE {<<b[1], key>> : b \in Explicit(t, LAMBDA k : k = AnyKey)}

\* One service for AnyKey; several implicit bindings are ambiguous.
OneForAnyKey(t) ==
    {b \in First(ForAnyKey(t)) : Cardinality(First(ForAnyKey(t))) = 1}

(***************************************************************************)
(* Requests                                                                *)
(***************************************************************************)
NewFrame(b, keys, via) ==
    [binding |-> b, keys |-> keys, via |-> via,
     todo |-> RegistrationOf(b).parameters]

\* parameters.LastOrDefault(x => x is ServiceKeyParameter)
KeyParameter(keys) == IF keys = <<>> THEN NoKey ELSE Last(keys)

\* Mutant: the inherited ServiceKeyParameters stay.
KeysAppended(fr, key) == Append(fr.keys, key)

\* The KeyedRequest of a child: the inherited ServiceKeyParameters go.
KeyedKeys(fr, key) == <<key>>

\* Mutant: Ninject's own Request.CreateChild; all parameters are inherited.
InheritKeys(fr) == fr.keys

\* A parameter without attributes: KeyedRequest.CreateChild, or that of
\* Ninject's Request, which never has a ServiceKeyParameter.
CreateChild(fr) == IF fr.keys = <<>> THEN <<>> ELSE KeyedKeys(fr, NoKey)

\* DeterimeFromKeyedServiceValue
FromKeyedServiceValue(fr, p) ==
    IF p.kind = "null" THEN NoKey
    ELSE IF p.kind = "inherit" THEN KeyParameter(fr.keys) ELSE p.key

KeysOf(fr, p) ==
    IF p.kind = "plain" THEN CreateChild(fr)
    ELSE KeyedKeys(fr, FromKeyedServiceValue(fr, p))

BindingsOf(fr, p) ==
    LET key == FromKeyedServiceValue(fr, p)
    IN  IF p.kind = "plain" \/ key = NoKey THEN Unconstrained(p.type)
        ELSE IF key = AnyKey THEN OneForAnyKey(p.type) ELSE ForKey(p.type, key)

\* A binding that KeyedServiceAnyKeyResolver makes is kept.
Note(b) ==
    dynamic' = IF RegistrationOf(b).key = b[2] THEN dynamic ELSE dynamic \cup {b}

Existing(b) == {m \in made : m[1] = b}

(***************************************************************************)
(* Construction                                                            *)
(***************************************************************************)
\* The key of the binding, for a factory that of its descriptor.
OwnKey(b) == IF RegistrationOf(b).factory THEN RegistrationOf(b).key ELSE b[2]

\* Mutant: the key of the binding has precedence.
ToldOwn(fr) == OwnKey(fr.binding)

\* ResolveServiceKeyValue, InstantiateFromServiceFactory: a ServiceKeyParameter
\* of the request has precedence, one without a key too.
Told(fr) == IF fr.keys = <<>> THEN OwnKey(fr.binding) ELSE Last(fr.keys)

\* The conversion to the type of the parameter, and its result is of that type;
\* null is never converted.
Fits(fr) == Told(fr) \in RegistrationOf(fr.binding).fits \cup {NoKey}

Answer(outcome, key, told) ==
    answer' = [outcome |-> outcome, key |-> key, told |-> told,
               cause |-> cause, crossed |-> crossed]

RootKeys(r) == IF r.op = "Get" THEN <<>> ELSE <<r.key>>

RootBindings(r) ==
    IF r.op = "Get" THEN Unkeyed(r.type)
    ELSE IF r.op = "GetKeyed" THEN ForKey(r.type, r.key) ELSE ForAnyKey(r.type)

\* GetService, GetKeyedService, or one element of GetKeyedServices(AnyKey).
Ask(r) ==
    /\ Idle
    /\ (r.op = "Get") <=> (r.key = NoKey)
    /\ (r.op = "GetAllKeyed") <=> (r.key = AnyKey)
    /\ \E b \in RootBindings(r) :
          /\ Note(b)
          /\ IF Existing(b) # {}
             THEN /\ \E m \in Existing(b) : Answer("instance", r.key, m[2])
                  /\ stack' = stack
             ELSE /\ stack' = <<NewFrame(b, RootKeys(r), r)>>
                  /\ answer' = NoAnswer
    /\ asked' = asked \cup {r.key}
    /\ UNCHANGED <<made, raised, cause, crossed>>

Resolved(p) == [Top EXCEPT !.todo = @ \ {p}]

\* A constructor parameter gets a service.
Inject(p) ==
    /\ Working /\ p \in Top.todo
    /\ \E b \in BindingsOf(Top, p) :
          /\ Note(b)
          /\ stack' =
                IF Existing(b) # {} THEN [stack EXCEPT ![Len(stack)] = Resolved(p)]
                ELSE Append([stack EXCEPT ![Len(stack)] = Resolved(p)],
                            NewFrame(b, KeysOf(Top, p), p))
    /\ UNCHANGED <<made, raised, cause, crossed, asked, answer>>

\* Mutant: the ActivationException passes.
PassOn(p) == raised' = "activation"

\* Where the ActivationException of a parameter without a default goes.
Rethrow(p) ==
    raised' = IF p.kind = "plain" THEN "activation" ELSE "invalid"

\* There is no binding.
InjectNothing(p) ==
    /\ Working /\ p \in Top.todo
    /\ BindingsOf(Top, p) = {}
    /\ stack' = [stack EXCEPT ![Len(stack)] = Resolved(p)]
    /\ IF p.default THEN UNCHANGED <<raised, cause, crossed>>
       ELSE Rethrow(p) /\ cause' = "activation" /\ crossed' = {p}
    /\ UNCHANGED <<dynamic, made, asked, answer>>

\* The constructor or the factory runs.
Construct ==
    /\ Working /\ Top.todo = {} /\ Fits(Top)
    /\ made' = IF RegistrationOf(Top.binding).singleton
               THEN made \cup {<<Top.binding, Told(Top)>>} ELSE made
    /\ IF Len(stack) = 1 THEN Answer("instance", Top.via.key, Told(Top))
       ELSE answer' = answer
    /\ stack' = Front(stack)
    /\ UNCHANGED <<dynamic, raised, cause, crossed, asked>>

\* The exceptions of Convert.ChangeType, of which an InvalidCastException becomes
\* an InvalidOperationException, as does a result of another type.
ConversionError(fr) ==
    IF Told(fr) \in RegistrationOf(fr.binding).malformed THEN "format" ELSE "invalid"

\* The key cannot be converted for [ServiceKey].
CannotConvert ==
    /\ Working /\ ~Fits(Top)
    /\ raised' = ConversionError(Top) /\ cause' = raised'
    /\ UNCHANGED <<stack, dynamic, made, crossed, asked, answer>>

\* An exception leaves an instance for the parameter that asked for it:
\* ResolveFromKeyedService catches an ActivationException and no other.
Unwind ==
    LET p == Top.via
    IN  /\ raised # "none" /\ Len(stack) > 1
        /\ stack' = Front(stack)
        /\ IF raised = "activation" /\ p.kind # "plain"
           THEN IF p.default THEN raised' = "none" /\ cause' = "none" /\ crossed' = {}
                ELSE Rethrow(p) /\ cause' = cause /\ crossed' = crossed \cup {p}
           ELSE UNCHANGED <<raised, cause>> /\ crossed' = crossed \cup {p}
        /\ UNCHANGED <<dynamic, made, asked, answer>>

\* GetService is a TryGet, which makes null of an ActivationException.
Fail ==
    /\ raised # "none" /\ Len(stack) = 1
    /\ Answer(IF raised = "activation" /\ Top.via.op = "Get" THEN "null" ELSE raised,
              Top.via.key, NoKey)
    /\ stack' = <<>> /\ raised' = "none" /\ cause' = "none" /\ crossed' = {}
    /\ UNCHANGED <<dynamic, made, asked>>

\* Everything is registered before the first request.
Next ==
    /\ \/ \E r \in RootRequest : Ask(r)
       \/ \E p \in Parameter : Inject(p) \/ InjectNothing(p)
       \/ Construct \/ CannotConvert \/ Unwind \/ Fail
    /\ UNCHANGED registration

Spec == Init /\ [][Next]_vars

-----------------------------------------------------------------------------
(***************************************************************************)
(* Properties                                                              *)
(***************************************************************************)
FrameOK(fr) ==
    /\ fr.binding \in Binding
    /\ fr.keys \in {<<>>} \cup {<<k>> : k \in AllKeys}  \* at most one
    /\ fr.via \in Via
    /\ fr.todo \subseteq RegistrationOf(fr.binding).parameters

TypeOK ==
    /\ registration \in Registrations
    /\ \A i \in DOMAIN stack : FrameOK(stack[i])
    /\ dynamic \subseteq Binding
    /\ made \subseteq Binding \X AllKeys
    /\ raised \in Exception /\ cause \in Exception
    /\ crossed \subseteq Parameter /\ asked \subseteq AllKeys
    /\ answer.outcome \in Exception \cup {"instance", "null"}
    /\ answer.key \in AllKeys /\ answer.told \in AllKeys
    /\ answer.cause \in Exception /\ answer.crossed \subseteq Parameter

\* "inherit" parameters pass on what frame j was asked for to frame i.
PassedOn(j, i) ==
    /\ j <= i
    /\ j = 1 \/ stack[j].via.kind # "inherit"
    /\ \A k \in (j + 1) .. i : stack[k].via.kind = "inherit"

\* The key of the request or of the parameter with a key.
AskedFor(j) ==
    LET via == stack[j].via
    IN  IF j = 1 \/ via.kind = "keyed" THEN via.key ELSE NoKey

\* No service is told the key of a service further up: it is told the key it was
\* asked for, or the instance whose "inherit" parameter it is, and if there is
\* none, no key or that of its binding
\* (KeyedRequest.cs:52-73, 174-177, ParameterTargetWithKeyedSupport.cs:107-132).
ToldNearestKey ==
    \A i, j \in DOMAIN stack : PassedOn(j, i) =>
        IF AskedFor(j) # NoKey THEN Told(stack[i]) = AskedFor(j)
        ELSE Told(stack[i]) \in {NoKey, OwnKey(stack[i].binding)}

\* A service that is resolved for a key was told that key, also when it was made
\* for an earlier request: only a collection for AnyKey can have a singleton told
\* AnyKey instead (ServiceProviderKeyedTest.cs:38-39,
\* ParameterTargetWithKeyedSupport.cs:127-132).
ToldTheKey ==
    answer.outcome = "instance" /\ answer.key \in Key =>
        answer.told = answer.key \/ (answer.told = AnyKey /\ AnyKey \in asked)

\* What comes of an exception that left these parameters.
Surfaces(thrown, params) ==
    IF thrown = "activation" /\ \E p \in params : p.kind # "plain" THEN "invalid"
    ELSE thrown

\* A service that is missing below [FromKeyedServices], however far below, reaches
\* the application as an InvalidOperationException and never as null; below
\* parameters without attributes it remains an ActivationException, or null.  A
\* key that cannot be converted is no missing service: the exception arrives as
\* it was thrown, whatever it leaves, parameters with a default value too
\* (ParameterTargetWithKeyedSupport.cs:90-104, 134-146).
MissingIsInvalid ==
    answer.outcome \notin {"none", "instance"} =>
        IF answer.outcome = "null" THEN Surfaces(answer.cause, answer.crossed) = "activation"
        ELSE answer.outcome = Surfaces(answer.cause, answer.crossed)

=============================================================================
