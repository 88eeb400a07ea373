------------------------ MODULE KeyedInjectionProofs ------------------------
(***************************************************************************)
(* A request carries at most one ServiceKeyParameter, and it is the one of *)
(* the parameter or the call the service was asked for with: for chains of *)
(* constructor parameters of any length and any registrations.  A          *)
(* singleton keeps what it was told: it is the key of all requests for it  *)
(* where it is only reached by that key.  An exception arrives as it was   *)
(* thrown, but for a missing service below a parameter with a key.         *)
(***************************************************************************)
EXTENDS KeyedInjection, TLAPS

Frame ==
    [binding : Binding, keys : {<<>>} \cup {<<k>> : k \in AllKeys},
     via : Via, todo : SUBSET Parameter]

\* GetService has no key, a collection has AnyKey.
IsRoot(r) ==
    /\ r \in RootRequest
    /\ (r.op = "Get") <=> (r.key = NoKey)
    /\ (r.op = "GetAllKeyed") <=> (r.key = AnyKey)

FrameFits(fr) ==
    /\ fr \in Frame
    /\ fr.todo \subseteq RegistrationOf(fr.binding).parameters

StackOK ==
    /\ stack \in Seq(Frame)
    /\ \A i \in DOMAIN stack :
          /\ FrameFits(stack[i])
          /\ i = 1 => IsRoot(stack[i].via) /\ stack[i].keys = RootKeys(stack[i].via)
          /\ i # 1 => stack[i].via \in Parameter

\* What a request carries, given the key that was asked for.
Carries(keys, key) == IF key # NoKey THEN keys = <<key>> ELSE keys \in {<<>>, <<NoKey>>}

KeysOK ==
    \A i, j \in DOMAIN stack : PassedOn(j, i) => Carries(stack[i].keys, AskedFor(j))

DataOK ==
    /\ registration \in Registrations
    /\ dynamic \subseteq Binding
    /\ made \subseteq Binding \X AllKeys
    /\ raised \in Exception /\ cause \in Exception
    /\ crossed \subseteq Parameter /\ asked \subseteq AllKeys
    /\ answer.outcome \in Exception \cup {"instance", "null"}
    /\ answer.key \in AllKeys /\ answer.told \in AllKeys
    /\ answer.cause \in Exception /\ answer.crossed \subseteq Parameter

\* An exception on its way is what should arrive.
CrossedOK ==
    /\ raised # "none" => raised = Surfaces(cause, crossed)
    /\ MissingIsInvalid

IInv == StackOK /\ KeysOK /\ DataOK /\ CrossedOK

LEMMA RegistrationFacts ==
    ASSUME registration \in Registrations
    PROVE  \A n \in DOMAIN registration :
              LET r == registration[n]
              IN  /\ r.type \in Type /\ r.key \in AllKeys
                  /\ r.singleton \in BOOLEAN /\ r.factory \in BOOLEAN
                  /\ r.fits \subseteq AllKeys /\ r.parameters \subseteq Parameter
BY RegistrationAssumption DEF RegistrationOK

LEMMA BindingFacts ==
    ASSUME registration \in Registrations, NEW b \in Binding
    PROVE  /\ b[1] \in DOMAIN registration /\ b[2] \in AllKeys
           /\ b = <<b[1], b[2]>>
           /\ RegistrationOf(b).parameters \subseteq Parameter
           /\ OwnKey(b) \in AllKeys
BY RegistrationFacts DEF Binding, RegistrationOf, OwnKey

LEMMA ExplicitFacts ==
    ASSUME registration \in Registrations, NEW t, NEW key
    PROVE  /\ Unconstrained(t) \subseteq Binding
           /\ Unkeyed(t) \subseteq Binding
           /\ dynamic \subseteq Binding => ForAnyKey(t) \subseteq Binding
           /\ dynamic \subseteq Binding => OneForAnyKey(t) \subseteq Binding
           /\ key \in Key => ForKey(t, key) \subseteq Binding
<1>. USE RegistrationFacts
<1>1. Unconstrained(t) \subseteq Binding
  BY DEF Unconstrained, First, Explicit, Binding
<1>2. Unkeyed(t) \subseteq Binding
  BY DEF Unkeyed, Explicit, Binding
<1>3. dynamic \subseteq Binding => ForAnyKey(t) \subseteq Binding
  BY DEF ForAnyKey, Explicit, Binding
<1>4. dynamic \subseteq Binding => OneForAnyKey(t) \subseteq Binding
  BY <1>3 DEF OneForAnyKey, First
<1>5. key \in Key => ForKey(t, key) \subseteq Binding
  <2>1. \A b \in Explicit(t, LAMBDA k : k = AnyKey) :
           b[1] \in DOMAIN registration /\ registration[b[1]].key = AnyKey
    BY DEF Explicit
  <2>2. Explicit(t, LAMBDA k : k = key) \subseteq Binding
    BY DEF Explicit, Binding
  <2>3. key \in Key =>
           {<<b[1], key>> : b \in Explicit(t, LAMBDA k : k = AnyKey)} \subseteq Binding
    <3>1. ASSUME key \in Key, NEW b \in Explicit(t, LAMBDA k : k = AnyKey)
          PROVE  <<b[1], key>> \in Binding
      <4>1. b[1] \in DOMAIN registration /\ registration[b[1]].key = AnyKey  BY <2>1
      <4>2. key \in AllKeys  BY <3>1 DEF AllKeys
      <4>. QED  BY <3>1, <4>1, <4>2 DEF Binding
    <3>. QED  BY <3>1
  <2>. QED  BY <2>2, <2>3 DEF ForKey
<1>. QED  BY <1>1, <1>2, <1>3, <1>4, <1>5

-----------------------------------------------------------------------------
(***************************************************************************)
(* What one step does to the stack                                         *)
(***************************************************************************)
LEMMA KeysFacts ==
    ASSUME NEW keys, keys \in {<<>>} \cup {<<k>> : k \in AllKeys}
    PROVE  /\ keys = <<>> \/ \E k \in AllKeys : keys = <<k>>
           /\ keys # <<>> => Last(keys) \in AllKeys /\ keys = <<Last(keys)>>
           /\ KeyParameter(keys) \in AllKeys
<1>1. CASE keys = <<>>  BY <1>1 DEF KeyParameter, AllKeys
<1>2. CASE keys # <<>>
  <2>1. PICK k \in AllKeys : keys = <<k>>  BY <1>2
  <2>2. Last(keys) = k  BY <2>1 DEF Last
  <2>. QED  BY <2>1, <2>2, <1>2 DEF KeyParameter
<1>. QED  BY <1>1, <1>2

\* A frame less.
LEMMA PopKeeps ==
    ASSUME StackOK, KeysOK, stack # <<>>, stack' = Front(stack),
           registration' = registration
    PROVE  (StackOK /\ KeysOK)'
<1>1. /\ stack' \in Seq(Frame) /\ Len(stack) > 0
      /\ Len(stack') = Len(stack) - 1
      /\ \A i \in DOMAIN stack' : i \in DOMAIN stack /\ stack'[i] = stack[i]
  <2>1. PICK n : n = Len(stack)  OBVIOUS
  <2>2. stack \in Seq(Frame) /\ n \in Nat \ {0} /\ DOMAIN stack = 1 .. n
    BY <2>1 DEF StackOK
  <2>3. stack' = SubSeq(stack, 1, n - 1)  BY <2>1 DEF Front
  <2>4. stack' \in Seq(Frame) /\ Len(stack') = n - 1 /\ DOMAIN stack' = 1 .. n - 1
    BY <2>1, <2>2, <2>3
  <2>5. \A i \in 1 .. n - 1 : stack'[i] = stack[i] /\ i \in 1 .. n
    BY <2>1, <2>2, <2>3
  <2>. QED  BY <2>1, <2>2, <2>4, <2>5
<1>2. Frame' = Frame  BY DEF Frame, Binding, Via, RootRequest, Parameter, AllKeys
<1>3. StackOK'
  BY <1>1, <1>2 DEF StackOK, FrameFits, IsRoot, RootKeys, RegistrationOf
<1>4. ASSUME NEW i \in DOMAIN stack', NEW j \in DOMAIN stack', PassedOn(j, i)'
      PROVE  PassedOn(j, i)
  BY <1>1, <1>4 DEF PassedOn, StackOK
<1>5. KeysOK'  BY <1>1, <1>4 DEF KeysOK, AskedFor
<1>. QED  BY <1>3, <1>5

\* A parameter of the topmost instance is resolved.
LEMMA ResolveKeeps ==
    ASSUME StackOK, KeysOK, stack # <<>>, NEW p,
           stack' = [stack EXCEPT ![Len(stack)] = Resolved(p)],
           registration' = registration
    PROVE  (StackOK /\ KeysOK)'
<1>. DEFINE n == Len(stack)
<1>1. /\ n \in DOMAIN stack /\ Top = stack[n] /\ Top \in Frame
      /\ Top.todo \subseteq RegistrationOf(Top.binding).parameters
  BY DEF StackOK, FrameFits, Top
<1>2. /\ Resolved(p) \in Frame
      /\ Resolved(p).binding = Top.binding /\ Resolved(p).keys = Top.keys
      /\ Resolved(p).via = Top.via /\ Resolved(p).todo = Top.todo \ {p}
  BY <1>1 DEF Resolved, Frame
<1>3. /\ stack' \in Seq(Frame) /\ DOMAIN stack' = DOMAIN stack
      /\ \A i \in DOMAIN stack :
            /\ stack'[i].binding = stack[i].binding /\ stack'[i].keys = stack[i].keys
            /\ stack'[i].via = stack[i].via /\ stack'[i].todo \subseteq stack[i].todo
            /\ stack'[i] \in Frame
  BY <1>1, <1>2 DEF StackOK
<1>4. Frame' = Frame  BY DEF Frame, Binding, Via, RootRequest, Parameter, AllKeys
<1>5. StackOK'
  BY <1>3, <1>4 DEF StackOK, FrameFits, IsRoot, RootKeys, RegistrationOf
<1>6. ASSUME NEW i \in DOMAIN stack', NEW j \in DOMAIN stack', PassedOn(j, i)'
      PROVE  PassedOn(j, i)
  BY <1>3, <1>6 DEF PassedOn, StackOK
<1>7. KeysOK'  BY <1>3, <1>6 DEF KeysOK, AskedFor
<1>. QED  BY <1>5, <1>7

\* What an "inherit" parameter is told is what the instance was asked for.
LEMMA KeysOfCarries ==
    ASSUME StackOK, KeysOK, stack # <<>>, NEW p \in Parameter
    PROVE  /\ KeysOf(Top, p) \in {<<>>} \cup {<<k>> : k \in AllKeys}
           /\ p.kind # "inherit" =>
                 Carries(KeysOf(Top, p), IF p.kind = "keyed" THEN p.key ELSE NoKey)
           /\ p.kind = "inherit" =>
                 \A j \in DOMAIN stack :
                    PassedOn(j, Len(stack)) => Carries(KeysOf(Top, p), AskedFor(j))
<1>. DEFINE n == Len(stack)
<1>1. n \in DOMAIN stack /\ Top = stack[n] /\ Top \in Frame
  BY DEF StackOK, FrameFits, Top
<1>2. Top.keys \in {<<>>} \cup {<<k>> : k \in AllKeys}  BY <1>1 DEF Frame
<1>3. /\ KeyParameter(Top.keys) \in AllKeys
      /\ Top.keys # <<>> => Top.keys = <<Last(Top.keys)>>
  BY <1>2, KeysFacts
<1>4. p.kind \in {"plain", "keyed", "null", "inherit"} /\ p.key \in AllKeys
  BY DEF Parameter
<1>5. FromKeyedServiceValue(Top, p) \in AllKeys /\ NoKey \in AllKeys
  BY <1>3, <1>4 DEF FromKeyedServiceValue, AllKeys
<1>6. KeysOf(Top, p) \in {<<>>} \cup {<<k>> : k \in AllKeys}
  BY <1>5 DEF KeysOf, CreateChild, KeyedKeys
<1>7. p.kind # "inherit" =>
         Carries(KeysOf(Top, p), IF p.kind = "keyed" THEN p.key ELSE NoKey)
  BY <1>4 DEF KeysOf, CreateChild, KeyedKeys, FromKeyedServiceValue, Carries
<1>8. ASSUME p.kind = "inherit", NEW j \in DOMAIN stack, PassedOn(j, n)
      PROVE  Carries(KeysOf(Top, p), AskedFor(j))
  <2>1. Carries(Top.keys, AskedFor(j))  BY <1>1, <1>8 DEF KeysOK
  <2>2. KeysOf(Top, p) = <<KeyParameter(Top.keys)>>
    BY <1>8 DEF KeysOf, KeyedKeys, FromKeyedServiceValue
  <2>3. \A k : Last(<<k>>) = k  BY DEF Last
  <2>. QED  BY <2>1, <2>2, <2>3 DEF Carries, KeyParameter
<1>. QED  BY <1>6, <1>7, <1>8

\* A parameter of the topmost instance needs an instance that is made first.
LEMMA PushKeeps ==
    ASSUME StackOK, KeysOK, stack # <<>>, registration \in Registrations,
           NEW p \in Parameter, NEW b \in Binding,
           stack' = Append([stack EXCEPT ![Len(stack)] = Resolved(p)],
                           NewFrame(b, KeysOf(Top, p), p)),
           registration' = registration
    PROVE  (StackOK /\ KeysOK)'
<1>0. PICK n : n = Len(stack)  OBVIOUS
<1>1. PICK fr : fr = NewFrame(b, KeysOf(Top, p), p)  OBVIOUS
<1>2. /\ n \in Nat /\ n > 0 /\ n \in DOMAIN stack /\ Top = stack[n] /\ Top \in Frame
      /\ Top.todo \subseteq RegistrationOf(Top.binding).parameters
  BY <1>0 DEF StackOK, FrameFits, Top
<1>3. /\ Resolved(p) \in Frame
      /\ Resolved(p).binding = Top.binding /\ Resolved(p).keys = Top.keys
      /\ Resolved(p).via = Top.via /\ Resolved(p).todo = Top.todo \ {p}
  BY <1>2 DEF Resolved, Frame
<1>4. /\ fr \in Frame /\ fr.binding = b /\ fr.keys = KeysOf(Top, p) /\ fr.via = p
      /\ fr.todo = RegistrationOf(b).parameters
  BY <1>1, KeysOfCarries, BindingFacts DEF NewFrame, Frame, Via
<1>5. /\ stack' \in Seq(Frame) /\ Len(stack') = n + 1
      /\ \A i \in 1 .. n :
            /\ stack'[i].binding = stack[i].binding /\ stack'[i].keys = stack[i].keys
            /\ stack'[i].via = stack[i].via /\ stack'[i].todo \subseteq stack[i].todo
            /\ stack'[i] \in Frame
      /\ stack'[n + 1] = fr
  BY <1>0, <1>1, <1>2, <1>3, <1>4 DEF StackOK
<1>6. Frame' = Frame  BY DEF Frame, Binding, Via, RootRequest, Parameter, AllKeys
<1>7. StackOK'
  <2>1. ASSUME NEW i \in DOMAIN stack', i \in 1 .. n
        PROVE  /\ FrameFits(stack[i])'
               /\ i = 1 => IsRoot(stack[i].via)' /\ (stack[i].keys = RootKeys(stack[i].via))'
               /\ i # 1 => (stack[i].via \in Parameter)'
    <3>1. /\ FrameFits(stack[i])
          /\ i = 1 => IsRoot(stack[i].via) /\ stack[i].keys = RootKeys(stack[i].via)
          /\ i # 1 => stack[i].via \in Parameter
      BY <2>1, <1>0, <1>2 DEF StackOK
    <3>2. /\ stack'[i].binding = stack[i].binding /\ stack'[i].keys = stack[i].keys
          /\ stack'[i].via = stack[i].via /\ stack'[i].todo \subseteq stack[i].todo
          /\ stack'[i] \in Frame
      BY <2>1, <1>5
    <3>3. FrameFits(stack[i])'
      BY <3>1, <3>2, <1>6 DEF FrameFits, RegistrationOf
    <3>. QED  BY <3>1, <3>2, <3>3 DEF IsRoot, RootKeys, RootRequest, AllKeys, Parameter
  <2>2. FrameFits(stack[n + 1])'
    BY <1>4, <1>5, <1>6 DEF FrameFits, RegistrationOf
  <2>3. (stack[n + 1].via)' \in Parameter /\ n + 1 # 1  BY <1>2, <1>4, <1>5
  <2>4. DOMAIN stack' = 1 .. (n + 1)  BY <1>5, <1>2
  <2>5. \A i \in DOMAIN stack' : i \in 1 .. n \/ i = n + 1  BY <2>4, <1>2
  <2>. QED  BY <2>1, <2>2, <2>3, <2>5, <1>5, <1>6 DEF StackOK, Parameter
<1>8. KeysOK'
  <2>. SUFFICES ASSUME NEW i \in DOMAIN stack', NEW j \in DOMAIN stack', PassedOn(j, i)'
                PROVE  Carries(stack'[i].keys, AskedFor(j)')
    BY DEF KeysOK, Carries
  <2>1. i \in Nat /\ j \in Nat /\ i >= 1 /\ j >= 1 /\ j <= i /\ i <= n + 1
    BY <1>2, <1>5 DEF PassedOn
  <2>2. CASE i <= n
    <3>1. i \in DOMAIN stack /\ j \in DOMAIN stack  BY <2>1, <2>2, <1>0, <1>2 DEF StackOK
    <3>2. PassedOn(j, i)  BY <2>1, <2>2, <1>2, <1>5 DEF PassedOn
    <3>3. AskedFor(j)' = AskedFor(j)  BY <2>1, <2>2, <1>2, <1>5 DEF AskedFor
    <3>4. stack'[i].keys = stack[i].keys  BY <2>1, <2>2, <1>2, <1>5
    <3>. QED  BY <3>1, <3>2, <3>3, <3>4 DEF KeysOK
  <2>3. CASE i = n + 1 /\ j <= n
    <3>1. p.kind = "inherit"  BY <2>1, <2>3, <1>2, <1>4, <1>5 DEF PassedOn
    <3>2. PassedOn(j, n)  BY <2>1, <2>3, <1>2, <1>5 DEF PassedOn
    <3>3. AskedFor(j)' = AskedFor(j)  BY <2>1, <2>3, <1>2, <1>5 DEF AskedFor
    <3>4. j \in DOMAIN stack  BY <2>1, <2>3, <1>0, <1>2 DEF StackOK
    <3>. QED  BY <3>1, <3>2, <3>3, <3>4, <2>3, <1>0, <1>4, <1>5, KeysOfCarries
  <2>4. CASE i = n + 1 /\ j = n + 1
    <3>1. p.kind # "inherit"  BY <2>4, <1>2, <1>4, <1>5 DEF PassedOn
    <3>2. AskedFor(j)' = (IF p.kind = "keyed" THEN p.key ELSE NoKey)
      BY <2>4, <1>2, <1>4, <1>5 DEF AskedFor
    <3>. QED  BY <3>1, <3>2, <2>4, <1>4, <1>5, KeysOfCarries
  <2>. QED  BY <2>1, <2>2, <2>3, <2>4, <1>2
<1>. QED  BY <1>7, <1>8
-----------------------------------------------------------------------------
(***************************************************************************)
(* The steps, action by action                                             *)
(***************************************************************************)
LEMMA InitHolds == Init => IInv
BY DEF Init, IInv, StackOK, KeysOK, DataOK, CrossedOK, MissingIsInvalid,
       NoAnswer, AllKeys, Exception

LEMMA TopFacts ==
    ASSUME StackOK, registration \in Registrations, stack # <<>>
    PROVE  /\ Top.binding \in Binding /\ Told(Top) \in AllKeys
           /\ Top.todo \subseteq Parameter
           /\ Len(stack) = 1 => IsRoot(Top.via) /\ Top.via.key \in AllKeys
           /\ Len(stack) > 1 => Top.via \in Parameter
<1>1. /\ Len(stack) \in DOMAIN stack /\ Top = stack[Len(stack)] /\ Top \in Frame
      /\ Len(stack) = 1 => IsRoot(Top.via)
      /\ Len(stack) > 1 => Top.via \in Parameter
  BY DEF StackOK, FrameFits, Top
<1>2. /\ Top.binding \in Binding /\ Top.todo \subseteq Parameter
      /\ Top.keys \in {<<>>} \cup {<<k>> : k \in AllKeys}
  BY <1>1 DEF Frame
<1>3. Told(Top) \in AllKeys
  BY <1>2, KeysFacts, BindingFacts DEF Told
<1>4. IsRoot(Top.via) => Top.via.key \in AllKeys
  BY DEF IsRoot, RootRequest
<1>. QED  BY <1>1, <1>2, <1>3, <1>4

LEMMA NoteKeeps ==
    ASSUME dynamic \subseteq Binding, NEW b \in Binding, Note(b),
           registration' = registration
    PROVE  (dynamic \subseteq Binding)'
BY DEF Note, Binding, AllKeys

LEMMA BindingsFit ==
    ASSUME StackOK, DataOK, stack # <<>>, NEW p \in Parameter
    PROVE  BindingsOf(Top, p) \subseteq Binding
<1>1. Top.keys \in {<<>>} \cup {<<k>> : k \in AllKeys}
  BY DEF StackOK, FrameFits, Top, Frame
<1>2. FromKeyedServiceValue(Top, p) \in AllKeys
  BY <1>1, KeysFacts DEF FromKeyedServiceValue, Parameter, AllKeys
<1>. QED  BY <1>2, ExplicitFacts DEF BindingsOf, AllKeys, DataOK

LEMMA AskKeeps ==
    ASSUME IInv, NEW r \in RootRequest, Ask(r), registration' = registration
    PROVE  IInv'
<1>1. r.key \in AllKeys /\ IsRoot(r) /\ r.op \in {"Get", "GetKeyed", "GetAllKeyed"}
  BY DEF RootRequest, Ask, IsRoot
<1>2. stack = <<>> /\ raised = "none"  BY DEF Ask, Idle
<1>3. RootBindings(r) \subseteq Binding
  BY <1>1, ExplicitFacts DEF RootBindings, IsRoot, AllKeys, IInv, DataOK
<1>4. PICK b \in RootBindings(r) :
         /\ Note(b)
         /\ \/ /\ \E m \in Existing(b) : Answer("instance", r.key, m[2])
               /\ stack' = stack
            \/ /\ stack' = <<NewFrame(b, RootKeys(r), r)>>
               /\ answer' = NoAnswer
  BY DEF Ask
<1>5. b \in Binding  BY <1>3
<1>6. /\ raised' = raised /\ cause' = cause /\ crossed' = crossed /\ made' = made
      /\ asked' = asked \cup {r.key}
  BY DEF Ask
<1>7. (dynamic \subseteq Binding)'  BY <1>4, <1>5, NoteKeeps DEF IInv, DataOK
<1>8. Binding' = Binding /\ Frame' = Frame
  BY DEF Frame, Binding, Via, RootRequest, Parameter, AllKeys
<1>9. CASE /\ \E m \in Existing(b) : Answer("instance", r.key, m[2])
           /\ stack' = stack
  <2>1. PICK m \in made : Answer("instance", r.key, m[2])  BY <1>9 DEF Existing
  <2>2. m[2] \in AllKeys  BY DEF IInv, DataOK
  <2>3. /\ answer'.outcome = "instance" /\ answer'.key \in AllKeys
        /\ answer'.told \in AllKeys /\ answer'.cause = cause /\ answer'.crossed = crossed
    BY <2>1, <2>2, <1>1 DEF Answer
  <2>4. DataOK'
    BY <2>3, <1>1, <1>6, <1>7, <1>8 DEF IInv, DataOK, Exception
  <2>5. CrossedOK'  BY <2>3, <1>2, <1>6 DEF CrossedOK, MissingIsInvalid
  <2>6. StackOK' /\ KeysOK'
    BY <1>9, <1>2 DEF IInv, StackOK, KeysOK
  <2>. QED  BY <2>4, <2>5, <2>6 DEF IInv
<1>10. CASE stack' = <<NewFrame(b, RootKeys(r), r)>> /\ answer' = NoAnswer
  <2>1. DataOK'
    BY <1>10, <1>1, <1>6, <1>7, <1>8 DEF IInv, DataOK, NoAnswer, AllKeys, Exception
  <2>2. CrossedOK'
    BY <1>10, <1>2, <1>6 DEF CrossedOK, MissingIsInvalid, NoAnswer
  <2>3. PICK fr : fr = NewFrame(b, RootKeys(r), r)  OBVIOUS
  <2>4. /\ RootKeys(r) \in {<<>>} \cup {<<k>> : k \in AllKeys}
        /\ Carries(RootKeys(r), r.key)
    BY <1>1 DEF RootKeys, IsRoot, Carries
  <2>5. RegistrationOf(b).parameters \subseteq Parameter
    BY <1>5, BindingFacts DEF IInv, DataOK
  <2>6. /\ fr \in Frame /\ fr.via = r /\ fr.keys = RootKeys(r) /\ fr.binding = b
        /\ fr.todo = RegistrationOf(b).parameters
    BY <2>3, <2>4, <2>5, <1>5 DEF NewFrame, Frame, Via
  <2>7. /\ stack' \in Seq(Frame) /\ DOMAIN stack' = {1} /\ stack'[1] = fr
    BY <2>3, <2>6, <1>10
  <2>8. StackOK'
    BY <2>6, <2>7, <1>1, <1>8 DEF StackOK, FrameFits, IsRoot, RootKeys, RegistrationOf,
                                  RootRequest, AllKeys
  <2>9. KeysOK'
    BY <2>4, <2>6, <2>7 DEF KeysOK, AskedFor, Carries
  <2>. QED  BY <2>1, <2>2, <2>8, <2>9 DEF IInv
<1>. QED  BY <1>4, <1>9, <1>10

LEMMA InjectKeeps ==
    ASSUME IInv, NEW p \in Parameter, Inject(p), registration' = registration
    PROVE  IInv'
<1>1. stack # <<>> /\ raised = "none"  BY DEF Inject, Working
<1>2. PICK b \in BindingsOf(Top, p) :
         /\ Note(b)
         /\ \/ stack' = [stack EXCEPT ![Len(stack)] = Resolved(p)]
            \/ stack' = Append([stack EXCEPT ![Len(stack)] = Resolved(p)],
                               NewFrame(b, KeysOf(Top, p), p))
  BY DEF Inject
<1>3. b \in Binding  BY <1>1, BindingsFit DEF IInv
<1>4. (dynamic \subseteq Binding)'  BY <1>2, <1>3, NoteKeeps DEF IInv, DataOK
<1>5. (StackOK /\ KeysOK)'
  BY <1>1, <1>2, <1>3, ResolveKeeps, PushKeeps DEF IInv, DataOK
<1>6. DataOK' /\ CrossedOK'
  BY <1>4 DEF Inject, IInv, DataOK, CrossedOK, MissingIsInvalid, Binding, AllKeys,
              Parameter, Exception
<1>. QED  BY <1>5, <1>6 DEF IInv

LEMMA InjectNothingKeeps ==
    ASSUME IInv, NEW p \in Parameter, InjectNothing(p), registration' = registration
    PROVE  IInv'
<1>1. stack # <<>> /\ raised = "none"  BY DEF InjectNothing, Working
<1>2. (StackOK /\ KeysOK)'
  BY <1>1, ResolveKeeps DEF InjectNothing, IInv
<1>3. Binding' = Binding  BY DEF Binding, AllKeys
<1>4. DataOK'
  BY <1>3 DEF InjectNothing, Rethrow, IInv, DataOK, AllKeys, Parameter, Exception
<1>5. CrossedOK'
  BY <1>1 DEF InjectNothing, Rethrow, IInv, CrossedOK, MissingIsInvalid, Surfaces
<1>. QED  BY <1>2, <1>4, <1>5 DEF IInv

LEMMA ConstructKeeps ==
    ASSUME IInv, Construct, registration' = registration
    PROVE  IInv'
<1>1. stack # <<>> /\ raised = "none" /\ stack' = Front(stack)
      /\ raised' = raised /\ cause' = cause /\ crossed' = crossed
      /\ dynamic' = dynamic /\ asked' = asked
  BY DEF Construct, Working
<1>2. (StackOK /\ KeysOK)'  BY <1>1, PopKeeps DEF IInv
<1>3. Binding' = Binding  BY DEF Binding, AllKeys
<1>4. /\ Top.binding \in Binding /\ Told(Top) \in AllKeys
      /\ Len(stack) = 1 => Top.via.key \in AllKeys
  BY <1>1, TopFacts DEF IInv, DataOK
<1>5. made' \subseteq Binding \X AllKeys
  BY <1>4 DEF Construct, IInv, DataOK
<1>6. \/ answer' = answer
      \/ /\ answer'.outcome = "instance" /\ answer'.key \in AllKeys
         /\ answer'.told \in AllKeys /\ answer'.cause = cause /\ answer'.crossed = crossed
  BY <1>4 DEF Construct, Answer
<1>7. DataOK'
  BY <1>1, <1>3, <1>5, <1>6 DEF IInv, DataOK, AllKeys, Parameter, Exception
<1>8. CrossedOK'
  BY <1>1, <1>6 DEF IInv, CrossedOK, MissingIsInvalid
<1>. QED  BY <1>2, <1>7, <1>8 DEF IInv

LEMMA CannotConvertKeeps ==
    ASSUME IInv, CannotConvert, registration' = registration
    PROVE  IInv'
<1>1. Binding' = Binding /\ Frame' = Frame
  BY DEF Frame, Binding, Via, RootRequest, Parameter, AllKeys
<1>2. StackOK' /\ KeysOK'
  BY <1>1 DEF CannotConvert, IInv, StackOK, KeysOK, FrameFits, RegistrationOf, IsRoot,
              RootKeys, RootRequest, Parameter, AllKeys, PassedOn, AskedFor, Carries
<1>3. raised' \in {"invalid", "format"} /\ cause' = raised'
  BY DEF CannotConvert, ConversionError
<1>4. DataOK'
  BY <1>1, <1>3 DEF CannotConvert, IInv, DataOK, AllKeys, Parameter, Exception
<1>5. CrossedOK'
  BY <1>3 DEF CannotConvert, IInv, CrossedOK, MissingIsInvalid, Surfaces
<1>. QED  BY <1>2, <1>4, <1>5 DEF IInv

LEMMA UnwindKeeps ==
    ASSUME IInv, Unwind, registration' = registration
    PROVE  IInv'
<1>1. stack # <<>> /\ Len(stack) > 1 /\ stack' = Front(stack)
  BY DEF Unwind, IInv, StackOK
<1>2. (StackOK /\ KeysOK)'  BY <1>1, PopKeeps DEF IInv
<1>3. PICK p \in Parameter : p = Top.via  BY <1>1, TopFacts DEF IInv, DataOK
<1>4. Binding' = Binding  BY DEF Binding, AllKeys
<1>5. DataOK'
  BY <1>3, <1>4 DEF Unwind, Rethrow, IInv, DataOK, AllKeys, Exception
<1>6. CrossedOK'
  BY <1>3 DEF Unwind, Rethrow, IInv, CrossedOK, MissingIsInvalid, Surfaces
<1>. QED  BY <1>2, <1>5, <1>6 DEF IInv

LEMMA FailKeeps ==
    ASSUME IInv, Fail, registration' = registration
    PROVE  IInv'
<1>1. stack # <<>> /\ Len(stack) = 1 /\ stack' = <<>>
  BY DEF Fail
<1>2. StackOK' /\ KeysOK'  BY <1>1 DEF StackOK, KeysOK
<1>3. Top.via.key \in AllKeys  BY <1>1, TopFacts DEF IInv, DataOK
<1>4. Binding' = Binding /\ NoKey \in AllKeys  BY DEF Binding, AllKeys
<1>5. /\ raised # "none" /\ answer'.outcome \in {raised, "null"}
      /\ answer'.outcome = "null" => raised = "activation"
      /\ answer'.key = Top.via.key /\ answer'.told = NoKey
      /\ answer'.cause = cause /\ answer'.crossed = crossed
      /\ raised' = "none" /\ cause' = "none" /\ crossed' = {}
  BY DEF Fail, Answer, IInv, DataOK, Exception
<1>6. DataOK'
  BY <1>3, <1>4, <1>5 DEF Fail, IInv, DataOK, AllKeys, Parameter, Exception
<1>7. CrossedOK'
  BY <1>5 DEF IInv, CrossedOK, MissingIsInvalid, Surfaces, DataOK, Exception
<1>. QED  BY <1>2, <1>6, <1>7 DEF IInv

LEMMA StepKeeps == IInv /\ [Next]_vars => IInv'
<1>. SUFFICES ASSUME IInv, [Next]_vars PROVE IInv'  OBVIOUS
<1>1. CASE UNCHANGED vars
  BY <1>1 DEF vars, IInv, StackOK, KeysOK, DataOK, CrossedOK, MissingIsInvalid,
              Frame, Binding, Via, FrameFits, RegistrationOf, IsRoot, RootKeys,
              RootRequest, Parameter, AllKeys, PassedOn, AskedFor, Carries
<1>2. CASE Next
  BY <1>2, AskKeeps, InjectKeeps, InjectNothingKeeps, ConstructKeeps,
     CannotConvertKeeps, UnwindKeeps, FailKeeps DEF Next
<1>. QED  BY <1>1, <1>2

LEMMA Inductive == Spec => []IInv
BY InitHolds, StepKeeps, PTL DEF Spec

-----------------------------------------------------------------------------
(***************************************************************************)
(* What a singleton is told when it is made is what all requests for its   *)
(* key get: so it has to be told that key, however it is reached.          *)
(***************************************************************************)
ToldFor(b, told) ==
    b[2] \in Key => told = b[2] \/ (told = AnyKey /\ AnyKey \in asked)

FrameTold(fr) ==
    /\ RegistrationOf(fr.binding).singleton => ToldFor(fr.binding, Told(fr))
    /\ fr.keys = <<AnyKey>> => AnyKey \in asked

MadeTold == \A m \in made : ToldFor(m[1], m[2])

ToldInv ==
    /\ MadeTold
    /\ \A i \in DOMAIN stack : FrameTold(stack[i])
    /\ ToldTheKey

\* The singletons that a request without a constraint finds have no key.
LEMMA UnconstrainedFacts ==
    ASSUME ReachedByKey, registration \in Registrations, NEW t,
           NEW b \in Unconstrained(t), RegistrationOf(b).singleton
    PROVE  b[2] \notin Key
<1>1. /\ b[1] \in DOMAIN registration /\ b[2] = registration[b[1]].key
      /\ registration[b[1]].type = t
  BY DEF Unconstrained, First, Explicit
<1>2. ASSUME NEW m \in DOMAIN registration, registration[m].type = t
      PROVE  b[1] <= m
  <2>1. <<m, registration[m].key>> \in Explicit(t, LAMBDA k : TRUE)
    BY <1>2 DEF Explicit
  <2>. QED  BY <2>1 DEF Unconstrained, First
<1>3. DOMAIN registration \subseteq Nat
  BY RegistrationAssumption DEF RegistrationOK
<1>. QED  BY <1>1, <1>2, <1>3 DEF ReachedByKey, RegistrationOf

LEMMA ForKeyFacts ==
    ASSUME NEW t, NEW key, NEW b \in ForKey(t, key)
    PROVE  b[2] = key
BY DEF ForKey, Explicit

\* The instance for a parameter of an instance that is told what it should be.
LEMMA ParameterTold ==
    ASSUME ReachedByKey, IInv, stack # <<>>, FrameTold(Top),
           NEW p \in Parameter, p \in Top.todo, NEW b \in BindingsOf(Top, p)
    PROVE  FrameTold(NewFrame(b, KeysOf(Top, p), p))
<1>. DEFINE key == FromKeyedServiceValue(Top, p)
            fr == NewFrame(b, KeysOf(Top, p), p)
<1>1. /\ Top \in Frame /\ Top.keys \in {<<>>} \cup {<<k>> : k \in AllKeys}
      /\ Top.binding \in Binding
      /\ Top.todo \subseteq RegistrationOf(Top.binding).parameters
  BY DEF IInv, StackOK, FrameFits, Top, Frame
<1>2. fr.binding = b /\ fr.keys = KeysOf(Top, p)
  BY DEF NewFrame
<1>3. p.kind \in {"plain", "keyed", "null", "inherit"} /\ registration \in Registrations
  BY DEF Parameter, IInv, DataOK
<1>4. NoKey # AnyKey /\ \A k : Last(<<k>>) = k /\ <<k>> # <<>>
  BY RegistrationAssumption DEF Last
<1>5. CASE p.kind = "plain" \/ key = NoKey
  <2>1. fr.keys \in {<<>>, <<NoKey>>}
    BY <1>2, <1>5 DEF KeysOf, CreateChild, KeyedKeys
  <2>2. b \in Unconstrained(p.type)  BY <1>5 DEF BindingsOf
  <2>3. RegistrationOf(b).singleton => b[2] \notin Key
    BY <2>2, <1>3, UnconstrainedFacts
  <2>4. fr.keys # <<AnyKey>>  BY <2>1, <1>4
  <2>. QED  BY <2>3, <2>4, <1>2 DEF FrameTold, ToldFor
<1>6. CASE p.kind # "plain" /\ key = AnyKey
  <2>1. fr.keys = <<AnyKey>>  BY <1>2, <1>6 DEF KeysOf, KeyedKeys
  <2>2. p.kind = "keyed" => p.key # AnyKey
    BY <1>1, <1>3, BindingFacts DEF ReachedByKey, RegistrationOf
  <2>3. p.kind = "inherit" /\ KeyParameter(Top.keys) = AnyKey
    BY <2>2, <1>3, <1>4, <1>6 DEF FromKeyedServiceValue
  <2>4. Top.keys = <<AnyKey>>
    BY <2>3, <1>1, <1>4, KeysFacts DEF KeyParameter
  <2>5. AnyKey \in asked  BY <2>4 DEF FrameTold
  <2>6. Told(fr) = AnyKey  BY <2>1, <1>4 DEF Told
  <2>. QED  BY <2>5, <2>6 DEF FrameTold, ToldFor
<1>7. CASE p.kind # "plain" /\ key \notin {NoKey, AnyKey}
  <2>1. fr.keys = <<key>>  BY <1>2, <1>7 DEF KeysOf, KeyedKeys
  <2>2. b[2] = key  BY <1>7, ForKeyFacts DEF BindingsOf
  <2>3. Told(fr) = key /\ fr.keys # <<AnyKey>>  BY <2>1, <1>4, <1>7 DEF Told
  <2>. QED  BY <2>2, <2>3, <1>2 DEF FrameTold, ToldFor
<1>. QED  BY <1>5, <1>6, <1>7

\* What was told stays told; the application only asks for more keys.
LEMMA ToldLater ==
    ASSUME ToldInv, asked \subseteq asked', made' = made
    PROVE  MadeTold'
BY DEF ToldInv, MadeTold, ToldFor

\* An exception, an answer: no frame is added and no key changes.
LEMMA FramesStay ==
    ASSUME ToldInv, StackOK, asked' = asked, registration' = registration,
           \A i \in DOMAIN stack' :
              /\ i \in DOMAIN stack
              /\ stack'[i].binding = stack[i].binding /\ stack'[i].keys = stack[i].keys
    PROVE  (\A i \in DOMAIN stack : FrameTold(stack[i]))'
BY DEF ToldInv, ToldFor, FrameTold, RegistrationOf, Told, OwnKey

LEMMA FrontFacts ==
    ASSUME StackOK, stack # <<>>
    PROVE  \A i \in DOMAIN Front(stack) : i \in DOMAIN stack /\ Front(stack)[i] = stack[i]
<1>1. PICK n : n = Len(stack)  OBVIOUS
<1>2. stack \in Seq(Frame) /\ n \in Nat \ {0} /\ DOMAIN stack = 1 .. n
  BY <1>1 DEF StackOK
<1>3. Front(stack) = SubSeq(stack, 1, n - 1)  BY <1>1 DEF Front
<1>. QED  BY <1>2, <1>3

LEMMA AskTold ==
    ASSUME ReachedByKey, IInv, ToldInv, NEW r \in RootRequest, Ask(r),
           registration' = registration
    PROVE  ToldInv'
<1>1. /\ IsRoot(r) /\ stack = <<>> /\ r.op \in {"Get", "GetKeyed", "GetAllKeyed"}
      /\ r.key \in AllKeys
      /\ asked' = asked \cup {r.key} /\ made' = made
  BY DEF RootRequest, Ask, IsRoot, Idle
<1>2. PICK b \in RootBindings(r) :
         \/ /\ \E m \in Existing(b) : Answer("instance", r.key, m[2])
            /\ stack' = stack
         \/ /\ stack' = <<NewFrame(b, RootKeys(r), r)>>
            /\ answer' = NoAnswer
  BY DEF Ask
<1>3. MadeTold'  BY <1>1, ToldLater
<1>4. NoKey # AnyKey /\ NoKey \notin Key /\ AnyKey \notin Key
      /\ \A k : Last(<<k>>) = k /\ <<k>> # <<>>
  BY RegistrationAssumption DEF Last
<1>5. r.op = "Get" => b[2] = NoKey
  BY <1>2 DEF RootBindings, Unkeyed, Explicit
<1>6. r.op = "GetKeyed" => b[2] = r.key
  BY <1>2, ForKeyFacts DEF RootBindings
<1>7. CASE /\ \E m \in Existing(b) : Answer("instance", r.key, m[2])
           /\ stack' = stack
  <2>1. PICK m \in made : m[1] = b /\ Answer("instance", r.key, m[2])
    BY <1>7 DEF Existing
  <2>2. r.key \in Key => b[2] = r.key
    BY <1>1, <1>4, <1>6 DEF IsRoot
  <2>3. ToldFor(b, m[2])  BY <2>1 DEF ToldInv, MadeTold
  <2>4. ToldTheKey'  BY <1>1, <2>1, <2>2, <2>3 DEF ToldTheKey, Answer, ToldFor
  <2>. QED  BY <1>1, <1>3, <1>7, <2>4 DEF ToldInv
<1>8. CASE stack' = <<NewFrame(b, RootKeys(r), r)>> /\ answer' = NoAnswer
  <2>1. PICK fr : fr = NewFrame(b, RootKeys(r), r)  OBVIOUS
  <2>2. fr.binding = b /\ fr.keys = RootKeys(r)  BY <2>1 DEF NewFrame
  <2>3. DOMAIN stack' = {1} /\ stack'[1] = fr  BY <1>8, <2>1
  <2>4. b[2] \in Key => Told(fr) = b[2] \/ (Told(fr) = AnyKey /\ AnyKey \in asked')
    BY <1>1, <1>4, <1>5, <1>6, <2>2 DEF RootKeys, Told, IsRoot
  <2>5. fr.keys = <<AnyKey>> => AnyKey \in asked'
    BY <1>1, <1>4, <2>2 DEF RootKeys, IsRoot
  <2>6. Told(fr)' = Told(fr)  BY <1>1 DEF Told, OwnKey, RegistrationOf
  <2>7. (\A i \in DOMAIN stack : FrameTold(stack[i]))'
    BY <2>2, <2>3, <2>4, <2>5, <2>6 DEF FrameTold, ToldFor, Told
  <2>8. ToldTheKey'  BY <1>8 DEF ToldTheKey, NoAnswer
  <2>. QED  BY <1>3, <2>7, <2>8 DEF ToldInv
<1>. QED  BY <1>2, <1>7, <1>8

LEMMA InjectTold ==
    ASSUME ReachedByKey, IInv, ToldInv, NEW p \in Parameter, Inject(p),
           registration' = registration
    PROVE  ToldInv'
<1>0. PICK n : n = Len(stack)  OBVIOUS
<1>1. /\ stack # <<>> /\ p \in Top.todo
      /\ n \in Nat /\ n > 0 /\ stack \in Seq(Frame) /\ DOMAIN stack = 1 .. n
      /\ Top = stack[n] /\ Top \in Frame
      /\ asked' = asked /\ made' = made /\ answer' = answer
  BY <1>0 DEF Inject, Working, IInv, StackOK, FrameFits, Top
<1>2. PICK b \in BindingsOf(Top, p) :
         \/ stack' = [stack EXCEPT ![Len(stack)] = Resolved(p)]
         \/ stack' = Append([stack EXCEPT ![Len(stack)] = Resolved(p)],
                            NewFrame(b, KeysOf(Top, p), p))
  BY DEF Inject
<1>3. PICK fr : fr = NewFrame(b, KeysOf(Top, p), p)  OBVIOUS
<1>4. FrameTold(fr)
  BY <1>1, <1>3, ParameterTold DEF ToldInv
<1>5. /\ Resolved(p).binding = Top.binding /\ Resolved(p).keys = Top.keys
  BY <1>1 DEF Resolved, Frame
<1>6. \A i \in DOMAIN stack' :
         \/ /\ i \in DOMAIN stack
            /\ stack'[i].binding = stack[i].binding /\ stack'[i].keys = stack[i].keys
         \/ stack'[i] = fr
  BY <1>0, <1>1, <1>2, <1>3, <1>5
<1>7. (\A i \in DOMAIN stack : FrameTold(stack[i]))'
  BY <1>1, <1>4, <1>6 DEF ToldInv, ToldFor, FrameTold, RegistrationOf, Told, OwnKey
<1>8. MadeTold' /\ ToldTheKey'
  BY <1>1 DEF ToldInv, MadeTold, ToldFor, ToldTheKey
<1>. QED  BY <1>7, <1>8 DEF ToldInv

LEMMA ConstructTold ==
    ASSUME IInv, ToldInv, Construct, registration' = registration
    PROVE  ToldInv'
<1>1. /\ stack # <<>> /\ stack' = Front(stack) /\ asked' = asked
      /\ Len(stack) \in DOMAIN stack /\ Top = stack[Len(stack)]
      /\ made' = IF RegistrationOf(Top.binding).singleton
                 THEN made \cup {<<Top.binding, Told(Top)>>} ELSE made
      /\ IF Len(stack) = 1 THEN Answer("instance", Top.via.key, Told(Top))
         ELSE answer' = answer
  BY DEF Construct, Working, IInv, StackOK, Top
<1>2. (\A i \in DOMAIN stack : FrameTold(stack[i]))'
  BY <1>1, FrontFacts, FramesStay DEF IInv
<1>3. MadeTold'
  BY <1>1 DEF ToldInv, MadeTold, FrameTold, ToldFor
<1>4. CASE Len(stack) = 1
  <2>1. IsRoot(Top.via) /\ Top.keys = RootKeys(Top.via)
    BY <1>1, <1>4 DEF IInv, StackOK
  <2>2. NoKey \notin Key /\ \A k : Last(<<k>>) = k /\ <<k>> # <<>>
    BY RegistrationAssumption DEF Last
  <2>3. Top.via.key \in Key => Told(Top) = Top.via.key
    BY <2>1, <2>2 DEF IsRoot, RootKeys, Told
  <2>. QED  BY <1>1, <1>2, <1>3, <1>4, <2>3 DEF ToldInv, ToldTheKey, Answer
<1>5. CASE Len(stack) # 1
  BY <1>1, <1>2, <1>3, <1>5 DEF ToldInv, ToldTheKey
<1>. QED  BY <1>4, <1>5

LEMMA OtherStepsTold ==
    ASSUME IInv, ToldInv, registration' = registration,
           \/ \E p \in Parameter : InjectNothing(p)
           \/ CannotConvert \/ Unwind \/ Fail \/ UNCHANGED vars
    PROVE  ToldInv'
<1>1. asked' = asked /\ made' = made
  BY DEF InjectNothing, CannotConvert, Unwind, Fail, vars
<1>2. MadeTold'  BY <1>1 DEF ToldInv, MadeTold, ToldFor
<1>3. ToldTheKey'
  BY <1>1 DEF ToldInv, ToldTheKey, InjectNothing, CannotConvert, Unwind, Fail, vars,
              Answer, IInv, DataOK, Exception
<1>4. \A i \in DOMAIN stack' :
         /\ i \in DOMAIN stack
         /\ stack'[i].binding = stack[i].binding /\ stack'[i].keys = stack[i].keys
  <2>1. CASE stack' = stack  BY <2>1
  <2>2. CASE Unwind
    BY <2>2, FrontFacts DEF Unwind, IInv, StackOK
  <2>3. CASE Fail
    BY <2>3 DEF Fail
  <2>4. CASE \E p \in Parameter : InjectNothing(p)
    <3>1. PICK p \in Parameter : InjectNothing(p)  BY <2>4
    <3>2. /\ stack # <<>> /\ stack' = [stack EXCEPT ![Len(stack)] = Resolved(p)]
          /\ Len(stack) \in DOMAIN stack /\ Top = stack[Len(stack)] /\ Top \in Frame
      BY <3>1 DEF InjectNothing, Working, IInv, StackOK, FrameFits, Top
    <3>3. Resolved(p).binding = Top.binding /\ Resolved(p).keys = Top.keys
      BY <3>2 DEF Resolved, Frame
    <3>. QED  BY <3>2, <3>3 DEF IInv, StackOK
  <2>. QED  BY <2>1, <2>2, <2>3, <2>4 DEF CannotConvert, vars
<1>5. (\A i \in DOMAIN stack : FrameTold(stack[i]))'
  BY <1>1, <1>4, FramesStay DEF IInv
<1>. QED  BY <1>2, <1>3, <1>5 DEF ToldInv

LEMMA ToldStep == ReachedByKey /\ IInv /\ ToldInv /\ [Next]_vars => ToldInv'
<1>. SUFFICES ASSUME ReachedByKey, IInv, ToldInv, [Next]_vars PROVE ToldInv'
  OBVIOUS
<1>1. registration' = registration  BY DEF Next, vars
<1>. QED  BY <1>1, AskTold, InjectTold, ConstructTold, OtherStepsTold DEF Next

LEMMA ToldInit == Init => ToldInv
BY DEF Init, ToldInv, MadeTold, ToldTheKey, NoAnswer

-----------------------------------------------------------------------------
\* The types, among them that a request has at most one ServiceKeyParameter
\* (KeyedRequest.cs:52-73).
THEOREM TypeCorrect == Spec => []TypeOK
<1>1. IInv => TypeOK
  BY DEF IInv, StackOK, DataOK, TypeOK, FrameFits, FrameOK, Frame
<1>. QED  BY <1>1, Inductive, PTL

\* No service is told a key other than its own or the one it was asked for,
\* directly or through "inherit" parameters, however long the chain
\* (KeyedRequest.cs:52-73, ParameterTargetWithKeyedSupport.cs:107-132).
THEOREM NearestKey == Spec => []ToldNearestKey
<1>1. IInv => ToldNearestKey
  <2>1. ASSUME IInv, NEW i \in DOMAIN stack, NEW j \in DOMAIN stack, PassedOn(j, i)
        PROVE  IF AskedFor(j) # NoKey THEN Told(stack[i]) = AskedFor(j)
               ELSE Told(stack[i]) \in {NoKey, OwnKey(stack[i].binding)}
    <3>1. Carries(stack[i].keys, AskedFor(j))  BY <2>1 DEF IInv, KeysOK
    <3>2. \A k : Last(<<k>>) = k /\ <<k>> # <<>>  BY DEF Last
    <3>. QED  BY <3>1, <3>2 DEF Carries, Told
  <2>. QED  BY <2>1 DEF ToldNearestKey
<1>. QED  BY <1>1, Inductive, PTL

\* A service that is missing below a parameter with [FromKeyedServices] reaches the
\* application as an InvalidOperationException, whatever it crosses; every other
\* exception arrives as it was thrown, a FormatException of a key too
\* (ParameterTargetWithKeyedSupport.cs:85-104, 134-146).
THEOREM MissingSurfaces == Spec => []MissingIsInvalid
<1>1. IInv => MissingIsInvalid  BY DEF IInv, CrossedOK
<1>. QED  BY <1>1, Inductive, PTL

\* Where a singleton with a key is reached by its key only, whoever asks for that
\* key gets an instance that was told it, whichever request or parameter the
\* instance was made for; AnyKey is the one exception
\* (ServiceProviderKeyedTest.cs:38-39, ParameterTargetWithKeyedSupport.cs:107-132).
THEOREM KeyIsTold ==
    ASSUME ReachedByKey
    PROVE  Spec => []ToldTheKey
<1>1. Init => ToldInv  BY ToldInit
<1>2. IInv /\ ToldInv /\ [Next]_vars => ToldInv'  BY ToldStep
<1>3. ToldInv => ToldTheKey  BY DEF ToldInv
<1>. QED  BY <1>1, <1>2, <1>3, Inductive, PTL DEF Spec
=============================================================================
