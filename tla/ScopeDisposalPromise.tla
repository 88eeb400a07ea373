------------------------ MODULE ScopeDisposalPromise ------------------------
(***************************************************************************)
(* ScopeDisposal implements DisposalPromise, for every number of flows,    *)
(* scopes, instances and areas, and with it keeps DependentsFirst and      *)
(* DrainComplete.  Beyond OnceInv this needs that instances are numbered   *)
(* after their dependencies and that a drain has settled all that is no    *)
(* longer among the rest of its frame.                                     *)
(***************************************************************************)
EXTENDS ScopeDisposalProofs

USE DEF Owner, Pc, Allows

Created == {x \in Instance : order[x] > 0}

\* An instance is numbered after those it was constructed with.
OrderOK ==
    /\ \A x \in Instance : order[x] <= counter
    /\ \A x \in Created : \A d \in Deps[x] : order[d] > 0 /\ order[d] < order[x]

\* Only instances that were created are cached, waited for or deactivated.
HandledOK ==
    /\ \A o \in Owner : cached[o] \subseteq Created
    /\ deactivated \subseteq Created
    /\ late \subseteq deactivated

RestsOK ==
    \A f \in Flow : \A i \in DOMAIN stack[f] : stack[f][i].rest \subseteq Created

OrderInv == OnceInv /\ OrderOK /\ HandledOK /\ RestsOK

\* Cutting frames off leaves frames with the same rest.
LEMMA CutRests ==
    ASSUME StackType, RestsOK, NEW f \in Flow, stack[f] # <<>>,
           Pop(f) \/ Unwind(f), Created \subseteq Created'
    PROVE  RestsOK'
<1>1. \A g \in Flow : \A i \in DOMAIN stack'[g] :
         i \in DOMAIN stack[g] /\ stack'[g][i] = stack[g][i]
  BY PopFrames
<1>. QED  BY <1>1 DEF RestsOK

\* So does replacing the top frame by one with instances that were created.
LEMMA SetTopRests ==
    ASSUME StackType, RestsOK, NEW f \in Flow, stack[f] # <<>>, NEW fr \in Frame,
           SetTop(f, fr), fr.rest \subseteq Created', Created \subseteq Created'
    PROVE  RestsOK'
<1>1. \A g \in Flow : \A i \in DOMAIN stack'[g] :
         /\ i \in DOMAIN stack[g]
         /\ stack'[g][i] = IF g = f /\ i = Len(stack[f]) THEN fr ELSE stack[g][i]
  BY SetTopFrames
<1>. QED  BY <1>1 DEF RestsOK

\* So does pushing such frames.
LEMMA PushRests ==
    ASSUME StackType, RestsOK, NEW f \in Flow, NEW frames \in Seq(Frame),
           Push(f, frames), Created \subseteq Created',
           \A k \in DOMAIN frames : frames[k].rest \subseteq Created'
    PROVE  RestsOK'
<1>1. \A g \in Flow : \A i \in DOMAIN stack'[g] :
         \/ i \in DOMAIN stack[g] /\ stack'[g][i] = stack[g][i]
         \/ /\ i - Len(stack[g]) \in DOMAIN frames
            /\ stack'[g][i] = frames[i - Len(stack[g])]
  BY PushFrames
<1>. QED  BY <1>1 DEF RestsOK

\* So does entering a scope.
LEMMA EnterScopeRests ==
    ASSUME StackType, RestsOK, NEW f \in Flow, NEW s \in Scope,
           NEW below \in Seq(Frame), EnterScope(f, s, below),
           Created \subseteq Created',
           \A k \in DOMAIN below : below[k].rest = {}
    PROVE  RestsOK'
<1>. DEFINE top(a) == NewFrame("raise", s, a, {}, {})
            frames(a) == Append(below, top(a))
<1>1. PICK a \in Area \cup {NoArea} : Push(f, frames(a))
  BY DEF EnterScope
<1>2. top(a) \in Frame /\ top(a).rest = {}
  <2>1. s \in Owner /\ s # NoOwner
    BY ConstantsAssumption
  <2>2. top(a) \in Frame
    BY <2>1, NewFrameType
  <2>. QED  BY <2>2 DEF NewFrame
<1>. HIDE DEF top
<1>3. /\ frames(a) \in Seq(Frame)
      /\ \A k \in DOMAIN frames(a) : frames(a)[k].rest = {}
  BY <1>2
<1>. HIDE DEF frames
<1>. QED  BY <1>1, <1>3, PushRests

\* Numbers grow along dependencies and nothing is handled before it was created,
\* whatever step is taken.
LEMMA OrderStep == OrderInv /\ [Next]_vars => OrderInv'
<1>. SUFFICES ASSUME OrderInv, [Next]_vars
              PROVE  OrderOK' /\ HandledOK' /\ RestsOK'
  BY OnceStep DEF OrderInv
<1>. DEFINE Goal == OrderOK' /\ HandledOK' /\ RestsOK'
<1>t. TypeOK /\ StackType
  BY DEF OrderInv, OnceInv, TypeOK, StackType
<1>f. ASSUME NEW f \in Flow, stack[f] # <<>>
      PROVE  Top(f) \in Frame /\ Top(f).rest \subseteq Created
  <2>1. Top(f) \in Frame /\ Len(stack[f]) \in DOMAIN stack[f]
    BY <1>t, <1>f, TopFrame
  <2>. QED  BY <2>1 DEF OrderInv, RestsOK, Top
\* Steps that create nothing.
<1>k. ASSUME UNCHANGED <<counter, order>> PROVE OrderOK' /\ Created' = Created
  BY <1>k DEF OrderInv, OrderOK, Created
<1>1. ASSUME NEW f \in Flow, LibraryStep(f) PROVE Goal
  <2>1. CASE RaiseDisposed(f)
    <3>. DEFINE s == Top(f).owner
                xs == Pending(Entries(s))
                fr == [Top(f) EXCEPT !.pc = "close"]
    <3>1. stack[f] # <<>> /\ Top(f).pc = "raise"
      BY <2>1 DEF RaiseDisposed, At
    <3>2. s \in Owner
      BY <1>f, <3>1 DEF Frame, FrameRecord
    <3>3. xs \subseteq cached[s] /\ Entries(s) \subseteq cached[s]
      BY <3>2, <1>t DEF TypeOK, Pending, Entries
    <3>4. fr \in Frame /\ fr.rest = Top(f).rest
      <4>1. fr \in Frame
        BY <1>f, <3>1, FrameUpdate
      <4>. QED  BY <1>f, <3>1, <4>1 DEF Frame, FrameRecord
    <3>5. /\ deactivated' = deactivated \cup xs
          /\ cached' = [cached EXCEPT ![s] = @ \ Entries(s)]
          /\ late' = late \/ late' = late \cup xs
          /\ UNCHANGED <<counter, order>> /\ SetTop(f, fr)
      BY <2>1 DEF RaiseDisposed, Register
    <3>. HIDE DEF fr, xs
    <3>6. HandledOK'
      BY <1>t, <1>k, <3>2, <3>3, <3>5 DEF OrderInv, HandledOK, TypeOK
    <3>7. RestsOK'
      BY <1>t, <1>f, <1>k, <3>1, <3>4, <3>5, SetTopRests DEF OrderInv
    <3>. QED  BY <1>k, <3>5, <3>6, <3>7
  <2>2. CASE RaiseFails(f)
    <3>. DEFINE s == Top(f).owner
                xs == Pending(Entries(s))
    <3>1. stack[f] # <<>> /\ Unwind(f) /\ UNCHANGED <<counter, order, late>>
      BY <2>2 DEF RaiseFails, At
    <3>2. PICK x \in xs :
             /\ deactivated' = deactivated \cup {x}
             /\ cached' = [cached EXCEPT ![s] =
                             IF x \in Transient THEN @ \ {x} ELSE {}]
      BY <2>2 DEF RaiseFails
    <3>3. s \in Owner
      <4>1. Top(f).pc = "raise"
        BY <2>2 DEF RaiseFails, At
      <4>. QED  BY <1>f, <3>1, <4>1 DEF Frame, FrameRecord
    <3>4. x \in cached[s]
      BY <3>2, <3>3, <1>t DEF TypeOK, Pending, Entries
    <3>5. HandledOK'
      BY <1>t, <1>k, <3>1, <3>2, <3>3, <3>4 DEF OrderInv, HandledOK, TypeOK
    <3>. QED  BY <1>t, <1>k, <3>1, <3>5, CutRests DEF OrderInv
  <2>3. CASE CloseInner(f) \/ CloseEmpty(f) \/ FinishDrain(f)
    <3>1. /\ stack[f] # <<>> /\ Pop(f)
          /\ UNCHANGED <<counter, order, late, deactivated, cached>>
      BY <2>3 DEF CloseInner, CloseEmpty, FinishDrain, At
    <3>. QED  BY <1>t, <1>k, <3>1, CutRests DEF OrderInv, HandledOK
  <2>4. CASE StartDrain(f)
    <3>. DEFINE a == Top(f).area
                fr == [Top(f) EXCEPT !.pc = "drain", !.rest = items[a]]
    <3>1. /\ stack[f] # <<>> /\ Top(f).pc = "close" /\ a # NoArea /\ SetTop(f, fr)
          /\ UNCHANGED <<counter, order, late, deactivated, cached>>
      BY <2>4 DEF StartDrain, At
    <3>2. a \in Area
      BY <1>f, <3>1 DEF Frame, FrameRecord
    <3>3. items[a] \subseteq deactivated /\ items[a] \in SUBSET Instance
      BY <1>t, <3>2 DEF OrderInv, OnceInv, ItemsOK, TypeOK
    <3>4. fr \in Frame
      BY <1>f, <3>1, <3>3, FrameUpdate
    <3>5. fr.rest \subseteq Created
      <4>1. fr.rest = items[a]
        BY <1>f, <3>1 DEF Frame, FrameRecord
      <4>. QED  BY <3>3, <4>1 DEF OrderInv, HandledOK
    <3>. HIDE DEF fr
    <3>. QED  BY <1>t, <1>k, <3>1, <3>4, <3>5, SetTopRests DEF OrderInv, HandledOK
  <2>5. CASE DisposeNext(f)
    <3>1. /\ stack[f] # <<>> /\ Top(f).pc = "drain"
          /\ UNCHANGED <<counter, order, late, deactivated, cached>>
      BY <2>5 DEF DisposeNext, At
    <3>2. PICK x \in Top(f).rest :
             SetTop(f, [Top(f) EXCEPT !.rest = @ \ {x}, !.running = Running(x)])
      BY <2>5 DEF DisposeNext, Drainable
    <3>. DEFINE fr == [Top(f) EXCEPT !.rest = @ \ {x}, !.running = Running(x)]
    <3>3. fr \in Frame /\ fr.rest \subseteq Created
      <4>1. Top(f) \in Frame /\ x \in Instance
        BY <1>f, <3>1, <3>2 DEF Frame, FrameRecord
      <4>2. fr \in Frame /\ fr.rest = Top(f).rest \ {x}
        BY <4>1, RunningUpdate
      <4>3. Top(f).rest \subseteq Created
        BY <1>f, <3>1
      <4>. QED  BY <4>2, <4>3
    <3>4. SetTop(f, fr)
      BY <3>2
    <3>. HIDE DEF fr
    <3>. QED  BY <1>t, <1>k, <3>1, <3>3, <3>4, SetTopRests DEF OrderInv, HandledOK
  <2>6. CASE KernelClear(f)
    <3>. DEFINE fr == NewFrame("forget", Kernel, NoArea, AllEntries, Instance)
    <3>1. /\ stack[f] # <<>> /\ SetTop(f, fr)
          /\ UNCHANGED <<counter, order, late, deactivated, cached>>
      BY <2>6 DEF KernelClear, At
    <3>2. fr \in Frame
      BY <1>t, NewFrameType, ConstantsAssumption DEF AllEntries, TypeOK
    <3>3. fr.rest \subseteq Created
      BY DEF NewFrame, AllEntries, OrderInv, HandledOK
    <3>. HIDE DEF fr
    <3>. QED  BY <1>t, <1>k, <3>1, <3>2, <3>3, SetTopRests DEF OrderInv, HandledOK
  <2>7. CASE ForgetNow(f) \/ ForgetIntoArea(f)
    <3>1. /\ stack[f] # <<>> /\ Top(f).pc = "forget"
          /\ UNCHANGED <<counter, order, cached>>
      BY <2>7 DEF ForgetNow, ForgetIntoArea, At
    <3>2. PICK x \in Pending(Top(f).rest) :
             /\ deactivated' = deactivated \cup {x}
             /\ late' = late \/ late' = late \cup {x}
             /\ \/ SetTop(f, [Top(f) EXCEPT !.rest = @ \ {x}, !.running = Running(x)])
                \/ SetTop(f, [Top(f) EXCEPT !.rest = @ \ {x}])
      BY <2>7 DEF ForgetNow, ForgetIntoArea, Register
    <3>3. x \in Created
      BY <1>f, <3>1, <3>2 DEF Pending
    <3>4. HandledOK'
      BY <1>k, <3>1, <3>2, <3>3 DEF OrderInv, HandledOK
    <3>5. PICK fr \in Frame : SetTop(f, fr) /\ fr.rest \subseteq Created
      <4>. DEFINE fr == [Top(f) EXCEPT !.rest = @ \ {x}]
                  gr == [Top(f) EXCEPT !.rest = @ \ {x}, !.running = Running(x)]
      <4>1. Running(x) \in Instance \cup {NoInstance}
        BY <3>3 DEF Running, Created
      <4>2. fr \in Frame /\ fr.rest \subseteq Created
        BY <1>f, <3>1 DEF Frame, FrameRecord
      <4>3. gr \in Frame /\ gr.rest \subseteq Created
        BY <1>f, <3>1, <4>1 DEF Frame, FrameRecord
      <4>4. SetTop(f, fr) \/ SetTop(f, gr)
        BY <3>2
      <4>. HIDE DEF fr, gr
      <4>. QED  BY <4>2, <4>3, <4>4
    <3>. QED  BY <1>t, <1>k, <3>1, <3>4, <3>5, SetTopRests DEF OrderInv
  <2>8. CASE ForgetFails(f)
    <3>1. /\ stack[f] # <<>> /\ Unwind(f) /\ UNCHANGED <<counter, order, cached, late>>
      BY <2>8 DEF ForgetFails, At
    <3>2. PICK x \in Pending(Top(f).rest) : deactivated' = deactivated \cup {x}
      BY <2>8 DEF ForgetFails
    <3>3. HandledOK'
      BY <1>f, <1>k, <3>1, <3>2 DEF OrderInv, HandledOK, Pending
    <3>. QED  BY <1>t, <1>k, <3>1, <3>3, CutRests DEF OrderInv
  <2>9. CASE FinishForget(f)
    <3>1. /\ stack[f] # <<>> /\ Pop(f)
          /\ cached' = [o \in Owner |-> cached[o] \ Top(f).purge]
          /\ UNCHANGED <<counter, order, late, deactivated>>
      BY <2>9 DEF FinishForget, At
    <3>2. HandledOK'
      BY <1>k, <3>1 DEF OrderInv, HandledOK
    <3>. QED  BY <1>t, <1>k, <3>1, <3>2, CutRests DEF OrderInv
  <2>. QED  BY <1>1, <2>1, <2>2, <2>3, <2>4, <2>5, <2>6, <2>7, <2>8, <2>9
            DEF LibraryStep
<1>2. ASSUME NEW f \in Flow, ApplicationStep(f) PROVE Goal
  <2>1. ASSUME NEW x \in Instance, NEW o \in Owner, Resolve(f, x, o) PROVE Goal
    <3>1. /\ order[x] = 0 /\ \A d \in Deps[x] : order[d] > 0
          /\ counter' = counter + 1
          /\ order' = [order EXCEPT ![x] = counter + 1]
          /\ cached' = [cached EXCEPT ![o] = @ \cup {x}]
          /\ UNCHANGED <<deactivated, late, stack>>
      BY <2>1 DEF Resolve, NextOrder
    <3>2. /\ counter \in Nat /\ Deps[x] \subseteq Instance
          /\ \A y \in Instance : order[y] \in Nat
          /\ \A y \in Instance : order'[y] = IF y = x THEN counter + 1 ELSE order[y]
      BY <1>t, <3>1, ConstantsAssumption DEF TypeOK
    <3>3. Created' = Created \cup {x}
      BY <3>2 DEF Created
    <3>4. OrderOK'
      <4>1. \A y \in Instance : order'[y] <= counter'
        BY <3>1, <3>2 DEF OrderInv, OrderOK
      <4>2. ASSUME NEW y \in Created', NEW d \in Deps[y]
            PROVE  order'[d] > 0 /\ order'[d] < order'[y]
        <5>1. d \in Instance /\ y \in Instance
          BY ConstantsAssumption DEF Created
        <5>2. CASE y = x
          <6>1. d # x /\ order[d] > 0 /\ order[d] <= counter
            BY <3>1, <5>1, <5>2 DEF OrderInv, OrderOK
          <6>. QED  BY <3>2, <5>1, <5>2, <6>1
        <5>3. CASE y # x
          <6>1. order[d] > 0 /\ order[d] < order[y]
            BY <3>3, <5>3 DEF OrderInv, OrderOK
          <6>2. d # x
            BY <3>1, <6>1
          <6>. QED  BY <3>2, <5>1, <5>3, <6>1, <6>2
        <5>. QED  BY <5>2, <5>3
      <4>. QED  BY <4>1, <4>2 DEF OrderOK
    <3>5. HandledOK'
      BY <1>t, <3>1, <3>3 DEF OrderInv, HandledOK, TypeOK
    <3>6. RestsOK'
      BY <3>1, <3>3 DEF OrderInv, RestsOK
    <3>. QED  BY <3>4, <3>5, <3>6
  <2>2. ASSUME NEW x \in Instance, NEW o \in Owner, Share(f, x, o) PROVE Goal
    <3>1. /\ order[x] > 0 /\ cached' = [cached EXCEPT ![o] = @ \cup {x}]
          /\ UNCHANGED <<counter, order, deactivated, late, stack>>
      BY <2>2 DEF Share
    <3>2. HandledOK'
      BY <1>t, <1>k, <3>1 DEF OrderInv, HandledOK, TypeOK, Created
    <3>. QED  BY <1>k, <3>1, <3>2 DEF OrderInv, RestsOK
  <2>3. ASSUME NEW s \in Scope, DisposeScope(f, s) PROVE Goal
    <3>1. <<>> \in Seq(Frame) /\ DOMAIN <<>> = {}
      OBVIOUS
    <3>2. /\ EnterScope(f, s, <<>>)
          /\ UNCHANGED <<counter, order, cached, deactivated, late>>
      BY <2>3 DEF DisposeScope
    <3>. QED  BY <1>t, <1>k, <3>1, <3>2, EnterScopeRests DEF OrderInv, HandledOK
  <2>4. CASE DisposeKernel(f)
    <3>. DEFINE fr == NewFrame("clear", Kernel, NoArea, {}, {})
    <3>1. fr \in Frame
      BY NewFrameType, ConstantsAssumption
    <3>2. fr.rest = {}
      BY DEF NewFrame
    <3>3. /\ EnterScope(f, Root, <<fr>>)
          /\ UNCHANGED <<counter, order, cached, deactivated, late>>
      BY <2>4 DEF DisposeKernel
    <3>. HIDE DEF fr
    <3>4. <<fr>> \in Seq(Frame) /\ \A k \in DOMAIN <<fr>> : <<fr>>[k] = fr
      BY <3>1
    <3>. QED  BY <1>t, <1>k, <3>2, <3>3, <3>4, EnterScopeRests, ConstantsAssumption
              DEF OrderInv, HandledOK
  <2>5. ASSUME NEW o \in Owner \cup {NoOwner}, NEW rest \in SUBSET Created,
               NEW purge \in SUBSET Instance,
               Push(f, <<NewFrame("forget", o, NoArea, rest, purge)>>),
               UNCHANGED <<counter, order>>
        PROVE  RestsOK'
    <3>. DEFINE fr == NewFrame("forget", o, NoArea, rest, purge)
    <3>1. fr \in Frame
      BY NewFrameType DEF Created
    <3>2. fr.rest \subseteq Created
      BY DEF NewFrame
    <3>3. Push(f, <<fr>>)
      BY <2>5
    <3>. HIDE DEF fr
    <3>4. <<fr>> \in Seq(Frame) /\ \A k \in DOMAIN <<fr>> : <<fr>>[k] = fr
      BY <3>1
    <3>. QED  BY <1>t, <1>k, <2>5, <3>2, <3>3, <3>4, PushRests DEF OrderInv
  <2>6. ASSUME NEW p \in RequestScope, DisposeRequestScope(f, p) PROVE Goal
    <3>1. cached[p] \in SUBSET Created
      BY DEF OrderInv, HandledOK
    <3>2. /\ Push(f, <<NewFrame("forget", p, NoArea, cached[p], {})>>)
          /\ cached' = [cached EXCEPT ![p] = {}]
          /\ UNCHANGED <<counter, order, deactivated, late>>
      BY <2>6 DEF DisposeRequestScope
    <3>3. RestsOK'
      BY <2>5, <3>1, <3>2
    <3>4. HandledOK'
      BY <1>t, <1>k, <3>2 DEF OrderInv, HandledOK, TypeOK
    <3>. QED  BY <1>k, <3>2, <3>3, <3>4
  <2>7. ASSUME NEW x \in Instance, Release(f, x) PROVE Goal
    <3>1. {x} \in SUBSET Created /\ {x} \in SUBSET Instance
      BY <2>7 DEF Release, OrderInv, HandledOK
    <3>2. /\ Push(f, <<NewFrame("forget", NoOwner, NoArea, {x}, {x})>>)
          /\ UNCHANGED <<counter, order, cached, deactivated, late>>
      BY <2>7 DEF Release
    <3>3. RestsOK'
      BY <2>5, <3>1, <3>2
    <3>. QED  BY <1>k, <3>2, <3>3 DEF OrderInv, HandledOK
  <2>8. CASE DisposeReturns(f)
    <3>. DEFINE fr == [Top(f) EXCEPT !.running = NoInstance]
    <3>1. /\ stack[f] # <<>> /\ SetTop(f, fr)
          /\ UNCHANGED <<counter, order, cached, deactivated, late>>
      BY <2>8 DEF DisposeReturns, InDispose
    <3>2. fr \in Frame /\ fr.rest \subseteq Created
      BY <1>f, <3>1 DEF Frame, FrameRecord
    <3>. HIDE DEF fr
    <3>. QED  BY <1>t, <1>k, <3>1, <3>2, SetTopRests DEF OrderInv, HandledOK
  <2>9. CASE DisposeThrows(f)
    <3>1. /\ stack[f] # <<>> /\ Unwind(f)
          /\ UNCHANGED <<counter, order, cached, deactivated, late>>
      BY <2>9 DEF DisposeThrows, InDispose
    <3>. QED  BY <1>t, <1>k, <3>1, CutRests DEF OrderInv, HandledOK
  <2>10. ASSUME NEW g \in Flow, Fork(f, g) PROVE Goal
    BY <1>k, <2>10 DEF Fork, OrderInv, HandledOK, RestsOK
  <2>. QED  BY <1>2, <2>1, <2>2, <2>3, <2>4, <2>6, <2>7, <2>8, <2>9, <2>10
            DEF ApplicationStep
<1>3. ASSUME NEW x \in Instance, Collect(x) PROVE Goal
  BY <1>k, <1>3 DEF Collect, OrderInv, HandledOK, RestsOK
<1>4. CASE UNCHANGED vars
  BY <1>k, <1>4 DEF vars, OrderInv, HandledOK, RestsOK
<1>. QED  BY <1>1, <1>2, <1>3, <1>4 DEF Next

-----------------------------------------------------------------------------
(***************************************************************************)
(* Drains                                                                  *)
(***************************************************************************)
Collected(a) == items[a] \ late

Done(x) == calls[x] = 1 \/ x \notin Disposable \ gone

\* What a drain no longer has among the rest is done, and it has nothing among
\* the rest that came late.
DrainFramesOK ==
    \A f \in Flow : \A i \in DOMAIN stack[f] :
        stack[f][i].pc = "drain" =>
           /\ \A x \in Collected(stack[f][i].area) : x \in stack[f][i].rest \/ Done(x)
           /\ stack[f][i].rest \cap late = {}

\* Everything an area collected whose drain is through is done.
ClosedOK == \A a \in Area : status[a] = "closed" => \A x \in Collected(a) : Done(x)

\* Nothing comes late to an open area.
OpenOK == \A a \in Area : status[a] = "open" => items[a] \cap late = {}

DrainsOK == DrainFramesOK /\ ClosedOK /\ OpenOK

DrainInv == OrderInv /\ DrainsOK

\* No step makes an area collect more once it is not open any more, or undoes
\* what was done; a drain that comes to its end has nothing left.
SettledStays ==
    /\ \A a \in Area : status[a] # "open" => Collected(a)' \subseteq Collected(a)
    /\ \A x \in Instance : Done(x) => Done(x)'
    /\ late' \cap deactivated \subseteq late

LEMMA RegisterSettles ==
    ASSUME OnceInv, NEW f \in Flow, NEW xs \in SUBSET Instance,
           xs \cap deactivated = {}, late \subseteq deactivated, OpenOK,
           Register(area[f], xs), UNCHANGED <<calls, gone, status>>
    PROVE  SettledStays /\ OpenOK'
<1>1. \A b \in Area : items'[b] = IF b = area[f] THEN items[b] \cup xs ELSE items[b]
  BY DEF Register, OnceInv, TypeOK
<1>2. late' = IF status[area[f]] = "open" THEN late ELSE late \cup xs
  BY DEF Register
<1>3. SettledStays
  BY <1>1, <1>2 DEF SettledStays, Collected, Done
<1>4. \A b \in Area : xs \cap items[b] = {}
  BY DEF OnceInv, ItemsOK
<1>. QED  BY <1>1, <1>2, <1>3, <1>4 DEF OpenOK

LEMMA CallsSettle ==
    ASSUME OnceInv, NEW x \in Instance, BeginDispose(x), UNCHANGED <<items, late, gone>>,
           calls[x] = 0
    PROVE  SettledStays /\ Done(x)'
<1>1. \A y \in Instance : calls'[y] = IF y = x /\ x \in Disposable \ gone THEN calls[y] + 1
                                      ELSE calls[y]
  <2>1. CASE x \in Disposable \ gone
    BY <2>1 DEF BeginDispose, OnceInv, TypeOK
  <2>2. CASE x \notin Disposable \ gone
    BY <2>2 DEF BeginDispose, OnceInv, TypeOK
  <2>. QED  BY <2>1, <2>2
<1>. QED  BY <1>1 DEF SettledStays, Collected, Done

\* A frame that drains has an area that is not open, and only holds instances.
LEMMA DrainFrame ==
    ASSUME OnceInv, NEW g \in Flow, NEW i \in DOMAIN stack[g],
           stack[g][i].pc = "drain"
    PROVE  /\ stack[g][i].area \in Area /\ status[stack[g][i].area] = "draining"
           /\ Collected(stack[g][i].area) \subseteq Instance
           /\ stack[g][i].rest \subseteq deactivated
<1>1. FrameOK(stack[g][i], status, items, calls)
  BY DEF OnceInv, FramesOK
<1>2. stack[g][i].area \in Area
  BY <1>1, OwnAreaInUse DEF FrameOK
<1>. QED  BY <1>1, <1>2 DEF FrameOK, Collected, OnceInv, TypeOK, ItemsOK

\* A frame is in order after a step.
FrameDrained(fr) ==
    /\ \A x \in items'[fr.area] \ late' : x \in fr.rest \/ Done(x)'
    /\ fr.rest \cap late' = {}

\* What is done stays so under the frames a step leaves alone ...
LEMMA SameDrain ==
    ASSUME OnceInv, DrainsOK, SettledStays, NEW g \in Flow, NEW i \in DOMAIN stack[g],
           stack[g][i].pc = "drain"
    PROVE  /\ \A x \in items'[stack[g][i].area] \ late' : x \in stack[g][i].rest \/ Done(x)'
           /\ stack[g][i].rest \cap late' = {}
<1>1. ASSUME NEW x \in items'[stack[g][i].area] \ late'
      PROVE  x \in stack[g][i].rest \/ Done(x)'
  <2>1. x \in Collected(stack[g][i].area)
    BY DrainFrame DEF SettledStays, Collected
  <2>2. x \in Instance
    BY <2>1, DrainFrame
  <2>. QED  BY <2>1, <2>2 DEF DrainsOK, DrainFramesOK, SettledStays
<1>2. stack[g][i].rest \cap late' = {}
  BY DrainFrame DEF DrainsOK, DrainFramesOK, SettledStays
<1>. QED  BY <1>1, <1>2

\* ... those below a frame that is cut off,
LEMMA CutDrains ==
    ASSUME OnceInv, DrainsOK, SettledStays, NEW f \in Flow, stack[f] # <<>>,
           Pop(f) \/ Unwind(f)
    PROVE  DrainFramesOK'
<1>1. \A g \in Flow : \A i \in DOMAIN stack'[g] :
         i \in DOMAIN stack[g] /\ stack'[g][i] = stack[g][i]
  BY PopFrames DEF OnceInv, TypeOK, StackType
<1>2. ASSUME NEW g \in Flow, NEW i \in DOMAIN stack'[g], stack'[g][i].pc = "drain"
      PROVE  FrameDrained(stack'[g][i])
  BY <1>1, <1>2, SameDrain DEF FrameDrained
<1>. QED  BY <1>2 DEF DrainFramesOK, Collected, FrameDrained

\* those beside a frame that is replaced,
LEMMA SetTopDrains ==
    ASSUME OnceInv, DrainsOK, SettledStays, NEW f \in Flow, stack[f] # <<>>,
           NEW fr \in Frame, SetTop(f, fr),
           fr.pc = "drain" => FrameDrained(fr)
    PROVE  DrainFramesOK'
<1>1. \A g \in Flow : \A i \in DOMAIN stack'[g] :
         /\ i \in DOMAIN stack[g]
         /\ stack'[g][i] = IF g = f /\ i = Len(stack[f]) THEN fr ELSE stack[g][i]
  BY SetTopFrames DEF OnceInv, TypeOK, StackType
<1>2. ASSUME NEW g \in Flow, NEW i \in DOMAIN stack'[g], stack'[g][i].pc = "drain"
      PROVE  FrameDrained(stack'[g][i])
  <2>1. CASE g = f /\ i = Len(stack[f])
    BY <1>1, <1>2, <2>1
  <2>2. CASE ~(g = f /\ i = Len(stack[f]))
    <3>1. stack'[g][i] = stack[g][i] /\ i \in DOMAIN stack[g]
      BY <1>1, <2>2
    <3>. QED  BY <1>2, <3>1, SameDrain DEF FrameDrained
  <2>. QED  BY <2>1, <2>2
<1>. QED  BY <1>2 DEF DrainFramesOK, Collected, FrameDrained

\* and those below frames that are pushed.
LEMMA PushDrains ==
    ASSUME OnceInv, DrainsOK, SettledStays, NEW f \in Flow, NEW frames \in Seq(Frame),
           Push(f, frames), \A k \in DOMAIN frames : frames[k].pc # "drain"
    PROVE  DrainFramesOK'
<1>1. \A g \in Flow : \A i \in DOMAIN stack'[g] :
         \/ i \in DOMAIN stack[g] /\ stack'[g][i] = stack[g][i]
         \/ /\ i - Len(stack[g]) \in DOMAIN frames
            /\ stack'[g][i] = frames[i - Len(stack[g])]
  BY PushFrames DEF OnceInv, TypeOK, StackType
<1>2. ASSUME NEW g \in Flow, NEW i \in DOMAIN stack'[g], stack'[g][i].pc = "drain"
      PROVE  FrameDrained(stack'[g][i])
  <2>1. i \in DOMAIN stack[g] /\ stack'[g][i] = stack[g][i]
    BY <1>1, <1>2
  <2>. QED  BY <1>2, <2>1, SameDrain DEF FrameDrained
<1>. QED  BY <1>2 DEF DrainFramesOK, Collected, FrameDrained

\* Entering a scope pushes no frame that drains and closes no area.
LEMMA EnterScopeDrains ==
    ASSUME OnceInv, DrainsOK, NEW f \in Flow, NEW s \in Scope,
           NEW below \in Seq(Frame), EnterScope(f, s, below),
           UNCHANGED <<items, late, calls, gone>>,
           \A k \in DOMAIN below : below[k].pc # "drain"
    PROVE  DrainsOK'
<1>. DEFINE top(a) == NewFrame("raise", s, a, {}, {})
            frames(a) == Append(below, top(a))
<1>1. PICK a \in Area \cup {NoArea} : Push(f, frames(a))
  BY DEF EnterScope
<1>2. top(a) \in Frame /\ top(a).pc = "raise"
  <2>1. s \in Owner /\ s # NoOwner
    BY ConstantsAssumption
  <2>2. top(a) \in Frame
    BY <2>1, NewFrameType
  <2>. QED  BY <2>2 DEF NewFrame
<1>. HIDE DEF top
<1>3. /\ frames(a) \in Seq(Frame)
      /\ \A k \in DOMAIN frames(a) : frames(a)[k].pc # "drain"
  BY <1>2
<1>. HIDE DEF frames
<1>4. SettledStays
  BY DEF SettledStays, Collected, Done
<1>5. DrainFramesOK'
  BY <1>1, <1>3, <1>4, PushDrains
<1>6. \A b \in Area : /\ status'[b] = "closed" => status[b] = "closed"
                      /\ status'[b] = "open" => status[b] \in {"open", "unused"}
  <2>1. \/ UNCHANGED status
        \/ \E c \in Area : status[c] = "unused" /\ status' = [status EXCEPT ![c] = "open"]
    BY DEF EnterScope
  <2>2. ASSUME NEW c \in Area, status[c] = "unused",
               status' = [status EXCEPT ![c] = "open"], NEW b \in Area
        PROVE  \/ status'[b] = status[b]
               \/ status'[b] = "open" /\ status[b] = "unused"
    BY <2>2 DEF OnceInv, TypeOK
  <2>3. \A b \in Area : \/ status'[b] = status[b]
                        \/ status'[b] = "open" /\ status[b] = "unused"
    BY <2>1, <2>2
  <2>. QED  BY <2>3
<1>7. ClosedOK'
  BY <1>6 DEF ClosedOK, DrainsOK, Collected, Done
<1>8. OpenOK'
  BY <1>6 DEF OpenOK, DrainsOK, OnceInv, ItemsOK
<1>. QED  BY <1>5, <1>7, <1>8 DEF DrainsOK

\* A drain never forgets an instance and an area is only closed when its drain
\* has nothing left, whatever step is taken.
LEMMA DrainStep == DrainInv /\ [Next]_vars => DrainInv'
<1>. SUFFICES ASSUME DrainInv, [Next]_vars PROVE DrainsOK'
  BY OrderStep DEF DrainInv
<1>o. OnceInv /\ DrainsOK /\ TypeOK /\ StackType
  BY DEF DrainInv, OrderInv, OnceInv, TypeOK, StackType
<1>f. ASSUME NEW f \in Flow, stack[f] # <<>>
      PROVE  /\ Top(f) \in Frame /\ FrameOK(Top(f), status, items, calls)
             /\ Top(f) = stack[f][Len(stack[f])] /\ Len(stack[f]) \in DOMAIN stack[f]
  BY <1>o, <1>f, TopFrame DEF OnceInv, FramesOK, Top
\* Steps that close no area and open none but unused ones.
<1>c. ASSUME SettledStays, \A a \in Area : status'[a] = "closed" => status[a] = "closed"
      PROVE  ClosedOK'
  <2>1. ASSUME NEW a \in Area, status'[a] = "closed", NEW x \in Collected(a)'
        PROVE  Done(x)'
    <3>1. x \in Collected(a) /\ x \in Instance
      BY <1>c, <1>o, <2>1 DEF SettledStays, Collected, TypeOK
    <3>. QED  BY <1>c, <1>o, <2>1, <3>1 DEF SettledStays, DrainsOK, ClosedOK
  <2>. QED  BY <2>1 DEF ClosedOK
<1>op. ASSUME UNCHANGED <<items, late>>,
              \A a \in Area : status'[a] = "open" => status[a] = "open"
       PROVE  OpenOK'
  BY <1>op, <1>o DEF OpenOK, DrainsOK
<1>d. DrainFramesOK' /\ ClosedOK' /\ OpenOK' => DrainsOK'
  BY DEF DrainsOK
\* Steps that touch no list and dispose nothing.
<1>u. UNCHANGED <<items, late, calls, gone>> => SettledStays
  BY DEF SettledStays, Collected, Done
<1>1. ASSUME NEW f \in Flow, LibraryStep(f) PROVE DrainsOK'
  <2>1. CASE RaiseDisposed(f)
    <3>. DEFINE xs == Pending(Entries(Top(f).owner))
                fr == [Top(f) EXCEPT !.pc = "close"]
    <3>1. /\ stack[f] # <<>> /\ Top(f).pc = "raise" /\ SetTop(f, fr)
          /\ Register(area[f], xs) /\ UNCHANGED <<status, calls, gone>>
      BY <2>1 DEF RaiseDisposed, At
    <3>2. xs \in SUBSET Instance /\ xs \cap deactivated = {}
      <4>1. Top(f).owner \in Owner
        BY <1>f, <3>1 DEF Frame, FrameRecord
      <4>. QED  BY <4>1, <1>o DEF TypeOK, Pending, Entries
    <3>3. fr \in Frame /\ fr.pc = "close"
      <4>1. fr \in Frame
        BY <1>f, <3>1, FrameUpdate
      <4>. QED  BY <1>f, <3>1, <4>1 DEF Frame, FrameRecord
    <3>. HIDE DEF fr, xs
    <3>4. SettledStays /\ OpenOK'
      BY <1>o, <3>1, <3>2, RegisterSettles DEF DrainInv, OrderInv, HandledOK, DrainsOK
    <3>5. DrainFramesOK'
      BY <1>o, <3>1, <3>3, <3>4, SetTopDrains
    <3>. QED  BY <1>c, <1>d, <1>op, <3>1, <3>4, <3>5
  <2>2. CASE RaiseFails(f) \/ CloseInner(f) \/ CloseEmpty(f) \/ ForgetFails(f)
             \/ FinishForget(f)
    <3>1. /\ stack[f] # <<>> /\ (Pop(f) \/ Unwind(f))
          /\ UNCHANGED <<items, late, calls, gone>>
          /\ \/ UNCHANGED status
             \/ status' = [status EXCEPT ![Top(f).area] = "abandoned"]
      BY <2>2 DEF RaiseFails, CloseInner, CloseEmpty, ForgetFails, FinishForget, At
    <3>2. DrainFramesOK'
      BY <1>o, <1>u, <3>1, CutDrains
    <3>3. \A a \in Area : status'[a] \in {status[a], "abandoned"}
      BY <1>o, <3>1 DEF TypeOK
    <3>. QED  BY <1>c, <1>d, <1>op, <1>u, <3>1, <3>2, <3>3
  <2>3. CASE StartDrain(f)
    <3>. DEFINE a == Top(f).area
                fr == [Top(f) EXCEPT !.pc = "drain", !.rest = items[a]]
    <3>1. /\ stack[f] # <<>> /\ Top(f).pc = "close" /\ a # NoArea /\ SetTop(f, fr)
          /\ status' = [status EXCEPT ![a] = "draining"]
          /\ UNCHANGED <<items, late, calls, gone>>
      BY <2>3 DEF StartDrain, At
    <3>2. a \in Area
      BY <1>f, <3>1 DEF Frame, FrameRecord
    <3>3. items[a] \in SUBSET Instance
      BY <1>o, <3>2 DEF TypeOK
    <3>4. fr \in Frame /\ fr.area = a /\ fr.rest = items[a]
      <4>1. fr \in Frame
        BY <1>f, <3>1, <3>3, FrameUpdate
      <4>. QED  BY <1>f, <3>1, <4>1 DEF Frame, FrameRecord
    <3>. HIDE DEF fr
    <3>5. DrainFramesOK'
      <4>1. items[a] \cap late = {}
        BY <1>o, <1>f, <3>1, <3>2 DEF DrainsOK, OpenOK, FrameOK
      <4>2. FrameDrained(fr)
        BY <3>1, <3>4, <4>1 DEF FrameDrained
      <4>. QED  BY <1>o, <1>u, <3>1, <3>4, <4>2, SetTopDrains
    <3>6. \A b \in Area : /\ status'[b] = "closed" => status[b] = "closed"
                          /\ status'[b] = "open" => status[b] = "open"
      BY <1>o, <3>1 DEF TypeOK
    <3>. QED  BY <1>c, <1>d, <1>op, <1>u, <3>1, <3>5, <3>6
  <2>4. CASE DisposeNext(f)
    <3>. DEFINE a == Top(f).area
    <3>1. /\ stack[f] # <<>> /\ Top(f).pc = "drain"
          /\ UNCHANGED <<items, late, status, gone>>
      BY <2>4 DEF DisposeNext, At
    <3>2. PICK x \in Top(f).rest :
             /\ BeginDispose(x)
             /\ SetTop(f, [Top(f) EXCEPT !.rest = @ \ {x}, !.running = Running(x)])
      BY <2>4 DEF DisposeNext, Drainable
    <3>. DEFINE fr == [Top(f) EXCEPT !.rest = @ \ {x}, !.running = Running(x)]
    <3>3. x \in Instance /\ calls[x] = 0
      BY <1>f, <3>1, <3>2 DEF Frame, FrameRecord, FrameOK
    <3>4. SettledStays /\ Done(x)'
      BY <1>o, <3>1, <3>2, <3>3, CallsSettle
    <3>5. fr \in Frame /\ fr.area = a /\ fr.rest = Top(f).rest \ {x}
      <4>1. Top(f) \in Frame /\ x \in Instance
        BY <1>f, <3>1, <3>3 DEF Frame, FrameRecord
      <4>. QED  BY <3>1, <3>3, <4>1, RunningUpdate
    <3>6. SetTop(f, fr)
      BY <3>2
    <3>. HIDE DEF fr
    <3>7. FrameDrained(fr)
      <4>1. FrameDrained(Top(f))
        BY <1>o, <1>f, <3>1, <3>4, SameDrain DEF FrameDrained
      <4>. QED  BY <3>4, <3>5, <4>1 DEF FrameDrained
    <3>8. DrainFramesOK'
      BY <1>o, <3>1, <3>4, <3>5, <3>6, <3>7, SetTopDrains
    <3>. QED  BY <1>c, <1>d, <1>op, <3>1, <3>4, <3>8
  <2>5. CASE FinishDrain(f)
    <3>. DEFINE a == Top(f).area
    <3>1. /\ stack[f] # <<>> /\ Top(f).pc = "drain" /\ Pop(f) /\ Top(f).rest = {}
          /\ status' = [status EXCEPT ![a] = "closed"]
          /\ UNCHANGED <<items, late, calls, gone>>
      BY <2>5 DEF FinishDrain, At, Drained
    <3>2. DrainFramesOK'
      BY <1>o, <1>u, <3>1, CutDrains
    <3>3. \A x \in Collected(a) : Done(x)
      BY <1>o, <1>f, <3>1 DEF DrainsOK, DrainFramesOK
    <3>4. \A b \in Area : /\ status'[b] = "closed" => status[b] = "closed" \/ b = a
                          /\ status'[b] = "open" => status[b] = "open"
      BY <1>o, <3>1 DEF TypeOK
    <3>5. ClosedOK'
      BY <1>o, <3>1, <3>3, <3>4 DEF ClosedOK, DrainsOK, Collected, Done
    <3>. QED  BY <1>d, <1>op, <3>1, <3>2, <3>4, <3>5
  <2>6. CASE KernelClear(f)
    <3>. DEFINE fr == NewFrame("forget", Kernel, NoArea, AllEntries, Instance)
    <3>1. /\ stack[f] # <<>> /\ SetTop(f, fr)
          /\ UNCHANGED <<items, late, calls, gone, status>>
      BY <2>6 DEF KernelClear, At
    <3>2. fr \in Frame
      BY <1>o, NewFrameType, ConstantsAssumption DEF AllEntries, TypeOK
    <3>3. fr.pc = "forget"
      BY DEF NewFrame
    <3>. HIDE DEF fr
    <3>4. DrainFramesOK'
      BY <1>o, <1>u, <3>1, <3>2, <3>3, SetTopDrains
    <3>. QED  BY <1>c, <1>d, <1>op, <1>u, <3>1, <3>4
  <2>7. CASE ForgetNow(f)
    <3>1. /\ stack[f] # <<>> /\ Top(f).pc = "forget"
          /\ UNCHANGED <<items, late, status, gone>>
      BY <2>7 DEF ForgetNow, At
    <3>2. PICK x \in Pending(Top(f).rest) :
             /\ BeginDispose(x)
             /\ SetTop(f, [Top(f) EXCEPT !.rest = @ \ {x}, !.running = Running(x)])
      BY <2>7 DEF ForgetNow
    <3>. DEFINE fr == [Top(f) EXCEPT !.rest = @ \ {x}, !.running = Running(x)]
    <3>3. x \in Instance /\ calls[x] = 0
      BY <1>f, <1>o, <3>1, <3>2 DEF Frame, FrameRecord, Pending, TypeOK, OnceInv, CallsOK
    <3>4. SettledStays
      BY <1>o, <3>1, <3>2, <3>3, CallsSettle
    <3>5. fr \in Frame /\ fr.pc = "forget"
      <4>1. Top(f) \in Frame /\ x \in Instance
        BY <1>f, <3>1, <3>3 DEF Frame, FrameRecord
      <4>. QED  BY <3>1, <3>3, <4>1, RunningUpdate
    <3>6. SetTop(f, fr)
      BY <3>2
    <3>. HIDE DEF fr
    <3>7. DrainFramesOK'
      BY <1>o, <3>1, <3>4, <3>5, <3>6, SetTopDrains
    <3>. QED  BY <1>c, <1>d, <1>op, <3>1, <3>4, <3>7
  <2>8. CASE ForgetIntoArea(f)
    <3>1. /\ stack[f] # <<>> /\ Top(f).pc = "forget" /\ UNCHANGED <<status, calls, gone>>
      BY <2>8 DEF ForgetIntoArea, At
    <3>2. PICK x \in Pending(Top(f).rest) :
             /\ Register(area[f], {x})
             /\ SetTop(f, [Top(f) EXCEPT !.rest = @ \ {x}])
      BY <2>8 DEF ForgetIntoArea
    <3>. DEFINE fr == [Top(f) EXCEPT !.rest = @ \ {x}]
    <3>3. {x} \in SUBSET Instance /\ {x} \cap deactivated = {}
      BY <1>f, <3>1, <3>2 DEF Frame, FrameRecord, Pending
    <3>4. SettledStays /\ OpenOK'
      BY <1>o, <3>1, <3>2, <3>3, RegisterSettles DEF DrainInv, OrderInv, HandledOK, DrainsOK
    <3>5. fr \in Frame /\ fr.pc = "forget"
      BY <1>f, <3>1 DEF Frame, FrameRecord
    <3>6. SetTop(f, fr)
      BY <3>2
    <3>. HIDE DEF fr
    <3>7. DrainFramesOK'
      BY <1>o, <3>1, <3>4, <3>5, <3>6, SetTopDrains
    <3>. QED  BY <1>c, <1>d, <1>op, <3>1, <3>4, <3>7
  <2>. QED  BY <1>1, <2>1, <2>2, <2>3, <2>4, <2>5, <2>6, <2>7, <2>8 DEF LibraryStep
<1>2. ASSUME NEW f \in Flow, ApplicationStep(f) PROVE DrainsOK'
  <2>1. ASSUME UNCHANGED <<items, late, calls, gone, status, stack>> PROVE DrainsOK'
    BY <1>o, <2>1 DEF DrainsOK, DrainFramesOK, ClosedOK, OpenOK, Collected, Done
  <2>2. ASSUME NEW x \in Instance, NEW o \in Owner, Resolve(f, x, o) \/ Share(f, x, o)
        PROVE  DrainsOK'
    BY <2>1, <2>2 DEF Resolve, Share
  <2>3. ASSUME NEW s \in Scope, DisposeScope(f, s) PROVE DrainsOK'
    <3>1. <<>> \in Seq(Frame) /\ DOMAIN <<>> = {}
      OBVIOUS
    <3>. QED  BY <1>o, <2>3, <3>1, EnterScopeDrains DEF DisposeScope
  <2>4. CASE DisposeKernel(f)
    <3>. DEFINE fr == NewFrame("clear", Kernel, NoArea, {}, {})
    <3>1. fr \in Frame
      BY NewFrameType, ConstantsAssumption
    <3>2. fr.pc = "clear"
      BY DEF NewFrame
    <3>3. EnterScope(f, Root, <<fr>>) /\ UNCHANGED <<items, late, calls, gone>>
      BY <2>4 DEF DisposeKernel
    <3>. HIDE DEF fr
    <3>4. <<fr>> \in Seq(Frame) /\ \A k \in DOMAIN <<fr>> : <<fr>>[k] = fr
      BY <3>1
    <3>. QED  BY <1>o, <3>2, <3>3, <3>4, EnterScopeDrains, ConstantsAssumption
  <2>5. ASSUME NEW o \in Owner \cup {NoOwner}, NEW rest \in SUBSET Instance,
               NEW purge \in SUBSET Instance,
               Push(f, <<NewFrame("forget", o, NoArea, rest, purge)>>),
               UNCHANGED <<items, late, calls, gone, status>>
        PROVE  DrainsOK'
    <3>. DEFINE fr == NewFrame("forget", o, NoArea, rest, purge)
    <3>1. fr \in Frame
      BY NewFrameType
    <3>2. fr.pc = "forget"
      BY DEF NewFrame
    <3>3. Push(f, <<fr>>)
      BY <2>5
    <3>. HIDE DEF fr
    <3>4. <<fr>> \in Seq(Frame) /\ \A k \in DOMAIN <<fr>> : <<fr>>[k] = fr
      BY <3>1
    <3>5. DrainFramesOK'
      BY <1>o, <1>u, <2>5, <3>2, <3>3, <3>4, PushDrains
    <3>. QED  BY <1>c, <1>d, <1>op, <1>u, <2>5, <3>5
  <2>6. ASSUME NEW p \in RequestScope, DisposeRequestScope(f, p) PROVE DrainsOK'
    <3>1. cached[p] \in SUBSET Instance /\ {} \in SUBSET Instance
      BY <1>o DEF TypeOK
    <3>. QED  BY <2>5, <2>6, <3>1 DEF DisposeRequestScope
  <2>7. ASSUME NEW x \in Instance, Release(f, x) PROVE DrainsOK'
    BY <2>5, <2>7 DEF Release
  <2>8. CASE DisposeReturns(f)
    <3>. DEFINE fr == [Top(f) EXCEPT !.running = NoInstance]
    <3>1. /\ stack[f] # <<>> /\ SetTop(f, fr)
          /\ UNCHANGED <<items, late, calls, gone, status>>
      BY <2>8 DEF DisposeReturns, InDispose
    <3>2. /\ fr \in Frame /\ fr.area = Top(f).area
          /\ fr.pc = Top(f).pc /\ fr.rest = Top(f).rest
      BY <1>f, <3>1 DEF Frame, FrameRecord
    <3>. HIDE DEF fr
    <3>3. ASSUME fr.pc = "drain" PROVE FrameDrained(fr)
      <4>1. FrameDrained(Top(f))
        BY <1>o, <1>f, <1>u, <3>1, <3>2, <3>3, SameDrain DEF FrameDrained
      <4>. QED  BY <3>2, <4>1 DEF FrameDrained
    <3>4. DrainFramesOK'
      BY <1>o, <1>u, <3>1, <3>2, <3>3, SetTopDrains
    <3>. QED  BY <1>c, <1>d, <1>op, <1>u, <3>1, <3>4
  <2>9. CASE DisposeThrows(f)
    <3>1. /\ stack[f] # <<>> /\ Unwind(f)
          /\ status' = IF Top(f).pc = "drain"
                       THEN [status EXCEPT ![Top(f).area] = "abandoned"] ELSE status
          /\ UNCHANGED <<items, late, calls, gone>>
      BY <2>9 DEF DisposeThrows, InDispose
    <3>2. DrainFramesOK'
      BY <1>o, <1>u, <3>1, CutDrains
    <3>3. \A a \in Area : status'[a] \in {status[a], "abandoned"}
      BY <1>o, <3>1 DEF TypeOK
    <3>. QED  BY <1>c, <1>d, <1>op, <1>u, <3>1, <3>2, <3>3
  <2>10. ASSUME NEW g \in Flow, Fork(f, g) PROVE DrainsOK'
    BY <2>1, <2>10 DEF Fork
  <2>. QED  BY <1>2, <2>2, <2>3, <2>4, <2>6, <2>7, <2>8, <2>9, <2>10
            DEF ApplicationStep
<1>3. ASSUME NEW x \in Instance, Collect(x) PROVE DrainsOK'
  BY <1>o, <1>3 DEF Collect, DrainsOK, DrainFramesOK, ClosedOK, OpenOK, Collected, Done
<1>4. CASE UNCHANGED vars
  BY <1>o, <1>4 DEF vars, DrainsOK, DrainFramesOK, ClosedOK, OpenOK, Collected, Done
<1>. QED  BY <1>1, <1>2, <1>3, <1>4 DEF Next

-----------------------------------------------------------------------------
(***************************************************************************)
(* The refinement: what each kind of step is to the abstract specification *)
(***************************************************************************)
SameCollected == \A a \in Area : items'[a] \ late' = items[a] \ late
SameClosed == \A a \in Area : status'[a] = "closed" <=> status[a] = "closed"

\* A step within a Dispose call that disposes nothing is invisible.
LEMMA ToStutter ==
    ASSUME SameCollected, SameClosed, UNCHANGED <<order, deactivated, calls, gone>>
    PROVE  UNCHANGED Promise!vars
  BY DEF SameCollected, SameClosed, Promise!vars

\* Deactivated instances that no open area collects are forfeited.
LEMMA ToForfeit ==
    ASSUME NEW xs \in SUBSET Created, xs \cap deactivated = {},
           deactivated' = deactivated \cup xs,
           SameCollected, SameClosed, UNCHANGED <<order, calls, gone>>
    PROVE  Promise!Next
<1>1. Promise!Forfeit(xs)
  BY DEF SameCollected, SameClosed, Promise!Forfeit
<1>. QED  BY <1>1 DEF Promise!Next, Created

\* Those that one collects are condemned together.
LEMMA ToCondemn ==
    ASSUME OnceInv, NEW xs \in SUBSET Created, xs \cap deactivated = {},
           NEW a \in Area, status[a] = "open", Register(a, xs), xs \cap late = {},
           deactivated' = deactivated \cup xs,
           UNCHANGED <<order, calls, gone, status>>
    PROVE  Promise!Next
<1>1. \A b \in Area : items'[b] = IF b = a THEN items[b] \cup xs ELSE items[b]
  BY DEF Register, OnceInv, TypeOK
<1>2. late' = late
  BY DEF Register
<1>3. \A b \in Area : items'[b] \ late' = IF b = a THEN (items[b] \ late) \cup xs
                                        ELSE items[b] \ late
  BY <1>1, <1>2
<1>4. \A y \in items[a] \ late : calls[y] = 0
  BY DEF OnceInv, CallsOK
<1>5. Promise!Condemn(xs, a)
  BY <1>3, <1>4 DEF Promise!Condemn
<1>. QED  BY <1>5 DEF Promise!Next, Created

\* Either of them, whatever area the flow has.
LEMMA ToRegister ==
    ASSUME DrainInv, NEW f \in Flow, NEW xs \in SUBSET Created,
           xs \cap deactivated = {}, Register(area[f], xs),
           deactivated' = deactivated \cup xs,
           UNCHANGED <<order, calls, gone, status>>
    PROVE  Promise!Next
<1>1. OnceInv /\ xs \cap late = {} /\ \A a \in Area : xs \cap items[a] = {}
  BY DEF DrainInv, OrderInv, HandledOK, OnceInv, ItemsOK
<1>2. CASE area[f] \in Area /\ status[area[f]] = "open"
  BY <1>1, <1>2, ToCondemn
<1>3. CASE ~(area[f] \in Area /\ status[area[f]] = "open")
  <2>1. \A b \in Area : items'[b] = IF b = area[f] THEN items[b] \cup xs ELSE items[b]
    BY <1>1 DEF Register, OnceInv, TypeOK
  <2>2. late' \in {late, late \cup xs} /\ (area[f] \in Area => late' = late \cup xs)
    BY <1>3 DEF Register
  <2>3. SameCollected /\ SameClosed
    BY <1>1, <2>1, <2>2 DEF SameCollected, SameClosed
  <2>. QED  BY <2>3, ToForfeit
<1>. QED  BY <1>2, <1>3

\* The foreach of an area disposes its members in the order that was promised.
LEMMA ToDispose ==
    ASSUME DrainInv, NEW f \in Flow, DisposeNext(f)
    PROVE  Promise!Next \/ UNCHANGED Promise!vars
<1>o. OnceInv /\ DrainFramesOK
  BY DEF DrainInv, OrderInv, DrainsOK
<1>. DEFINE i == Len(stack[f])
            fr == stack[f][i]
            a == fr.area
<1>1. stack[f] # <<>> /\ fr.pc = "drain" /\ i \in DOMAIN stack[f]
  BY <1>o, TopFrame DEF DisposeNext, At, Top, OnceInv, TypeOK, StackType
<1>2. PICK x \in fr.rest :
         /\ \A y \in fr.rest : order[y] <= order[x]
         /\ BeginDispose(x)
  BY DEF DisposeNext, Drainable, IsNext, Top
<1>3. /\ a \in Area /\ fr.rest \subseteq items[a] /\ x \in Instance /\ calls[x] = 0
      /\ x \in items[a] \ late
  <2>1. FrameOK(fr, status, items, calls)
    BY <1>o, <1>1 DEF OnceInv, FramesOK
  <2>2. a \in Area
    BY <1>o, <1>1, DrainFrame
  <2>3. fr.rest \cap late = {}
    BY <1>o, <1>1 DEF DrainFramesOK
  <2>. QED  BY <1>1, <1>2, <1>o, <2>1, <2>2, <2>3 DEF FrameOK, OnceInv, TypeOK
<1>4. UNCHANGED <<items, late, order, deactivated, status, gone>>
  BY DEF DisposeNext
<1>5. CASE x \in Disposable \ gone
  <2>1. ASSUME NEW y \in items[a] \ late, x \in Deps[y] PROVE Done(y)
    <3>1. y \in Created /\ order[x] < order[y]
      <4>1. y \in Created
        BY <1>3 DEF DrainInv, OrderInv, HandledOK, OnceInv, ItemsOK
      <4>. QED  BY <2>1, <4>1 DEF DrainInv, OrderInv, OrderOK
    <3>2. order[x] \in Nat /\ order[y] \in Nat
      BY <1>o, <1>3, <3>1 DEF OnceInv, TypeOK, Created
    <3>3. y \notin fr.rest
      BY <1>2, <3>1, <3>2
    <3>. QED  BY <1>o, <1>1, <3>3 DEF DrainFramesOK, Collected
  <2>2. calls' = [calls EXCEPT ![x] = 1]
    BY <1>2, <1>3, <1>5 DEF BeginDispose, OnceInv, TypeOK
  <2>3. Promise!Dispose(x, a)
    BY <1>3, <1>4, <1>5, <2>1, <2>2 DEF Promise!Dispose, Promise!Settled, Done
  <2>. QED  BY <1>3, <2>3 DEF Promise!Next
<1>6. CASE x \notin Disposable \ gone
  <2>1. calls' = calls
    BY <1>2, <1>6 DEF BeginDispose
  <2>. QED  BY <1>4, <2>1, ToStutter DEF SameCollected, SameClosed
<1>. QED  BY <1>5, <1>6

\* Without an area an instance is disposed as soon as it is out of scope.
LEMMA ToDisposeNow ==
    ASSUME DrainInv, NEW f \in Flow, ForgetNow(f)
    PROVE  Promise!Next
<1>1. PICK x \in Pending(Top(f).rest) :
         deactivated' = deactivated \cup {x} /\ BeginDispose(x)
  BY DEF ForgetNow
<1>2. x \in Created /\ x \notin deactivated
  <2>1. stack[f] # <<>> /\ StackType
    BY DEF ForgetNow, At, DrainInv, OrderInv, OnceInv, TypeOK, StackType
  <2>2. Top(f) = stack[f][Len(stack[f])] /\ Len(stack[f]) \in DOMAIN stack[f]
    BY <2>1, TopFrame DEF Top
  <2>. QED  BY <1>1, <2>2 DEF Pending, DrainInv, OrderInv, RestsOK
<1>3. UNCHANGED <<items, late, order, status, gone>>
  BY DEF ForgetNow
<1>4. calls[x] = 0
  BY <1>2 DEF DrainInv, OrderInv, OnceInv, CallsOK, TypeOK, Created
<1>5. CASE x \in Disposable \ gone
  <2>1. calls' = [calls EXCEPT ![x] = 1]
    BY <1>1, <1>2, <1>4, <1>5 DEF BeginDispose, DrainInv, OrderInv, OnceInv, TypeOK, Created
  <2>2. Promise!DisposeNow(x)
    BY <1>1, <1>2, <1>3, <1>5, <2>1 DEF Promise!DisposeNow
  <2>. QED  BY <1>2, <2>2 DEF Promise!Next, Created
<1>6. CASE x \notin Disposable \ gone
  <2>1. UNCHANGED calls
    BY <1>1, <1>6 DEF BeginDispose
  <2>2. SameCollected /\ SameClosed
    BY <1>3 DEF SameCollected, SameClosed
  <2>3. {x} \in SUBSET Created /\ {x} \cap deactivated = {}
    BY <1>1, <1>2
  <2>. QED  BY <1>1, <1>3, <2>1, <2>2, <2>3, ToForfeit
<1>. QED  BY <1>5, <1>6

\* An area that is closed with everything done is a closed group.
LEMMA CloseGroup ==
    ASSUME TypeOK, NEW a \in Area, status[a] = "draining",
           \A x \in items[a] \ late : Done(x),
           status' = [status EXCEPT ![a] = "closed"],
           UNCHANGED <<items, late, order, calls, deactivated, gone>>
    PROVE  Promise!Next
<1>1. \A b \in Area : status'[b] = IF b = a THEN "closed" ELSE status[b]
  BY DEF TypeOK
<1>2. {b \in Area : status'[b] = "closed"} = {b \in Area : status[b] = "closed"} \cup {a}
  BY <1>1
<1>3. Promise!Close(a)
  BY <1>2 DEF Promise!Close, Promise!Settled, Done
<1>. QED  BY <1>3 DEF Promise!Next

\* The end of a drain closes the group.
LEMMA ToClose ==
    ASSUME DrainInv, NEW f \in Flow, FinishDrain(f)
    PROVE  Promise!Next
<1>o. OnceInv /\ DrainFramesOK /\ TypeOK
  BY DEF DrainInv, OrderInv, OnceInv, DrainsOK
<1>. DEFINE i == Len(stack[f])
            fr == stack[f][i]
            a == fr.area
<1>1. stack[f] # <<>> /\ fr.pc = "drain" /\ i \in DOMAIN stack[f] /\ fr.rest = {}
  BY <1>o, TopFrame DEF FinishDrain, Drained, At, Top, TypeOK, StackType
<1>2. a \in Area /\ status[a] = "draining"
  BY <1>o, <1>1, DrainFrame
<1>3. \A x \in items[a] \ late : Done(x)
  BY <1>o, <1>1 DEF DrainFramesOK, Collected
<1>4. /\ status' = [status EXCEPT ![a] = "closed"]
      /\ UNCHANGED <<items, late, order, calls, deactivated, gone>>
  BY DEF FinishDrain, Top
<1>5. PICK b \in Area : b = a
  BY <1>2
<1>. HIDE DEF a
<1>. QED  BY <1>o, <1>2, <1>3, <1>4, <1>5, CloseGroup

\* An activation creates an instance after its dependencies.
LEMMA ToCreate ==
    ASSUME DrainInv, NEW f \in Flow, NEW x \in Instance, NEW o \in Owner,
           Resolve(f, x, o)
    PROVE  Promise!Next
<1>1. /\ order[x] = 0 /\ \A d \in Deps[x] : order[d] > 0
      /\ order' = [order EXCEPT ![x] = counter + 1]
      /\ UNCHANGED <<items, late, status, calls, deactivated, gone>>
  BY DEF Resolve, NextOrder
<1>2. counter \in Nat /\ order \in [Instance -> Nat] /\ Deps[x] \subseteq Instance
  BY ConstantsAssumption DEF DrainInv, OrderInv, OnceInv, TypeOK
<1>3. \A y \in Instance : order'[y] = IF y = x THEN counter + 1 ELSE order[y]
  BY <1>1, <1>2
<1>4. {y \in Instance : order'[y] > 0} = {y \in Instance : order[y] > 0} \cup {x}
  BY <1>2, <1>3
<1>5. x \notin {y \in Instance : order[y] > 0}
  BY <1>1
<1>6. Deps[x] \subseteq {y \in Instance : order[y] > 0}
  BY <1>1, <1>2
<1>7. Promise!Create(x)
  BY <1>1, <1>4, <1>5, <1>6 DEF Promise!Create
<1>. QED  BY <1>7 DEF Promise!Next

\* The garbage collector takes an instance.
LEMMA ToLose ==
    ASSUME NEW x \in Instance, Collect(x)
    PROVE  Promise!Next
<1>1. Promise!Lose(x)
  BY DEF Collect, Promise!Lose
<1>2. x \in {y \in Instance : order[y] > 0}
  BY DEF Collect
<1>. QED  BY <1>1, <1>2 DEF Promise!Next

\* Every step is one of the abstract specification, or invisible to it.
LEMMA RefineStep ==
    ASSUME DrainInv, [Next]_vars
    PROVE  Promise!Next \/ UNCHANGED Promise!vars
<1>. DEFINE Goal == Promise!Next \/ UNCHANGED Promise!vars
<1>t. OnceInv /\ TypeOK /\ StackType
  BY DEF DrainInv, OrderInv, OnceInv, TypeOK, StackType
<1>f. ASSUME NEW f \in Flow, stack[f] # <<>>
      PROVE  /\ Top(f) \in Frame /\ FrameOK(Top(f), status, items, calls)
             /\ Top(f).rest \subseteq Created
  <2>1. Top(f) \in Frame /\ Len(stack[f]) \in DOMAIN stack[f]
    BY <1>t, <1>f, TopFrame
  <2>. QED  BY <2>1, <1>t DEF OnceInv, FramesOK, Top, DrainInv, OrderInv, RestsOK
\* Steps that dispose nothing and close no area.
<1>s. ASSUME UNCHANGED <<order, deactivated, calls, gone, items, late>>,
             \A a \in Area : status'[a] = "closed" <=> status[a] = "closed"
      PROVE  Goal
  BY <1>s, ToStutter DEF SameCollected, SameClosed
\* Steps on areas that some frame owns.
<1>a. ASSUME NEW a \in Area, status[a] # "closed", NEW new \in {"draining", "abandoned"},
             status' = [status EXCEPT ![a] = new],
             UNCHANGED <<order, deactivated, calls, gone, items, late>>
      PROVE  Goal
  BY <1>a, <1>s, <1>t DEF TypeOK
<1>1. ASSUME NEW f \in Flow, LibraryStep(f) PROVE Goal
  <2>1. CASE RaiseDisposed(f)
    <3>. DEFINE xs == Pending(Entries(Top(f).owner))
    <3>1. stack[f] # <<>> /\ Top(f).pc = "raise"
      BY <2>1 DEF RaiseDisposed, At
    <3>2. Top(f).owner \in Owner
      BY <1>f, <3>1 DEF Frame, FrameRecord
    <3>3. xs \in SUBSET Created /\ xs \cap deactivated = {}
      BY <3>2 DEF Pending, Entries, DrainInv, OrderInv, HandledOK
    <3>4. /\ Register(area[f], xs) /\ deactivated' = deactivated \cup xs
          /\ UNCHANGED <<order, calls, gone, status>>
      BY <2>1 DEF RaiseDisposed
    <3>5. PICK ys \in SUBSET Created : ys = xs
      BY <3>3
    <3>. HIDE DEF xs
    <3>. QED  BY <3>3, <3>4, <3>5, ToRegister
  <2>2. CASE RaiseFails(f) \/ ForgetFails(f)
    <3>1. PICK x \in Created : x \notin deactivated /\ deactivated' = deactivated \cup {x}
      <4>1. CASE RaiseFails(f)
        <5>1. stack[f] # <<>> /\ Top(f).pc = "raise"
          BY <4>1 DEF RaiseFails, At
        <5>2. Top(f).owner \in Owner
          BY <1>f, <5>1 DEF Frame, FrameRecord
        <5>. QED  BY <4>1, <5>2 DEF RaiseFails, Pending, Entries, DrainInv, OrderInv, HandledOK
      <4>2. CASE ForgetFails(f)
        <5>1. stack[f] # <<>>
          BY <4>2 DEF ForgetFails, At
        <5>. QED  BY <4>2, <5>1, <1>f DEF ForgetFails, Pending
      <4>. QED  BY <2>2, <4>1, <4>2
    <3>2. UNCHANGED <<order, calls, gone, items, late, status>>
      BY <2>2 DEF RaiseFails, ForgetFails
    <3>3. SameCollected /\ SameClosed
      BY <3>2 DEF SameCollected, SameClosed
    <3>. QED  BY <3>1, <3>2, <3>3, ToForfeit
  <2>3. CASE CloseInner(f) \/ KernelClear(f) \/ FinishForget(f)
    BY <1>s, <2>3 DEF CloseInner, KernelClear, FinishForget
  <2>4. CASE CloseEmpty(f) \/ StartDrain(f)
    <3>. DEFINE a == Top(f).area
    <3>1. stack[f] # <<>> /\ Top(f).pc = "close" /\ a # NoArea
      BY <2>4 DEF CloseEmpty, StartDrain, At
    <3>2. a \in Area /\ status[a] = "open"
      BY <1>f, <3>1 DEF Frame, FrameRecord, FrameOK
    <3>3. /\ \E new \in {"draining", "abandoned"} : status' = [status EXCEPT ![a] = new]
          /\ UNCHANGED <<order, deactivated, calls, gone, items, late>>
      BY <2>4 DEF CloseEmpty, StartDrain
    <3>4. PICK b \in Area : b = a
      BY <3>2
    <3>. HIDE DEF a
    <3>. QED  BY <1>a, <3>2, <3>3, <3>4
  <2>5. CASE DisposeNext(f)
    BY <2>5, ToDispose
  <2>6. CASE FinishDrain(f)
    BY <2>6, ToClose
  <2>7. CASE ForgetNow(f)
    BY <2>7, ToDisposeNow
  <2>8. CASE ForgetIntoArea(f)
    <3>1. stack[f] # <<>>
      BY <2>8 DEF ForgetIntoArea, At
    <3>2. PICK x \in Pending(Top(f).rest) :
             /\ deactivated' = deactivated \cup {x} /\ Register(area[f], {x})
      BY <2>8 DEF ForgetIntoArea
    <3>3. {x} \in SUBSET Created /\ {x} \cap deactivated = {}
      BY <1>f, <3>1, <3>2 DEF Pending
    <3>4. UNCHANGED <<order, calls, gone, status>>
      BY <2>8 DEF ForgetIntoArea
    <3>. QED  BY <3>2, <3>3, <3>4, ToRegister
  <2>. QED  BY <1>1, <2>1, <2>2, <2>3, <2>4, <2>5, <2>6, <2>7, <2>8 DEF LibraryStep
<1>2. ASSUME NEW f \in Flow, ApplicationStep(f) PROVE Goal
  <2>1. ASSUME NEW x \in Instance, NEW o \in Owner, Resolve(f, x, o) PROVE Goal
    BY <2>1, ToCreate
  <2>2. ASSUME NEW s \in Scope, NEW below, EnterScope(f, s, below),
               UNCHANGED <<order, deactivated, calls, gone, items, late>>
        PROVE  Goal
    <3>1. \/ UNCHANGED status
          \/ \E c \in Area : status[c] = "unused" /\ status' = [status EXCEPT ![c] = "open"]
      BY <2>2 DEF EnterScope
    <3>2. \A a \in Area : status'[a] = "closed" <=> status[a] = "closed"
      BY <1>t, <3>1 DEF TypeOK
    <3>. QED  BY <1>s, <2>2, <3>2
  <2>3. ASSUME NEW s \in Scope, DisposeScope(f, s) PROVE Goal
    BY <2>2, <2>3 DEF DisposeScope
  <2>4. CASE DisposeKernel(f)
    BY <2>2, <2>4, ConstantsAssumption DEF DisposeKernel
  <2>5. ASSUME NEW p \in RequestScope, DisposeRequestScope(f, p) PROVE Goal
    BY <1>s, <2>5 DEF DisposeRequestScope
  <2>6. ASSUME \/ \E x \in Instance, o \in Owner : Share(f, x, o)
               \/ \E x \in Instance : Release(f, x)
               \/ DisposeReturns(f)
        PROVE  Goal
    BY <1>s, <2>6 DEF Share, Release, DisposeReturns
  <2>7. CASE DisposeThrows(f)
    <3>. DEFINE a == Top(f).area
    <3>1. /\ stack[f] # <<>> /\ UNCHANGED <<order, deactivated, calls, gone, items, late>>
          /\ status' = IF Top(f).pc = "drain"
                       THEN [status EXCEPT ![a] = "abandoned"] ELSE status
      BY <2>7 DEF DisposeThrows, InDispose
    <3>2. CASE Top(f).pc # "drain"
      BY <1>s, <3>1, <3>2
    <3>3. CASE Top(f).pc = "drain"
      <4>1. status[a] = "draining" /\ a # NoArea
        BY <1>f, <3>1, <3>3, OwnAreaInUse DEF FrameOK
      <4>2. a \in Area
        BY <1>f, <3>1, <4>1 DEF Frame, FrameRecord
      <4>3. PICK b \in Area : b = a
        BY <4>2
      <4>. HIDE DEF a
      <4>. QED  BY <1>a, <3>1, <3>3, <4>1, <4>3
    <3>. QED  BY <3>2, <3>3
  <2>8. ASSUME NEW g \in Flow, Fork(f, g) PROVE Goal
    BY <1>s, <2>8 DEF Fork
  <2>. QED  BY <1>2, <2>1, <2>3, <2>4, <2>5, <2>6, <2>7, <2>8
            DEF ApplicationStep
<1>3. ASSUME NEW x \in Instance, Collect(x) PROVE Goal
  BY <1>3, ToLose
<1>4. CASE UNCHANGED vars
  BY <1>4, <1>s DEF vars
<1>. QED  BY <1>1, <1>2, <1>3, <1>4 DEF Next

-----------------------------------------------------------------------------
LEMMA InitDrains == Init => DrainInv /\ Promise!Init
<1>. SUFFICES ASSUME Init PROVE DrainInv /\ Promise!Init
  OBVIOUS
<1>1. OnceInv
  <2>1. TypeOK
    BY ConstantsAssumption DEF Init, TypeOK
  <2>2. ItemsOK /\ CallsOK /\ FramesOK /\ AreasOwned
    BY DEF Init, ItemsOK, CallsOK, FramesOK, AreasOwned
  <2>. QED  BY <2>1, <2>2 DEF OnceInv
<1>2. OrderOK /\ HandledOK /\ RestsOK /\ DrainsOK
  BY DEF Init, OrderOK, HandledOK, RestsOK, DrainsOK, DrainFramesOK, ClosedOK, OpenOK,
         Created, Collected, Done
<1>3. Promise!Init
  BY DEF Init, Promise!Init
<1>. QED  BY <1>1, <1>2, <1>3 DEF DrainInv, OrderInv

\* The strengthening that the refinement rests on.
THEOREM DrainsKeepOrder == Spec => []DrainInv
<1>. QED  BY InitDrains, DrainStep, PTL DEF Spec

\* Disposal keeps its promise for every number of flows, scopes, instances and
\* areas and whatever the application does (DisposalManager.cs:12-22, 84-98).
THEOREM ImplementsPromise == Spec => KeepsPromise
<1>1. DrainInv /\ [Next]_vars => [Promise!Next]_(Promise!vars)
  BY RefineStep
<1>. QED  BY <1>1, InitDrains, DrainsKeepOrder, PTL DEF Spec, KeepsPromise, Promise!Spec

\* A closed area has disposed all it collected while it was open.
THEOREM DrainIsComplete == Spec => []DrainComplete
<1>1. DrainInv => DrainComplete
  BY DEF DrainInv, DrainsOK, ClosedOK, Collected, Done, DrainComplete
<1>. QED  BY <1>1, DrainsKeepOrder, PTL

\* Of the services an area collected the one that depends on another is disposed
\* first: what was proved of the abstract specification, said of areas.
THEOREM DependentsGoFirst == Spec => []DependentsFirst
<1>1. Promise!PromiseKept => DependentsFirst
  BY DEF Promise!PromiseKept, Promise!Settled, DependentsFirst
<1>. QED  BY <1>1, ImplementsPromise, Promise!PromiseIsKept, PTL DEF KeepsPromise

=============================================================================
