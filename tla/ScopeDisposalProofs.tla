------------------------ MODULE ScopeDisposalProofs ------------------------
(***************************************************************************)
(* Theorems about ScopeDisposal for every number of flows, scopes,         *)
(* instances and areas: type correctness, and that no service instance is  *)
(* disposed twice.                                                         *)
(***************************************************************************)
EXTENDS ScopeDisposal, TLAPS

USE DEF Owner, Pc, Allows

-----------------------------------------------------------------------------
(***************************************************************************)
(* How the operations on a stack change its frames                         *)
(***************************************************************************)
StackType == stack \in [Flow -> Seq(Frame)]

\* A stack that is not empty has a top frame, its last element.
LEMMA TopFrame ==
    ASSUME StackType, NEW f \in Flow, stack[f] # <<>>
    PROVE  /\ Top(f) \in Frame
           /\ Len(stack[f]) \in DOMAIN stack[f]
           /\ Len(stack[f]) \in Nat \ {0}
  BY DEF StackType, Top

\* Pushing frames keeps the old ones and puts the new ones above.
LEMMA PushFrames ==
    ASSUME StackType, NEW f \in Flow, NEW frames \in Seq(Frame), Push(f, frames)
    PROVE  /\ StackType'
           /\ \A g \in Flow : \A i \in DOMAIN stack'[g] :
                 \/ i \in DOMAIN stack[g] /\ stack'[g][i] = stack[g][i]
                 \/ /\ g = f /\ i \notin DOMAIN stack[g]
                    /\ i - Len(stack[g]) \in DOMAIN frames
                    /\ stack'[g][i] = frames[i - Len(stack[g])]
  BY DEF StackType, Push

\* Replacing the top frame keeps the others.
LEMMA SetTopFrames ==
    ASSUME StackType, NEW f \in Flow, stack[f] # <<>>, NEW fr \in Frame,
           SetTop(f, fr)
    PROVE  /\ StackType'
           /\ \A g \in Flow : \A i \in DOMAIN stack'[g] :
                 /\ i \in DOMAIN stack[g]
                 /\ stack'[g][i] = IF g = f /\ i = Len(stack[f]) THEN fr
                                   ELSE stack[g][i]
  BY TopFrame DEF StackType, SetTop

\* Cutting frames off the top keeps the others.
LEMMA CutFrames ==
    ASSUME StackType, NEW f \in Flow, stack[f] # <<>>, NEW k \in 1..Len(stack[f]),
           stack' = [stack EXCEPT ![f] = SubSeq(@, 1, Len(@) - k)]
    PROVE  /\ StackType'
           /\ \A g \in Flow : \A i \in DOMAIN stack'[g] :
                 /\ i \in DOMAIN stack[g]
                 /\ g = f => i < Len(stack[f])
                 /\ stack'[g][i] = stack[g][i]
  BY TopFrame DEF StackType

\* Pop and Unwind are such cuts.
LEMMA PopFrames ==
    ASSUME StackType, NEW f \in Flow, stack[f] # <<>>, Pop(f) \/ Unwind(f)
    PROVE  /\ StackType'
           /\ \A g \in Flow : \A i \in DOMAIN stack'[g] :
                 /\ i \in DOMAIN stack[g]
                 /\ g = f => i < Len(stack[f])
                 /\ stack'[g][i] = stack[g][i]
<1>1. Len(stack[f]) \in Nat \ {0}
  BY TopFrame
<1>2. CASE Pop(f)
  <2>1. stack' = [stack EXCEPT ![f] = SubSeq(@, 1, Len(@) - 1)]
    BY <1>2 DEF Pop
  <2>2. 1 \in 1..Len(stack[f])
    BY <1>1
  <2>. QED  BY <2>1, <2>2, CutFrames
<1>3. CASE Unwind(f)
  <2>. DEFINE n == Len(stack[f])
              k == IF n > 1 /\ stack[f][n - 1].pc = "clear" THEN 2 ELSE 1
  <2>1. stack' = [stack EXCEPT ![f] = SubSeq(@, 1, Len(@) - k)]
    BY <1>3 DEF Unwind, StackType
  <2>2. k \in 1..Len(stack[f])
    BY <1>1
  <2>. HIDE DEF k
  <2>. QED  BY <2>1, <2>2, CutFrames
<1>. QED  BY <1>2, <1>3

\* A new frame has the type of a frame.
LEMMA NewFrameType ==
    ASSUME NEW pc \in Pc, NEW o \in Owner \cup {NoOwner},
           NEW a \in Area \cup {NoArea},
           NEW rest \in SUBSET Instance, NEW purge \in SUBSET Instance,
           o = NoOwner => pc = "forget"
    PROVE  NewFrame(pc, o, a, rest, purge) \in Frame
  BY DEF NewFrame, Frame, FrameRecord

-----------------------------------------------------------------------------
(***************************************************************************)
(* Type correctness                                                        *)
(***************************************************************************)
\* Entering a scope pushes its frame and gives the flow an area.
LEMMA EnterScopeType ==
    ASSUME TypeOK, NEW f \in Flow, NEW s \in Scope, NEW below \in Seq(Frame),
           EnterScope(f, s, below)
    PROVE  /\ area' \in [Flow -> Area \cup {NoArea}]
           /\ status' \in [Area -> {"unused", "open", "draining", "closed",
                                    "abandoned"}]
           /\ stack' \in [Flow -> Seq(Frame)]
<1>1. StackType
  BY DEF TypeOK, StackType
<1>2. \A a \in Area \cup {NoArea} :
         Append(below, NewFrame("raise", s, a, {}, {})) \in Seq(Frame)
  <2>. SUFFICES ASSUME NEW a \in Area \cup {NoArea}
                PROVE  NewFrame("raise", s, a, {}, {}) \in Frame
    OBVIOUS
  <2>1. s \in Owner /\ s # NoOwner
    BY ConstantsAssumption
  <2>. QED  BY <2>1, NewFrameType
<1>3. \A frames \in Seq(Frame) : Push(f, frames) => StackType'
  BY <1>1, PushFrames
<1>4. CASE area[f] = NoArea
  BY <1>2, <1>3, <1>4 DEF EnterScope, SetArea, TypeOK, StackType
<1>5. CASE area[f] # NoArea
  BY <1>2, <1>3, <1>5 DEF EnterScope, TypeOK, StackType
<1>. QED  BY <1>4, <1>5

\* Registering keeps the types of the lists and of the history.
LEMMA RegisterType ==
    ASSUME TypeOK, NEW a, NEW xs \in SUBSET Instance, Register(a, xs)
    PROVE  /\ items' \in [Area -> SUBSET Instance]
           /\ late' \in SUBSET Instance
  BY DEF Register, TypeOK

\* A Dispose call is counted as a number.
LEMMA BeginDisposeType ==
    ASSUME TypeOK, NEW x \in Instance, BeginDispose(x)
    PROVE  calls' \in [Instance -> Nat]
<1>1. CASE x \in Disposable \ gone
  BY <1>1 DEF BeginDispose, TypeOK
<1>2. CASE x \notin Disposable \ gone
  BY <1>2 DEF BeginDispose, TypeOK
<1>. QED  BY <1>1, <1>2

\* A frame that is not one of a Release keeps its type with any program counter
\* and any instances to dispose of.
LEMMA FrameUpdate ==
    ASSUME NEW fr \in Frame, fr.pc # "forget", NEW pc \in Pc,
           NEW rest \in SUBSET Instance
    PROVE  /\ [fr EXCEPT !.pc = pc] \in Frame
           /\ [fr EXCEPT !.pc = pc, !.rest = rest] \in Frame
<1>1. fr \in FrameRecord /\ fr.owner # NoOwner
  BY DEF Frame
<1>2. /\ [fr EXCEPT !.pc = pc] \in FrameRecord
      /\ [fr EXCEPT !.pc = pc].owner = fr.owner
      /\ [fr EXCEPT !.pc = pc, !.rest = rest] \in FrameRecord
      /\ [fr EXCEPT !.pc = pc, !.rest = rest].owner = fr.owner
  BY <1>1 DEF FrameRecord
<1>. QED  BY <1>1, <1>2 DEF Frame

\* A frame that goes on to the Dispose method of the next instance.
LEMMA RunningUpdate ==
    ASSUME NEW fr \in Frame, NEW y \in Instance
    PROVE  LET up == [fr EXCEPT !.rest = @ \ {y}, !.running = Running(y)]
           IN  /\ up \in Frame
               /\ up.pc = fr.pc /\ up.owner = fr.owner /\ up.area = fr.area
               /\ up.purge = fr.purge /\ up.rest = fr.rest \ {y} /\ up.running = Running(y)
<1>. DEFINE up == [fr EXCEPT !.rest = @ \ {y}, !.running = Running(y)]
<1>1. fr \in FrameRecord /\ (fr.owner = NoOwner => fr.pc = "forget")
  BY DEF Frame
<1>2. Running(y) \in Instance \cup {NoInstance} /\ fr.rest \ {y} \in SUBSET Instance
  BY <1>1 DEF Running, FrameRecord
<1>3. /\ up \in FrameRecord
      /\ up.pc = fr.pc /\ up.owner = fr.owner /\ up.area = fr.area
      /\ up.purge = fr.purge /\ up.rest = fr.rest \ {y} /\ up.running = Running(y)
  BY <1>1, <1>2 DEF FrameRecord
<1>4. up \in Frame
  BY <1>1, <1>3 DEF Frame
<1>. QED  BY <1>3, <1>4

\* No operation of the library or of the application breaks a type.
LEMMA TypeStep == TypeOK /\ [Next]_vars => TypeOK'
<1>. SUFFICES ASSUME TypeOK, [Next]_vars PROVE TypeOK'
  OBVIOUS
<1>. USE ConstantsAssumption
<1>0. StackType /\ \A f \in Flow : stack[f] # <<>> => Top(f) \in Frame
  BY TopFrame DEF TypeOK, StackType
<1>p. \A f \in Flow : \A frames \in Seq(Frame) : Push(f, frames) => StackType'
  BY <1>0, PushFrames
<1>s. \A f \in Flow : \A fr \in Frame :
         stack[f] # <<>> /\ SetTop(f, fr) => StackType'
  BY <1>0, SetTopFrames
<1>c. \A f \in Flow : stack[f] # <<>> /\ (Pop(f) \/ Unwind(f)) => StackType'
  BY <1>0, PopFrames
<1>1. ASSUME NEW f \in Flow, LibraryStep(f) PROVE TypeOK'
  <2>1. CASE RaiseDisposed(f)
    <3>. DEFINE s == Top(f).owner
                xs == Pending(Entries(s))
    <3>1. Top(f) \in Frame /\ stack[f] # <<>>
      BY <1>0, <2>1 DEF RaiseDisposed, At
    <3>2. xs \in SUBSET Instance
      <4>1. s \in Owner
        BY <2>1, <3>1 DEF RaiseDisposed, At, Frame, FrameRecord
      <4>. QED  BY <4>1 DEF TypeOK, Pending, Entries
    <3>3. [Top(f) EXCEPT !.pc = "close"] \in Frame
      BY <2>1, <3>1, FrameUpdate DEF RaiseDisposed, At
    <3>4. StackType'
      BY <1>s, <2>1, <3>1, <3>3 DEF RaiseDisposed
    <3>5. items' \in [Area -> SUBSET Instance] /\ late' \in SUBSET Instance
      BY <2>1, <3>2, RegisterType DEF RaiseDisposed
    <3>. QED  BY <2>1, <3>2, <3>4, <3>5 DEF RaiseDisposed, TypeOK, StackType
  <2>2. CASE RaiseFails(f)
    <3>1. Top(f) \in Frame /\ stack[f] # <<>>
      BY <1>0, <2>2 DEF RaiseFails, At
    <3>2. StackType'
      BY <1>c, <2>2, <3>1 DEF RaiseFails
    <3>3. Top(f).owner \in Owner
      BY <2>2, <3>1 DEF RaiseFails, At, Frame, FrameRecord
    <3>4. Pending(Entries(Top(f).owner)) \in SUBSET Instance
      BY <3>3 DEF TypeOK, Pending, Entries
    <3>5. PICK x \in Pending(Entries(Top(f).owner)) :
             /\ deactivated' = deactivated \cup {x}
             /\ cached' = [cached EXCEPT ![Top(f).owner] =
                             IF x \in Transient THEN @ \ {x} ELSE {}]
      BY <2>2 DEF RaiseFails
    <3>6. deactivated' \subseteq Instance /\ cached' \in [Owner -> SUBSET Instance]
      BY <3>3, <3>4, <3>5 DEF TypeOK
    <3>. QED  BY <2>2, <3>2, <3>6 DEF RaiseFails, TypeOK, StackType
  <2>3. CASE CloseInner(f)
    <3>1. StackType'
      BY <1>c, <2>3 DEF CloseInner, At
    <3>. QED  BY <2>3, <3>1 DEF CloseInner, TypeOK, StackType
  <2>4. CASE CloseEmpty(f)
    <3>1. StackType'
      BY <1>c, <2>4 DEF CloseEmpty, At
    <3>. QED  BY <2>4, <3>1 DEF CloseEmpty, TypeOK, StackType
  <2>5. CASE StartDrain(f)
    <3>1. Top(f) \in Frame /\ stack[f] # <<>>
      BY <1>0, <2>5 DEF StartDrain, At
    <3>2. [Top(f) EXCEPT !.pc = "drain", !.rest = items[Top(f).area]] \in Frame
      <4>1. items[Top(f).area] \in SUBSET Instance /\ Top(f).pc = "close"
        BY <2>5, <3>1 DEF StartDrain, At, Frame, FrameRecord, TypeOK
      <4>. QED  BY <3>1, <4>1, FrameUpdate
    <3>3. StackType'
      BY <1>s, <2>5, <3>1, <3>2 DEF StartDrain
    <3>. QED  BY <2>5, <3>3 DEF StartDrain, TypeOK, StackType
  <2>6. CASE DisposeNext(f)
    <3>1. Top(f) \in Frame /\ stack[f] # <<>>
      BY <1>0, <2>6 DEF DisposeNext, At
    <3>2. PICK x \in Top(f).rest :
             /\ BeginDispose(x)
             /\ SetTop(f, [Top(f) EXCEPT !.rest = @ \ {x}, !.running = Running(x)])
      BY <2>6 DEF DisposeNext, Drainable
    <3>3. x \in Instance
      BY <3>1 DEF Frame, FrameRecord
    <3>4. [Top(f) EXCEPT !.rest = @ \ {x}, !.running = Running(x)] \in Frame
      BY <3>1, <3>3 DEF Frame, FrameRecord, Running
    <3>5. StackType'
      BY <1>s, <3>1, <3>2, <3>4
    <3>6. calls' \in [Instance -> Nat]
      BY <3>2, <3>3, BeginDisposeType
    <3>. QED  BY <2>6, <3>5, <3>6 DEF DisposeNext, TypeOK, StackType
  <2>7. CASE FinishDrain(f)
    <3>1. StackType'
      BY <1>c, <2>7 DEF FinishDrain, At
    <3>. QED  BY <2>7, <3>1 DEF FinishDrain, ResetArea, SetArea, TypeOK, StackType
  <2>8. CASE KernelClear(f)
    <3>1. NewFrame("forget", Kernel, NoArea, AllEntries, Instance) \in Frame
      BY NewFrameType DEF AllEntries, TypeOK
    <3>2. StackType'
      BY <1>s, <2>8, <3>1 DEF KernelClear, At
    <3>. QED  BY <2>8, <3>2 DEF KernelClear, TypeOK, StackType
  <2>9. CASE ForgetNow(f)
    <3>1. Top(f) \in Frame /\ stack[f] # <<>>
      BY <1>0, <2>9 DEF ForgetNow, At
    <3>2. PICK x \in Pending(Top(f).rest) :
             /\ deactivated' = deactivated \cup {x}
             /\ BeginDispose(x)
             /\ SetTop(f, [Top(f) EXCEPT !.rest = @ \ {x}, !.running = Running(x)])
      BY <2>9 DEF ForgetNow
    <3>3. x \in Instance
      BY <3>1 DEF Frame, FrameRecord, Pending
    <3>4. [Top(f) EXCEPT !.rest = @ \ {x}, !.running = Running(x)] \in Frame
      BY <3>1, <3>3 DEF Frame, FrameRecord, Running
    <3>5. StackType'
      BY <1>s, <3>1, <3>2, <3>4
    <3>6. calls' \in [Instance -> Nat]
      BY <3>2, <3>3, BeginDisposeType
    <3>7. deactivated' \subseteq Instance
      BY <3>2, <3>3 DEF TypeOK
    <3>. QED  BY <2>9, <3>5, <3>6, <3>7 DEF ForgetNow, TypeOK, StackType
  <2>10. CASE ForgetIntoArea(f)
    <3>1. Top(f) \in Frame /\ stack[f] # <<>>
      BY <1>0, <2>10 DEF ForgetIntoArea, At
    <3>2. PICK x \in Pending(Top(f).rest) :
             /\ deactivated' = deactivated \cup {x}
             /\ Register(area[f], {x})
             /\ SetTop(f, [Top(f) EXCEPT !.rest = @ \ {x}])
      BY <2>10 DEF ForgetIntoArea
    <3>3. x \in Instance
      BY <3>1 DEF Frame, FrameRecord, Pending
    <3>4. [Top(f) EXCEPT !.rest = @ \ {x}] \in Frame
      BY <3>1 DEF Frame, FrameRecord
    <3>5. StackType'
      BY <1>s, <3>1, <3>2, <3>4
    <3>6. items' \in [Area -> SUBSET Instance] /\ late' \in SUBSET Instance
      BY <3>2, <3>3, RegisterType
    <3>. QED  BY <2>10, <3>2, <3>3, <3>5, <3>6 DEF ForgetIntoArea, TypeOK, StackType
  <2>11. CASE ForgetFails(f)
    <3>1. Top(f) \in Frame /\ stack[f] # <<>>
      BY <1>0, <2>11 DEF ForgetFails, At
    <3>2. StackType'
      BY <1>c, <2>11, <3>1 DEF ForgetFails
    <3>3. deactivated' \subseteq Instance
      BY <2>11, <3>1 DEF ForgetFails, TypeOK, Pending, Frame, FrameRecord
    <3>. QED  BY <2>11, <3>2, <3>3 DEF ForgetFails, TypeOK, StackType
  <2>12. CASE FinishForget(f)
    <3>1. StackType'
      BY <1>c, <2>12 DEF FinishForget, At
    <3>2. cached' \in [Owner -> SUBSET Instance]
      BY <2>12 DEF FinishForget, TypeOK
    <3>3. disposed' \in [Owner -> BOOLEAN]
      BY <2>12 DEF FinishForget, TypeOK
    <3>. QED  BY <2>12, <3>1, <3>2, <3>3 DEF FinishForget, TypeOK, StackType
  <2>. QED  BY <1>1, <2>1, <2>2, <2>3, <2>4, <2>5, <2>6, <2>7, <2>8, <2>9,
               <2>10, <2>11, <2>12 DEF LibraryStep
<1>2. ASSUME NEW f \in Flow, ApplicationStep(f) PROVE TypeOK'
  <2>1. ASSUME NEW x \in Instance, NEW o \in Owner, Resolve(f, x, o) PROVE TypeOK'
    BY <2>1 DEF Resolve, NextOrder, TypeOK
  <2>2. ASSUME NEW x \in Instance, NEW o \in Owner, Share(f, x, o) PROVE TypeOK'
    BY <2>2 DEF Share, TypeOK
  <2>3. ASSUME NEW s \in Scope, DisposeScope(f, s) PROVE TypeOK'
    <3>1. <<>> \in Seq(Frame)
      OBVIOUS
    <3>. QED  BY <2>3, <3>1, EnterScopeType DEF DisposeScope, TypeOK
  <2>4. ASSUME NEW p \in RequestScope, DisposeRequestScope(f, p) PROVE TypeOK'
    <3>. cached[p] \in SUBSET Instance
      BY DEF TypeOK
    <3>1. NewFrame("forget", p, NoArea, cached[p], {}) \in Frame
      BY NewFrameType
    <3>2. StackType'
      <4>1. <<NewFrame("forget", p, NoArea, cached[p], {})>> \in Seq(Frame)
        BY <3>1
      <4>. QED  BY <1>p, <2>4, <4>1 DEF DisposeRequestScope
    <3>. QED  BY <2>4, <3>2 DEF DisposeRequestScope, TypeOK, StackType
  <2>5. ASSUME NEW x \in Instance, Release(f, x) PROVE TypeOK'
    <3>1. <<NewFrame("forget", NoOwner, NoArea, {x}, {x})>> \in Seq(Frame)
      BY NewFrameType
    <3>2. StackType'
      BY <1>p, <2>5, <3>1 DEF Release
    <3>. QED  BY <2>5, <3>2 DEF Release, TypeOK, StackType
  <2>6. CASE DisposeKernel(f)
    <3>1. <<NewFrame("clear", Kernel, NoArea, {}, {})>> \in Seq(Frame)
      BY NewFrameType
    <3>. QED  BY <2>6, <3>1, EnterScopeType DEF DisposeKernel, TypeOK
  <2>7. CASE DisposeReturns(f)
    <3>1. Top(f) \in Frame /\ stack[f] # <<>>
      BY <1>0, <2>7 DEF DisposeReturns, InDispose
    <3>2. [Top(f) EXCEPT !.running = NoInstance] \in Frame
      BY <3>1 DEF Frame, FrameRecord
    <3>3. StackType'
      BY <1>s, <2>7, <3>1, <3>2 DEF DisposeReturns
    <3>. QED  BY <2>7, <3>3 DEF DisposeReturns, TypeOK, StackType
  <2>8. CASE DisposeThrows(f)
    <3>1. stack[f] # <<>>
      BY <2>8 DEF DisposeThrows, InDispose
    <3>2. StackType'
      BY <1>c, <2>8, <3>1 DEF DisposeThrows
    <3>3. status' \in [Area -> {"unused", "open", "draining", "closed", "abandoned"}]
      BY <2>8 DEF DisposeThrows, TypeOK
    <3>. QED  BY <2>8, <3>2, <3>3 DEF DisposeThrows, TypeOK, StackType
  <2>9. ASSUME NEW g \in Flow, Fork(f, g) PROVE TypeOK'
    BY <2>9 DEF Fork, TypeOK
  <2>. QED  BY <1>2, <2>1, <2>2, <2>3, <2>4, <2>5, <2>6, <2>7, <2>8, <2>9
            DEF ApplicationStep
<1>3. ASSUME NEW x \in Instance, Collect(x) PROVE TypeOK'
  BY <1>3 DEF Collect, TypeOK
<1>4. CASE UNCHANGED vars
  BY <1>4 DEF vars, TypeOK
<1>. QED  BY <1>1, <1>2, <1>3, <1>4 DEF Next

\* Every variable keeps its type in every behaviour.
THEOREM TypeCorrect == Spec => []TypeOK
<1>1. Init => TypeOK
  <2>. SUFFICES ASSUME Init PROVE TypeOK
    OBVIOUS
  <2>. QED  BY ConstantsAssumption DEF Init, TypeOK
<1>. QED  BY <1>1, TypeStep, PTL DEF Spec

-----------------------------------------------------------------------------
(***************************************************************************)
(* No instance is disposed twice.  DisposeOnce is not inductive: an area   *)
(* that drains must hold instances that were never disposed, no instance   *)
(* may be in two lists, and no two frames may work on the same area.       *)
(***************************************************************************)
\* What is on a list was deactivated, and no other list has it; an area no flow
\* has entered is empty.
ItemsOK ==
    /\ \A a \in Area : items[a] \subseteq deactivated
    /\ \A a, b \in Area : a # b => items[a] \cap items[b] = {}
    /\ \A f \in Flow : area[f] # NoArea => status[area[f]] # "unused"
    /\ \A a \in Area : status[a] = "unused" => items[a] = {}

\* Only deactivated instances are disposed; those of an open area are not yet.
CallsOK ==
    /\ \A x \in Instance : calls[x] <= 1
    /\ \A x \in Instance : calls[x] > 0 => x \in deactivated
    /\ \A a \in Area : status[a] = "open" =>
          \A x \in items[a] : calls[x] = 0

\* A frame's own area is in the state the frame's program counter says, and
\* what a drain has left was not disposed.
FrameOK(fr, st, it, ca) ==
    /\ fr.pc \in {"raise", "close"} /\ fr.area # NoArea => st[fr.area] = "open"
    /\ fr.pc = "drain" =>
          /\ fr.area # NoArea /\ st[fr.area] = "draining"
          /\ fr.rest \subseteq it[fr.area]
          /\ \A x \in fr.rest : ca[x] = 0
    /\ fr.pc \in {"clear", "forget"} => fr.area = NoArea

FramesOK ==
    \A f \in Flow : \A i \in DOMAIN stack[f] :
        FrameOK(stack[f][i], status, items, calls)

\* An area belongs to one frame of one flow.
AreasOwned ==
    \A f, g \in Flow : \A i \in DOMAIN stack[f], j \in DOMAIN stack[g] :
        stack[f][i].area # NoArea /\ stack[f][i].area = stack[g][j].area
            => f = g /\ i = j

OnceInv == TypeOK /\ ItemsOK /\ CallsOK /\ FramesOK /\ AreasOwned

\* The steps of a flow change the status of the area of its top frame only, and
\* lists only grow.
OwnAreaOnly(f) ==
    /\ \A a \in Area : a # Top(f).area => status'[a] = status[a]
    /\ \A a \in Area : items[a] \subseteq items'[a]

\* Cutting frames off keeps what holds of the frames below.
LEMMA CutKeepsFrames ==
    ASSUME OnceInv, NEW f \in Flow, stack[f] # <<>>, Pop(f) \/ Unwind(f),
           OwnAreaOnly(f), UNCHANGED calls
    PROVE  FramesOK' /\ AreasOwned'
<1>. DEFINE n == Len(stack[f])
<1>1. StackType
  BY DEF OnceInv, TypeOK, StackType
<1>2. \A g \in Flow : \A i \in DOMAIN stack'[g] :
         /\ i \in DOMAIN stack[g]
         /\ g = f => i < n
         /\ stack'[g][i] = stack[g][i]
  BY <1>1, PopFrames
<1>3. n \in DOMAIN stack[f] /\ n \in Nat /\ Top(f) = stack[f][n]
  BY <1>1, TopFrame DEF Top
<1>4. ASSUME NEW g \in Flow, NEW i \in DOMAIN stack'[g]
      PROVE  FrameOK(stack'[g][i], status', items', calls')
  <2>. DEFINE fr == stack[g][i]
  <2>1. stack'[g][i] = fr /\ i \in DOMAIN stack[g] /\ ~(g = f /\ i = n)
    BY <1>2, <1>3
  <2>2. FrameOK(fr, status, items, calls)
    BY <2>1 DEF OnceInv, FramesOK
  <2>3. fr \in Frame
    BY <1>1, <2>1 DEF StackType
  <2>4. fr.area \in Area => status'[fr.area] = status[fr.area]
    <3>1. fr.area # NoArea => fr.area # stack[f][n].area
      BY <1>3, <2>1 DEF OnceInv, AreasOwned
    <3>. QED  BY <1>3, <3>1, ConstantsAssumption DEF OwnAreaOnly
  <2>5. fr.area \in Area \cup {NoArea}
    BY <2>3 DEF Frame, FrameRecord
  <2>. QED  BY <2>1, <2>2, <2>4, <2>5 DEF FrameOK, OwnAreaOnly
<1>5. FramesOK'
  BY <1>4 DEF FramesOK
<1>6. AreasOwned'
  BY <1>2 DEF OnceInv, AreasOwned
<1>. QED  BY <1>5, <1>6

\* Replacing the top frame keeps what holds of the other frames, if the calls
\* that are made are not on instances another drain has left.
LEMMA SetTopKeepsFrames ==
    ASSUME OnceInv, NEW f \in Flow, stack[f] # <<>>, NEW fr \in Frame,
           SetTop(f, fr), OwnAreaOnly(f), fr.area = Top(f).area,
           FrameOK(fr, status', items', calls'),
           \A g \in Flow : \A i \in DOMAIN stack[g] :
              (g # f \/ i # Len(stack[f])) /\ stack[g][i].pc = "drain" =>
                 \A x \in stack[g][i].rest : calls'[x] = calls[x]
    PROVE  FramesOK' /\ AreasOwned'
<1>. DEFINE n == Len(stack[f])
<1>1. StackType
  BY DEF OnceInv, TypeOK, StackType
<1>2. \A g \in Flow : \A i \in DOMAIN stack'[g] :
         /\ i \in DOMAIN stack[g]
         /\ stack'[g][i] = IF g = f /\ i = n THEN fr ELSE stack[g][i]
  BY <1>1, SetTopFrames
<1>3. n \in DOMAIN stack[f] /\ n \in Nat /\ Top(f) = stack[f][n]
  BY <1>1, TopFrame DEF Top
<1>4. ASSUME NEW g \in Flow, NEW i \in DOMAIN stack'[g]
      PROVE  FrameOK(stack'[g][i], status', items', calls')
  <2>1. CASE g = f /\ i = n
    BY <1>2, <2>1
  <2>2. CASE ~(g = f /\ i = n)
    <3>. DEFINE h == stack[g][i]
    <3>1. stack'[g][i] = h /\ i \in DOMAIN stack[g]
      BY <1>2, <2>2
    <3>2. FrameOK(h, status, items, calls)
      BY <3>1 DEF OnceInv, FramesOK
    <3>3. h \in Frame
      BY <1>1, <3>1 DEF StackType
    <3>4. h.area \in Area => status'[h.area] = status[h.area]
      <4>1. h.area # NoArea => h.area # stack[f][n].area
        BY <1>3, <2>2, <3>1 DEF OnceInv, AreasOwned
      <4>. QED  BY <1>3, <4>1, ConstantsAssumption DEF OwnAreaOnly
    <3>5. h.area \in Area \cup {NoArea}
      BY <3>3 DEF Frame, FrameRecord
    <3>6. h.pc = "drain" => \A x \in h.rest : calls'[x] = calls[x]
      BY <2>2, <3>1
    <3>. QED  BY <3>1, <3>2, <3>4, <3>5, <3>6 DEF FrameOK, OwnAreaOnly
  <2>. QED  BY <2>1, <2>2
<1>5. FramesOK'
  BY <1>4 DEF FramesOK
<1>6. \A g \in Flow : \A i \in DOMAIN stack'[g] :
         i \in DOMAIN stack[g] /\ stack'[g][i].area = stack[g][i].area
  BY <1>2, <1>3
<1>7. AreasOwned'
  BY <1>6 DEF OnceInv, AreasOwned
<1>. QED  BY <1>5, <1>7

\* A frame with an area of its own has one that is open or draining.
LEMMA OwnAreaInUse ==
    ASSUME OnceInv, NEW g \in Flow, NEW i \in DOMAIN stack[g],
           stack[g][i].area # NoArea
    PROVE  stack[g][i].area \in Area /\ status[stack[g][i].area] # "unused"
<1>. DEFINE h == stack[g][i]
<1>1. h \in Frame
  BY DEF OnceInv, TypeOK
<1>2. FrameOK(h, status, items, calls)
  BY DEF OnceInv, FramesOK
<1>3. h.pc \in Pc /\ h.area \in Area \cup {NoArea}
  BY <1>1 DEF Frame, FrameRecord
<1>. QED  BY <1>2, <1>3 DEF FrameOK

\* Pushing frames, the last of which may own an unused area, keeps what holds of
\* the frames.
LEMMA PushKeepsFrames ==
    ASSUME OnceInv, NEW f \in Flow, NEW frames \in Seq(Frame), Push(f, frames),
           UNCHANGED <<items, calls>>,
           \A a \in Area : status[a] # "unused" => status'[a] = status[a],
           \A k \in DOMAIN frames :
              /\ FrameOK(frames[k], status', items', calls')
              /\ frames[k].area # NoArea =>
                    status[frames[k].area] = "unused" /\ k = Len(frames)
    PROVE  FramesOK' /\ AreasOwned'
<1>1. StackType
  BY DEF OnceInv, TypeOK, StackType
<1>. DEFINE Old(g, i) == i \in DOMAIN stack[g] /\ stack'[g][i] = stack[g][i]
            New(g, i) == /\ g = f /\ i \notin DOMAIN stack[g]
                         /\ i - Len(stack[g]) \in DOMAIN frames
                         /\ stack'[g][i] = frames[i - Len(stack[g])]
<1>2. \A g \in Flow : \A i \in DOMAIN stack'[g] : Old(g, i) \/ New(g, i)
  BY <1>1, PushFrames
<1>3. ASSUME NEW g \in Flow, NEW i \in DOMAIN stack'[g]
      PROVE  FrameOK(stack'[g][i], status', items', calls')
  <2>1. CASE Old(g, i)
    <3>. DEFINE h == stack[g][i]
    <3>1. FrameOK(h, status, items, calls)
      BY <2>1 DEF OnceInv, FramesOK
    <3>2. h.area # NoArea => status'[h.area] = status[h.area]
      BY <2>1, OwnAreaInUse
    <3>. QED  BY <2>1, <3>1, <3>2 DEF FrameOK
  <2>2. CASE New(g, i)
    BY <2>2
  <2>. QED  BY <1>2, <2>1, <2>2
<1>4. ASSUME NEW g \in Flow, NEW h \in Flow,
             NEW i \in DOMAIN stack'[g], NEW j \in DOMAIN stack'[h],
             stack'[g][i].area # NoArea, stack'[g][i].area = stack'[h][j].area
      PROVE  g = h /\ i = j
  <2>1. CASE Old(g, i) /\ Old(h, j)
    BY <1>4, <2>1 DEF OnceInv, AreasOwned
  <2>2. CASE Old(g, i) /\ New(h, j)
    BY <1>4, <2>2, OwnAreaInUse
  <2>3. CASE New(g, i) /\ Old(h, j)
    BY <1>4, <2>3, OwnAreaInUse
  <2>4. CASE New(g, i) /\ New(h, j)
    <3>1. g = h /\ i - Len(stack[f]) = Len(frames) /\ j - Len(stack[f]) = Len(frames)
      BY <1>4, <2>4
    <3>2. i \in Nat /\ j \in Nat /\ Len(stack[f]) \in Nat
      <4>1. stack'[g] \in Seq(Frame) /\ stack'[h] \in Seq(Frame) /\ stack[f] \in Seq(Frame)
        BY <1>1, PushFrames DEF StackType
      <4>. QED  BY <4>1
    <3>. QED  BY <3>1, <3>2
  <2>. QED  BY <1>2, <2>1, <2>2, <2>3, <2>4
<1>5. FramesOK'
  BY <1>3 DEF FramesOK
<1>6. AreasOwned'
  BY <1>4 DEF AreasOwned
<1>. QED  BY <1>5, <1>6

\* Entering a scope: its frame owns an area nobody used, or none.
LEMMA EnterScopeOnce ==
    ASSUME OnceInv, NEW f \in Flow, NEW s \in Scope, NEW below \in Seq(Frame),
           EnterScope(f, s, below), UNCHANGED <<items, calls, deactivated>>,
           \A k \in DOMAIN below : below[k].area = NoArea /\ below[k].pc = "clear"
    PROVE  ItemsOK' /\ CallsOK' /\ FramesOK' /\ AreasOwned'
<1>1. s \in Owner /\ s # NoOwner
  BY ConstantsAssumption
<1>. DEFINE top(a) == NewFrame("raise", s, a, {}, {})
            frames(a) == Append(below, top(a))
<1>2. \A a \in Area \cup {NoArea} :
         /\ frames(a) \in Seq(Frame)
         /\ Len(frames(a)) = Len(below) + 1 /\ Len(below) \in Nat
         /\ \A k \in DOMAIN frames(a) :
               \/ k = Len(frames(a)) /\ frames(a)[k] = top(a)
               \/ k \in DOMAIN below /\ frames(a)[k] = below[k]
  <2>. SUFFICES ASSUME NEW a \in Area \cup {NoArea}
                PROVE  /\ frames(a) \in Seq(Frame)
                       /\ Len(frames(a)) = Len(below) + 1 /\ Len(below) \in Nat
                       /\ \A k \in DOMAIN frames(a) :
                             \/ k = Len(frames(a)) /\ frames(a)[k] = top(a)
                             \/ k \in DOMAIN below /\ frames(a)[k] = below[k]
    OBVIOUS
  <2>1. top(a) \in Frame
    BY <1>1, NewFrameType
  <2>. HIDE DEF top
  <2>. QED  BY <2>1
<1>3. \A a : top(a).area = a /\ top(a).pc = "raise"
  BY DEF NewFrame
<1>. HIDE DEF top
<1>4. ASSUME NEW a \in Area, status[a] = "unused", Push(f, frames(a)),
             SetArea(f, a), status' = [status EXCEPT ![a] = "open"]
      PROVE  ItemsOK' /\ CallsOK' /\ FramesOK' /\ AreasOwned'
  <2>1. \A b \in Area : status'[b] = IF b = a THEN "open" ELSE status[b]
    BY <1>4 DEF OnceInv, TypeOK
  <2>2. \A k \in DOMAIN frames(a) :
           /\ FrameOK(frames(a)[k], status', items', calls')
           /\ frames(a)[k].area # NoArea =>
                 status[frames(a)[k].area] = "unused" /\ k = Len(frames(a))
    BY <1>2, <1>3, <1>4, <2>1 DEF FrameOK
  <2>3. CallsOK'
    BY <2>1, <1>4 DEF OnceInv, CallsOK, ItemsOK
  <2>4. frames(a) \in Seq(Frame)
    BY <1>2
  <2>5. ItemsOK'
    <3>1. \A g \in Flow : area'[g] = IF g = f THEN a ELSE area[g]
      BY <1>4 DEF SetArea, OnceInv, TypeOK
    <3>2. \A g \in Flow : area'[g] # NoArea => area'[g] \in Area
      BY <3>1 DEF OnceInv, TypeOK
    <3>. QED  BY <2>1, <3>1, <3>2 DEF OnceInv, ItemsOK
  <2>. HIDE DEF frames
  <2>. QED  BY <1>4, <2>1, <2>2, <2>3, <2>4, <2>5, PushKeepsFrames
<1>5. ASSUME Push(f, frames(NoArea)), UNCHANGED <<area, status>>
      PROVE  ItemsOK' /\ CallsOK' /\ FramesOK' /\ AreasOwned'
  <2>1. \A k \in DOMAIN frames(NoArea) :
           /\ FrameOK(frames(NoArea)[k], status', items', calls')
           /\ frames(NoArea)[k].area = NoArea
    BY <1>2, <1>3 DEF FrameOK
  <2>2. CallsOK'
    BY <1>5 DEF OnceInv, CallsOK
  <2>3. frames(NoArea) \in Seq(Frame)
    BY <1>2
  <2>4. ItemsOK'
    BY <1>5 DEF OnceInv, ItemsOK
  <2>. HIDE DEF frames
  <2>. QED  BY <1>5, <2>1, <2>2, <2>3, <2>4, PushKeepsFrames
<1>6. CASE area[f] = NoArea
  <2>1. PICK a \in Area : /\ status[a] = "unused" /\ SetArea(f, a)
                          /\ status' = [status EXCEPT ![a] = "open"]
                          /\ Push(f, Append(below, NewFrame("raise", s, a, {}, {})))
    BY <1>6 DEF EnterScope
  <2>. QED  BY <1>4, <2>1 DEF top
<1>7. CASE area[f] # NoArea
  BY <1>5, <1>7 DEF EnterScope, top
<1>. QED  BY <1>6, <1>7

\* Registering instances that are deactivated only now keeps the lists apart.
LEMMA RegisterOnce ==
    ASSUME OnceInv, NEW f \in Flow, NEW xs \in SUBSET Instance,
           xs \cap deactivated = {}, Register(area[f], xs),
           deactivated' = deactivated \cup xs, UNCHANGED <<area, status, calls>>
    PROVE  /\ ItemsOK' /\ CallsOK'
           /\ \A a \in Area : items[a] \subseteq items'[a]
<1>1. \A b \in Area : items'[b] = IF b = area[f] THEN items[b] \cup xs ELSE items[b]
  BY DEF Register, OnceInv, TypeOK
<1>2. \A b \in Area : b = area[f] => status[b] # "unused"
  BY ConstantsAssumption DEF OnceInv, ItemsOK
<1>3. ItemsOK'
  <2>1. ASSUME NEW b \in Area
        PROVE  items'[b] \subseteq deactivated'
    <3>1. items[b] \subseteq deactivated
      BY DEF OnceInv, ItemsOK
    <3>2. items'[b] = items[b] \/ items'[b] = items[b] \cup xs
      BY <1>1
    <3>. QED  BY <3>1, <3>2
  <2>2. ASSUME NEW b \in Area, NEW c \in Area, b # c
        PROVE  items'[b] \cap items'[c] = {}
    <3>1. /\ items[b] \cap items[c] = {}
          /\ items[b] \cap xs = {} /\ items[c] \cap xs = {}
      <4>1. items[b] \cap items[c] = {}
        BY <2>2 DEF OnceInv, ItemsOK
      <4>2. \A a \in Area : items[a] \subseteq deactivated
        BY DEF OnceInv, ItemsOK
      <4>. QED  BY <4>1, <4>2
    <3>. QED  BY <3>1, <2>2, <1>1
  <2>3. \A g \in Flow : area'[g] # NoArea => status'[area'[g]] # "unused"
    BY DEF OnceInv, ItemsOK
  <2>4. \A b \in Area : status'[b] = "unused" => items'[b] = {}
    BY <1>1, <1>2 DEF OnceInv, ItemsOK
  <2>. QED  BY <2>1, <2>2, <2>3, <2>4 DEF ItemsOK
<1>4. \A x \in xs : calls[x] = 0
  BY DEF OnceInv, CallsOK, TypeOK
<1>5. CallsOK'
  BY <1>1, <1>4 DEF OnceInv, CallsOK
<1>. QED  BY <1>1, <1>3, <1>5

\* Disposing an instance that waits in no open area and no other drain.
LEMMA BeginDisposeOnce ==
    ASSUME OnceInv, NEW x \in Instance, calls[x] = 0, BeginDispose(x)
    PROVE  /\ calls'[x] \in {0, 1}
           /\ \A y \in Instance : y # x => calls'[y] = calls[y]
<1>1. CASE x \in Disposable \ gone
  BY <1>1 DEF BeginDispose, OnceInv, TypeOK
<1>2. CASE x \notin Disposable \ gone
  BY <1>2 DEF BeginDispose, OnceInv, TypeOK
<1>. QED  BY <1>1, <1>2

\* No operation disposes an instance a second time.
LEMMA OnceStep == OnceInv /\ [Next]_vars => OnceInv'
<1>. SUFFICES ASSUME OnceInv, [Next]_vars
              PROVE  ItemsOK' /\ CallsOK' /\ FramesOK' /\ AreasOwned'
  BY TypeStep DEF OnceInv
<1>. DEFINE Goal == ItemsOK' /\ CallsOK' /\ FramesOK' /\ AreasOwned'
<1>t. TypeOK
  BY DEF OnceInv
<1>f. ASSUME NEW f \in Flow, stack[f] # <<>>
      PROVE  /\ Top(f) \in Frame /\ FrameOK(Top(f), status, items, calls)
             /\ Top(f) = stack[f][Len(stack[f])] /\ Len(stack[f]) \in DOMAIN stack[f]
  BY <1>t, <1>f, TopFrame DEF OnceInv, FramesOK, TypeOK, StackType, Top
<1>1. ASSUME NEW f \in Flow, LibraryStep(f) PROVE Goal
  <2>1. CASE RaiseDisposed(f)
    <3>. DEFINE s == Top(f).owner
                xs == Pending(Entries(s))
    <3>1. stack[f] # <<>> /\ Top(f).pc = "raise"
      BY <2>1 DEF RaiseDisposed, At
    <3>2. s \in Owner
      BY <1>f, <3>1 DEF Frame, FrameRecord
    <3>3. xs \in SUBSET Instance /\ xs \cap deactivated = {}
      BY <3>2, <1>t DEF TypeOK, Pending, Entries
    <3>. HIDE DEF xs
    <3>4. /\ Register(area[f], xs) /\ deactivated' = deactivated \cup xs
          /\ UNCHANGED <<area, status, calls>>
      BY <2>1 DEF RaiseDisposed, xs
    <3>5. ItemsOK' /\ CallsOK' /\ \A a \in Area : items[a] \subseteq items'[a]
      BY <3>3, <3>4, RegisterOnce
    <3>6. OwnAreaOnly(f)
      BY <3>4, <3>5 DEF OwnAreaOnly
    <3>. DEFINE fr == [Top(f) EXCEPT !.pc = "close"]
    <3>7. fr \in Frame
      BY <1>f, <3>1, FrameUpdate
    <3>8. fr.pc = "close" /\ fr.area = Top(f).area
      BY <1>f, <3>1 DEF Frame, FrameRecord
    <3>9. SetTop(f, fr)
      BY <2>1 DEF RaiseDisposed
    <3>. HIDE DEF fr
    <3>10. FrameOK(fr, status', items', calls')
      BY <1>f, <3>1, <3>4, <3>8 DEF FrameOK
    <3>. QED  BY <3>1, <3>4, <3>5, <3>6, <3>7, <3>8, <3>9, <3>10, SetTopKeepsFrames
  <2>2. CASE RaiseFails(f)
    <3>1. /\ stack[f] # <<>> /\ Unwind(f) /\ deactivated \subseteq deactivated'
          /\ UNCHANGED <<calls, area, items, status>>
      BY <2>2 DEF RaiseFails, At
    <3>2. OwnAreaOnly(f)
      BY <3>1 DEF OwnAreaOnly
    <3>3. ItemsOK' /\ CallsOK'
      BY <3>1 DEF OnceInv, ItemsOK, CallsOK
    <3>. QED  BY <3>1, <3>2, <3>3, CutKeepsFrames
  <2>3. CASE CloseInner(f)
    <3>1. /\ stack[f] # <<>> /\ Pop(f)
          /\ UNCHANGED <<calls, area, items, status, deactivated>>
      BY <2>3 DEF CloseInner, At
    <3>2. OwnAreaOnly(f)
      BY <3>1 DEF OwnAreaOnly
    <3>3. ItemsOK' /\ CallsOK'
      BY <3>1 DEF OnceInv, ItemsOK, CallsOK
    <3>. QED  BY <3>1, <3>2, <3>3, CutKeepsFrames
  <2>4. CASE CloseEmpty(f)
    <3>1. /\ stack[f] # <<>> /\ Pop(f)
          /\ status' = [status EXCEPT ![Top(f).area] = "abandoned"]
          /\ UNCHANGED <<calls, area, items, deactivated>>
      BY <2>4 DEF CloseEmpty, At
    <3>2. \A a \in Area : status'[a] = IF a = Top(f).area THEN "abandoned" ELSE status[a]
      BY <1>t, <3>1 DEF TypeOK
    <3>3. OwnAreaOnly(f)
      BY <3>1, <3>2 DEF OwnAreaOnly
    <3>4. ItemsOK' /\ CallsOK'
      BY <1>t, <3>1, <3>2 DEF OnceInv, ItemsOK, CallsOK, TypeOK
    <3>. QED  BY <3>1, <3>3, <3>4, CutKeepsFrames
  <2>5. CASE StartDrain(f)
    <3>. DEFINE a == Top(f).area
                fr == [Top(f) EXCEPT !.pc = "drain", !.rest = items[a]]
    <3>1. /\ stack[f] # <<>> /\ Top(f).pc = "close" /\ a # NoArea /\ SetTop(f, fr)
          /\ status' = [status EXCEPT ![a] = "draining"]
          /\ UNCHANGED <<calls, area, items, deactivated>>
      BY <2>5 DEF StartDrain, At
    <3>2. a \in Area /\ status[a] = "open"
      BY <1>f, <3>1 DEF Frame, FrameRecord, FrameOK
    <3>3. items[a] \in SUBSET Instance
      BY <1>t, <3>2 DEF TypeOK
    <3>4. fr \in Frame
      BY <1>f, <3>1, <3>3, FrameUpdate
    <3>5. fr.pc = "drain" /\ fr.area = a /\ fr.rest = items[a]
      BY <1>f, <3>1 DEF Frame, FrameRecord
    <3>. HIDE DEF fr
    <3>6. \A b \in Area : status'[b] = IF b = a THEN "draining" ELSE status[b]
      BY <1>t, <3>1 DEF TypeOK
    <3>7. FrameOK(fr, status', items', calls')
      BY <3>1, <3>2, <3>5, <3>6 DEF FrameOK, OnceInv, CallsOK
    <3>8. OwnAreaOnly(f)
      BY <3>1, <3>6 DEF OwnAreaOnly
    <3>9. ItemsOK' /\ CallsOK'
      BY <1>t, <3>1, <3>2, <3>6 DEF OnceInv, ItemsOK, CallsOK, TypeOK
    <3>. QED  BY <3>1, <3>4, <3>5, <3>7, <3>8, <3>9, SetTopKeepsFrames
  <2>6. CASE DisposeNext(f)
    <3>. DEFINE a == Top(f).area
    <3>1. stack[f] # <<>> /\ Top(f).pc = "drain"
      BY <2>6 DEF DisposeNext, At
    <3>2. PICK x \in Top(f).rest :
             /\ BeginDispose(x)
             /\ SetTop(f, [Top(f) EXCEPT !.rest = @ \ {x}, !.running = Running(x)])
      BY <2>6 DEF DisposeNext, Drainable
    <3>. DEFINE fr == [Top(f) EXCEPT !.rest = @ \ {x}, !.running = Running(x)]
    <3>3. /\ a \in Area /\ status[a] = "draining" /\ Top(f).rest \subseteq items[a]
          /\ \A y \in Top(f).rest : calls[y] = 0
      BY <1>f, <3>1 DEF Frame, FrameRecord, FrameOK
    <3>4. x \in Instance /\ x \in items[a] /\ calls[x] = 0 /\ x \in deactivated
      BY <1>t, <3>2, <3>3 DEF TypeOK, OnceInv, ItemsOK
    <3>5. calls'[x] \in {0, 1} /\ \A y \in Instance : y # x => calls'[y] = calls[y]
      BY <3>2, <3>4, BeginDisposeOnce
    <3>6. UNCHANGED <<deactivated, area, items, status>>
      BY <2>6 DEF DisposeNext
    <3>7. /\ fr \in Frame
          /\ fr.pc = "drain" /\ fr.area = a /\ fr.rest = Top(f).rest \ {x}
      <4>1. Top(f) \in Frame /\ x \in Instance
        BY <1>f, <3>1, <3>4 DEF Frame, FrameRecord
      <4>. QED  BY <3>1, <3>4, <4>1, RunningUpdate
    <3>8. SetTop(f, fr)
      BY <3>2
    <3>. HIDE DEF fr
    <3>9. \A y \in items[a] : y \in Instance
      BY <1>t, <3>3 DEF TypeOK
    <3>10. FrameOK(fr, status', items', calls')
      BY <3>1, <3>3, <3>5, <3>6, <3>7, <3>9, ConstantsAssumption DEF FrameOK
    <3>11. ItemsOK'
      BY <3>6 DEF OnceInv, ItemsOK
    <3>12. CallsOK'
      <4>1. \A y \in Instance : calls'[y] <= 1 /\ (calls'[y] > 0 => y \in deactivated)
        BY <3>4, <3>5 DEF OnceInv, CallsOK
      <4>2. \A b \in Area : status[b] = "open" => x \notin items[b]
        BY <3>3, <3>4 DEF OnceInv, ItemsOK
      <4>3. \A b \in Area : status[b] = "open" => \A y \in items[b] : calls'[y] = 0
        BY <1>t, <3>5, <4>2 DEF OnceInv, CallsOK, TypeOK
      <4>. QED  BY <3>6, <4>1, <4>3 DEF CallsOK
    <3>13. ASSUME NEW g \in Flow, NEW i \in DOMAIN stack[g],
                  g # f \/ i # Len(stack[f]), stack[g][i].pc = "drain",
                  NEW y \in stack[g][i].rest
           PROVE  calls'[y] = calls[y]
      <4>1. FrameOK(stack[g][i], status, items, calls)
        BY DEF OnceInv, FramesOK
      <4>2. stack[g][i].area # NoArea /\ y \in items[stack[g][i].area]
        BY <3>13, <4>1 DEF FrameOK
      <4>3. stack[g][i].area \in Area
        BY <4>2, OwnAreaInUse
      <4>4. stack[g][i].area # a
        BY <1>f, <3>1, <3>13, <4>2 DEF OnceInv, AreasOwned
      <4>5. y # x /\ y \in Instance
        BY <1>t, <3>3, <3>4, <4>2, <4>3, <4>4 DEF OnceInv, ItemsOK, TypeOK
      <4>. QED  BY <3>5, <4>5
    <3>14. OwnAreaOnly(f)
      BY <3>6 DEF OwnAreaOnly
    <3>. QED  BY <3>1, <3>7, <3>8, <3>10, <3>11, <3>12, <3>13, <3>14, SetTopKeepsFrames
  <2>7. CASE FinishDrain(f)
    <3>. DEFINE a == Top(f).area
    <3>1. /\ stack[f] # <<>> /\ Top(f).pc = "drain" /\ Pop(f)
          /\ status' = [status EXCEPT ![a] = "closed"]
          /\ area' = [area EXCEPT ![f] = NoArea]
          /\ UNCHANGED <<calls, items, deactivated>>
      BY <2>7 DEF FinishDrain, At, ResetArea, SetArea
    <3>2. /\ \A b \in Area : status'[b] = IF b = a THEN "closed" ELSE status[b]
          /\ \A g \in Flow : area'[g] = IF g = f THEN NoArea ELSE area[g]
      BY <1>t, <3>1 DEF TypeOK
    <3>3. OwnAreaOnly(f)
      BY <3>1, <3>2 DEF OwnAreaOnly
    <3>4. ItemsOK' /\ CallsOK'
      BY <1>t, <3>1, <3>2 DEF OnceInv, ItemsOK, CallsOK, TypeOK
    <3>. QED  BY <3>1, <3>3, <3>4, CutKeepsFrames
  <2>8. CASE KernelClear(f)
    <3>. DEFINE fr == NewFrame("forget", Kernel, NoArea, AllEntries, Instance)
    <3>1. /\ stack[f] # <<>> /\ Top(f).pc = "clear" /\ SetTop(f, fr)
          /\ UNCHANGED <<calls, area, items, status, deactivated>>
      BY <2>8 DEF KernelClear, At
    <3>2. fr \in Frame
      BY <1>t, NewFrameType, ConstantsAssumption DEF AllEntries, TypeOK
    <3>3. fr.pc = "forget" /\ fr.area = NoArea
      BY DEF NewFrame
    <3>. HIDE DEF fr
    <3>4. Top(f).area = NoArea /\ FrameOK(fr, status', items', calls')
      BY <1>f, <3>1, <3>3 DEF FrameOK
    <3>5. OwnAreaOnly(f)
      BY <3>1 DEF OwnAreaOnly
    <3>6. ItemsOK' /\ CallsOK'
      BY <3>1 DEF OnceInv, ItemsOK, CallsOK
    <3>. QED  BY <3>1, <3>2, <3>3, <3>4, <3>5, <3>6, SetTopKeepsFrames
  <2>9. CASE ForgetNow(f)
    <3>1. /\ stack[f] # <<>> /\ Top(f).pc = "forget"
          /\ UNCHANGED <<area, items, status>>
      BY <2>9 DEF ForgetNow, At
    <3>2. PICK x \in Pending(Top(f).rest) :
             /\ deactivated' = deactivated \cup {x}
             /\ BeginDispose(x)
             /\ SetTop(f, [Top(f) EXCEPT !.rest = @ \ {x}, !.running = Running(x)])
      BY <2>9 DEF ForgetNow
    <3>. DEFINE fr == [Top(f) EXCEPT !.rest = @ \ {x}, !.running = Running(x)]
    <3>3. x \in Instance /\ x \notin deactivated /\ calls[x] = 0
      BY <1>f, <1>t, <3>1, <3>2 DEF Frame, FrameRecord, Pending, TypeOK, OnceInv, CallsOK
    <3>4. calls'[x] \in {0, 1} /\ \A y \in Instance : y # x => calls'[y] = calls[y]
      BY <3>2, <3>3, BeginDisposeOnce
    <3>5. fr \in Frame /\ fr.pc = "forget" /\ fr.area = Top(f).area
      <4>1. Top(f) \in Frame /\ x \in Instance
        BY <1>f, <3>1, <3>3 DEF Frame, FrameRecord
      <4>. QED  BY <3>1, <3>3, <4>1, RunningUpdate
    <3>6. SetTop(f, fr)
      BY <3>2
    <3>. HIDE DEF fr
    <3>7. FrameOK(fr, status', items', calls')
      BY <1>f, <3>1, <3>5 DEF FrameOK
    <3>8. \A b \in Area : x \notin items[b] /\ items[b] \subseteq Instance
      BY <1>t, <3>3 DEF OnceInv, ItemsOK, TypeOK
    <3>9. ItemsOK'
      BY <3>1, <3>2 DEF OnceInv, ItemsOK
    <3>10. CallsOK'
      BY <3>1, <3>2, <3>3, <3>4, <3>8 DEF OnceInv, CallsOK
    <3>11. ASSUME NEW g \in Flow, NEW i \in DOMAIN stack[g],
                  stack[g][i].pc = "drain", NEW y \in stack[g][i].rest
           PROVE  calls'[y] = calls[y]
      <4>1. FrameOK(stack[g][i], status, items, calls)
        BY DEF OnceInv, FramesOK
      <4>2. stack[g][i].area # NoArea /\ y \in items[stack[g][i].area]
        BY <3>11, <4>1 DEF FrameOK
      <4>. QED  BY <3>4, <3>8, <4>2, OwnAreaInUse
    <3>12. OwnAreaOnly(f)
      BY <3>1 DEF OwnAreaOnly
    <3>. QED  BY <3>1, <3>5, <3>6, <3>7, <3>9, <3>10, <3>11, <3>12, SetTopKeepsFrames
  <2>10. CASE ForgetIntoArea(f)
    <3>1. /\ stack[f] # <<>> /\ Top(f).pc = "forget"
          /\ UNCHANGED <<area, calls, status>>
      BY <2>10 DEF ForgetIntoArea, At
    <3>2. PICK x \in Pending(Top(f).rest) :
             /\ deactivated' = deactivated \cup {x}
             /\ Register(area[f], {x})
             /\ SetTop(f, [Top(f) EXCEPT !.rest = @ \ {x}])
      BY <2>10 DEF ForgetIntoArea
    <3>. DEFINE fr == [Top(f) EXCEPT !.rest = @ \ {x}]
    <3>3. {x} \in SUBSET Instance /\ {x} \cap deactivated = {}
      BY <1>f, <3>1, <3>2 DEF Frame, FrameRecord, Pending
    <3>4. ItemsOK' /\ CallsOK' /\ \A a \in Area : items[a] \subseteq items'[a]
      BY <3>1, <3>2, <3>3, RegisterOnce
    <3>5. fr \in Frame /\ fr.pc = "forget" /\ fr.area = Top(f).area
      BY <1>f, <3>1 DEF Frame, FrameRecord
    <3>6. SetTop(f, fr)
      BY <3>2
    <3>. HIDE DEF fr
    <3>7. FrameOK(fr, status', items', calls')
      BY <1>f, <3>1, <3>5 DEF FrameOK
    <3>8. OwnAreaOnly(f)
      BY <3>1, <3>4 DEF OwnAreaOnly
    <3>. QED  BY <3>1, <3>4, <3>5, <3>6, <3>7, <3>8, SetTopKeepsFrames
  <2>11. CASE ForgetFails(f)
    <3>1. /\ stack[f] # <<>> /\ Unwind(f) /\ deactivated \subseteq deactivated'
          /\ UNCHANGED <<calls, area, items, status>>
      BY <2>11 DEF ForgetFails, At
    <3>2. OwnAreaOnly(f)
      BY <3>1 DEF OwnAreaOnly
    <3>3. ItemsOK' /\ CallsOK'
      BY <3>1 DEF OnceInv, ItemsOK, CallsOK
    <3>. QED  BY <3>1, <3>2, <3>3, CutKeepsFrames
  <2>12. CASE FinishForget(f)
    <3>1. /\ stack[f] # <<>> /\ Pop(f)
          /\ UNCHANGED <<calls, area, items, status, deactivated>>
      BY <2>12 DEF FinishForget, At
    <3>2. OwnAreaOnly(f)
      BY <3>1 DEF OwnAreaOnly
    <3>3. ItemsOK' /\ CallsOK'
      BY <3>1 DEF OnceInv, ItemsOK, CallsOK
    <3>. QED  BY <3>1, <3>2, <3>3, CutKeepsFrames
  <2>. QED  BY <1>1, <2>1, <2>2, <2>3, <2>4, <2>5, <2>6, <2>7, <2>8, <2>9,
               <2>10, <2>11, <2>12 DEF LibraryStep
<1>2. ASSUME NEW f \in Flow, ApplicationStep(f) PROVE Goal
  <2>1. ASSUME NEW x \in Instance, NEW o \in Owner,
               Resolve(f, x, o) \/ Share(f, x, o)
        PROVE  Goal
    BY <2>1 DEF Resolve, Share, OnceInv, ItemsOK, CallsOK, FramesOK, AreasOwned
  <2>2. ASSUME NEW s \in Scope, DisposeScope(f, s) PROVE Goal
    <3>1. <<>> \in Seq(Frame) /\ DOMAIN <<>> = {}
      OBVIOUS
    <3>. QED  BY <2>2, <3>1, EnterScopeOnce DEF DisposeScope
  <2>3. CASE DisposeKernel(f)
    <3>. DEFINE fr == NewFrame("clear", Kernel, NoArea, {}, {})
    <3>1. fr \in Frame
      BY NewFrameType, ConstantsAssumption
    <3>2. fr.area = NoArea /\ fr.pc = "clear"
      BY DEF NewFrame
    <3>3. EnterScope(f, Root, <<fr>>) /\ UNCHANGED <<items, calls, deactivated>>
      BY <2>3 DEF DisposeKernel
    <3>. HIDE DEF fr
    <3>4. <<fr>> \in Seq(Frame) /\ \A k \in DOMAIN <<fr>> : <<fr>>[k] = fr
      BY <3>1
    <3>. QED  BY <3>2, <3>3, <3>4, EnterScopeOnce, ConstantsAssumption
  <2>4. ASSUME NEW o \in Owner \cup {NoOwner}, NEW rest \in SUBSET Instance,
               NEW purge \in SUBSET Instance,
               Push(f, <<NewFrame("forget", o, NoArea, rest, purge)>>),
               UNCHANGED <<deactivated, calls, area, items, status>>
        PROVE  Goal
    <3>. DEFINE fr == NewFrame("forget", o, NoArea, rest, purge)
    <3>1. fr \in Frame
      BY NewFrameType
    <3>2. fr.area = NoArea /\ fr.pc = "forget"
      BY DEF NewFrame
    <3>3. Push(f, <<fr>>)
      BY <2>4
    <3>. HIDE DEF fr
    <3>4. <<fr>> \in Seq(Frame) /\ \A k \in DOMAIN <<fr>> : <<fr>>[k] = fr
      BY <3>1
    <3>5. FrameOK(fr, status', items', calls')
      BY <3>2 DEF FrameOK
    <3>6. ItemsOK' /\ CallsOK'
      BY <2>4 DEF OnceInv, ItemsOK, CallsOK
    <3>. QED  BY <2>4, <3>2, <3>3, <3>4, <3>5, <3>6, PushKeepsFrames
  <2>5. ASSUME NEW p \in RequestScope, DisposeRequestScope(f, p) PROVE Goal
    <3>1. cached[p] \in SUBSET Instance /\ {} \in SUBSET Instance
      BY <1>t DEF TypeOK
    <3>. QED  BY <2>4, <2>5, <3>1 DEF DisposeRequestScope
  <2>6. ASSUME NEW x \in Instance, Release(f, x) PROVE Goal
    BY <2>4, <2>6 DEF Release
  <2>7. CASE DisposeReturns(f)
    <3>. DEFINE fr == [Top(f) EXCEPT !.running = NoInstance]
    <3>1. /\ stack[f] # <<>> /\ SetTop(f, fr)
          /\ UNCHANGED <<deactivated, calls, area, items, status>>
      BY <2>7 DEF DisposeReturns, InDispose
    <3>2. /\ fr \in Frame /\ fr.area = Top(f).area
          /\ fr.pc = Top(f).pc /\ fr.rest = Top(f).rest
      BY <1>f, <3>1 DEF Frame, FrameRecord
    <3>. HIDE DEF fr
    <3>3. FrameOK(fr, status', items', calls')
      BY <1>f, <3>1, <3>2 DEF FrameOK
    <3>4. OwnAreaOnly(f)
      BY <3>1 DEF OwnAreaOnly
    <3>5. ItemsOK' /\ CallsOK'
      BY <3>1 DEF OnceInv, ItemsOK, CallsOK
    <3>. QED  BY <3>1, <3>2, <3>3, <3>4, <3>5, SetTopKeepsFrames
  <2>8. CASE DisposeThrows(f)
    <3>1. /\ stack[f] # <<>> /\ Unwind(f)
          /\ status' = IF Top(f).pc = "drain"
                       THEN [status EXCEPT ![Top(f).area] = "abandoned"] ELSE status
          /\ UNCHANGED <<deactivated, calls, area, items>>
      BY <2>8 DEF DisposeThrows, InDispose
    <3>2. \A b \in Area :
             status'[b] = IF Top(f).pc = "drain" /\ b = Top(f).area THEN "abandoned"
                          ELSE status[b]
      BY <1>t, <3>1 DEF TypeOK
    <3>3. OwnAreaOnly(f)
      BY <3>1, <3>2 DEF OwnAreaOnly
    <3>4. ItemsOK' /\ CallsOK'
      BY <1>t, <3>1, <3>2 DEF OnceInv, ItemsOK, CallsOK, TypeOK
    <3>. QED  BY <3>1, <3>3, <3>4, CutKeepsFrames
  <2>9. ASSUME NEW g \in Flow, Fork(f, g) PROVE Goal
    <3>1. /\ area' = [area EXCEPT ![g] = area[f]]
          /\ UNCHANGED <<stack, deactivated, calls, items, status>>
      BY <2>9 DEF Fork
    <3>2. \A h \in Flow : area'[h] = IF h = g THEN area[f] ELSE area[h]
      BY <1>t, <3>1 DEF TypeOK
    <3>3. ItemsOK'
      BY <3>1, <3>2 DEF OnceInv, ItemsOK
    <3>. QED  BY <3>1, <3>3 DEF OnceInv, CallsOK, FramesOK, AreasOwned
  <2>. QED  BY <1>2, <2>1, <2>2, <2>3, <2>5, <2>6, <2>7, <2>8, <2>9
            DEF ApplicationStep
<1>3. ASSUME NEW x \in Instance, Collect(x) PROVE Goal
  BY <1>3 DEF Collect, OnceInv, ItemsOK, CallsOK, FramesOK, AreasOwned
<1>4. CASE UNCHANGED vars
  BY <1>4 DEF vars, OnceInv, ItemsOK, CallsOK, FramesOK, AreasOwned
<1>. QED  BY <1>1, <1>2, <1>3, <1>4 DEF Next

\* It holds at the start.
LEMMA OnceInit == Init => OnceInv
<1>. SUFFICES ASSUME Init PROVE OnceInv
  OBVIOUS
<1>1. TypeOK
  BY ConstantsAssumption DEF Init, TypeOK
<1>2. ItemsOK /\ CallsOK /\ FramesOK /\ AreasOwned
  BY DEF Init, ItemsOK, CallsOK, FramesOK, AreasOwned
<1>. QED  BY <1>1, <1>2 DEF OnceInv

\* No instance is disposed twice, for any number of flows, scopes and areas.
THEOREM DisposedOnce == Spec => []DisposeOnce
<1>1. OnceInv => DisposeOnce
  BY DEF OnceInv, CallsOK, DisposeOnce
<1>. QED  BY <1>1, OnceInit, OnceStep, PTL DEF Spec

=============================================================================
