-------------------------- MODULE DisposalLossProofs -------------------------
(***************************************************************************)
(* Which instances ScopeDisposal can lose, for every number of flows,      *)
(* scopes, instances and areas: a flow that is in no call has at most an   *)
(* abandoned area (FlowInv); where flows neither fork nor call into the    *)
(* library from a Dispose method (Straight), what went out of scope is     *)
(* disposed or on the list of such an area (LossInv), nothing is forgotten *)
(* without being deactivated (TrackInv) and the kernel leaves nothing      *)
(* behind (KernelOK).  In an application that is Steady no service is      *)
(* lost at all (SteadyOK).                                                 *)
(***************************************************************************)
EXTENDS ScopeDisposalProofs

USE DEF Owner, Pc, Allows

-----------------------------------------------------------------------------
(***************************************************************************)
(* What is left of the collector areas.  A flow's area is that of a call   *)
(* the flow is in, or was abandoned.                                       *)
(***************************************************************************)
\* The frames that a flow keeps when it pushes frames, sets or pops its top.
LEMMA PushStays ==
    ASSUME StackType, NEW f \in Flow, NEW frames \in Seq(Frame), Push(f, frames)
    PROVE  \A g \in Flow : \A i \in DOMAIN stack[g] :
              i \in DOMAIN stack'[g] /\ stack'[g][i] = stack[g][i]
  BY DEF StackType, Push

LEMMA SetTopStays ==
    ASSUME StackType, NEW f \in Flow, stack[f] # <<>>, NEW fr \in Frame,
           SetTop(f, fr)
    PROVE  \A g \in Flow : \A i \in DOMAIN stack[g] :
              /\ i \in DOMAIN stack'[g]
              /\ stack'[g][i] = IF g = f /\ i = Len(stack[f]) THEN fr ELSE stack[g][i]
  BY TopFrame DEF StackType, SetTop

LEMMA PopStays ==
    ASSUME StackType, NEW f \in Flow, stack[f] # <<>>, Pop(f) \/ Unwind(f)
    PROVE  \A g \in Flow : \A i \in DOMAIN stack[g] :
              \/ g = f /\ i = Len(stack[f])
              \/ g = f /\ Unwind(f) /\ stack[g][i].pc = "clear"
              \/ i \in DOMAIN stack'[g] /\ stack'[g][i] = stack[g][i]
<1>. DEFINE n == Len(stack[f])
<1>1. n \in Nat \ {0} /\ \A g \in Flow : stack[g] \in Seq(Frame)
  BY TopFrame DEF StackType
<1>2. CASE Pop(f)
  BY <1>1, <1>2 DEF Pop, StackType
<1>3. CASE Unwind(f) /\ n > 1 /\ stack[f][n - 1].pc = "clear"
  <2>1. stack' = [stack EXCEPT ![f] = SubSeq(@, 1, n - 2)]
    BY <1>3 DEF Unwind, StackType
  <2>. QED  BY <1>1, <1>3, <2>1 DEF StackType
<1>4. CASE Unwind(f) /\ ~(n > 1 /\ stack[f][n - 1].pc = "clear")
  <2>1. stack' = [stack EXCEPT ![f] = SubSeq(@, 1, n - 1)]
    BY <1>4 DEF Unwind, StackType
  <2>. QED  BY <1>1, <1>4, <2>1 DEF StackType
<1>. QED  BY <1>2, <1>3, <1>4

\* A Dispose method of a service runs in a drain or in the cache.
RunningOK ==
    \A f \in Flow : \A i \in DOMAIN stack[f] :
        stack[f][i].running # NoInstance => stack[f][i].pc \in {"drain", "forget"}

\* A call the flow is in owns the area.
OwnedBy(f, a) == \E i \in DOMAIN stack[f] : stack[f][i].area = a

FlowAreasOK ==
    /\ Main \subseteq started
    /\ \A f \in Main : area[f] # NoArea =>
          status[area[f]] = "abandoned" \/ OwnedBy(f, area[f])

FlowInv == OnceInv /\ RunningOK /\ FlowAreasOK

\* The area of a call is open or drains.
LEMMA OwnedInUse ==
    ASSUME OnceInv, NEW f \in Flow, NEW a \in Area, OwnedBy(f, a)
    PROVE  status[a] \in {"open", "draining"}
<1>1. PICK i \in DOMAIN stack[f] : stack[f][i].area = a
  BY DEF OwnedBy
<1>2. FrameOK(stack[f][i], status, items, calls) /\ stack[f][i] \in Frame
  BY DEF OnceInv, FramesOK, TypeOK
<1>. QED  BY <1>1, <1>2, ConstantsAssumption DEF FrameOK, Frame, FrameRecord

\* No flow finds its area closed, but for a forked one.
LEMMA NotClosed ==
    ASSUME FlowInv, NEW f \in Main, area[f] # NoArea
    PROVE  area[f] \in Area /\ status[area[f]] # "closed"
<1>1. f \in Flow /\ area[f] \in Area
  BY ConstantsAssumption DEF FlowInv, OnceInv, TypeOK
<1>. QED  BY <1>1, OwnedInUse DEF FlowInv, FlowAreasOK

\* Nothing changes for a flow as long as its calls keep their areas.
LEMMA AreasStay ==
    ASSUME FlowInv, UNCHANGED area, Main \subseteq started',
           \A a \in Area : status[a] = "abandoned" => status'[a] = "abandoned",
           \A g \in Main, a \in Area :
              OwnedBy(g, a) => OwnedBy(g, a)' \/ status'[a] = "abandoned"
    PROVE  FlowAreasOK'
  BY ConstantsAssumption DEF FlowInv, FlowAreasOK, OnceInv, TypeOK

\* A flow leaves a call, whose area is abandoned if it had one.
LEMMA LeaveCall ==
    ASSUME FlowInv, NEW f \in Flow, stack[f] # <<>>, Pop(f) \/ Unwind(f),
           UNCHANGED area, Main \subseteq started',
           \A a \in Area : status[a] = "abandoned" => status'[a] = "abandoned",
           Top(f).area # NoArea => status'[Top(f).area] = "abandoned"
    PROVE  RunningOK' /\ FlowAreasOK'
<1>1. StackType
  BY DEF FlowInv, OnceInv, TypeOK, StackType
<1>2. RunningOK'
  BY <1>1, PopFrames DEF FlowInv, RunningOK
<1>3. ASSUME NEW g \in Main, NEW a \in Area, OwnedBy(g, a)
      PROVE  OwnedBy(g, a)' \/ status'[a] = "abandoned"
  <2>1. PICK i \in DOMAIN stack[g] : stack[g][i].area = a
    BY <1>3 DEF OwnedBy
  <2>2. stack[g][i].pc # "clear" /\ g \in Flow
    BY <2>1, ConstantsAssumption DEF FlowInv, OnceInv, FramesOK, FrameOK
  <2>3. \/ g = f /\ i = Len(stack[f])
        \/ i \in DOMAIN stack'[g] /\ stack'[g][i] = stack[g][i]
    BY <1>1, <2>2, PopStays
  <2>. QED  BY <2>1, <2>3, ConstantsAssumption DEF OwnedBy, Top
<1>. QED  BY <1>2, <1>3, AreasStay

\* A flow goes on with a call.
LEMMA GoOn ==
    ASSUME FlowInv, NEW f \in Flow, stack[f] # <<>>, NEW fr \in Frame, SetTop(f, fr),
           UNCHANGED area, Main \subseteq started', fr.area = Top(f).area,
           fr.running # NoInstance => fr.pc \in {"drain", "forget"},
           \A a \in Area : status[a] = "abandoned" => status'[a] = "abandoned"
    PROVE  RunningOK' /\ FlowAreasOK'
<1>1. StackType
  BY DEF FlowInv, OnceInv, TypeOK, StackType
<1>2. RunningOK'
  BY <1>1, SetTopFrames DEF FlowInv, RunningOK
<1>3. ASSUME NEW g \in Main, NEW a \in Area, OwnedBy(g, a)
      PROVE  OwnedBy(g, a)'
  <2>1. PICK i \in DOMAIN stack[g] : stack[g][i].area = a
    BY <1>3 DEF OwnedBy
  <2>2. /\ i \in DOMAIN stack'[g] /\ g \in Flow
        /\ stack'[g][i] = IF g = f /\ i = Len(stack[f]) THEN fr ELSE stack[g][i]
    BY <1>1, SetTopStays, ConstantsAssumption
  <2>. QED  BY <2>1, <2>2 DEF OwnedBy, Top
<1>. QED  BY <1>2, <1>3, AreasStay

\* A flow pushes frames, and the others keep theirs.
LEMMA EnterCall ==
    ASSUME FlowInv, NEW f \in Flow, NEW frames \in Seq(Frame), Push(f, frames),
           Main \subseteq started', \A k \in DOMAIN frames : frames[k].running = NoInstance,
           \A g \in Flow : area'[g] = area[g] \/ OwnedBy(g, area[g])',
           \A a \in Area : status[a] = "abandoned" => status'[a] = "abandoned"
    PROVE  RunningOK' /\ FlowAreasOK'
<1>1. StackType
  BY DEF FlowInv, OnceInv, TypeOK, StackType
<1>2. RunningOK'
  BY <1>1, PushFrames DEF FlowInv, RunningOK
<1>3. \A g \in Flow, a \in Area : OwnedBy(g, a) => OwnedBy(g, a)'
  BY <1>1, PushStays DEF OwnedBy
<1>4. ASSUME NEW g \in Main, area'[g] # NoArea
      PROVE  status'[area'[g]] = "abandoned" \/ OwnedBy(g, area[g])'
  <2>1. g \in Flow /\ area[g] \in Area \cup {NoArea}
    BY ConstantsAssumption DEF FlowInv, OnceInv, TypeOK
  <2>2. CASE area'[g] = area[g]
    <3>. DEFINE a == area[g]
    <3>1. a \in Area /\ area'[g] = a /\ (status[a] = "abandoned" \/ OwnedBy(g, a))
      BY <1>4, <2>1, <2>2 DEF FlowInv, FlowAreasOK
    <3>2. OwnedBy(g, a) => OwnedBy(g, area[g])'
      BY <1>3, <2>1, <3>1 DEF OwnedBy
    <3>. QED  BY <3>1, <3>2
  <2>. QED  BY <2>1, <2>2
<1>. QED  BY <1>2, <1>4 DEF FlowAreasOK

\* A flow enters a scope: it gets an area, or has one already.
LEMMA EnterScopeFlow ==
    ASSUME FlowInv, NEW f \in Flow, NEW s \in Scope, NEW below \in Seq(Frame),
           EnterScope(f, s, below), Main \subseteq started',
           \A k \in DOMAIN below : below[k].running = NoInstance
    PROVE  RunningOK' /\ FlowAreasOK'
<1>. DEFINE top(a) == NewFrame("raise", s, a, {}, {})
            frames(a) == Append(below, top(a))
<1>1. ASSUME NEW a \in Area \cup {NoArea}
      PROVE  /\ frames(a) \in Seq(Frame) /\ frames(a)[Len(frames(a))].area = a
             /\ Len(frames(a)) \in DOMAIN frames(a)
             /\ \A k \in DOMAIN frames(a) : frames(a)[k].running = NoInstance
  <2>1. s \in Owner /\ s # NoOwner
    BY ConstantsAssumption
  <2>2. top(a) \in Frame
    BY <2>1, NewFrameType
  <2>3. top(a).running = NoInstance /\ top(a).area = a
    BY DEF NewFrame
  <2>. HIDE DEF top
  <2>. QED  BY <2>2, <2>3
<1>2. CASE area[f] = NoArea
  <2>1. PICK a \in Area : /\ status[a] = "unused" /\ SetArea(f, a)
                          /\ status' = [status EXCEPT ![a] = "open"]
                          /\ Push(f, frames(a))
    BY <1>2 DEF EnterScope
  <2>2. /\ \A g \in Flow : area'[g] = IF g = f THEN a ELSE area[g]
        /\ \A b \in Area : status[b] = "abandoned" => status'[b] = "abandoned"
    BY <2>1 DEF SetArea, FlowInv, OnceInv, TypeOK
  <2>3. OwnedBy(f, area[f])'
    <3>1. StackType /\ frames(a) \in Seq(Frame) /\ stack[f] \in Seq(Frame)
      BY <1>1 DEF FlowInv, OnceInv, TypeOK, StackType
    <3>. HIDE DEF frames
    <3>2. stack'[f] = stack[f] \o frames(a)
      BY <2>1, <3>1 DEF Push, StackType
    <3>. DEFINE i == Len(stack[f]) + Len(frames(a))
    <3>3. i \in DOMAIN stack'[f] /\ stack'[f][i].area = a
      BY <1>1, <3>1, <3>2
    <3>. QED  BY <2>2, <3>3 DEF OwnedBy
  <2>. HIDE DEF frames
  <2>. QED  BY <1>1, <1>2, <2>1, <2>2, <2>3, EnterCall
<1>3. CASE area[f] # NoArea
  <2>1. Push(f, frames(NoArea)) /\ UNCHANGED <<area, status>>
    BY <1>3 DEF EnterScope
  <2>2. /\ frames(NoArea) \in Seq(Frame)
        /\ \A k \in DOMAIN frames(NoArea) : frames(NoArea)[k].running = NoInstance
    BY <1>1
  <2>. HIDE DEF frames
  <2>. QED  BY <2>1, <2>2, EnterCall
<1>. QED  BY <1>2, <1>3

\* No operation leaves a flow with the area of a call that is through.
LEMMA FlowStep == FlowInv /\ [Next]_vars => FlowInv'
<1>. SUFFICES ASSUME FlowInv, [Next]_vars PROVE RunningOK' /\ FlowAreasOK'
  BY OnceStep DEF FlowInv
<1>. DEFINE Goal == RunningOK' /\ FlowAreasOK'
<1>t. TypeOK /\ StackType /\ Main \subseteq started
  BY DEF FlowInv, FlowAreasOK, OnceInv, TypeOK, StackType
<1>f. ASSUME NEW f \in Flow, stack[f] # <<>>
      PROVE  /\ Top(f) \in Frame /\ FrameOK(Top(f), status, items, calls)
             /\ Top(f).running # NoInstance => Top(f).pc \in {"drain", "forget"}
             /\ Top(f) = stack[f][Len(stack[f])] /\ Len(stack[f]) \in DOMAIN stack[f]
  <2>1. Top(f) \in Frame /\ Len(stack[f]) \in DOMAIN stack[f] /\ Top(f) = stack[f][Len(stack[f])]
    BY <1>f, <1>t, TopFrame DEF Top
  <2>. QED  BY <1>t, <2>1 DEF FlowInv, RunningOK, OnceInv, FramesOK
\* An exception in a flow that found its area closed: not one of Main.
<1>x. ASSUME NEW f \in Flow, stack[f] # <<>>, Unwind(f),
             status[area[f]] = "closed", UNCHANGED <<area, status, started>>
      PROVE  Goal
  <2>1. f \in Main => area[f] = NoArea
    BY <1>x, NotClosed
  <2>2. RunningOK'
    BY <1>t, <1>x, PopFrames DEF FlowInv, RunningOK
  <2>3. ASSUME NEW g \in Main, area[g] # NoArea, OwnedBy(g, area[g])
        PROVE  OwnedBy(g, area[g])'
    BY <1>t, <1>x, <2>1, <2>3, PopStays, ConstantsAssumption DEF OwnedBy
  <2>. QED  BY <1>t, <1>x, <2>2, <2>3 DEF FlowInv, FlowAreasOK
<1>1. ASSUME NEW f \in Flow, LibraryStep(f) PROVE Goal
  <2>1. CASE RaiseDisposed(f)
    <3>. DEFINE fr == [Top(f) EXCEPT !.pc = "close"]
    <3>1. /\ stack[f] # <<>> /\ Top(f).pc = "raise" /\ Top(f).running = NoInstance
          /\ SetTop(f, fr) /\ UNCHANGED <<area, status, started>>
      BY <2>1 DEF RaiseDisposed, At
    <3>2. fr \in Frame
      BY <1>f, <3>1, FrameUpdate
    <3>3. fr.area = Top(f).area /\ fr.running = NoInstance
      BY <1>f, <3>1 DEF Frame, FrameRecord
    <3>. HIDE DEF fr
    <3>. QED  BY <1>t, <3>1, <3>2, <3>3, GoOn
  <2>2. CASE RaiseFails(f)
    BY <1>x, <2>2 DEF RaiseFails, At
  <2>3. CASE CloseInner(f)
    BY <1>t, <2>3, LeaveCall DEF CloseInner, At
  <2>4. CASE CloseEmpty(f)
    <3>1. /\ stack[f] # <<>> /\ Pop(f) /\ UNCHANGED <<area, started>>
          /\ status' = [status EXCEPT ![Top(f).area] = "abandoned"]
          /\ Top(f).area # NoArea
      BY <2>4 DEF CloseEmpty, At
    <3>2. Top(f).area \in Area
      BY <1>f, <3>1 DEF Frame, FrameRecord
    <3>3. \A a \in Area : status'[a] = IF a = Top(f).area THEN "abandoned" ELSE status[a]
      BY <1>t, <3>1 DEF TypeOK
    <3>. QED  BY <1>t, <3>1, <3>2, <3>3, LeaveCall
  <2>5. CASE StartDrain(f)
    <3>. DEFINE a == Top(f).area
                fr == [Top(f) EXCEPT !.pc = "drain", !.rest = items[a]]
    <3>1. /\ stack[f] # <<>> /\ Top(f).pc = "close" /\ a # NoArea /\ SetTop(f, fr)
          /\ status' = [status EXCEPT ![a] = "draining"]
          /\ UNCHANGED <<area, started>>
      BY <2>5 DEF StartDrain, At
    <3>2. a \in Area /\ status[a] = "open"
      BY <1>f, <3>1 DEF Frame, FrameRecord, FrameOK
    <3>3. items[a] \in SUBSET Instance
      BY <1>t, <3>2 DEF TypeOK
    <3>4. fr \in Frame
      BY <1>f, <3>1, <3>3, FrameUpdate
    <3>5. fr.area = a /\ fr.pc = "drain"
      BY <1>f, <3>1 DEF Frame, FrameRecord
    <3>6. \A b \in Area : status[b] = "abandoned" => status'[b] = "abandoned"
      BY <1>t, <3>1, <3>2 DEF TypeOK
    <3>. HIDE DEF fr
    <3>. QED  BY <1>t, <3>1, <3>4, <3>5, <3>6, GoOn
  <2>6. CASE DisposeNext(f)
    <3>1. /\ stack[f] # <<>> /\ Top(f).pc = "drain"
          /\ UNCHANGED <<area, status, started>>
      BY <2>6 DEF DisposeNext, At
    <3>2. PICK x \in Top(f).rest :
             SetTop(f, [Top(f) EXCEPT !.rest = @ \ {x}, !.running = Running(x)])
      BY <2>6 DEF DisposeNext, Drainable
    <3>. DEFINE fr == [Top(f) EXCEPT !.rest = @ \ {x}, !.running = Running(x)]
    <3>3. fr \in Frame /\ fr.pc = "drain" /\ fr.area = Top(f).area
      <4>1. Top(f) \in Frame /\ x \in Instance
        BY <1>f, <3>1, <3>2 DEF Frame, FrameRecord
      <4>. QED  BY <3>1, <3>2, <4>1, RunningUpdate
    <3>4. SetTop(f, fr)
      BY <3>2
    <3>. HIDE DEF fr
    <3>. QED  BY <1>t, <3>1, <3>3, <3>4, GoOn
  <2>7. CASE FinishDrain(f)
    <3>. DEFINE a == Top(f).area
    <3>1. /\ stack[f] # <<>> /\ Top(f).pc = "drain" /\ Pop(f)
          /\ status' = [status EXCEPT ![a] = "closed"]
          /\ area' = [area EXCEPT ![f] = NoArea]
          /\ started' = started
      BY <2>7 DEF FinishDrain, At, ResetArea, SetArea
    <3>2. a \in Area /\ status[a] = "draining"
      BY <1>f, <3>1 DEF Frame, FrameRecord, FrameOK
    <3>3. /\ \A b \in Area : status'[b] = IF b = a THEN "closed" ELSE status[b]
          /\ \A g \in Flow : area'[g] = IF g = f THEN NoArea ELSE area[g]
      BY <1>t, <3>1 DEF TypeOK
    <3>4. RunningOK'
      BY <1>t, <3>1, PopFrames DEF FlowInv, RunningOK
    <3>5. ASSUME NEW g \in Main, area'[g] # NoArea
          PROVE  status'[area'[g]] = "abandoned" \/ OwnedBy(g, area[g])'
      <4>1. g \in Flow /\ g # f /\ area'[g] = area[g] /\ area[g] \in Area
        BY <1>t, <3>3, <3>5, ConstantsAssumption DEF TypeOK
      <4>2. CASE status[area[g]] = "abandoned"
        BY <3>2, <3>3, <4>1, <4>2
      <4>3. CASE OwnedBy(g, area[g])
        BY <1>t, <3>1, <4>1, <4>3, PopStays DEF OwnedBy
      <4>. QED  BY <3>5, <4>1, <4>2, <4>3 DEF FlowInv, FlowAreasOK
    <3>. QED  BY <1>t, <3>1, <3>4, <3>5 DEF FlowAreasOK
  <2>8. CASE KernelClear(f)
    <3>. DEFINE fr == NewFrame("forget", Kernel, NoArea, AllEntries, Instance)
    <3>1. /\ stack[f] # <<>> /\ Top(f).pc = "clear" /\ SetTop(f, fr)
          /\ UNCHANGED <<area, status, started>>
      BY <2>8 DEF KernelClear, At
    <3>2. fr \in Frame
      BY <1>t, NewFrameType, ConstantsAssumption DEF AllEntries, TypeOK
    <3>3. fr.area = NoArea /\ fr.running = NoInstance
      BY DEF NewFrame
    <3>4. Top(f).area = NoArea
      BY <1>f, <3>1 DEF FrameOK
    <3>. HIDE DEF fr
    <3>. QED  BY <1>t, <3>1, <3>2, <3>3, <3>4, GoOn
  <2>9. CASE ForgetNow(f)
    <3>1. /\ stack[f] # <<>> /\ Top(f).pc = "forget"
          /\ UNCHANGED <<area, status, started>>
      BY <2>9 DEF ForgetNow, At
    <3>2. PICK x \in Pending(Top(f).rest) :
             SetTop(f, [Top(f) EXCEPT !.rest = @ \ {x}, !.running = Running(x)])
      BY <2>9 DEF ForgetNow
    <3>. DEFINE fr == [Top(f) EXCEPT !.rest = @ \ {x}, !.running = Running(x)]
    <3>3. fr \in Frame /\ fr.pc = "forget" /\ fr.area = Top(f).area
      <4>1. Top(f) \in Frame /\ x \in Instance
        BY <1>f, <3>1, <3>2 DEF Frame, FrameRecord, Pending
      <4>. QED  BY <3>1, <3>2, <4>1, RunningUpdate
    <3>4. SetTop(f, fr)
      BY <3>2
    <3>. HIDE DEF fr
    <3>. QED  BY <1>t, <3>1, <3>3, <3>4, GoOn
  <2>10. CASE ForgetIntoArea(f)
    <3>1. /\ stack[f] # <<>> /\ Top(f).pc = "forget"
          /\ UNCHANGED <<area, status, started>>
      BY <2>10 DEF ForgetIntoArea, At
    <3>2. PICK x \in Pending(Top(f).rest) : SetTop(f, [Top(f) EXCEPT !.rest = @ \ {x}])
      BY <2>10 DEF ForgetIntoArea
    <3>. DEFINE fr == [Top(f) EXCEPT !.rest = @ \ {x}]
    <3>3. fr \in Frame /\ fr.pc = "forget" /\ fr.area = Top(f).area
      BY <1>f, <3>1, <3>2 DEF Frame, FrameRecord
    <3>4. SetTop(f, fr)
      BY <3>2
    <3>. HIDE DEF fr
    <3>. QED  BY <1>t, <3>1, <3>3, <3>4, GoOn
  <2>11. CASE ForgetFails(f)
    BY <1>x, <2>11 DEF ForgetFails, At
  <2>12. CASE FinishForget(f)
    <3>1. /\ stack[f] # <<>> /\ Top(f).pc = "forget" /\ Pop(f)
          /\ UNCHANGED <<area, status, started>>
      BY <2>12 DEF FinishForget, At
    <3>2. Top(f).area = NoArea
      BY <1>f, <3>1 DEF FrameOK
    <3>. QED  BY <1>t, <3>1, <3>2, LeaveCall
  <2>. QED  BY <1>1, <2>1, <2>2, <2>3, <2>4, <2>5, <2>6, <2>7, <2>8, <2>9,
               <2>10, <2>11, <2>12 DEF LibraryStep
<1>2. ASSUME NEW f \in Flow, ApplicationStep(f) PROVE Goal
  <2>1. ASSUME NEW x \in Instance, NEW o \in Owner,
               Resolve(f, x, o) \/ Share(f, x, o)
        PROVE  Goal
    BY <2>1 DEF Resolve, Share, FlowInv, RunningOK, FlowAreasOK, OwnedBy
  <2>2. ASSUME NEW s \in Scope, DisposeScope(f, s) PROVE Goal
    <3>1. <<>> \in Seq(Frame) /\ DOMAIN <<>> = {}
      OBVIOUS
    <3>. QED  BY <1>t, <2>2, <3>1, EnterScopeFlow DEF DisposeScope
  <2>3. CASE DisposeKernel(f)
    <3>. DEFINE fr == NewFrame("clear", Kernel, NoArea, {}, {})
    <3>1. fr \in Frame
      BY NewFrameType, ConstantsAssumption
    <3>2. fr.running = NoInstance
      BY DEF NewFrame
    <3>3. EnterScope(f, Root, <<fr>>) /\ started' = started
      BY <2>3 DEF DisposeKernel
    <3>. HIDE DEF fr
    <3>4. <<fr>> \in Seq(Frame) /\ \A k \in DOMAIN <<fr>> : <<fr>>[k] = fr
      BY <3>1
    <3>. QED  BY <1>t, <3>2, <3>3, <3>4, EnterScopeFlow, ConstantsAssumption
  <2>4. ASSUME NEW o \in Owner \cup {NoOwner}, NEW rest \in SUBSET Instance,
               NEW purge \in SUBSET Instance,
               Push(f, <<NewFrame("forget", o, NoArea, rest, purge)>>),
               UNCHANGED <<area, status, started>>
        PROVE  Goal
    <3>. DEFINE fr == NewFrame("forget", o, NoArea, rest, purge)
    <3>1. fr \in Frame
      BY NewFrameType
    <3>2. fr.running = NoInstance
      BY DEF NewFrame
    <3>3. Push(f, <<fr>>)
      BY <2>4
    <3>. HIDE DEF fr
    <3>4. <<fr>> \in Seq(Frame) /\ \A k \in DOMAIN <<fr>> : <<fr>>[k] = fr
      BY <3>1
    <3>. QED  BY <1>t, <2>4, <3>2, <3>3, <3>4, EnterCall
  <2>5. ASSUME NEW p \in RequestScope, DisposeRequestScope(f, p) PROVE Goal
    <3>1. cached[p] \in SUBSET Instance /\ {} \in SUBSET Instance
      BY <1>t DEF TypeOK
    <3>. QED  BY <2>4, <2>5, <3>1 DEF DisposeRequestScope
  <2>6. ASSUME NEW x \in Instance, Release(f, x) PROVE Goal
    BY <2>4, <2>6 DEF Release
  <2>7. CASE DisposeReturns(f)
    <3>. DEFINE fr == [Top(f) EXCEPT !.running = NoInstance]
    <3>1. /\ stack[f] # <<>> /\ SetTop(f, fr) /\ UNCHANGED <<area, status, started>>
      BY <2>7 DEF DisposeReturns, InDispose
    <3>2. fr \in Frame /\ fr.area = Top(f).area /\ fr.running = NoInstance
      BY <1>f, <3>1 DEF Frame, FrameRecord
    <3>. HIDE DEF fr
    <3>. QED  BY <1>t, <3>1, <3>2, GoOn
  <2>8. CASE DisposeThrows(f)
    <3>1. /\ stack[f] # <<>> /\ Unwind(f) /\ Top(f).running # NoInstance
          /\ status' = IF Top(f).pc = "drain"
                       THEN [status EXCEPT ![Top(f).area] = "abandoned"] ELSE status
          /\ UNCHANGED <<area, started>>
      BY <2>8 DEF DisposeThrows, InDispose
    <3>2. \A b \in Area :
             status'[b] = IF Top(f).pc = "drain" /\ b = Top(f).area THEN "abandoned"
                          ELSE status[b]
      BY <1>t, <3>1 DEF TypeOK
    <3>3. Top(f).area \in Area \cup {NoArea} /\ (Top(f).pc # "drain" => Top(f).area = NoArea)
      BY <1>f, <3>1 DEF Frame, FrameRecord, FrameOK
    <3>. QED  BY <1>t, <3>1, <3>2, <3>3, LeaveCall
  <2>9. ASSUME NEW g \in Flow, Fork(f, g) PROVE Goal
    <3>1. /\ area' = [area EXCEPT ![g] = area[f]] /\ g \notin Main
          /\ started \subseteq started' /\ UNCHANGED <<stack, status>>
      BY <1>t, <2>9 DEF Fork
    <3>2. \A h \in Main : area'[h] = area[h]
      BY <1>t, <3>1, ConstantsAssumption DEF TypeOK
    <3>. QED  BY <1>t, <3>1, <3>2 DEF FlowInv, RunningOK, FlowAreasOK, OwnedBy
  <2>. QED  BY <1>2, <2>1, <2>2, <2>3, <2>5, <2>6, <2>7, <2>8, <2>9
            DEF ApplicationStep
<1>3. ASSUME NEW x \in Instance, Collect(x) PROVE Goal
  BY <1>3 DEF Collect, FlowInv, RunningOK, FlowAreasOK, OwnedBy
<1>4. CASE UNCHANGED vars
  BY <1>4 DEF vars, FlowInv, RunningOK, FlowAreasOK, OwnedBy
<1>. QED  BY <1>1, <1>2, <1>3, <1>4 DEF Next

LEMMA FlowInvHolds == Spec => []FlowInv
<1>1. Init => FlowInv
  BY OnceInit, ConstantsAssumption DEF Init, FlowInv, RunningOK, FlowAreasOK
<1>. QED  BY <1>1, FlowStep, PTL DEF Spec

\* A flow that ran from the start and is in no Dispose call has no area, but for
\* one that was left empty or by an exception (DisposalManager.cs:57-65, 86-97).
THEOREM IdleFlowHasNoArea == Spec => []IdleFlowArea
<1>1. FlowInv => IdleFlowArea
  BY DEF FlowInv, FlowAreasOK, IdleFlowArea, OwnedBy
<1>. QED  BY <1>1, FlowInvHolds, PTL

-----------------------------------------------------------------------------
(***************************************************************************)
(* The calls of an application whose Dispose methods do not resolve or     *)
(* dispose scopes and that forks no flow: no flow finds its area closed,   *)
(* and each is in one call, or in two while it disposes the kernel.        *)
(***************************************************************************)
Straight == Env \cap {"reenter", "fork"} = {}

\* A flow is in one call, or in the disposal of the kernel and in one more.  An
\* event is raised with an area.
ShapeOK ==
    \A f \in Flow :
        /\ stack[f] # <<>> => f \in Main
        /\ Len(stack[f]) \in {0, 1, 2}
        /\ Len(stack[f]) = 2 => stack[f][1].pc = "clear"
        /\ \A i \in DOMAIN stack[f] : stack[f][i].pc = "raise" => area[f] # NoArea

\* A call of the flow has the area and will dispose what is on its list.
Holds(f, a, x) ==
    \E i \in DOMAIN stack[f] :
        /\ stack[f][i].area = a
        /\ stack[f][i].pc = "drain" => x \in stack[f][i].rest

Accounted(x) ==
    \/ calls[x] = 1
    \/ \E a \in Area : /\ x \in items[a]
                       /\ status[a] = "abandoned" \/ \E f \in Flow : Holds(f, a, x)

AccountedOK == \A x \in deactivated \cap Disposable : Accounted(x)

ShapeInv == FlowInv /\ started = Main /\ ShapeOK

\* No instance was lost so far, but for those of abandoned areas.
Lossless == gone = {} /\ AccountedOK

LossInv == ShapeInv /\ Lossless

\* The area of a flow in a call is that of the top call, or was abandoned.
LEMMA TopOwns ==
    ASSUME ShapeInv, NEW f \in Flow, stack[f] # <<>>, area[f] # NoArea
    PROVE  /\ area[f] \in Area
           /\ status[area[f]] = "abandoned" \/ Top(f).area = area[f]
           /\ status[area[f]] # "closed"
<1>1. f \in Main /\ Len(stack[f]) \in {0, 1, 2} /\ (Len(stack[f]) = 2 => stack[f][1].pc = "clear")
  BY DEF ShapeInv, ShapeOK
<1>2. area[f] \in Area /\ stack[f] \in Seq(Frame)
  BY DEF ShapeInv, FlowInv, OnceInv, TypeOK
<1>3. f \in Main
  BY DEF ShapeInv, ShapeOK
<1>4. ASSUME OwnedBy(f, area[f]) PROVE Top(f).area = area[f]
  <2>1. PICK i \in DOMAIN stack[f] : stack[f][i].area = area[f]
    BY <1>4 DEF OwnedBy
  <2>2. stack[f][i].pc # "clear"
    BY <2>1 DEF ShapeInv, FlowInv, OnceInv, FramesOK, FrameOK
  <2>3. i \in 1 .. Len(stack[f]) /\ Len(stack[f]) \in Nat
    BY <1>2
  <2>4. PICK n : n = Len(stack[f])
    OBVIOUS
  <2>5. i = n
    <3>1. n \in Nat /\ i \in 1 .. n /\ n \in {0, 1, 2} /\ (n = 2 => stack[f][1].pc = "clear")
      BY <1>1, <2>3, <2>4
    <3>2. n = 2 => i # 1
      BY <2>2, <3>1
    <3>. QED  BY <3>1, <3>2
  <2>. QED  BY <2>1, <2>4, <2>5 DEF Top
<1>5. status[area[f]] # "closed"
  BY <1>3, NotClosed DEF ShapeInv
<1>. QED  BY <1>2, <1>3, <1>4, <1>5 DEF ShapeInv, FlowInv, FlowAreasOK

\* So nothing fails for the want of a list.
LEMMA NothingFails ==
    ASSUME ShapeInv, NEW f \in Flow
    PROVE  ~RaiseFails(f) /\ ~ForgetFails(f)
<1>1. StackType
  BY DEF ShapeInv, FlowInv, OnceInv, TypeOK, StackType
<1>2. ASSUME RaiseFails(f) PROVE FALSE
  <2>1. stack[f] # <<>> /\ Top(f).pc = "raise" /\ status[area[f]] = "closed"
    BY <1>2 DEF RaiseFails, At
  <2>2. area[f] # NoArea
    BY <1>1, <2>1, TopFrame DEF ShapeInv, ShapeOK, Top
  <2>. QED  BY <2>1, <2>2, TopOwns
<1>3. ASSUME ForgetFails(f) PROVE FALSE
  BY <1>3, TopOwns DEF ForgetFails, At
<1>. QED  BY <1>2, <1>3

\* Calls that end, go on or begin keep the shape of the stacks.
LEMMA PopShape ==
    ASSUME StackType, ShapeOK, NEW f \in Flow, stack[f] # <<>>, Pop(f) \/ Unwind(f),
           \A g \in Flow : g # f => area'[g] = area[g]
    PROVE  ShapeOK'
<1>0. PICK n : n = Len(stack[f])  OBVIOUS
<1>1. stack[f] \in Seq(Frame) /\ n \in {1, 2} /\ (n = 2 => stack[f][1].pc = "clear")
  <2>1. n \in Nat \ {0} /\ stack[f] \in Seq(Frame)
    BY <1>0, TopFrame DEF StackType
  <2>2. n \in {0, 1, 2}
    BY <1>0 DEF ShapeOK
  <2>. QED  BY <1>0, <2>1, <2>2 DEF ShapeOK
<1>2. \/ stack'[f] = <<>>
      \/ n = 2 /\ stack'[f] = SubSeq(stack[f], 1, 1)
  <2>1. CASE Pop(f)
    <3>1. stack'[f] = SubSeq(stack[f], 1, n - 1)
      BY <1>0, <2>1 DEF Pop, StackType
    <3>2. CASE n = 1
      <4>1. stack'[f] = SubSeq(stack[f], 1, 0)  BY <3>1, <3>2
      <4>. QED  BY <1>1, <4>1
    <3>3. CASE n = 2
      <4>1. stack'[f] = SubSeq(stack[f], 1, 1)  BY <3>1, <3>3
      <4>. QED  BY <3>3, <4>1
    <3>. QED  BY <1>1, <3>2, <3>3
  <2>2. CASE Unwind(f)
    <3>1. n = 1 => stack'[f] = SubSeq(stack[f], 1, n - 1)
      BY <1>0, <2>2 DEF Unwind, StackType
    <3>2. n = 2 => stack'[f] = SubSeq(stack[f], 1, n - 2)
      BY <1>0, <1>1, <2>2 DEF Unwind, StackType
    <3>3. CASE n = 1
      <4>1. stack'[f] = SubSeq(stack[f], 1, 0)  BY <3>1, <3>3
      <4>. QED  BY <1>1, <4>1
    <3>4. CASE n = 2
      <4>1. stack'[f] = SubSeq(stack[f], 1, 0)  BY <3>2, <3>4
      <4>. QED  BY <1>1, <4>1
    <3>. QED  BY <1>1, <3>3, <3>4
  <2>. QED  BY <2>1, <2>2
<1>3. \A g \in Flow : g # f => stack'[g] = stack[g]
  BY DEF Pop, Unwind, StackType
<1>4. CASE stack'[f] = <<>>
  BY <1>3, <1>4 DEF ShapeOK
<1>5. CASE n = 2 /\ stack'[f] = SubSeq(stack[f], 1, 1)
  <2>1. Len(stack'[f]) = 1 /\ stack'[f][1] = stack[f][1] /\ DOMAIN stack'[f] = {1}
    BY <1>0, <1>1, <1>5
  <2>2. stack[f][1].pc = "clear" /\ f \in Main
    BY <1>1, <1>5 DEF ShapeOK
  <2>3. ASSUME NEW g \in Flow, g # f
        PROVE  /\ stack'[g] = stack[g] /\ area'[g] = area[g]
    BY <1>3, <2>3
  <2>4. \A i \in DOMAIN stack'[f] : stack'[f][i].pc = "clear"
    BY <2>1, <2>2
  <2>. DEFINE Fits(g) ==
            /\ stack[g] # <<>> => g \in Main
            /\ Len(stack[g]) \in {0, 1, 2}
            /\ Len(stack[g]) = 2 => stack[g][1].pc = "clear"
            /\ \A i \in DOMAIN stack[g] : stack[g][i].pc = "raise" => area[g] # NoArea
  <2>5. Fits(f)'
    BY <2>1, <2>2, <2>4
  <2>6. ASSUME NEW g \in Flow, g # f PROVE Fits(g)'
    <3>1. Fits(g)
      BY DEF ShapeOK
    <3>. QED  BY <2>3, <2>6, <3>1
  <2>. QED  BY <2>5, <2>6 DEF ShapeOK
<1>. QED  BY <1>2, <1>4, <1>5

LEMMA SetTopShape ==
    ASSUME StackType, ShapeOK, NEW f \in Flow, stack[f] # <<>>, NEW fr \in Frame,
           SetTop(f, fr), fr.pc # "raise", UNCHANGED area
    PROVE  ShapeOK'
<1>1. \A g \in Flow : \A i \in DOMAIN stack'[g] :
         /\ i \in DOMAIN stack[g]
         /\ stack'[g][i] = IF g = f /\ i = Len(stack[f]) THEN fr ELSE stack[g][i]
  BY SetTopFrames
<1>2. \A g \in Flow : Len(stack'[g]) = Len(stack[g])
  BY DEF SetTop, StackType
<1>3. \A g \in Flow : stack'[g] # <<>> => stack[g] # <<>>
  BY DEF SetTop, StackType
<1>4. \A g \in Flow : Len(stack'[g]) = 2 => 1 \in DOMAIN stack'[g]
  BY SetTopFrames DEF StackType
<1>. QED  BY <1>1, <1>2, <1>3, <1>4 DEF ShapeOK

LEMMA PushShape ==
    ASSUME StackType, ShapeOK, NEW f \in Main, stack[f] = <<>>,
           NEW frames \in Seq(Frame), Push(f, frames),
           Len(frames) \in {1, 2}, Len(frames) = 2 => frames[1].pc = "clear",
           \A g \in Flow : g # f => area'[g] = area[g],
           \A k \in DOMAIN frames : frames[k].pc = "raise" => area'[f] # NoArea
    PROVE  ShapeOK'
<1>1. stack'[f] = frames /\ \A g \in Flow : g # f => stack'[g] = stack[g]
  BY ConstantsAssumption DEF Push, StackType
<1>. QED  BY <1>1 DEF ShapeOK

\* What a call holds it keeps.
LEMMA PopHolds ==
    ASSUME OnceInv, NEW f \in Flow, stack[f] # <<>>, Pop(f) \/ Unwind(f),
           NEW a \in Area, NEW x,
           Top(f).area = a => Top(f).pc = "drain" /\ x \notin Top(f).rest
    PROVE  \A g \in Flow : Holds(g, a, x) => Holds(g, a, x)'
<1>1. StackType
  BY DEF OnceInv, TypeOK, StackType
<1>2. \A g \in Flow : \A i \in DOMAIN stack[g] :
         stack[g][i].pc = "clear" => stack[g][i].area # a
  BY ConstantsAssumption DEF OnceInv, FramesOK, FrameOK
<1>. QED  BY <1>1, <1>2, PopStays DEF Holds, Top

LEMMA SetTopHolds ==
    ASSUME StackType, NEW f \in Flow, stack[f] # <<>>, NEW fr \in Frame, SetTop(f, fr),
           NEW a, NEW x,
           Top(f).area = a /\ (Top(f).pc = "drain" => x \in Top(f).rest)
               => fr.area = a /\ (fr.pc = "drain" => x \in fr.rest)
    PROVE  \A g \in Flow : Holds(g, a, x) => Holds(g, a, x)'
  BY SetTopStays DEF Holds, Top

LEMMA PushHolds ==
    ASSUME StackType, NEW f \in Flow, NEW frames \in Seq(Frame), Push(f, frames),
           NEW a, NEW x
    PROVE  \A g \in Flow : Holds(g, a, x) => Holds(g, a, x)'
  BY PushStays DEF Holds

\* An instance stays accounted for.
LEMMA AccountedStays ==
    ASSUME NEW x, Accounted(x), calls[x] = 1 => calls'[x] = 1,
           \A a \in Area : items[a] \subseteq items'[a],
           \A a \in Area : status[a] = "abandoned" => status'[a] = "abandoned",
           \A a \in Area, g \in Flow :
              x \in items[a] /\ Holds(g, a, x)
                  => Holds(g, a, x)' \/ calls'[x] = 1 \/ status'[a] = "abandoned"
    PROVE  Accounted(x)'
  BY DEF Accounted

\* A flow that enters a scope is in one call more and has an area.
LEMMA EnterScopeShape ==
    ASSUME ShapeInv, NEW f \in Main, stack[f] = <<>>, NEW s \in Scope,
           NEW below \in Seq(Frame), EnterScope(f, s, below),
           Len(below) <= 1, \A k \in DOMAIN below : below[k].pc = "clear",
           UNCHANGED <<items, calls, deactivated>>
    PROVE  ShapeOK' /\ (AccountedOK => AccountedOK')
<1>. DEFINE top(a) == NewFrame("raise", s, a, {}, {})
            frames(a) == Append(below, top(a))
<1>t. TypeOK /\ StackType /\ f \in Flow
  BY ConstantsAssumption DEF ShapeInv, FlowInv, OnceInv, TypeOK, StackType
<1>1. ASSUME NEW a \in Area \cup {NoArea}
      PROVE  /\ frames(a) \in Seq(Frame) /\ Len(frames(a)) \in {1, 2}
             /\ Len(frames(a)) = 2 => frames(a)[1].pc = "clear"
  <2>1. s \in Owner /\ s # NoOwner
    BY ConstantsAssumption
  <2>2. top(a) \in Frame
    BY <2>1, NewFrameType
  <2>. HIDE DEF top
  <2>. QED  BY <2>2
<1>2. /\ \E a \in Area \cup {NoArea} : Push(f, frames(a))
      /\ area'[f] # NoArea /\ \A g \in Flow : g # f => area'[g] = area[g]
      /\ \A a \in Area : status[a] = "abandoned" => status'[a] = "abandoned"
  <2>1. CASE area[f] = NoArea
    <3>1. PICK a \in Area : /\ status[a] = "unused" /\ SetArea(f, a)
                            /\ status' = [status EXCEPT ![a] = "open"]
                            /\ Push(f, frames(a))
      BY <2>1 DEF EnterScope
    <3>. HIDE DEF frames
    <3>. QED  BY <1>t, <3>1, ConstantsAssumption DEF SetArea, TypeOK
  <2>2. CASE area[f] # NoArea
    <3>1. Push(f, frames(NoArea)) /\ UNCHANGED <<area, status>>
      BY <2>2 DEF EnterScope
    <3>. HIDE DEF frames
    <3>. QED  BY <2>2, <3>1
  <2>. QED  BY <2>1, <2>2
<1>3. PICK a \in Area \cup {NoArea} : Push(f, frames(a))
  BY <1>2
<1>4. PICK frs \in Seq(Frame) : /\ Push(f, frs) /\ Len(frs) \in {1, 2}
                                /\ Len(frs) = 2 => frs[1].pc = "clear"
  BY <1>1, <1>3
<1>5. ShapeOK'
  BY <1>t, <1>2, <1>4, PushShape DEF ShapeInv
<1>6. AccountedOK => AccountedOK'
  <2>. SUFFICES ASSUME AccountedOK, NEW x \in deactivated \cap Disposable PROVE Accounted(x)'
    BY DEF AccountedOK
  <2>1. \A b \in Area, g \in Flow : Holds(g, b, x) => Holds(g, b, x)'
    BY <1>t, <1>4, PushHolds
  <2>. QED  BY <1>2, <2>1, AccountedStays DEF AccountedOK
<1>. QED  BY <1>5, <1>6

\* A flow that forgets instances is in one call more.
LEMMA ForgetShape ==
    ASSUME ShapeInv, NEW f \in Main, stack[f] = <<>>,
           NEW o \in Owner \cup {NoOwner}, NEW rest \in SUBSET Instance,
           NEW purge \in SUBSET Instance,
           Push(f, <<NewFrame("forget", o, NoArea, rest, purge)>>),
           UNCHANGED <<items, calls, deactivated, area, status>>
    PROVE  ShapeOK' /\ (AccountedOK => AccountedOK')
<1>. DEFINE fr == NewFrame("forget", o, NoArea, rest, purge)
<1>t. TypeOK /\ StackType /\ f \in Flow
  BY ConstantsAssumption DEF ShapeInv, FlowInv, OnceInv, TypeOK, StackType
<1>1. fr \in Frame
  BY NewFrameType
<1>2. fr.pc = "forget" /\ Push(f, <<fr>>)
  BY DEF NewFrame
<1>. HIDE DEF fr
<1>3. <<fr>> \in Seq(Frame) /\ Len(<<fr>>) = 1 /\ \A k \in DOMAIN <<fr>> : <<fr>>[k] = fr
  BY <1>1
<1>4. ShapeOK'
  <2>1. /\ Len(<<fr>>) \in {1, 2} /\ Len(<<fr>>) # 2
        /\ \A k \in DOMAIN <<fr>> : <<fr>>[k].pc # "raise"
    BY <1>2, <1>3
  <2>2. <<fr>> \in Seq(Frame) /\ Push(f, <<fr>>)
    BY <1>2, <1>3
  <2>3. PICK frs : frs = <<fr>>
    OBVIOUS
  <2>. QED  BY <1>t, <2>1, <2>2, <2>3, PushShape DEF ShapeInv
<1>5. AccountedOK => AccountedOK'
  <2>. SUFFICES ASSUME AccountedOK, NEW x \in deactivated \cap Disposable PROVE Accounted(x)'
    BY DEF AccountedOK
  <2>1. \A b \in Area, g \in Flow : Holds(g, b, x) => Holds(g, b, x)'
    BY <1>t, <1>2, <1>3, PushHolds
  <2>. QED  BY <2>1, AccountedStays DEF AccountedOK
<1>. QED  BY <1>4, <1>5

\* Every step keeps the calls straight and what went out of scope accounted for.
LEMMA StraightStep ==
    ASSUME Straight, ShapeInv, [Next]_vars
    PROVE  ShapeInv' /\ (Lossless => AccountedOK')
<1>. SUFFICES started' = Main /\ ShapeOK' /\ (Lossless => AccountedOK')
  BY FlowStep DEF ShapeInv
<1>. DEFINE Goal == started' = Main /\ ShapeOK' /\ (Lossless => AccountedOK')
<1>t. TypeOK /\ StackType /\ started = Main /\ FlowInv /\ ShapeOK /\ OnceInv
  BY DEF ShapeInv, FlowInv, OnceInv, TypeOK, StackType
<1>q. /\ \A f \in Flow : UserCode(f) => f \in Main /\ stack[f] = <<>>
      /\ "fork" \notin Env
  BY <1>t DEF Straight, UserCode
<1>f. ASSUME NEW f \in Flow, stack[f] # <<>>
      PROVE  /\ Top(f) \in Frame /\ FrameOK(Top(f), status, items, calls)
             /\ Top(f).running # NoInstance => Top(f).pc \in {"drain", "forget"}
             /\ Top(f).pc = "raise" => area[f] # NoArea
             /\ Top(f) = stack[f][Len(stack[f])] /\ Len(stack[f]) \in DOMAIN stack[f]
  <2>1. Top(f) \in Frame /\ Len(stack[f]) \in DOMAIN stack[f] /\ Top(f) = stack[f][Len(stack[f])]
    BY <1>f, <1>t, TopFrame DEF Top
  <2>. QED  BY <1>t, <2>1 DEF FlowInv, RunningOK, OnceInv, FramesOK, ShapeOK
\* Steps that deactivate nothing.
<1>a. ASSUME Lossless, UNCHANGED <<deactivated, items>>,
             \A x \in deactivated \cap Disposable : calls[x] = 1 => calls'[x] = 1,
             \A a \in Area : status[a] = "abandoned" => status'[a] = "abandoned",
             \A x \in deactivated \cap Disposable, a \in Area, g \in Flow :
                x \in items[a] /\ Holds(g, a, x)
                    => Holds(g, a, x)' \/ calls'[x] = 1 \/ status'[a] = "abandoned"
      PROVE  AccountedOK'
  <2>. SUFFICES ASSUME NEW x \in deactivated \cap Disposable PROVE Accounted(x)'
    BY <1>a DEF AccountedOK
  <2>. QED  BY <1>a, AccountedStays DEF Lossless, AccountedOK
<1>1. ASSUME NEW f \in Flow, LibraryStep(f) PROVE Goal
  <2>1. CASE RaiseDisposed(f)
    <3>. DEFINE fr == [Top(f) EXCEPT !.pc = "close"]
                xs == Pending(Entries(Top(f).owner))
    <3>1. /\ stack[f] # <<>> /\ Top(f).pc = "raise" /\ SetTop(f, fr)
          /\ UNCHANGED <<area, status, started, calls>>
          /\ deactivated' = deactivated \cup xs
          /\ items' = [items EXCEPT ![area[f]] = @ \cup xs]
      BY <2>1 DEF RaiseDisposed, At, Register
    <3>2. fr \in Frame
      BY <1>f, <3>1, FrameUpdate
    <3>3. fr.area = Top(f).area /\ fr.pc = "close"
      BY <1>f, <3>1 DEF Frame, FrameRecord
    <3>4. /\ area[f] \in Area
          /\ status[area[f]] = "abandoned" \/ Top(f).area = area[f]
      BY <1>f, <3>1, TopOwns
    <3>. HIDE DEF fr, xs
    <3>5. \A a \in Area : items'[a] = IF a = area[f] THEN items[a] \cup xs ELSE items[a]
      BY <1>t, <3>1 DEF TypeOK
    <3>6. ASSUME Lossless, NEW x \in deactivated \cap Disposable
          PROVE  Accounted(x)'
      <4>1. \A a \in Area, g \in Flow : Holds(g, a, x) => Holds(g, a, x)'
        BY <1>t, <3>1, <3>2, <3>3, SetTopHolds
      <4>. QED  BY <3>1, <3>5, <3>6, <4>1, AccountedStays DEF Lossless, AccountedOK
    <3>7. ASSUME NEW x \in xs PROVE Accounted(x)'
      <4>. DEFINE a == area[f]
      <4>1. x \in items'[a] /\ status'[a] = status[a]
        BY <3>1, <3>4, <3>5
      <4>2. CASE Top(f).area = a
        <5>. DEFINE i == Len(stack[f])
        <5>1. i \in DOMAIN stack'[f] /\ stack'[f][i] = fr
          BY <1>t, <1>f, <3>1, <3>2, SetTopStays
        <5>2. \E j \in DOMAIN stack'[f] :
                 /\ stack'[f][j].area = a
                 /\ stack'[f][j].pc = "drain" => x \in stack'[f][j].rest
          BY <3>3, <4>2, <5>1
        <5>. QED  BY <3>1, <3>4, <4>1, <5>2 DEF Accounted, Holds
      <4>. QED  BY <3>4, <4>1, <4>2 DEF Accounted
    <3>8. Lossless => AccountedOK'
      BY <3>1, <3>6, <3>7 DEF AccountedOK
    <3>. QED  BY <1>t, <3>1, <3>2, <3>3, <3>8, SetTopShape
  <2>2. CASE RaiseFails(f)
    BY <2>2, NothingFails
  <2>3. CASE CloseInner(f)
    <3>1. /\ stack[f] # <<>> /\ Pop(f) /\ Top(f).area = NoArea
          /\ UNCHANGED <<area, status, started, calls, items, deactivated>>
      BY <2>3 DEF CloseInner, At
    <3>2. \A x : \A a \in Area, g \in Flow : Holds(g, a, x) => Holds(g, a, x)'
      BY <1>t, <3>1, PopHolds, ConstantsAssumption
    <3>3. Lossless => AccountedOK'
      BY <1>a, <3>1, <3>2
    <3>. QED  BY <1>t, <3>1, <3>2, <3>3, PopShape
  <2>4. CASE CloseEmpty(f)
    <3>. DEFINE b == Top(f).area
    <3>1. /\ stack[f] # <<>> /\ Pop(f) /\ b # NoArea /\ items[b] = {}
          /\ status' = [status EXCEPT ![b] = "abandoned"]
          /\ UNCHANGED <<area, started, calls, items, deactivated>>
      BY <2>4 DEF CloseEmpty, At
    <3>2. \A a \in Area : status'[a] = IF a = b THEN "abandoned" ELSE status[a]
      BY <1>t, <3>1 DEF TypeOK
    <3>3. ASSUME NEW x, NEW a \in Area, x \in items[a], NEW g \in Flow, Holds(g, a, x)
          PROVE  Holds(g, a, x)'
      BY <1>t, <3>1, <3>3, PopHolds
    <3>4. Lossless => AccountedOK'
      BY <1>a, <3>1, <3>2, <3>3
    <3>. QED  BY <1>t, <3>1, <3>2, <3>3, <3>4, PopShape
  <2>5. CASE StartDrain(f)
    <3>. DEFINE b == Top(f).area
                fr == [Top(f) EXCEPT !.pc = "drain", !.rest = items[b]]
    <3>1. /\ stack[f] # <<>> /\ Top(f).pc = "close" /\ b # NoArea /\ SetTop(f, fr)
          /\ status' = [status EXCEPT ![b] = "draining"]
          /\ UNCHANGED <<area, started, calls, items, deactivated>>
      BY <2>5 DEF StartDrain, At
    <3>2. b \in Area /\ status[b] = "open"
      BY <1>f, <3>1 DEF Frame, FrameRecord, FrameOK
    <3>3. items[b] \in SUBSET Instance
      BY <1>t, <3>2 DEF TypeOK
    <3>4. fr \in Frame
      BY <1>f, <3>1, <3>3, FrameUpdate
    <3>5. fr.area = b /\ fr.pc = "drain" /\ fr.rest = items[b]
      BY <1>f, <3>1 DEF Frame, FrameRecord
    <3>6. \A a \in Area : status[a] = "abandoned" => status'[a] = "abandoned"
      BY <1>t, <3>1, <3>2 DEF TypeOK
    <3>. HIDE DEF fr
    <3>7. ASSUME NEW x, NEW a \in Area, x \in items[a], NEW g \in Flow, Holds(g, a, x)
          PROVE  Holds(g, a, x)'
      BY <1>t, <3>1, <3>4, <3>5, <3>7, SetTopHolds
    <3>8. Lossless => AccountedOK'
      BY <1>a, <3>1, <3>4, <3>5, <3>6, <3>7
    <3>. QED  BY <1>t, <3>1, <3>4, <3>5, <3>6, <3>7, <3>8, SetTopShape
  <2>6. CASE DisposeNext(f)
    <3>1. /\ stack[f] # <<>> /\ Top(f).pc = "drain"
          /\ UNCHANGED <<area, status, started, items, deactivated>>
      BY <2>6 DEF DisposeNext, At
    <3>2. PICK y \in Top(f).rest :
             /\ BeginDispose(y)
             /\ SetTop(f, [Top(f) EXCEPT !.rest = @ \ {y}, !.running = Running(y)])
      BY <2>6 DEF DisposeNext, Drainable
    <3>. DEFINE fr == [Top(f) EXCEPT !.rest = @ \ {y}, !.running = Running(y)]
    <3>3. /\ fr \in Frame /\ fr.pc = "drain" /\ fr.area = Top(f).area
          /\ fr.rest = Top(f).rest \ {y}
      <4>1. Top(f) \in Frame /\ y \in Instance
        BY <1>f, <3>1, <3>2 DEF Frame, FrameRecord
      <4>. QED  BY <3>1, <3>2, <4>1, RunningUpdate
    <3>4. SetTop(f, fr)
      BY <3>2
    <3>. HIDE DEF fr
    <3>5. y \in Instance /\ calls[y] = 0
      BY <1>f, <3>1, <3>2 DEF FrameOK, Frame, FrameRecord
    <3>6. /\ \A x \in Instance : x # y => calls'[x] = calls[x]
          /\ gone = {} /\ y \in Disposable => calls'[y] = 1
      BY <1>t, <3>2, <3>5 DEF BeginDispose, TypeOK
    <3>7. ASSUME gone = {}, NEW x \in Disposable, NEW a \in Area, NEW g \in Flow,
                 Holds(g, a, x)
          PROVE  Holds(g, a, x)' \/ calls'[x] = 1
      <4>1. CASE x = y
        BY <3>6, <3>7, <4>1
      <4>2. CASE x # y
        BY <1>t, <3>1, <3>3, <3>4, <3>7, <4>2, SetTopHolds
      <4>. QED  BY <4>1, <4>2
    <3>8. \A x \in deactivated \cap Disposable : calls[x] = 1 => calls'[x] = 1
      BY <3>5, <3>6, ConstantsAssumption
    <3>9. Lossless => AccountedOK'
      BY <1>a, <3>1, <3>7, <3>8 DEF Lossless
    <3>. QED  BY <1>t, <3>1, <3>3, <3>4, <3>9, SetTopShape
  <2>7. CASE FinishDrain(f)
    <3>. DEFINE b == Top(f).area
    <3>1. /\ stack[f] # <<>> /\ Top(f).pc = "drain" /\ Pop(f) /\ Top(f).rest = {}
          /\ status' = [status EXCEPT ![b] = "closed"]
          /\ area' = [area EXCEPT ![f] = NoArea]
          /\ UNCHANGED <<started, gone, calls, items, deactivated>>
      BY <2>7 DEF FinishDrain, At, ResetArea, SetArea, Drained
    <3>2. status[b] = "draining"
      BY <1>f, <3>1 DEF FrameOK
    <3>3. /\ \A a \in Area : status[a] = "abandoned" => status'[a] = "abandoned"
          /\ \A g \in Flow : g # f => area'[g] = area[g]
      BY <1>t, <3>1, <3>2 DEF TypeOK
    <3>4. \A x : \A a \in Area, g \in Flow : Holds(g, a, x) => Holds(g, a, x)'
      BY <1>t, <3>1, PopHolds
    <3>5. Lossless => AccountedOK'
      BY <1>a, <3>1, <3>3, <3>4
    <3>. QED  BY <1>t, <3>1, <3>3, <3>4, <3>5, PopShape
  <2>8. CASE KernelClear(f)
    <3>. DEFINE fr == NewFrame("forget", Kernel, NoArea, AllEntries, Instance)
    <3>1. /\ stack[f] # <<>> /\ Top(f).pc = "clear" /\ SetTop(f, fr)
          /\ UNCHANGED <<area, status, started, calls, items, deactivated>>
      BY <2>8 DEF KernelClear, At
    <3>2. fr \in Frame
      BY <1>t, NewFrameType, ConstantsAssumption DEF AllEntries, TypeOK
    <3>3. fr.pc = "forget"
      BY DEF NewFrame
    <3>4. Top(f).area = NoArea
      BY <1>f, <3>1 DEF FrameOK
    <3>. HIDE DEF fr
    <3>5. \A x : \A a \in Area, g \in Flow : Holds(g, a, x) => Holds(g, a, x)'
      BY <1>t, <3>1, <3>2, <3>4, SetTopHolds, ConstantsAssumption
    <3>6. Lossless => AccountedOK'
      BY <1>a, <3>1, <3>2, <3>3, <3>5
    <3>. QED  BY <1>t, <3>1, <3>2, <3>3, <3>5, <3>6, SetTopShape
  <2>9. CASE ForgetNow(f)
    <3>1. /\ stack[f] # <<>> /\ Top(f).pc = "forget"
          /\ UNCHANGED <<area, status, started, items>>
      BY <2>9 DEF ForgetNow, At
    <3>2. PICK y \in Pending(Top(f).rest) :
             /\ deactivated' = deactivated \cup {y}
             /\ BeginDispose(y)
             /\ SetTop(f, [Top(f) EXCEPT !.rest = @ \ {y}, !.running = Running(y)])
      BY <2>9 DEF ForgetNow
    <3>. DEFINE fr == [Top(f) EXCEPT !.rest = @ \ {y}, !.running = Running(y)]
    <3>3. fr \in Frame /\ fr.pc = "forget" /\ fr.area = Top(f).area
      <4>1. Top(f) \in Frame /\ y \in Instance
        BY <1>f, <3>1, <3>2 DEF Frame, FrameRecord, Pending
      <4>. QED  BY <3>1, <3>2, <4>1, RunningUpdate
    <3>4. SetTop(f, fr)
      BY <3>2
    <3>. HIDE DEF fr
    <3>5. y \in Instance /\ calls[y] = 0
      BY <1>t, <1>f, <3>1, <3>2 DEF Frame, FrameRecord, Pending, CallsOK, OnceInv, TypeOK
    <3>6. /\ \A x \in Instance : x # y => calls'[x] = calls[x]
          /\ gone = {} /\ y \in Disposable => calls'[y] = 1
      BY <1>t, <3>2, <3>5 DEF BeginDispose, TypeOK
    <3>7. ASSUME Lossless, NEW x \in deactivated \cap Disposable
          PROVE  Accounted(x)'
      <4>1. \A a \in Area, g \in Flow : Holds(g, a, x) => Holds(g, a, x)'
        BY <1>t, <3>1, <3>3, <3>4, SetTopHolds
      <4>2. calls[x] = 1 => calls'[x] = 1
        BY <3>5, <3>6, ConstantsAssumption
      <4>. QED  BY <3>1, <3>7, <4>1, <4>2, AccountedStays DEF Lossless, AccountedOK
    <3>8. Lossless => AccountedOK'
      BY <3>2, <3>6, <3>7 DEF Lossless, AccountedOK, Accounted
    <3>. QED  BY <1>t, <3>1, <3>3, <3>4, <3>8, SetTopShape
  <2>10. CASE ForgetIntoArea(f)
    <3>1. /\ stack[f] # <<>> /\ Top(f).pc = "forget" /\ area[f] # NoArea
          /\ UNCHANGED <<area, status, started, calls>>
      BY <2>10 DEF ForgetIntoArea, At
    <3>2. PICK y \in Pending(Top(f).rest) :
             /\ deactivated' = deactivated \cup {y}
             /\ items' = [items EXCEPT ![area[f]] = @ \cup {y}]
             /\ SetTop(f, [Top(f) EXCEPT !.rest = @ \ {y}])
      BY <2>10 DEF ForgetIntoArea, Register
    <3>. DEFINE fr == [Top(f) EXCEPT !.rest = @ \ {y}]
    <3>3. fr \in Frame /\ fr.pc = "forget" /\ fr.area = Top(f).area
      BY <1>f, <3>1, <3>2 DEF Frame, FrameRecord
    <3>4. SetTop(f, fr)
      BY <3>2
    <3>. HIDE DEF fr
    <3>5. area[f] \in Area /\ status[area[f]] = "abandoned"
      BY <1>f, <3>1, TopOwns DEF FrameOK
    <3>6. \A a \in Area : items'[a] = IF a = area[f] THEN items[a] \cup {y} ELSE items[a]
      BY <1>t, <3>2 DEF TypeOK
    <3>7. ASSUME Lossless, NEW x \in deactivated \cap Disposable
          PROVE  Accounted(x)'
      <4>1. \A a \in Area, g \in Flow : Holds(g, a, x) => Holds(g, a, x)'
        BY <1>t, <3>1, <3>3, <3>4, SetTopHolds
      <4>. QED  BY <3>1, <3>6, <3>7, <4>1, AccountedStays DEF Lossless, AccountedOK
    <3>8. Accounted(y)'
      BY <3>1, <3>5, <3>6 DEF Accounted
    <3>9. Lossless => AccountedOK'
      BY <3>2, <3>7, <3>8 DEF AccountedOK
    <3>. QED  BY <1>t, <3>1, <3>3, <3>4, <3>9, SetTopShape
  <2>11. CASE ForgetFails(f)
    BY <2>11, NothingFails
  <2>12. CASE FinishForget(f)
    <3>1. /\ stack[f] # <<>> /\ Top(f).pc = "forget" /\ Pop(f)
          /\ UNCHANGED <<area, status, started, calls, items, deactivated>>
      BY <2>12 DEF FinishForget, At
    <3>2. Top(f).area = NoArea
      BY <1>f, <3>1 DEF FrameOK
    <3>3. \A x : \A a \in Area, g \in Flow : Holds(g, a, x) => Holds(g, a, x)'
      BY <1>t, <3>1, <3>2, PopHolds, ConstantsAssumption
    <3>4. Lossless => AccountedOK'
      BY <1>a, <3>1, <3>3
    <3>. QED  BY <1>t, <3>1, <3>3, <3>4, PopShape
  <2>. QED  BY <1>1, <2>1, <2>2, <2>3, <2>4, <2>5, <2>6, <2>7, <2>8, <2>9,
               <2>10, <2>11, <2>12 DEF LibraryStep
<1>2. ASSUME NEW f \in Flow, ApplicationStep(f) PROVE Goal
  <2>1. ASSUME NEW x \in Instance, NEW o \in Owner,
               Resolve(f, x, o) \/ Share(f, x, o)
        PROVE  Goal
    BY <1>t, <2>1 DEF Resolve, Share, ShapeOK, Lossless, AccountedOK, Accounted, Holds
  <2>2. ASSUME NEW s \in Scope, DisposeScope(f, s) PROVE Goal
    <3>1. /\ <<>> \in Seq(Frame) /\ Len(<<>>) <= 1
          /\ \A k \in DOMAIN <<>> : <<>>[k].pc = "clear"
      OBVIOUS
    <3>2. /\ EnterScope(f, s, <<>>) /\ f \in Main /\ stack[f] = <<>>
          /\ UNCHANGED <<started, gone, calls, items, deactivated>>
      BY <1>q, <2>2 DEF DisposeScope
    <3>3. ShapeOK' /\ (AccountedOK => AccountedOK')
      BY <3>1, <3>2, EnterScopeShape
    <3>. QED  BY <1>t, <3>2, <3>3 DEF Lossless
  <2>3. CASE DisposeKernel(f)
    <3>. DEFINE fr == NewFrame("clear", Kernel, NoArea, {}, {})
    <3>1. fr \in Frame
      BY NewFrameType, ConstantsAssumption
    <3>2. fr.pc = "clear"
      BY DEF NewFrame
    <3>3. /\ EnterScope(f, Root, <<fr>>) /\ UserCode(f)
          /\ UNCHANGED <<started, gone, calls, items, deactivated>>
      BY <2>3 DEF DisposeKernel
    <3>. HIDE DEF fr
    <3>4. /\ <<fr>> \in Seq(Frame) /\ \A k \in DOMAIN <<fr>> : <<fr>>[k] = fr
          /\ Len(<<fr>>) = 1
      BY <3>1
    <3>5. f \in Main /\ stack[f] = <<>> /\ Root \in Scope
      BY <1>q, <3>3, ConstantsAssumption
    <3>6. Len(<<fr>>) <= 1 /\ \A k \in DOMAIN <<fr>> : <<fr>>[k].pc = "clear"
      BY <3>2, <3>4
    <3>7. ShapeOK' /\ (AccountedOK => AccountedOK')
      BY <3>6, <3>3, <3>4, <3>5, EnterScopeShape
    <3>. QED  BY <1>t, <3>3, <3>7 DEF Lossless
  <2>5. ASSUME NEW p \in RequestScope, DisposeRequestScope(f, p) PROVE Goal
    <3>1. cached[p] \in SUBSET Instance /\ {} \in SUBSET Instance
      BY <1>t DEF TypeOK
    <3>. QED  BY <1>t, <1>q, <2>5, <3>1, ForgetShape DEF DisposeRequestScope, Lossless
  <2>6. ASSUME NEW x \in Instance, Release(f, x) PROVE Goal
    BY <1>t, <1>q, <2>6, ForgetShape DEF Release, Lossless
  <2>7. CASE DisposeReturns(f)
    <3>. DEFINE fr == [Top(f) EXCEPT !.running = NoInstance]
    <3>1. /\ stack[f] # <<>> /\ SetTop(f, fr) /\ Top(f).running # NoInstance
          /\ UNCHANGED <<area, status, started, calls, items, deactivated>>
      BY <2>7 DEF DisposeReturns, InDispose
    <3>2. /\ fr \in Frame /\ fr.area = Top(f).area /\ fr.pc = Top(f).pc
          /\ fr.rest = Top(f).rest
      BY <1>f, <3>1 DEF Frame, FrameRecord
    <3>. HIDE DEF fr
    <3>3. \A x : \A a \in Area, g \in Flow : Holds(g, a, x) => Holds(g, a, x)'
      BY <1>t, <3>1, <3>2, SetTopHolds
    <3>4. fr.pc # "raise"
      BY <1>f, <3>1, <3>2
    <3>5. Lossless => AccountedOK'
      BY <1>a, <3>1, <3>2, <3>3, <3>4
    <3>. QED  BY <1>t, <3>1, <3>2, <3>3, <3>4, <3>5, SetTopShape
  <2>8. CASE DisposeThrows(f)
    <3>1. /\ stack[f] # <<>> /\ Unwind(f) /\ Top(f).running # NoInstance
          /\ status' = IF Top(f).pc = "drain"
                       THEN [status EXCEPT ![Top(f).area] = "abandoned"] ELSE status
          /\ UNCHANGED <<area, started, calls, items, deactivated>>
      BY <2>8 DEF DisposeThrows, InDispose
    <3>2. Top(f).pc = "drain" \/ Top(f).area = NoArea
      BY <1>f, <3>1 DEF FrameOK
    <3>3. \A a \in Area :
             status'[a] = IF Top(f).pc = "drain" /\ a = Top(f).area THEN "abandoned"
                          ELSE status[a]
      BY <1>t, <3>1 DEF TypeOK
    <3>4. ASSUME NEW x, NEW a \in Area, NEW g \in Flow, Holds(g, a, x)
          PROVE  Holds(g, a, x)' \/ status'[a] = "abandoned"
      <4>1. CASE a = Top(f).area
        BY <3>2, <3>3, <4>1, ConstantsAssumption
      <4>2. CASE a # Top(f).area
        BY <1>t, <3>1, <3>4, <4>2, PopHolds
      <4>. QED  BY <4>1, <4>2
    <3>5. Lossless => AccountedOK'
      BY <1>a, <3>1, <3>3, <3>4
    <3>. QED  BY <1>t, <3>1, <3>5, PopShape
  <2>9. ASSUME NEW g \in Flow, Fork(f, g) PROVE Goal
    BY <1>q, <2>9 DEF Fork
  <2>. QED  BY <1>2, <2>1, <2>2, <2>3, <2>5, <2>6, <2>7, <2>8, <2>9
            DEF ApplicationStep
<1>3. ASSUME NEW x \in Instance, Collect(x) PROVE Goal
  BY <1>t, <1>3 DEF Collect, ShapeOK, Lossless, AccountedOK, Accounted, Holds
<1>4. CASE UNCHANGED vars
  BY <1>t, <1>4 DEF vars, ShapeOK, Lossless, AccountedOK, Accounted, Holds
<1>. QED  BY <1>1, <1>2, <1>3, <1>4 DEF Next

LEMMA ShapeInvHolds ==
    ASSUME Straight
    PROVE  Spec => []ShapeInv
<1>1. Init => ShapeInv
  <2>. SUFFICES ASSUME Init PROVE ShapeInv
    OBVIOUS
  <2>1. FlowInv
    BY OnceInit, ConstantsAssumption DEF Init, FlowInv, RunningOK, FlowAreasOK
  <2>. QED  BY <2>1 DEF Init, ShapeInv, ShapeOK
<1>2. ShapeInv /\ [Next]_vars => ShapeInv'
  BY StraightStep
<1>. QED  BY <1>1, <1>2, PTL DEF Spec

LEMMA LossInvHolds ==
    ASSUME Straight, ~Allows("collect")
    PROVE  Spec => []LossInv
<1>1. Init => Lossless
  BY DEF Init, Lossless, AccountedOK
<1>2. ShapeInv /\ Lossless /\ [Next]_vars => Lossless'
  <2>. SUFFICES ASSUME ShapeInv, Lossless, [Next]_vars PROVE Lossless'
    OBVIOUS
  <2>1. gone' = {}
    <3>1. ASSUME NEW f \in Flow, LibraryStep(f) PROVE gone' = gone
      BY <3>1 DEF LibraryStep, RaiseDisposed, RaiseFails, CloseInner, CloseEmpty,
                  StartDrain, DisposeNext, FinishDrain, KernelClear, ForgetNow,
                  ForgetIntoArea, ForgetFails, FinishForget
    <3>2. ASSUME NEW f \in Flow, ApplicationStep(f) PROVE gone' = gone
      BY <3>2 DEF ApplicationStep, Resolve, Share, DisposeScope, DisposeRequestScope,
                  Release, DisposeKernel, DisposeReturns, DisposeThrows, Fork
    <3>. QED  BY <3>1, <3>2 DEF Lossless, Next, vars, Collect
  <2>2. AccountedOK'
    BY StraightStep
  <2>. QED  BY <2>1, <2>2 DEF Lossless
<1>3. Spec => []ShapeInv
  BY ShapeInvHolds
<1>4. ShapeInv /\ Lossless <=> LossInv
  BY DEF LossInv
<1>. QED  BY <1>1, <1>2, <1>3, <1>4, PTL DEF Spec

\* What went out of scope and was not disposed is on the list of an abandoned area,
\* in every application that calls straight and keeps its instances alive
\* (DisposalManager.cs:40-43, 84-98, 116-119).
THEOREM OnlyAbandonedAreasLose ==
    ASSUME Straight, ~Allows("collect")
    PROVE  Spec => []LostInAbandonedArea
<1>1. LossInv => LostInAbandonedArea
  <2>. SUFFICES ASSUME LossInv PROVE LostInAbandonedArea
    OBVIOUS
  <2>1. \A x \in deactivated \cap Disposable : Accounted(x)
    BY DEF LossInv, Lossless, AccountedOK
  <2>2. ASSUME \A f \in Flow : stack[f] = <<>>, NEW x \in deactivated \cap Disposable
        PROVE  \/ calls[x] = 1
               \/ \E a \in Area : status[a] = "abandoned" /\ x \in items[a]
    <3>1. ASSUME NEW f \in Flow, NEW a PROVE ~Holds(f, a, x)
      <4>1. stack[f] = <<>>
        BY <2>2
      <4>. QED  BY <4>1 DEF Holds
    <3>. QED  BY <2>1, <3>1 DEF Accounted
  <2>. QED  BY <2>2 DEF LostInAbandonedArea
<1>2. Spec => []LossInv
  BY LossInvHolds
<1>. QED  BY <1>1, <1>2, PTL

-----------------------------------------------------------------------------
\* What a cache forgets at the end of a call was taken over by the call, and one
\* call at a time forgets.
TrackOK ==
    /\ TrackedUntilDeactivated
    /\ \A f \in Flow : \A i \in DOMAIN stack[f] : stack[f][i].pc = "forget" =>
          \A o \in Owner : cached[o] \cap stack[f][i].purge
                              \subseteq stack[f][i].rest \cup deactivated
    /\ \A f, g \in Flow : \A i \in DOMAIN stack[f], j \in DOMAIN stack[g] :
          stack[f][i].pc = "forget" /\ stack[g][j].pc = "forget" => f = g /\ i = j

TrackInv == ShapeInv /\ TrackOK

NobodyForgets ==
    \A f \in Flow : \A i \in DOMAIN stack[f] : stack[f][i].pc # "forget"

\* Who may use the cache and does not forget himself is alone.
LEMMA CacheFreeAlone ==
    ASSUME ShapeInv, NEW f \in Flow, CacheFree(f), stack[f] = <<>> \/ Top(f).pc # "forget"
    PROVE  NobodyForgets
<1>. SUFFICES ASSUME NEW i \in DOMAIN stack[f] PROVE stack[f][i].pc # "forget"
  BY DEF NobodyForgets, CacheFree
<1>1. stack[f] \in Seq(Frame)
  BY DEF ShapeInv, FlowInv, OnceInv, TypeOK
<1>2. /\ Len(stack[f]) \in {0, 1, 2}
      /\ Len(stack[f]) = 2 => stack[f][1].pc = "clear"
  BY DEF ShapeInv, ShapeOK
<1>3. i = Len(stack[f]) \/ (Len(stack[f]) = 2 /\ i = 1)
  <2>1. i \in 1 .. Len(stack[f])
    BY <1>1
  <2>2. \A n \in {0, 1, 2} : \A k \in 1 .. n : k = n \/ (n = 2 /\ k = 1)
    OBVIOUS
  <2>. QED  BY <1>2, <2>1, <2>2
<1>. QED  BY <1>2, <1>3 DEF Top

\* A call that does not forget comes to its end.
LEMMA PopTrack ==
    ASSUME TrackInv, NEW f \in Flow, stack[f] # <<>>, Pop(f), Top(f).pc # "forget",
           UNCHANGED <<cached, deactivated, order>>
    PROVE  TrackOK'
<1>1. StackType
  BY DEF TrackInv, ShapeInv, FlowInv, OnceInv, TypeOK, StackType
<1>2. \A g \in Flow : \A i \in DOMAIN stack[g] : stack[g][i].pc = "forget" =>
         i \in DOMAIN stack'[g] /\ stack'[g][i] = stack[g][i]
  <2>. SUFFICES ASSUME NEW g \in Flow, NEW i \in DOMAIN stack[g], stack[g][i].pc = "forget"
                PROVE  i \in DOMAIN stack'[g] /\ stack'[g][i] = stack[g][i]
    OBVIOUS
  <2>. QED  BY <1>1 DEF Pop, StackType, Top
<1>3. \A g \in Flow : \A i \in DOMAIN stack'[g] :
         i \in DOMAIN stack[g] /\ stack'[g][i] = stack[g][i]
  BY <1>1, PopFrames
<1>4. TrackedUntilDeactivated'
  BY <1>2 DEF TrackInv, TrackOK, TrackedUntilDeactivated
<1>. QED  BY <1>3, <1>4 DEF TrackInv, TrackOK

\* A call goes on.
LEMMA SetTopTrack ==
    ASSUME TrackInv, NEW f \in Flow, stack[f] # <<>>, NEW fr \in Frame, SetTop(f, fr),
           fr.pc = "forget" <=> Top(f).pc = "forget", fr.purge = Top(f).purge,
           fr.pc = "forget" => Top(f).rest \subseteq fr.rest \cup deactivated',
           deactivated \subseteq deactivated', UNCHANGED <<cached, order>>
    PROVE  TrackOK'
<1>1. StackType
  BY DEF TrackInv, ShapeInv, FlowInv, OnceInv, TypeOK, StackType
<1>2. \A g \in Flow : \A i \in DOMAIN stack[g] :
         /\ i \in DOMAIN stack'[g]
         /\ stack'[g][i] = IF g = f /\ i = Len(stack[f]) THEN fr ELSE stack[g][i]
  BY <1>1, SetTopStays
<1>3. \A g \in Flow : \A i \in DOMAIN stack'[g] :
         /\ i \in DOMAIN stack[g]
         /\ stack'[g][i].pc = "forget" => stack[g][i].pc = "forget"
         /\ stack'[g][i].purge = stack[g][i].purge
         /\ stack[g][i].pc = "forget" =>
               stack[g][i].rest \subseteq stack'[g][i].rest \cup deactivated'
         /\ stack[g][i].pc = "forget" => stack'[g][i].pc = "forget"
  BY <1>1, SetTopFrames DEF Top
<1>4. TrackedUntilDeactivated'
  <2>. SUFFICES ASSUME NEW x \in Instance, order[x] > 0, x \notin deactivated',
                       \A o \in Owner : x \notin cached[o]
                PROVE  \E g \in Flow : \E i \in DOMAIN stack'[g] :
                          stack'[g][i].pc = "forget" /\ x \in stack'[g][i].rest
    BY DEF TrackedUntilDeactivated
  <2>1. PICK g \in Flow : \E i \in DOMAIN stack[g] :
           stack[g][i].pc = "forget" /\ x \in stack[g][i].rest
    BY DEF TrackInv, TrackOK, TrackedUntilDeactivated
  <2>2. PICK i \in DOMAIN stack[g] : stack[g][i].pc = "forget" /\ x \in stack[g][i].rest
    BY <2>1
  <2>. QED  BY <1>2, <1>3, <2>2
<1>5. ASSUME NEW g \in Flow, NEW i \in DOMAIN stack'[g], stack'[g][i].pc = "forget",
             NEW o \in Owner
      PROVE  cached'[o] \cap stack'[g][i].purge \subseteq stack'[g][i].rest \cup deactivated'
  <2>1. cached[o] \cap stack[g][i].purge \subseteq stack[g][i].rest \cup deactivated
    BY <1>3, <1>5 DEF TrackInv, TrackOK
  <2>. QED  BY <1>3, <1>5, <2>1
<1>6. \A g, h \in Flow : \A i \in DOMAIN stack'[g], j \in DOMAIN stack'[h] :
         stack'[g][i].pc = "forget" /\ stack'[h][j].pc = "forget" => g = h /\ i = j
  BY <1>3 DEF TrackInv, TrackOK
<1>. QED  BY <1>4, <1>5, <1>6 DEF TrackOK

\* Calls begin that do not forget.
LEMMA PushTrack ==
    ASSUME TrackInv, NEW f \in Flow, NEW frames \in Seq(Frame), Push(f, frames),
           \A k \in DOMAIN frames : frames[k].pc # "forget",
           UNCHANGED <<cached, deactivated, order>>
    PROVE  TrackOK'
<1>1. StackType
  BY DEF TrackInv, ShapeInv, FlowInv, OnceInv, TypeOK, StackType
<1>2. \A g \in Flow : \A i \in DOMAIN stack[g] :
         i \in DOMAIN stack'[g] /\ stack'[g][i] = stack[g][i]
  BY <1>1, PushStays
<1>3. \A g \in Flow : \A i \in DOMAIN stack'[g] : stack'[g][i].pc = "forget" =>
         i \in DOMAIN stack[g] /\ stack'[g][i] = stack[g][i]
  BY <1>1, PushFrames
<1>4. TrackedUntilDeactivated'
  BY <1>2 DEF TrackInv, TrackOK, TrackedUntilDeactivated
<1>. QED  BY <1>3, <1>4 DEF TrackInv, TrackOK

LEMMA EnterScopeTrack ==
    ASSUME TrackInv, NEW f \in Flow, NEW s \in Scope, NEW below \in Seq(Frame),
           EnterScope(f, s, below), \A k \in DOMAIN below : below[k].pc # "forget",
           UNCHANGED <<cached, deactivated, order>>
    PROVE  TrackOK'
<1>. DEFINE top(a) == NewFrame("raise", s, a, {}, {})
            frames(a) == Append(below, top(a))
<1>1. PICK a \in Area \cup {NoArea} : Push(f, frames(a))
  BY DEF EnterScope
<1>2. top(a) \in Frame /\ top(a).pc = "raise"
  <2>1. s \in Owner /\ s # NoOwner
    BY ConstantsAssumption
  <2>2. top(a) \in Frame
    BY <2>1, NewFrameType
  <2>. QED  BY <2>2 DEF NewFrame
<1>. HIDE DEF top
<1>3. frames(a) \in Seq(Frame) /\ \A k \in DOMAIN frames(a) : frames(a)[k].pc # "forget"
  BY <1>2
<1>. HIDE DEF frames
<1>. QED  BY <1>1, <1>3, PushTrack

\* A call begins to forget what it takes over.
LEMMA ForgetTrack ==
    ASSUME TrackInv, NobodyForgets, NEW f \in Flow, NEW i \in DOMAIN stack'[f],
           NEW fr, stack'[f][i] = fr, fr.pc = "forget",
           \A g \in Flow : \A j \in DOMAIN stack'[g] : stack'[g][j].pc = "forget" => g = f /\ j = i,
           \A o \in Owner : cached'[o] \subseteq cached[o]
                            /\ cached[o] \subseteq cached'[o] \cup fr.rest
                            /\ cached'[o] \cap fr.purge \subseteq fr.rest,
           UNCHANGED <<deactivated, order>>
    PROVE  TrackOK'
<1>1. TrackedUntilDeactivated'
  <2>. SUFFICES ASSUME NEW x \in Instance, order[x] > 0, x \notin deactivated,
                       \A o \in Owner : x \notin cached'[o]
                PROVE  x \in fr.rest
    BY DEF TrackedUntilDeactivated
  <2>1. PICK o \in Owner : x \in cached[o]
    BY DEF TrackInv, TrackOK, TrackedUntilDeactivated, NobodyForgets
  <2>. QED  BY <2>1
<1>2. \A g \in Flow : \A j \in DOMAIN stack'[g] : stack'[g][j].pc = "forget" =>
         \A o \in Owner : cached'[o] \cap stack'[g][j].purge
                              \subseteq stack'[g][j].rest \cup deactivated'
  OBVIOUS
<1>3. \A g, h \in Flow : \A j \in DOMAIN stack'[g], k \in DOMAIN stack'[h] :
         stack'[g][j].pc = "forget" /\ stack'[h][k].pc = "forget" => g = h /\ j = k
  OBVIOUS
<1>. QED  BY <1>1, <1>2, <1>3 DEF TrackOK

\* Where no Dispose method throws either, no step makes the cache forget more than
\* is deactivated.
LEMMA TrackStep ==
    ASSUME Straight, ~Allows("throw")
    PROVE  TrackInv /\ [Next]_vars => TrackInv'
<1>. SUFFICES ASSUME TrackInv, [Next]_vars PROVE TrackOK'
  BY StraightStep DEF TrackInv
<1>t. TypeOK /\ StackType /\ ShapeInv
  BY DEF TrackInv, ShapeInv, FlowInv, OnceInv, TypeOK, StackType
<1>q. /\ \A f \in Flow : UserCode(f) => stack[f] = <<>>
      /\ "throw" \notin Env /\ "fork" \notin Env
  BY DEF Straight, UserCode
<1>f. ASSUME NEW f \in Flow, stack[f] # <<>>
      PROVE  /\ Top(f) \in Frame
             /\ Top(f).pc = "raise" => area[f] # NoArea
             /\ Top(f) = stack[f][Len(stack[f])] /\ Len(stack[f]) \in DOMAIN stack[f]
  <2>1. Top(f) \in Frame /\ Len(stack[f]) \in DOMAIN stack[f] /\ Top(f) = stack[f][Len(stack[f])]
    BY <1>f, <1>t, TopFrame DEF Top
  <2>. QED  BY <1>t, <2>1 DEF ShapeInv, ShapeOK
<1>1. ASSUME NEW f \in Flow, LibraryStep(f) PROVE TrackOK'
  <2>1. CASE RaiseDisposed(f)
    <3>. DEFINE fr == [Top(f) EXCEPT !.pc = "close"]
                s == Top(f).owner
                xs == Pending(Entries(s))
    <3>1. /\ stack[f] # <<>> /\ Top(f).pc = "raise" /\ SetTop(f, fr) /\ CacheFree(f)
          /\ deactivated' = deactivated \cup xs
          /\ cached' = [cached EXCEPT ![s] = @ \ Entries(s)]
          /\ order' = order
      BY <2>1 DEF RaiseDisposed, At
    <3>2. NobodyForgets
      BY <1>t, <3>1, CacheFreeAlone
    <3>3. fr \in Frame
      BY <1>f, <3>1, FrameUpdate
    <3>4. fr.pc = "close"
      BY <1>f, <3>1 DEF Frame, FrameRecord
    <3>. HIDE DEF fr
    <3>5. NobodyForgets'
      BY <1>t, <3>1, <3>2, <3>3, <3>4, SetTopFrames DEF NobodyForgets
    <3>6. \A o \in Owner : cached'[o] = IF o = s THEN cached[o] \ Entries(s) ELSE cached[o]
      BY <1>t, <3>1 DEF TypeOK
    <3>7. ASSUME NEW x \in Instance, order[x] > 0, x \notin deactivated'
          PROVE  \E o \in Owner : x \in cached'[o]
      <4>1. PICK o \in Owner : x \in cached[o]
        BY <3>1, <3>2, <3>7 DEF TrackInv, TrackOK, TrackedUntilDeactivated, NobodyForgets
      <4>2. x \notin Entries(s)
        BY <3>1, <3>7 DEF Pending
      <4>. QED  BY <3>6, <4>1, <4>2
    <3>. QED  BY <3>1, <3>5, <3>7 DEF TrackOK, TrackedUntilDeactivated, NobodyForgets
  <2>2. CASE RaiseFails(f)
    BY <1>t, <2>2, NothingFails
  <2>3. CASE CloseInner(f) \/ CloseEmpty(f) \/ FinishDrain(f)
    BY <2>3, PopTrack DEF CloseInner, CloseEmpty, FinishDrain, At
  <2>5. CASE StartDrain(f)
    <3>. DEFINE b == Top(f).area
                fr == [Top(f) EXCEPT !.pc = "drain", !.rest = items[b]]
    <3>1. /\ stack[f] # <<>> /\ Top(f).pc = "close" /\ b # NoArea /\ SetTop(f, fr)
          /\ UNCHANGED <<cached, deactivated, order>>
      BY <2>5 DEF StartDrain, At
    <3>2. b \in Area
      BY <1>f, <3>1 DEF Frame, FrameRecord
    <3>3. items[b] \in SUBSET Instance
      BY <1>t, <3>2 DEF TypeOK
    <3>4. fr \in Frame
      BY <1>f, <3>1, <3>3, FrameUpdate
    <3>5. fr.pc = "drain" /\ fr.purge = Top(f).purge
      BY <1>f, <3>1 DEF Frame, FrameRecord
    <3>. HIDE DEF fr
    <3>. QED  BY <3>1, <3>4, <3>5, SetTopTrack
  <2>6. CASE DisposeNext(f)
    <3>1. stack[f] # <<>> /\ Top(f).pc = "drain" /\ UNCHANGED <<cached, deactivated, order>>
      BY <2>6 DEF DisposeNext, At
    <3>2. PICK y \in Top(f).rest :
             SetTop(f, [Top(f) EXCEPT !.rest = @ \ {y}, !.running = Running(y)])
      BY <2>6 DEF DisposeNext, Drainable
    <3>. DEFINE fr == [Top(f) EXCEPT !.rest = @ \ {y}, !.running = Running(y)]
    <3>3. fr \in Frame /\ fr.pc = "drain" /\ fr.purge = Top(f).purge
      <4>1. Top(f) \in Frame /\ y \in Instance
        BY <1>f, <3>1, <3>2 DEF Frame, FrameRecord
      <4>. QED  BY <3>1, <3>2, <4>1, RunningUpdate
    <3>4. SetTop(f, fr)
      BY <3>2
    <3>. HIDE DEF fr
    <3>. QED  BY <3>1, <3>3, <3>4, SetTopTrack
  <2>8. CASE KernelClear(f)
    <3>. DEFINE fr == NewFrame("forget", Kernel, NoArea, AllEntries, Instance)
                i == Len(stack[f])
    <3>1. /\ stack[f] # <<>> /\ Top(f).pc = "clear" /\ SetTop(f, fr) /\ CacheFree(f)
          /\ UNCHANGED <<cached, deactivated, order>>
      BY <2>8 DEF KernelClear, At
    <3>2. fr \in Frame
      BY <1>t, NewFrameType, ConstantsAssumption DEF AllEntries, TypeOK
    <3>3. fr.pc = "forget" /\ fr.rest = AllEntries
      BY DEF NewFrame
    <3>. HIDE DEF fr
    <3>4. NobodyForgets
      BY <1>t, <3>1, CacheFreeAlone
    <3>5. i \in DOMAIN stack'[f] /\ stack'[f][i] = fr
      BY <1>t, <1>f, <3>1, <3>2, SetTopStays
    <3>6. \A g \in Flow : \A j \in DOMAIN stack'[g] :
             stack'[g][j].pc = "forget" => g = f /\ j = i
      BY <1>t, <3>1, <3>2, <3>4, SetTopFrames DEF NobodyForgets
    <3>7. \A o \in Owner : cached[o] \subseteq fr.rest
      BY <3>3 DEF AllEntries
    <3>. QED  BY <3>1, <3>3, <3>4, <3>5, <3>6, <3>7, ForgetTrack
  <2>9. CASE ForgetNow(f)
    <3>1. stack[f] # <<>> /\ Top(f).pc = "forget" /\ UNCHANGED <<cached, order>>
      BY <2>9 DEF ForgetNow, At
    <3>2. PICK y \in Pending(Top(f).rest) :
             /\ deactivated' = deactivated \cup {y}
             /\ SetTop(f, [Top(f) EXCEPT !.rest = @ \ {y}, !.running = Running(y)])
      BY <2>9 DEF ForgetNow
    <3>. DEFINE fr == [Top(f) EXCEPT !.rest = @ \ {y}, !.running = Running(y)]
    <3>3. /\ fr \in Frame /\ fr.pc = "forget" /\ fr.purge = Top(f).purge
          /\ fr.rest = Top(f).rest \ {y}
      <4>1. Top(f) \in Frame /\ y \in Instance
        BY <1>f, <3>1, <3>2 DEF Frame, FrameRecord, Pending
      <4>. QED  BY <3>1, <3>2, <4>1, RunningUpdate
    <3>4. SetTop(f, fr)
      BY <3>2
    <3>. HIDE DEF fr
    <3>. QED  BY <3>1, <3>2, <3>3, <3>4, SetTopTrack
  <2>10. CASE ForgetIntoArea(f)
    <3>1. stack[f] # <<>> /\ Top(f).pc = "forget" /\ UNCHANGED <<cached, order>>
      BY <2>10 DEF ForgetIntoArea, At
    <3>2. PICK y \in Pending(Top(f).rest) :
             /\ deactivated' = deactivated \cup {y}
             /\ SetTop(f, [Top(f) EXCEPT !.rest = @ \ {y}])
      BY <2>10 DEF ForgetIntoArea
    <3>. DEFINE fr == [Top(f) EXCEPT !.rest = @ \ {y}]
    <3>3. /\ fr \in Frame /\ fr.pc = "forget" /\ fr.purge = Top(f).purge
          /\ fr.rest = Top(f).rest \ {y}
      BY <1>f, <3>1, <3>2 DEF Frame, FrameRecord
    <3>4. SetTop(f, fr)
      BY <3>2
    <3>. HIDE DEF fr
    <3>. QED  BY <3>1, <3>2, <3>3, <3>4, SetTopTrack
  <2>11. CASE ForgetFails(f)
    BY <1>t, <2>11, NothingFails
  <2>12. CASE FinishForget(f)
    <3>. DEFINE fr == Top(f)
    <3>1. /\ stack[f] # <<>> /\ fr.pc = "forget" /\ Pop(f) /\ Pending(fr.rest) = {}
          /\ cached' = [o \in Owner |-> cached[o] \ fr.purge]
          /\ UNCHANGED <<deactivated, order>>
      BY <2>12 DEF FinishForget, At
    <3>2. fr = stack[f][Len(stack[f])] /\ Len(stack[f]) \in DOMAIN stack[f]
      BY <1>f, <3>1
    <3>. HIDE DEF fr
    <3>3. NobodyForgets'
      <4>. SUFFICES ASSUME NEW g \in Flow, NEW j \in DOMAIN stack'[g]
                    PROVE  stack'[g][j].pc # "forget"
        BY DEF NobodyForgets
      <4>1. j \in DOMAIN stack[g] /\ stack'[g][j] = stack[g][j] /\ (g = f => j < Len(stack[f]))
        BY <1>t, <3>1, PopFrames
      <4>2. ~(g = f /\ j = Len(stack[f]))
        <5>1. Len(stack[f]) \in Nat
          BY <1>t DEF StackType
        <5>. QED  BY <4>1, <5>1
      <4>. QED  BY <3>1, <3>2, <4>1, <4>2 DEF TrackInv, TrackOK
    <3>4. ASSUME NEW x \in Instance, order[x] > 0, x \notin deactivated
          PROVE  \E o \in Owner : x \in cached'[o]
      <4>1. x \notin fr.rest
        BY <3>1, <3>4 DEF Pending
      <4>2. PICK o \in Owner : x \in cached[o]
        <5>1. \A g \in Flow : \A j \in DOMAIN stack[g] :
                 stack[g][j].pc = "forget" => x \notin stack[g][j].rest
          BY <3>1, <3>2, <4>1 DEF TrackInv, TrackOK
        <5>. QED  BY <3>4, <5>1 DEF TrackInv, TrackOK, TrackedUntilDeactivated
      <4>3. cached[o] \cap fr.purge \subseteq fr.rest \cup deactivated
        BY <3>1, <3>2 DEF TrackInv, TrackOK
      <4>. QED  BY <3>1, <3>4, <4>1, <4>2, <4>3
    <3>. QED  BY <3>1, <3>3, <3>4 DEF TrackOK, TrackedUntilDeactivated, NobodyForgets
  <2>. QED  BY <1>1, <2>1, <2>2, <2>3, <2>5, <2>6, <2>8, <2>9, <2>10, <2>11, <2>12
            DEF LibraryStep
<1>2. ASSUME NEW f \in Flow, ApplicationStep(f) PROVE TrackOK'
  <2>1. ASSUME NEW x \in Instance, NEW o \in Owner,
               Resolve(f, x, o) \/ Share(f, x, o)
        PROVE  TrackOK'
    <3>1. /\ NobodyForgets /\ UNCHANGED <<stack, deactivated>>
          /\ cached' = [cached EXCEPT ![o] = @ \cup {x}]
          /\ \A y \in Instance : y # x => order'[y] = order[y]
      BY <1>t, <1>q, <2>1, CacheFreeAlone DEF Resolve, Share, CanBeCached, TypeOK
    <3>2. /\ x \in cached'[o] /\ \A p \in Owner : cached[p] \subseteq cached'[p]
      BY <1>t, <3>1 DEF TypeOK
    <3>3. TrackedUntilDeactivated'
      BY <3>1, <3>2 DEF TrackInv, TrackOK, TrackedUntilDeactivated, NobodyForgets
    <3>. QED  BY <3>1, <3>3 DEF TrackOK, NobodyForgets
  <2>2. ASSUME NEW s \in Scope, DisposeScope(f, s) PROVE TrackOK'
    <3>1. <<>> \in Seq(Frame) /\ \A k \in DOMAIN <<>> : <<>>[k].pc # "forget"
      OBVIOUS
    <3>2. EnterScope(f, s, <<>>) /\ UNCHANGED <<cached, deactivated, order>>
      BY <2>2 DEF DisposeScope
    <3>. QED  BY <3>1, <3>2, EnterScopeTrack
  <2>3. CASE DisposeKernel(f)
    <3>. DEFINE fr == NewFrame("clear", Kernel, NoArea, {}, {})
    <3>1. fr \in Frame
      BY NewFrameType, ConstantsAssumption
    <3>2. fr.pc = "clear"
      BY DEF NewFrame
    <3>3. EnterScope(f, Root, <<fr>>) /\ UNCHANGED <<cached, deactivated, order>>
      BY <2>3 DEF DisposeKernel
    <3>. HIDE DEF fr
    <3>4. <<fr>> \in Seq(Frame) /\ \A k \in DOMAIN <<fr>> : <<fr>>[k].pc # "forget"
      BY <3>1, <3>2
    <3>. QED  BY <3>3, <3>4, EnterScopeTrack, ConstantsAssumption
  <2>4. ASSUME NEW o \in Owner \cup {NoOwner}, NEW rest \in SUBSET Instance,
               NEW purge \in SUBSET Instance, CacheFree(f), stack[f] = <<>>,
               Push(f, <<NewFrame("forget", o, NoArea, rest, purge)>>),
               \A p \in Owner : /\ cached'[p] \subseteq cached[p]
                                /\ cached[p] \subseteq cached'[p] \cup rest
                                /\ cached'[p] \cap purge \subseteq rest,
               UNCHANGED <<deactivated, order>>
        PROVE  TrackOK'
    <3>. DEFINE fr == NewFrame("forget", o, NoArea, rest, purge)
    <3>1. fr.pc = "forget" /\ fr.rest = rest /\ fr.purge = purge
      BY DEF NewFrame
    <3>. HIDE DEF fr
    <3>2. NobodyForgets
      BY <1>t, <2>4, CacheFreeAlone
    <3>3. stack'[f] = <<fr>> /\ \A g \in Flow : g # f => stack'[g] = stack[g]
      BY <1>t, <2>4 DEF Push, StackType, fr
    <3>4. 1 \in DOMAIN stack'[f] /\ stack'[f][1] = fr
      BY <3>3
    <3>5. \A g \in Flow : \A j \in DOMAIN stack'[g] :
             stack'[g][j].pc = "forget" => g = f /\ j = 1
      BY <3>2, <3>3 DEF NobodyForgets
    <3>. QED  BY <2>4, <3>1, <3>2, <3>4, <3>5, ForgetTrack
  <2>5. ASSUME NEW p \in RequestScope, DisposeRequestScope(f, p) PROVE TrackOK'
    <3>1. cached[p] \in SUBSET Instance /\ {} \in SUBSET Instance /\ p \in Owner \cup {NoOwner}
      BY <1>t DEF TypeOK
    <3>2. /\ cached' = [cached EXCEPT ![p] = {}] /\ CacheFree(f) /\ stack[f] = <<>>
          /\ Push(f, <<NewFrame("forget", p, NoArea, cached[p], {})>>)
          /\ UNCHANGED <<deactivated, order>>
      BY <1>q, <2>5 DEF DisposeRequestScope
    <3>3. \A o \in Owner : cached'[o] = IF o = p THEN {} ELSE cached[o]
      BY <1>t, <3>2 DEF TypeOK
    <3>. QED  BY <2>4, <3>1, <3>2, <3>3
  <2>6. ASSUME NEW x \in Instance, Release(f, x) PROVE TrackOK'
    <3>1. /\ CacheFree(f) /\ stack[f] = <<>>
          /\ Push(f, <<NewFrame("forget", NoOwner, NoArea, {x}, {x})>>)
          /\ UNCHANGED <<cached, deactivated, order>>
      BY <1>q, <2>6 DEF Release
    <3>. QED  BY <2>4, <3>1
  <2>7. CASE DisposeReturns(f)
    <3>. DEFINE fr == [Top(f) EXCEPT !.running = NoInstance]
    <3>1. /\ stack[f] # <<>> /\ SetTop(f, fr) /\ UNCHANGED <<cached, deactivated, order>>
      BY <2>7 DEF DisposeReturns, InDispose
    <3>2. /\ fr \in Frame /\ fr.pc = Top(f).pc /\ fr.rest = Top(f).rest
          /\ fr.purge = Top(f).purge
      BY <1>f, <3>1 DEF Frame, FrameRecord
    <3>. HIDE DEF fr
    <3>. QED  BY <3>1, <3>2, SetTopTrack
  <2>8. CASE DisposeThrows(f)
    BY <1>q, <2>8 DEF DisposeThrows
  <2>9. ASSUME NEW g \in Flow, Fork(f, g) PROVE TrackOK'
    BY <1>q, <2>9 DEF Fork
  <2>. QED  BY <1>2, <2>1, <2>2, <2>3, <2>5, <2>6, <2>7, <2>8, <2>9
            DEF ApplicationStep
<1>3. ASSUME NEW x \in Instance, Collect(x) PROVE TrackOK'
  BY <1>3 DEF Collect, TrackInv, TrackOK, TrackedUntilDeactivated
<1>4. CASE UNCHANGED vars
  BY <1>4 DEF vars, TrackInv, TrackOK, TrackedUntilDeactivated
<1>. QED  BY <1>1, <1>2, <1>3, <1>4 DEF Next

LEMMA TrackInvHolds ==
    ASSUME Straight, ~Allows("throw")
    PROVE  Spec => []TrackInv
<1>1. Init => TrackOK
  BY DEF Init, TrackOK, TrackedUntilDeactivated
<1>2. ShapeInv /\ TrackOK /\ [Next]_vars => TrackOK'
  BY TrackStep DEF TrackInv
<1>3. Spec => []ShapeInv
  BY ShapeInvHolds
<1>4. ShapeInv /\ TrackOK <=> TrackInv
  BY DEF TrackInv
<1>. QED  BY <1>1, <1>2, <1>3, <1>4, PTL DEF Spec

\* Nothing is forgotten without being deactivated, in every application that calls
\* straight and whose Dispose methods do not throw
\* (NinjectServiceScope.cs:25-31, AspNetCoreKernel.cs:77-85).
THEOREM TrackedUntilGone ==
    ASSUME Straight, ~Allows("throw")
    PROVE  Spec => []TrackedUntilDeactivated
<1>1. TrackInv => TrackedUntilDeactivated
  BY DEF TrackInv, TrackOK
<1>2. Spec => []TrackInv
  BY TrackInvHolds
<1>. QED  BY <1>1, <1>2, PTL

-----------------------------------------------------------------------------
(***************************************************************************)
(* What the kernel's disposal leaves behind.  It forgets all entries; as   *)
(* nothing was lost before and nothing is cached afterwards, none is left. *)
(***************************************************************************)
KernelFrame(fr) ==
    /\ fr.pc = "clear" => fr.owner = Kernel
    /\ fr.owner = Kernel => fr.pc = "clear" \/ (fr.pc = "forget" /\ fr.purge = Instance)

KernelOK ==
    /\ KernelDeactivatesAll
    /\ \A f \in Flow : \A i \in DOMAIN stack[f] : KernelFrame(stack[f][i])

\* A step that neither disposes the kernel nor activates an instance.
LEMMA KernelStays ==
    ASSUME KernelOK, StackType, order' = order, deactivated \subseteq deactivated',
           disposed'[Kernel] = disposed[Kernel], NEW f \in Flow,
           \/ stack' = stack
           \/ stack[f] # <<>> /\ (Pop(f) \/ Unwind(f))
           \/ stack[f] # <<>> /\ \E fr \in Frame : SetTop(f, fr) /\ KernelFrame(fr)
           \/ \E frames \in Seq(Frame) :
                 Push(f, frames) /\ \A k \in DOMAIN frames : KernelFrame(frames[k])
    PROVE  KernelOK'
<1>1. KernelDeactivatesAll'
  BY DEF KernelOK, KernelDeactivatesAll
<1>2. \A g \in Flow : \A i \in DOMAIN stack'[g] : KernelFrame(stack'[g][i])
  <2>1. CASE stack' = stack
    BY <2>1 DEF KernelOK
  <2>2. CASE stack[f] # <<>> /\ (Pop(f) \/ Unwind(f))
    BY <2>2, PopFrames DEF KernelOK
  <2>3. CASE stack[f] # <<>> /\ \E fr \in Frame : SetTop(f, fr) /\ KernelFrame(fr)
    BY <2>3, SetTopFrames DEF KernelOK
  <2>4. CASE \E frames \in Seq(Frame) :
                Push(f, frames) /\ \A k \in DOMAIN frames : KernelFrame(frames[k])
    BY <2>4, PushFrames DEF KernelOK
  <2>. QED  BY <2>1, <2>2, <2>3, <2>4
<1>. QED  BY <1>1, <1>2 DEF KernelOK, KernelFrame

\* A flow enters a scope.
LEMMA EnterScopeKernel ==
    ASSUME KernelOK, StackType, UNCHANGED <<order, deactivated, disposed>>,
           NEW f \in Flow, NEW s \in Scope, NEW below \in Seq(Frame),
           EnterScope(f, s, below), \A k \in DOMAIN below : KernelFrame(below[k])
    PROVE  KernelOK'
<1>. DEFINE top(a) == NewFrame("raise", s, a, {}, {})
            frames(a) == Append(below, top(a))
<1>1. PICK a \in Area \cup {NoArea} : Push(f, frames(a))
  BY DEF EnterScope
<1>2. top(a) \in Frame /\ KernelFrame(top(a))
  <2>1. s \in Owner /\ s # NoOwner /\ s # Kernel
    BY ConstantsAssumption
  <2>2. top(a) \in Frame
    BY <2>1, NewFrameType
  <2>. QED  BY <2>1, <2>2 DEF NewFrame, KernelFrame
<1>. HIDE DEF top
<1>3. frames(a) \in Seq(Frame) /\ \A k \in DOMAIN frames(a) : KernelFrame(frames(a)[k])
  BY <1>2
<1>. HIDE DEF frames
<1>. QED  BY <1>1, <1>3, KernelStays

LEMMA KernelStep ==
    ASSUME Straight, ~Allows("throw"), TrackInv, TrackInv', KernelOK, [Next]_vars
    PROVE  KernelOK'
<1>t. TypeOK /\ StackType
  BY DEF TrackInv, ShapeInv, FlowInv, OnceInv, TypeOK, StackType
<1>f. ASSUME NEW f \in Flow, stack[f] # <<>>
      PROVE  /\ Top(f) \in Frame /\ KernelFrame(Top(f))
             /\ Top(f) = stack[f][Len(stack[f])] /\ Len(stack[f]) \in DOMAIN stack[f]
  <2>1. Top(f) \in Frame /\ Len(stack[f]) \in DOMAIN stack[f] /\ Top(f) = stack[f][Len(stack[f])]
    BY <1>f, <1>t, TopFrame DEF Top
  <2>. QED  BY <2>1 DEF KernelOK
<1>1. ASSUME NEW f \in Flow, LibraryStep(f) PROVE KernelOK'
  <2>1. CASE RaiseDisposed(f)
    <3>. DEFINE fr == [Top(f) EXCEPT !.pc = "close"]
    <3>1. /\ stack[f] # <<>> /\ Top(f).pc = "raise" /\ SetTop(f, fr)
          /\ disposed' = [disposed EXCEPT ![Top(f).owner] = TRUE]
          /\ order' = order /\ deactivated \subseteq deactivated'
      BY <2>1 DEF RaiseDisposed, At
    <3>2. fr \in Frame /\ Top(f).owner # Kernel
      BY <1>f, <3>1, FrameUpdate DEF KernelFrame
    <3>3. KernelFrame(fr)
      BY <1>f, <3>1, <3>2 DEF KernelFrame, Frame, FrameRecord
    <3>. HIDE DEF fr
    <3>4. disposed'[Kernel] = disposed[Kernel]
      BY <1>t, <3>1, <3>2 DEF TypeOK
    <3>. QED  BY <1>t, <3>1, <3>2, <3>3, <3>4, KernelStays
  <2>2. CASE RaiseFails(f) \/ ForgetFails(f)
    BY <2>2, NothingFails DEF TrackInv
  <2>3. CASE CloseInner(f) \/ CloseEmpty(f) \/ FinishDrain(f)
    BY <1>t, <2>3, KernelStays DEF CloseInner, CloseEmpty, FinishDrain, At
  <2>4. CASE StartDrain(f)
    <3>. DEFINE b == Top(f).area
                fr == [Top(f) EXCEPT !.pc = "drain", !.rest = items[b]]
    <3>1. /\ stack[f] # <<>> /\ Top(f).pc = "close" /\ b # NoArea /\ SetTop(f, fr)
          /\ UNCHANGED <<deactivated, order, disposed>>
      BY <2>4 DEF StartDrain, At
    <3>2. items[b] \in SUBSET Instance
      BY <1>t, <1>f, <3>1 DEF TypeOK, Frame, FrameRecord
    <3>3. fr \in Frame
      BY <1>f, <3>1, <3>2, FrameUpdate
    <3>4. KernelFrame(fr)
      BY <1>f, <3>1 DEF KernelFrame, Frame, FrameRecord
    <3>. HIDE DEF fr
    <3>. QED  BY <1>t, <3>1, <3>3, <3>4, KernelStays
  <2>5. CASE DisposeNext(f) \/ ForgetNow(f)
    <3>1. PICK y \in Instance :
             /\ stack[f] # <<>>
             /\ SetTop(f, [Top(f) EXCEPT !.rest = @ \ {y}, !.running = Running(y)])
             /\ UNCHANGED <<order, disposed>> /\ deactivated \subseteq deactivated'
      BY <1>f, <2>5 DEF DisposeNext, Drainable, ForgetNow, Pending, At, Frame, FrameRecord
    <3>. DEFINE fr == [Top(f) EXCEPT !.rest = @ \ {y}, !.running = Running(y)]
    <3>2. fr \in Frame /\ KernelFrame(fr)
      <4>1. Top(f) \in Frame /\ y \in Instance
        BY <1>f, <3>1 DEF Frame, FrameRecord
      <4>2. fr \in Frame /\ fr.pc = Top(f).pc /\ fr.owner = Top(f).owner
            /\ fr.purge = Top(f).purge
        BY <4>1, RunningUpdate
      <4>. QED  BY <1>f, <3>1, <4>2 DEF KernelFrame
    <3>3. SetTop(f, fr)
      BY <3>1
    <3>. HIDE DEF fr
    <3>. QED  BY <1>t, <3>1, <3>2, <3>3, KernelStays
  <2>6. CASE ForgetIntoArea(f)
    <3>1. PICK y : /\ stack[f] # <<>>
                   /\ SetTop(f, [Top(f) EXCEPT !.rest = @ \ {y}])
                   /\ UNCHANGED <<order, disposed>> /\ deactivated \subseteq deactivated'
      BY <2>6 DEF ForgetIntoArea, At
    <3>. DEFINE fr == [Top(f) EXCEPT !.rest = @ \ {y}]
    <3>2. fr \in Frame /\ KernelFrame(fr)
      BY <1>f, <3>1 DEF KernelFrame, Frame, FrameRecord
    <3>3. SetTop(f, fr)
      BY <3>1
    <3>. HIDE DEF fr
    <3>. QED  BY <1>t, <3>1, <3>2, <3>3, KernelStays
  <2>7. CASE KernelClear(f)
    <3>. DEFINE fr == NewFrame("forget", Kernel, NoArea, AllEntries, Instance)
    <3>1. /\ stack[f] # <<>> /\ SetTop(f, fr) /\ UNCHANGED <<deactivated, order, disposed>>
      BY <2>7 DEF KernelClear, At
    <3>2. fr \in Frame
      BY <1>t, NewFrameType, ConstantsAssumption DEF AllEntries, TypeOK
    <3>3. KernelFrame(fr)
      BY DEF NewFrame, KernelFrame
    <3>. HIDE DEF fr
    <3>. QED  BY <1>t, <3>1, <3>2, <3>3, KernelStays
  <2>8. CASE FinishForget(f)
    <3>. DEFINE fr == Top(f)
    <3>1. /\ stack[f] # <<>> /\ fr.pc = "forget" /\ Pop(f)
          /\ cached' = [o \in Owner |-> cached[o] \ fr.purge]
          /\ disposed' = IF fr.owner = NoOwner THEN disposed
                         ELSE [disposed EXCEPT ![fr.owner] = TRUE]
          /\ UNCHANGED <<deactivated, order>>
      BY <2>8 DEF FinishForget, At
    <3>2. CASE fr.owner # Kernel
      <4>1. disposed'[Kernel] = disposed[Kernel]
        BY <1>t, <3>1, <3>2 DEF TypeOK
      <4>. QED  BY <1>t, <3>1, <4>1, KernelStays
    <3>3. CASE fr.owner = Kernel
      <4>1. fr = stack[f][Len(stack[f])] /\ Len(stack[f]) \in DOMAIN stack[f]
            /\ fr.purge = Instance
        BY <1>f, <3>1, <3>3 DEF KernelFrame
      <4>. HIDE DEF fr
      <4>2. \A o \in Owner : cached'[o] = {}
        BY <1>t, <3>1, <4>1 DEF TypeOK
      <4>3. \A g \in Flow : \A j \in DOMAIN stack'[g] :
               stack'[g][j] = stack[g][j] /\ stack'[g][j].pc # "forget"
        <5>. SUFFICES ASSUME NEW g \in Flow, NEW j \in DOMAIN stack'[g]
                      PROVE  stack'[g][j] = stack[g][j] /\ stack[g][j].pc # "forget"
          OBVIOUS
        <5>1. /\ j \in DOMAIN stack[g] /\ stack'[g][j] = stack[g][j]
              /\ g = f => j < Len(stack[f])
          BY <1>t, <3>1, PopFrames
        <5>2. ~(g = f /\ j = Len(stack[f]))
          <6>1. Len(stack[f]) \in Nat
            BY <1>t DEF StackType
          <6>. QED  BY <5>1, <6>1
        <5>. QED  BY <3>1, <4>1, <5>1, <5>2 DEF TrackInv, TrackOK
      <4>4. TrackedUntilDeactivated'
        BY DEF TrackInv, TrackOK
      <4>5. KernelDeactivatesAll'
        BY <4>2, <4>3, <4>4 DEF TrackedUntilDeactivated, KernelDeactivatesAll
      <4>6. \A g \in Flow : \A j \in DOMAIN stack'[g] : KernelFrame(stack'[g][j])
        BY <1>t, <3>1, PopFrames DEF KernelOK
      <4>. QED  BY <4>5, <4>6 DEF KernelOK, KernelFrame
    <3>. QED  BY <3>2, <3>3
  <2>. QED  BY <1>1, <2>1, <2>2, <2>3, <2>4, <2>5, <2>6, <2>7, <2>8 DEF LibraryStep
<1>2. ASSUME NEW f \in Flow, ApplicationStep(f) PROVE KernelOK'
  <2>1. ASSUME NEW x \in Instance, NEW o \in Owner,
               Resolve(f, x, o) \/ Share(f, x, o)
        PROVE  KernelOK'
    <3>1. ~disposed[Kernel] /\ UNCHANGED <<stack, disposed>>
      BY <2>1 DEF Resolve, Share, CanBeCached
    <3>. QED  BY <3>1 DEF KernelOK, KernelDeactivatesAll, KernelFrame
  <2>2. ASSUME NEW s \in Scope, DisposeScope(f, s) PROVE KernelOK'
    <3>1. <<>> \in Seq(Frame) /\ \A k \in DOMAIN <<>> : KernelFrame(<<>>[k])
      OBVIOUS
    <3>2. EnterScope(f, s, <<>>) /\ UNCHANGED <<deactivated, order, disposed>>
      BY <2>2 DEF DisposeScope
    <3>. QED  BY <1>t, <3>1, <3>2, EnterScopeKernel
  <2>3. CASE DisposeKernel(f)
    <3>. DEFINE fr == NewFrame("clear", Kernel, NoArea, {}, {})
    <3>1. fr \in Frame
      BY NewFrameType, ConstantsAssumption
    <3>2. KernelFrame(fr)
      BY DEF NewFrame, KernelFrame
    <3>3. EnterScope(f, Root, <<fr>>) /\ UNCHANGED <<deactivated, order, disposed>>
      BY <2>3 DEF DisposeKernel
    <3>. HIDE DEF fr
    <3>4. <<fr>> \in Seq(Frame) /\ \A k \in DOMAIN <<fr>> : KernelFrame(<<fr>>[k])
      BY <3>1, <3>2
    <3>. QED  BY <1>t, <3>3, <3>4, EnterScopeKernel, ConstantsAssumption
  <2>4. ASSUME NEW o \in (Owner \cup {NoOwner}) \ {Kernel}, NEW rest \in SUBSET Instance,
               NEW purge \in SUBSET Instance,
               Push(f, <<NewFrame("forget", o, NoArea, rest, purge)>>),
               UNCHANGED <<deactivated, order, disposed>>
        PROVE  KernelOK'
    <3>. DEFINE fr == NewFrame("forget", o, NoArea, rest, purge)
    <3>1. fr \in Frame
      BY NewFrameType
    <3>2. KernelFrame(fr) /\ Push(f, <<fr>>)
      BY <2>4 DEF NewFrame, KernelFrame
    <3>. HIDE DEF fr
    <3>3. <<fr>> \in Seq(Frame) /\ \A k \in DOMAIN <<fr>> : KernelFrame(<<fr>>[k])
      BY <3>1, <3>2
    <3>. QED  BY <1>t, <2>4, <3>2, <3>3, KernelStays
  <2>5. ASSUME NEW p \in RequestScope, DisposeRequestScope(f, p) PROVE KernelOK'
    <3>1. cached[p] \in SUBSET Instance /\ {} \in SUBSET Instance /\ p # Kernel
      BY <1>t, ConstantsAssumption DEF TypeOK
    <3>. QED  BY <2>4, <2>5, <3>1 DEF DisposeRequestScope
  <2>6. ASSUME NEW x \in Instance, Release(f, x) PROVE KernelOK'
    BY <2>4, <2>6, ConstantsAssumption DEF Release
  <2>7. CASE DisposeReturns(f)
    <3>. DEFINE fr == [Top(f) EXCEPT !.running = NoInstance]
    <3>1. /\ stack[f] # <<>> /\ SetTop(f, fr) /\ UNCHANGED <<deactivated, order, disposed>>
      BY <2>7 DEF DisposeReturns, InDispose
    <3>2. fr \in Frame /\ KernelFrame(fr)
      BY <1>f, <3>1 DEF KernelFrame, Frame, FrameRecord
    <3>. HIDE DEF fr
    <3>. QED  BY <1>t, <3>1, <3>2, KernelStays
  <2>8. CASE DisposeThrows(f)
    BY <2>8 DEF DisposeThrows
  <2>9. ASSUME NEW g \in Flow, Fork(f, g) PROVE KernelOK'
    BY <2>9 DEF Fork, Straight
  <2>. QED  BY <1>2, <2>1, <2>2, <2>3, <2>5, <2>6, <2>7, <2>8, <2>9
            DEF ApplicationStep
<1>3. ASSUME NEW x \in Instance, Collect(x) PROVE KernelOK'
  BY <1>3 DEF Collect, KernelOK, KernelDeactivatesAll, KernelFrame
<1>4. CASE UNCHANGED vars
  BY <1>4 DEF vars, KernelOK, KernelDeactivatesAll, KernelFrame
<1>. QED  BY <1>1, <1>2, <1>3, <1>4 DEF Next

\* The kernel's disposal deactivates every instance there ever was, also one that
\* was resolved through a disposed scope, in every application that calls straight
\* and whose Dispose methods do not throw (AspNetCoreKernel.cs:77-85).
THEOREM KernelLeavesNothing ==
    ASSUME Straight, ~Allows("throw")
    PROVE  Spec => []KernelDeactivatesAll
<1>1. Init => KernelOK
  BY DEF Init, KernelOK, KernelDeactivatesAll
<1>2. TrackInv /\ TrackInv' /\ KernelOK /\ [Next]_vars => KernelOK'
  BY KernelStep
<1>3. KernelOK => KernelDeactivatesAll
  BY DEF KernelOK
<1>4. Spec => []TrackInv
  BY TrackInvHolds
<1>. QED  BY <1>1, <1>2, <1>3, <1>4, PTL DEF Spec

-----------------------------------------------------------------------------
(***************************************************************************)
(* Where the documented promise holds.  Areas are left over because a      *)
(* scope turns out to have nothing to dispose.  In an application that is  *)
(* Steady this only happens when the kernel forgets all there is while a   *)
(* scope is being disposed, and then there is nothing left to lose.        *)
(***************************************************************************)
Steady == Env \subseteq {"request", "kernel"}

Activated == {x \in Instance : order[x] > 0}

\* The kernel forgets all entries, or has done so.
KernelGoes ==
    \/ disposed[Kernel]
    \/ \E f \in Flow : \E i \in DOMAIN stack[f] :
          stack[f][i].pc = "forget" /\ stack[f][i].owner = Kernel

SteadyRaise(fr) ==
    fr.pc = "raise" =>
        /\ fr.owner \in Scope /\ ~disposed[fr.owner]
        /\ Pending(cached[fr.owner]) # {} \/ KernelGoes

SteadyClose(fr) ==
    fr.pc = "close" /\ fr.area # NoArea => items[fr.area] # {} \/ KernelGoes

\* What a RequestScope forgets is in no cache any more.
SteadyForget(f, fr) ==
    fr.pc = "forget" =>
        /\ fr.rest \subseteq Activated
        /\ IF fr.owner = Kernel THEN disposed[Kernel] \/ area[f] = NoArea
           ELSE /\ fr.owner \in RequestScope /\ fr.purge = {}
                /\ \A o \in Owner : fr.rest \cap cached[o] = {}

SteadyFrame(f, fr) == SteadyRaise(fr) /\ SteadyClose(fr) /\ SteadyForget(f, fr)

CachedApart ==
    /\ \A o \in Owner : cached[o] \subseteq Activated
    /\ \A o, p \in Owner : o # p => cached[o] \cap cached[p] = {}

FramesSteady == \A f \in Flow : \A i \in DOMAIN stack[f] : SteadyFrame(f, stack[f][i])

\* No other call is about a scope that is about to raise its event.
RaiseAlone ==
    \A f, g \in Flow : \A i \in DOMAIN stack[f], j \in DOMAIN stack[g] :
        stack[f][i].pc = "raise" /\ stack[f][i].owner = stack[g][j].owner
            => f = g /\ i = j

AbandonedEmpty ==
    \A a \in Area : status[a] = "abandoned" => items[a] = {} /\ KernelGoes

SteadyOK == CachedApart /\ FramesSteady /\ RaiseAlone /\ AbandonedEmpty

\* After the kernel there is nothing to dispose.
LEMMA AllGone ==
    ASSUME KernelOK, KernelGoes, NobodyForgets \/ disposed[Kernel]
    PROVE  disposed[Kernel] /\ Activated \subseteq deactivated
BY DEF KernelOK, KernelDeactivatesAll, KernelGoes, NobodyForgets, Activated

\* Frames stay as they have to be while the cache and the lists do not change.
LEMMA FrameStays ==
    ASSUME UNCHANGED <<order, cached, disposed, items>>, KernelGoes => KernelGoes',
           KernelGoes' \/ \A o \in Owner : cached[o] \ deactivated' = cached[o] \ deactivated,
           NEW g \in Flow, NEW fr, SteadyFrame(g, fr),
           fr.pc = "forget" => area'[g] \in {area[g], NoArea}
    PROVE  SteadyFrame(g, fr)'
BY DEF SteadyFrame, SteadyRaise, SteadyClose, SteadyForget, Activated, Pending

LEMMA PopSteady ==
    ASSUME TypeOK, SteadyOK, NEW f \in Flow, stack[f] # <<>>, Pop(f), Top(f).pc # "forget",
           UNCHANGED <<order, cached, deactivated, disposed, items>>,
           \A g \in Flow : area'[g] \in {area[g], NoArea},
           \A a \in Area : status'[a] = "abandoned" =>
              status[a] = "abandoned" \/ (items[a] = {} /\ KernelGoes)
    PROVE  SteadyOK'
<1>1. StackType
  BY DEF TypeOK, StackType
<1>2. \A g \in Flow : \A i \in DOMAIN stack'[g] :
         i \in DOMAIN stack[g] /\ stack'[g][i] = stack[g][i]
  BY <1>1, PopFrames
<1>3. KernelGoes => KernelGoes'
  <2>1. \A g \in Flow : \A i \in DOMAIN stack[g] :
           \/ g = f /\ i = Len(stack[f])
           \/ i \in DOMAIN stack'[g] /\ stack'[g][i] = stack[g][i]
    BY <1>1 DEF Pop, StackType
  <2>. QED  BY <2>1 DEF KernelGoes, Top
<1>4. FramesSteady'
  <2>. SUFFICES ASSUME NEW g \in Flow, NEW i \in DOMAIN stack'[g]
                PROVE  SteadyFrame(g, stack[g][i])'
    BY DEF FramesSteady
  <2>1. PICK fr : fr = stack[g][i]
    OBVIOUS
  <2>2. SteadyFrame(g, fr) /\ stack'[g][i] = fr
    BY <1>2, <2>1 DEF SteadyOK, FramesSteady
  <2>3. SteadyFrame(g, fr)'
    BY <1>3, <2>2, FrameStays
  <2>. QED  BY <2>2, <2>3 DEF SteadyFrame, SteadyRaise, SteadyClose, SteadyForget
<1>5. CachedApart' /\ RaiseAlone' /\ AbandonedEmpty'
  BY <1>2, <1>3 DEF SteadyOK, CachedApart, Activated, RaiseAlone, AbandonedEmpty
<1>. QED  BY <1>4, <1>5 DEF SteadyOK

LEMMA SetTopSteady ==
    ASSUME TypeOK, SteadyOK, NEW f \in Flow, stack[f] # <<>>, NEW fr \in Frame,
           SetTop(f, fr), fr.owner = Top(f).owner, fr.pc # "raise",
           Top(f).pc = "forget" => fr.pc = "forget", SteadyFrame(f, fr),
           UNCHANGED <<order, cached, disposed, items, area>>,
           \/ Top(f).pc = "forget" /\ Top(f).owner = Kernel
           \/ \A o \in Owner : cached[o] \ deactivated' = cached[o] \ deactivated,
           \A a \in Area : status'[a] = "abandoned" => status[a] = "abandoned"
    PROVE  SteadyOK'
<1>1. StackType
  BY DEF TypeOK, StackType
<1>2. \A g \in Flow : \A i \in DOMAIN stack'[g] :
         /\ i \in DOMAIN stack[g]
         /\ stack'[g][i] = IF g = f /\ i = Len(stack[f]) THEN fr ELSE stack[g][i]
  BY <1>1, SetTopFrames
<1>3. KernelGoes => KernelGoes'
  <2>1. \A g \in Flow : \A i \in DOMAIN stack[g] :
           /\ i \in DOMAIN stack'[g]
           /\ stack'[g][i] = IF g = f /\ i = Len(stack[f]) THEN fr ELSE stack[g][i]
    BY <1>1, SetTopStays
  <2>. QED  BY <2>1 DEF KernelGoes, Top
<1>k. KernelGoes' \/ \A o \in Owner : cached[o] \ deactivated' = cached[o] \ deactivated
  <2>1. Len(stack[f]) \in DOMAIN stack[f]
    BY <1>1, TopFrame
  <2>. QED  BY <1>3, <2>1 DEF KernelGoes, Top
<1>4. FramesSteady'
  <2>. SUFFICES ASSUME NEW g \in Flow, NEW i \in DOMAIN stack'[g]
                PROVE  SteadyFrame(g, stack[g][i])'
    BY DEF FramesSteady
  <2>1. PICK gr : gr = stack'[g][i]
    OBVIOUS
  <2>2. SteadyFrame(g, gr)
    BY <1>2, <2>1 DEF SteadyOK, FramesSteady
  <2>3. SteadyFrame(g, gr)'
    BY <1>3, <1>k, <2>2, FrameStays
  <2>. QED  BY <2>1, <2>3 DEF SteadyFrame, SteadyRaise, SteadyClose, SteadyForget
<1>5. RaiseAlone'
  BY <1>2 DEF SteadyOK, RaiseAlone, Top
<1>6. CachedApart' /\ AbandonedEmpty'
  BY <1>3 DEF SteadyOK, CachedApart, Activated, AbandonedEmpty
<1>. QED  BY <1>4, <1>5, <1>6 DEF SteadyOK

\* A flow that is in no call begins one.
LEMMA PushSteady ==
    ASSUME TypeOK, SteadyOK, NEW f \in Flow, stack[f] = <<>>,
           NEW frames \in Seq(Frame), Push(f, frames),
           \A k \in DOMAIN frames : SteadyFrame(f, frames[k])',
           \A k, l \in DOMAIN frames :
              frames[k].pc = "raise" /\ frames[k].owner = frames[l].owner => k = l,
           \A k \in DOMAIN frames : \A g \in Flow : \A i \in DOMAIN stack[g] :
              /\ frames[k].pc = "raise" => stack[g][i].owner # frames[k].owner
              /\ stack[g][i].pc = "raise" => stack[g][i].owner # frames[k].owner,
           \A g \in Flow : g # f => area'[g] = area[g],
           UNCHANGED <<order, deactivated, items>>, CachedApart',
           \A s \in Scope : cached'[s] = cached[s] /\ disposed'[s] = disposed[s],
           \A o \in Owner : cached'[o] \subseteq cached[o],
           disposed'[Kernel] = disposed[Kernel],
           \A a \in Area : status'[a] = "abandoned" => status[a] = "abandoned"
    PROVE  SteadyOK'
<1>1. stack'[f] = frames /\ \A g \in Flow : g # f => stack'[g] = stack[g]
  BY DEF Push, TypeOK
<1>2. KernelGoes => KernelGoes'
  BY <1>1 DEF KernelGoes
<1>3. FramesSteady'
  <2>. SUFFICES ASSUME NEW g \in Flow, NEW i \in DOMAIN stack'[g]
                PROVE  SteadyFrame(g, stack[g][i])'
    BY DEF FramesSteady
  <2>1. PICK fr : fr = stack'[g][i]
    OBVIOUS
  <2>2. CASE g = f
    <3>1. i \in DOMAIN frames /\ stack'[g][i] = frames[i] /\ SteadyFrame(f, frames[i])'
      BY <1>1, <2>2
    <3>. QED  BY <2>2, <3>1 DEF SteadyFrame, SteadyRaise, SteadyClose, SteadyForget
  <2>3. CASE g # f
    <3>1. SteadyFrame(g, fr) /\ area'[g] = area[g]
      BY <1>1, <2>1, <2>3 DEF SteadyOK, FramesSteady
    <3>2. SteadyFrame(g, fr)'
      BY <1>2, <3>1 DEF SteadyFrame, SteadyRaise, SteadyClose, SteadyForget, Activated, Pending
    <3>. QED  BY <2>1, <3>2 DEF SteadyFrame, SteadyRaise, SteadyClose, SteadyForget
  <2>. QED  BY <2>2, <2>3
<1>4. RaiseAlone'
  <2>. SUFFICES ASSUME NEW g \in Flow, NEW h \in Flow, NEW i \in DOMAIN stack'[g],
                       NEW j \in DOMAIN stack'[h], stack'[g][i].pc = "raise",
                       stack'[g][i].owner = stack'[h][j].owner
                PROVE  g = h /\ i = j
    BY DEF RaiseAlone
  <2>1. CASE g # f /\ h # f
    BY <1>1, <2>1 DEF SteadyOK, RaiseAlone
  <2>2. CASE g = f \/ h = f
    BY <1>1, <2>2
  <2>. QED  BY <2>1, <2>2
<1>5. AbandonedEmpty'
  BY <1>2 DEF SteadyOK, AbandonedEmpty
<1>. QED  BY <1>3, <1>4, <1>5 DEF SteadyOK

\* A flow enters a scope that has something to dispose.
LEMMA EnterScopeSteady ==
    ASSUME TypeOK, SteadyOK, NEW f \in Flow, stack[f] = <<>>, NEW s \in Scope, HasWork(s),
           EnterScope(f, s, <<>>) \/ EnterScope(f, s, <<NewFrame("clear", Kernel, NoArea, {}, {})>>),
           UNCHANGED <<order, cached, deactivated, disposed, items>>
    PROVE  SteadyOK'
<1>. DEFINE top(a) == NewFrame("raise", s, a, {}, {})
            clear == NewFrame("clear", Kernel, NoArea, {}, {})
<1>1. s \in Owner /\ s # NoOwner /\ s # Kernel /\ Kernel \in Owner /\ Kernel # NoOwner
  BY ConstantsAssumption
<1>2. PICK b \in Area \cup {NoArea} :
         Push(f, Append(<<>>, top(b))) \/ Push(f, Append(<<clear>>, top(b)))
  BY DEF EnterScope
<1>3. /\ top(b) \in Frame /\ top(b).pc = "raise" /\ top(b).owner = s
      /\ clear \in Frame /\ clear.pc = "clear" /\ clear.owner = Kernel
  <2>1. top(b) \in Frame /\ clear \in Frame
    BY <1>1, NewFrameType
  <2>. QED  BY <2>1 DEF NewFrame
<1>4. /\ SteadyFrame(f, top(b))' /\ SteadyFrame(f, clear)'
  <2>1. ~disposed[s] /\ Pending(cached[s]) # {}
    BY DEF HasWork
  <2>2. top(b).pc = "raise" /\ top(b).owner = s /\ clear.pc = "clear"
    BY <1>3
  <2>3. top(b)' = top(b) /\ clear' = clear
    BY DEF NewFrame
  <2>. HIDE DEF top, clear
  <2>. QED  BY <2>1, <2>2, <2>3 DEF SteadyFrame, SteadyRaise, SteadyClose, SteadyForget, Pending
<1>. HIDE DEF top, clear
<1>5. PICK t : t = top(b)
  OBVIOUS
<1>6. PICK c : c = clear
  OBVIOUS
<1>7. PICK frames \in Seq(Frame) :
         /\ Push(f, frames)
         /\ \A k \in DOMAIN frames : frames[k] = IF k = Len(frames) THEN t ELSE c
  <2>1. t \in Frame /\ c \in Frame
    BY <1>3, <1>5, <1>6
  <2>2. /\ Append(<<>>, t) \in Seq(Frame) /\ Len(Append(<<>>, t)) = 1
        /\ \A k \in DOMAIN Append(<<>>, t) : k = 1 /\ Append(<<>>, t)[k] = t
    BY <2>1
  <2>3. /\ Append(<<c>>, t) \in Seq(Frame) /\ Len(Append(<<c>>, t)) = 2
        /\ \A k \in DOMAIN Append(<<c>>, t) :
              Append(<<c>>, t)[k] = IF k = 2 THEN t ELSE c
    BY <2>1
  <2>4. CASE Push(f, Append(<<>>, t))
    BY <2>2, <2>4
  <2>5. CASE Push(f, Append(<<c>>, t))
    BY <2>3, <2>5
  <2>. QED  BY <1>2, <1>5, <1>6, <2>4, <2>5
<1>8. \A k \in DOMAIN frames : frames[k] = t \/ frames[k] = c
  BY <1>7
<1>9. \A k, l \in DOMAIN frames : frames[k] = t /\ frames[l] = t => k = l
  <2>1. t # c
    BY <1>3, <1>5, <1>6
  <2>. QED  BY <1>7, <2>1
<1>10. t.pc = "raise" /\ t.owner = s /\ c.pc = "clear" /\ c.owner = Kernel
  BY <1>3, <1>5, <1>6
<1>11. /\ \A k \in DOMAIN frames : SteadyFrame(f, frames[k])'
       /\ \A k, l \in DOMAIN frames :
             frames[k].pc = "raise" /\ frames[k].owner = frames[l].owner => k = l
  <2>1. SteadyFrame(f, t)' /\ SteadyFrame(f, c)'
    BY <1>4, <1>5, <1>6
  <2>. QED  BY <1>1, <1>8, <1>9, <1>10, <2>1
<1>12. \A g \in Flow : \A i \in DOMAIN stack[g] :
          /\ stack[g][i].owner # s
          /\ stack[g][i].pc = "raise" => stack[g][i].owner # Kernel
  BY ConstantsAssumption DEF HasWork, SteadyOK, FramesSteady, SteadyFrame, SteadyRaise
<1>13. \A k \in DOMAIN frames : \A g \in Flow : \A i \in DOMAIN stack[g] :
          /\ frames[k].pc = "raise" => stack[g][i].owner # frames[k].owner
          /\ stack[g][i].pc = "raise" => stack[g][i].owner # frames[k].owner
  BY <1>8, <1>10, <1>12
<1>14. /\ \A g \in Flow : g # f => area'[g] = area[g]
       /\ \A a \in Area : status'[a] = "abandoned" => status[a] = "abandoned"
  BY DEF EnterScope, SetArea, TypeOK
<1>15. CachedApart'
  BY DEF SteadyOK, CachedApart, Activated
<1>. QED  BY <1>7, <1>11, <1>13, <1>14, <1>15, PushSteady

\* A steady application only has abandoned areas once the kernel forgets, and they
\* are empty.
LEMMA SteadyStep ==
    ASSUME Steady, TrackInv, TrackInv', KernelOK, SteadyOK, [Next]_vars
    PROVE  SteadyOK'
<1>t. TypeOK /\ StackType /\ ShapeInv /\ TrackOK
  BY DEF TrackInv, ShapeInv, FlowInv, OnceInv, TypeOK, StackType
<1>q. /\ \A f \in Flow : UserCode(f) => stack[f] = <<>>
      /\ Env \cap {"throw", "fork", "collect", "idle", "share", "release", "reenter"} = {}
  BY DEF Steady, UserCode
<1>f. ASSUME NEW f \in Flow, stack[f] # <<>>
      PROVE  /\ Top(f) \in Frame /\ SteadyFrame(f, Top(f)) /\ KernelFrame(Top(f))
             /\ Top(f).pc = "raise" => area[f] # NoArea
             /\ Top(f) = stack[f][Len(stack[f])] /\ Len(stack[f]) \in DOMAIN stack[f]
  <2>1. Top(f) \in Frame /\ Len(stack[f]) \in DOMAIN stack[f] /\ Top(f) = stack[f][Len(stack[f])]
    BY <1>f, <1>t, TopFrame DEF Top
  <2>. QED  BY <1>t, <2>1 DEF KernelOK, SteadyOK, FramesSteady, ShapeInv, ShapeOK
\* The flow goes on in its call, and nothing else changes but the calls of Dispose.
<1>g. ASSUME NEW f \in Flow, stack[f] # <<>>, NEW fr \in Frame, SetTop(f, fr),
             fr.pc \in {"drain", Top(f).pc}, Top(f).pc \in {"close", "drain", "forget"},
             Top(f).pc = "forget" => fr.pc = "forget",
             fr.owner = Top(f).owner, fr.area = Top(f).area, fr.purge = Top(f).purge,
             Top(f).pc = "forget" => fr.rest \subseteq Top(f).rest,
             UNCHANGED <<order, cached, deactivated, disposed, items, area>>,
             \A a \in Area : status'[a] = "abandoned" => status[a] = "abandoned"
      PROVE  SteadyOK'
  <2>1. SteadyFrame(f, fr)
    BY <1>f, <1>g DEF SteadyFrame, SteadyRaise, SteadyClose, SteadyForget
  <2>. QED  BY <1>t, <1>g, <2>1, SetTopSteady
<1>1. ASSUME NEW f \in Flow, LibraryStep(f) PROVE SteadyOK'
  <2>1. CASE RaiseDisposed(f)
    <3>. DEFINE s == Top(f).owner
                xs == Pending(cached[s])
                fr == [Top(f) EXCEPT !.pc = "close"]
    <3>1. stack[f] # <<>> /\ Top(f).pc = "raise" /\ SetTop(f, fr) /\ CacheFree(f)
      BY <2>1 DEF RaiseDisposed, At
    <3>2. NobodyForgets
      BY <1>t, <3>1, CacheFreeAlone
    <3>3. /\ s \in Scope /\ s \in Owner /\ s # Kernel /\ ~disposed[s]
          /\ xs # {} \/ KernelGoes
      BY <1>f, <3>1, ConstantsAssumption DEF SteadyFrame, SteadyRaise
    <3>4. /\ items' = [items EXCEPT ![area[f]] = @ \cup xs]
          /\ deactivated' = deactivated \cup xs
          /\ cached' = [cached EXCEPT ![s] = @ \ cached[s]]
          /\ disposed' = [disposed EXCEPT ![s] = TRUE]
          /\ UNCHANGED <<order, area, status>>
      BY <2>1, <3>3 DEF RaiseDisposed, Register, Entries
    <3>5. /\ area[f] \in Area
          /\ \A o \in Owner : cached'[o] = IF o = s THEN {} ELSE cached[o]
          /\ \A o \in Owner : disposed'[o] = IF o = s THEN TRUE ELSE disposed[o]
          /\ \A a \in Area : items'[a] = IF a = area[f] THEN items[a] \cup xs ELSE items[a]
      BY <1>t, <1>f, <3>1, <3>3, <3>4 DEF TypeOK
    <3>6. PICK nf \in Frame :
             /\ SetTop(f, nf) /\ nf.pc = "close" /\ nf.owner = s /\ nf.area = Top(f).area
             /\ nf.area \in Area \cup {NoArea}
      <4>1. fr \in Frame
        BY <1>f, <3>1, FrameUpdate
      <4>2. fr.pc = "close" /\ fr.owner = s /\ fr.area = Top(f).area
        BY <1>f, <3>1 DEF Frame, FrameRecord
      <4>3. fr.area \in Area \cup {NoArea}
        BY <4>1 DEF Frame, FrameRecord
      <4>. HIDE DEF fr
      <4>. QED  BY <3>1, <4>1, <4>2, <4>3
    <3>7. KernelGoes => KernelGoes' /\ xs = {}
      <4>1. SUFFICES ASSUME KernelGoes PROVE KernelGoes' /\ xs = {}
        OBVIOUS
      <4>2. disposed[Kernel] /\ Activated \subseteq deactivated
        BY <3>2, <4>1, AllGone
      <4>3. xs = {}
        BY <3>3, <4>2 DEF Pending, SteadyOK, CachedApart
      <4>. QED  BY <3>3, <3>5, <4>2, <4>3 DEF KernelGoes
    <3>8. xs \subseteq cached[s]
      BY DEF Pending
    <3>. HIDE DEF xs, fr
    <3>10. \A g \in Flow : \A i \in DOMAIN stack'[g] :
             /\ i \in DOMAIN stack[g] /\ stack[g][i] \in Frame
             /\ stack'[g][i] = IF g = f /\ i = Len(stack[f]) THEN nf ELSE stack[g][i]
      BY <1>t, <3>1, <3>6, SetTopFrames DEF StackType
    <3>11. SteadyFrame(f, nf)'
      <4>1. ASSUME nf.area # NoArea, ~KernelGoes PROVE items'[nf.area] # {}
        <5>1. nf.area = area[f]
          BY <1>t, <1>f, <3>1, <3>6, <4>1, TopOwns DEF SteadyOK, AbandonedEmpty
        <5>. QED  BY <3>3, <3>5, <4>1, <5>1
      <4>2. SteadyClose(nf)'
        BY <3>7, <4>1 DEF SteadyClose
      <4>. QED  BY <3>6, <4>2 DEF SteadyFrame, SteadyRaise, SteadyClose, SteadyForget
    <3>12. FramesSteady'
      <4>. SUFFICES ASSUME NEW g \in Flow, NEW i \in DOMAIN stack'[g],
                           ~(g = f /\ i = Len(stack[f]))
                    PROVE  SteadyFrame(g, stack[g][i])'
        BY <3>10, <3>11 DEF FramesSteady, SteadyFrame, SteadyRaise, SteadyClose, SteadyForget
      <4>1. PICK gr \in Frame : gr = stack[g][i] /\ gr = stack'[g][i] /\ i \in DOMAIN stack[g]
        BY <3>10
      <4>2. SteadyFrame(g, gr) /\ gr.pc # "forget"
        BY <3>2, <4>1 DEF SteadyOK, FramesSteady, NobodyForgets
      <4>3. gr.pc = "raise" => gr.owner # s
        <5>1. /\ Len(stack[f]) \in DOMAIN stack[f]
              /\ stack[f][Len(stack[f])].pc = "raise" /\ stack[f][Len(stack[f])].owner = s
          BY <1>f, <3>1
        <5>2. RaiseAlone
          BY DEF SteadyOK
        <5>. QED  BY <4>1, <5>1, <5>2 DEF RaiseAlone
      <4>4. SteadyRaise(gr)'
        <5>. SUFFICES ASSUME gr.pc = "raise"
                      PROVE  /\ gr.owner \in Scope /\ ~disposed'[gr.owner]
                             /\ cached'[gr.owner] \ deactivated' # {} \/ KernelGoes'
          BY DEF SteadyRaise, Pending
        <5>1. /\ gr.owner \in Scope /\ gr.owner \in Owner /\ ~disposed[gr.owner]
              /\ cached[gr.owner] \ deactivated # {} \/ KernelGoes
          BY <4>2 DEF SteadyFrame, SteadyRaise, Pending
        <5>2. cached[gr.owner] \cap cached[s] = {}
          BY <3>3, <4>3, <5>1 DEF SteadyOK, CachedApart
        <5>3. deactivated' = deactivated \cup xs /\ cached'[gr.owner] = cached[gr.owner]
          BY <3>4, <3>5, <4>3, <5>1 DEF xs
        <5>. QED  BY <3>5, <3>7, <3>8, <4>3, <5>1, <5>2, <5>3
      <4>5. SteadyClose(gr)'
        <5>1. gr.area \in Area \cup {NoArea}
          BY <4>1 DEF Frame, FrameRecord
        <5>. QED  BY <3>5, <3>7, <4>2, <5>1 DEF SteadyFrame, SteadyClose
      <4>6. SteadyFrame(g, gr)'
        BY <4>2, <4>4, <4>5 DEF SteadyFrame, SteadyForget
      <4>. QED  BY <4>1, <4>6 DEF SteadyFrame, SteadyRaise, SteadyClose, SteadyForget
    <3>13. RaiseAlone'
      <4>. SUFFICES ASSUME NEW g \in Flow, NEW h \in Flow, NEW i \in DOMAIN stack'[g],
                           NEW j \in DOMAIN stack'[h], stack'[g][i].pc = "raise",
                           stack'[g][i].owner = stack'[h][j].owner
                    PROVE  g = h /\ i = j
        BY DEF RaiseAlone
      <4>1. i \in DOMAIN stack[g] /\ stack'[g][i] = stack[g][i]
        BY <3>6, <3>10
      <4>2. j \in DOMAIN stack[h] /\ stack'[h][j].owner = stack[h][j].owner
        BY <1>f, <3>1, <3>6, <3>10
      <4>. QED  BY <4>1, <4>2 DEF SteadyOK, RaiseAlone
    <3>14. CachedApart'
      BY <3>4, <3>5 DEF SteadyOK, CachedApart, Activated
    <3>15. AbandonedEmpty'
      BY <3>4, <3>5, <3>7 DEF SteadyOK, AbandonedEmpty
    <3>. QED  BY <3>12, <3>13, <3>14, <3>15 DEF SteadyOK
  <2>2. CASE RaiseFails(f) \/ ForgetFails(f)
    BY <1>t, <2>2, NothingFails
  <2>3. CASE CloseInner(f)
    BY <1>t, <2>3, PopSteady DEF CloseInner, At
  <2>4. CASE CloseEmpty(f)
    <3>. DEFINE b == Top(f).area
    <3>1. /\ stack[f] # <<>> /\ Top(f).pc = "close" /\ b # NoArea /\ items[b] = {} /\ Pop(f)
          /\ status' = [status EXCEPT ![b] = "abandoned"]
          /\ UNCHANGED <<order, cached, deactivated, disposed, items, area>>
      BY <2>4 DEF CloseEmpty, At
    <3>2. KernelGoes
      BY <1>f, <3>1 DEF SteadyFrame, SteadyClose
    <3>3. \A a \in Area : status'[a] = IF a = b THEN "abandoned" ELSE status[a]
      BY <1>t, <3>1 DEF TypeOK
    <3>. QED  BY <1>t, <3>1, <3>2, <3>3, PopSteady
  <2>5. CASE StartDrain(f)
    <3>. DEFINE b == Top(f).area
                fr == [Top(f) EXCEPT !.pc = "drain", !.rest = items[b]]
    <3>1. /\ stack[f] # <<>> /\ Top(f).pc = "close" /\ b # NoArea /\ SetTop(f, fr)
          /\ status' = [status EXCEPT ![b] = "draining"]
          /\ UNCHANGED <<order, cached, deactivated, disposed, items, area>>
      BY <2>5 DEF StartDrain, At
    <3>2. items[b] \in SUBSET Instance
      BY <1>t, <1>f, <3>1 DEF TypeOK, Frame, FrameRecord
    <3>3. fr \in Frame
      BY <1>f, <3>1, <3>2, FrameUpdate
    <3>4. /\ fr.pc = "drain" /\ fr.owner = Top(f).owner /\ fr.area = Top(f).area
          /\ fr.purge = Top(f).purge
      BY <1>f, <3>1 DEF Frame, FrameRecord
    <3>5. \A a \in Area : status'[a] = "abandoned" => status[a] = "abandoned"
      BY <1>t, <3>1 DEF TypeOK
    <3>. HIDE DEF fr
    <3>. QED  BY <1>g, <3>1, <3>3, <3>4, <3>5
  <2>6. CASE DisposeNext(f)
    <3>1. PICK y : /\ stack[f] # <<>> /\ Top(f).pc = "drain" /\ y \in Instance
                   /\ SetTop(f, [Top(f) EXCEPT !.rest = @ \ {y}, !.running = Running(y)])
                   /\ UNCHANGED <<order, cached, deactivated, disposed, items, area, status>>
      BY <1>f, <2>6 DEF DisposeNext, Drainable, At, Frame, FrameRecord
    <3>. DEFINE fr == [Top(f) EXCEPT !.rest = @ \ {y}, !.running = Running(y)]
    <3>2. /\ fr \in Frame /\ fr.pc = "drain" /\ fr.owner = Top(f).owner
          /\ fr.area = Top(f).area /\ fr.purge = Top(f).purge
      <4>1. Top(f) \in Frame /\ y \in Instance
        BY <1>f, <3>1 DEF Frame, FrameRecord
      <4>. QED  BY <3>1, <4>1, RunningUpdate
    <3>3. SetTop(f, fr)
      BY <3>1
    <3>. HIDE DEF fr
    <3>. QED  BY <1>g, <3>1, <3>2, <3>3
  <2>7. CASE FinishDrain(f)
    <3>1. /\ stack[f] # <<>> /\ Top(f).pc = "drain" /\ Pop(f)
          /\ status' = [status EXCEPT ![Top(f).area] = "closed"]
          /\ area' = [area EXCEPT ![f] = NoArea]
          /\ UNCHANGED <<order, cached, deactivated, disposed, items>>
      BY <2>7 DEF FinishDrain, At, ResetArea, SetArea
    <3>2. /\ \A a \in Area : status'[a] = "abandoned" => status[a] = "abandoned"
          /\ \A g \in Flow : area'[g] \in {area[g], NoArea}
      BY <1>t, <3>1 DEF TypeOK
    <3>. QED  BY <1>t, <3>1, <3>2, PopSteady
  <2>8. CASE KernelClear(f)
    <3>. DEFINE fr == NewFrame("forget", Kernel, NoArea, AllEntries, Instance)
    <3>1. /\ stack[f] # <<>> /\ Top(f).pc = "clear" /\ SetTop(f, fr) /\ CacheFree(f)
          /\ UNCHANGED <<order, cached, deactivated, disposed, items, area, status>>
      BY <2>8 DEF KernelClear, At
    <3>2. fr \in Frame
      BY <1>t, NewFrameType, ConstantsAssumption DEF AllEntries, TypeOK
    <3>3. fr.pc = "forget" /\ fr.owner = Kernel /\ fr.rest = AllEntries
      BY DEF NewFrame
    <3>4. AllEntries \subseteq Activated
      BY DEF AllEntries, SteadyOK, CachedApart
    <3>5. disposed[Kernel] \/ area[f] = NoArea
      <4>1. SUFFICES ASSUME area[f] # NoArea PROVE disposed[Kernel]
        OBVIOUS
      <4>2. Top(f).area = NoArea
        BY <1>f, <3>1 DEF TrackInv, ShapeInv, FlowInv, OnceInv, FramesOK, FrameOK
      <4>3. area[f] \in Area /\ status[area[f]] = "abandoned"
        BY <1>t, <3>1, <4>1, <4>2, TopOwns
      <4>4. KernelGoes
        BY <4>3 DEF SteadyOK, AbandonedEmpty
      <4>5. NobodyForgets
        BY <1>t, <3>1, CacheFreeAlone
      <4>. QED  BY <4>4, <4>5, AllGone
    <3>6. Top(f).owner = Kernel
      BY <1>f, <3>1 DEF KernelFrame
    <3>. HIDE DEF fr
    <3>7. SteadyFrame(f, fr)
      BY <3>3, <3>4, <3>5 DEF SteadyFrame, SteadyRaise, SteadyClose, SteadyForget
    <3>. QED  BY <1>t, <3>1, <3>2, <3>3, <3>6, <3>7, SetTopSteady
  <2>9. CASE ForgetNow(f)
    <3>1. PICK y \in Top(f).rest :
             /\ stack[f] # <<>> /\ Top(f).pc = "forget" /\ y \in Instance
             /\ SetTop(f, [Top(f) EXCEPT !.rest = @ \ {y}, !.running = Running(y)])
             /\ deactivated' = deactivated \cup {y}
             /\ UNCHANGED <<order, cached, disposed, items, area, status>>
      BY <1>f, <2>9 DEF ForgetNow, Pending, At, Frame, FrameRecord
    <3>. DEFINE fr == [Top(f) EXCEPT !.rest = @ \ {y}, !.running = Running(y)]
    <3>2. /\ fr \in Frame /\ fr.pc = "forget" /\ fr.owner = Top(f).owner
          /\ fr.purge = Top(f).purge /\ fr.rest \subseteq Top(f).rest
      <4>1. Top(f) \in Frame /\ y \in Instance
        BY <1>f, <3>1 DEF Frame, FrameRecord
      <4>2. /\ fr \in Frame /\ fr.pc = Top(f).pc /\ fr.owner = Top(f).owner
            /\ fr.purge = Top(f).purge /\ fr.rest = Top(f).rest \ {y}
        BY <4>1, RunningUpdate
      <4>. QED  BY <3>1, <4>2
    <3>3. SetTop(f, fr)
      BY <3>1
    <3>. HIDE DEF fr
    <3>4. SteadyFrame(f, fr)
      BY <1>f, <3>1, <3>2 DEF SteadyFrame, SteadyRaise, SteadyClose, SteadyForget
    <3>5. \/ Top(f).owner = Kernel
          \/ \A o \in Owner : cached[o] \ deactivated' = cached[o] \ deactivated
      <4>1. Top(f).owner # Kernel => \A o \in Owner : y \notin cached[o]
        BY <1>f, <3>1 DEF SteadyFrame, SteadyForget
      <4>. QED  BY <3>1, <4>1
    <3>. QED  BY <1>t, <3>1, <3>2, <3>3, <3>4, <3>5, SetTopSteady
  <2>10. CASE ForgetIntoArea(f)
    <3>1. /\ stack[f] # <<>> /\ Top(f).pc = "forget" /\ area[f] # NoArea
          /\ ~(Top(f).rest \subseteq deactivated)
      BY <2>10 DEF ForgetIntoArea, Pending, At
    <3>2. Top(f).area = NoArea
      BY <1>f, <3>1 DEF TrackInv, ShapeInv, FlowInv, OnceInv, FramesOK, FrameOK
    <3>3. KernelGoes
      BY <1>t, <3>1, <3>2, TopOwns DEF SteadyOK, AbandonedEmpty
    <3>4. disposed[Kernel]
      <4>1. ASSUME NEW g \in Flow, NEW i \in DOMAIN stack[g],
                   stack[g][i].pc = "forget" /\ stack[g][i].owner = Kernel
            PROVE  Top(f).owner = Kernel
        BY <1>f, <1>t, <3>1, <4>1 DEF TrackOK
      <4>2. Top(f).owner = Kernel => disposed[Kernel]
        BY <1>f, <3>1 DEF SteadyFrame, SteadyForget
      <4>. QED  BY <3>3, <4>1, <4>2 DEF KernelGoes
    <3>5. Activated \subseteq deactivated
      BY <3>3, <3>4, AllGone
    <3>. QED  BY <1>f, <3>1, <3>5 DEF SteadyFrame, SteadyForget
  <2>12. CASE FinishForget(f)
    <3>1. /\ stack[f] # <<>> /\ Top(f).pc = "forget" /\ Pop(f)
          /\ cached' = [o \in Owner |-> cached[o] \ Top(f).purge]
          /\ disposed' = IF Top(f).owner = NoOwner THEN disposed
                         ELSE [disposed EXCEPT ![Top(f).owner] = TRUE]
          /\ UNCHANGED <<deactivated, order, area, items, status>>
      BY <2>12 DEF FinishForget, At
    <3>2. ASSUME NEW g \in Flow, NEW i \in DOMAIN stack[g], stack[g][i].pc = "forget"
          PROVE  g = f /\ i = Len(stack[f])
      BY <1>t, <1>f, <3>1, <3>2 DEF TrackOK
    <3>3. \A g \in Flow : \A i \in DOMAIN stack'[g] :
             /\ i \in DOMAIN stack[g] /\ stack'[g][i] = stack[g][i]
             /\ stack[g][i].pc # "forget"
      <4>. SUFFICES ASSUME NEW g \in Flow, NEW i \in DOMAIN stack'[g]
                    PROVE  /\ i \in DOMAIN stack[g] /\ stack'[g][i] = stack[g][i]
                           /\ ~(g = f /\ i = Len(stack[f]))
        BY <3>2
      <4>1. /\ i \in DOMAIN stack[g] /\ stack'[g][i] = stack[g][i]
            /\ g = f => i < Len(stack[f])
        BY <1>t, <3>1, PopFrames
      <4>2. Len(stack[f]) \in Nat
        BY <1>t DEF StackType
      <4>. QED  BY <4>1, <4>2
    <3>4. \A o \in Owner : cached'[o] \subseteq cached[o]
      BY <1>t, <3>1 DEF TypeOK
    <3>5. \A s \in Scope : disposed'[s] = disposed[s]
      <4>1. Top(f).owner = Kernel \/ Top(f).owner \in RequestScope
        BY <1>f, <3>1 DEF SteadyFrame, SteadyForget
      <4>. QED  BY <1>t, <3>1, <4>1, ConstantsAssumption DEF TypeOK
    <3>6. /\ KernelGoes => KernelGoes'
          /\ KernelGoes' \/ \A o \in Owner : cached'[o] = cached[o]
      <4>1. CASE Top(f).owner = Kernel
        <5>1. disposed'[Kernel]
          BY <1>t, <3>1, <4>1, ConstantsAssumption DEF TypeOK
        <5>. QED  BY <5>1 DEF KernelGoes
      <4>2. CASE Top(f).owner # Kernel
        <5>1. Top(f).owner \in RequestScope /\ Top(f).purge = {}
          BY <1>f, <3>1, <4>2 DEF SteadyFrame, SteadyForget
        <5>2. disposed'[Kernel] = disposed[Kernel]
          BY <1>t, <3>1, <5>1, ConstantsAssumption DEF TypeOK
        <5>3. KernelGoes => disposed[Kernel]
          BY <1>f, <3>1, <3>2, <4>2 DEF KernelGoes
        <5>4. \A o \in Owner : cached'[o] = cached[o]
          BY <3>1, <5>1
        <5>. QED  BY <5>2, <5>3, <5>4 DEF KernelGoes
      <4>. QED  BY <4>1, <4>2
    <3>7. FramesSteady'
      <4>. SUFFICES ASSUME NEW g \in Flow, NEW i \in DOMAIN stack'[g]
                    PROVE  SteadyFrame(g, stack[g][i])'
        BY DEF FramesSteady
      <4>1. PICK gr : gr = stack[g][i] /\ gr = stack'[g][i] /\ i \in DOMAIN stack[g]
        BY <3>3
      <4>2. SteadyFrame(g, gr) /\ gr.pc # "forget"
        BY <3>3, <4>1 DEF SteadyOK, FramesSteady
      <4>3. SteadyFrame(g, gr)'
        BY <3>1, <3>5, <3>6, <4>2 DEF SteadyFrame, SteadyRaise, SteadyClose, SteadyForget, Pending
      <4>. QED  BY <4>1, <4>3 DEF SteadyFrame, SteadyRaise, SteadyClose, SteadyForget
    <3>8. RaiseAlone'
      BY <3>3 DEF SteadyOK, RaiseAlone
    <3>9. CachedApart'
      BY <3>1, <3>4 DEF SteadyOK, CachedApart, Activated
    <3>10. AbandonedEmpty'
      BY <3>1, <3>6 DEF SteadyOK, AbandonedEmpty
    <3>. QED  BY <3>7, <3>8, <3>9, <3>10 DEF SteadyOK
  <2>. QED  BY <1>1, <2>1, <2>2, <2>3, <2>4, <2>5, <2>6, <2>7, <2>8, <2>9, <2>10,
               <2>12 DEF LibraryStep
<1>2. ASSUME NEW f \in Flow, ApplicationStep(f) PROVE SteadyOK'
  <2>1. ASSUME NEW x \in Instance, NEW o \in Owner, Resolve(f, x, o) PROVE SteadyOK'
    <3>1. /\ CacheFree(f) /\ stack[f] = <<>> /\ ~disposed[Kernel] /\ order[x] = 0
          /\ order' = [order EXCEPT ![x] = counter + 1]
          /\ cached' = [cached EXCEPT ![o] = @ \cup {x}]
          /\ UNCHANGED <<deactivated, disposed, area, items, status, stack>>
      BY <1>q, <2>1 DEF Resolve, CanBeCached, NextOrder
    <3>2. NobodyForgets /\ ~KernelGoes
      BY <1>t, <3>1, CacheFreeAlone DEF KernelGoes, NobodyForgets
    <3>3. /\ \A p \in Owner : cached'[p] = IF p = o THEN cached[p] \cup {x} ELSE cached[p]
          /\ Activated' = Activated \cup {x} /\ x \notin Activated
      <4>1. \A y \in Instance : order'[y] = IF y = x THEN counter + 1 ELSE order[y]
        BY <1>t, <3>1 DEF TypeOK
      <4>2. counter + 1 > 0
        BY <1>t DEF TypeOK
      <4>3. Activated' = {y \in Instance : order'[y] > 0}
        BY DEF Activated
      <4>4. Activated' = Activated \cup {x} /\ x \notin Activated
        BY <3>1, <4>1, <4>2, <4>3 DEF Activated
      <4>. QED  BY <1>t, <3>1, <4>4 DEF TypeOK
    <3>4. FramesSteady'
      BY <3>1, <3>2, <3>3 DEF SteadyOK, FramesSteady, SteadyFrame, SteadyRaise, SteadyClose,
                              SteadyForget, NobodyForgets, Pending
    <3>5. CachedApart'
      <4>1. \A p \in Owner : cached'[p] \subseteq Activated'
        BY <3>3 DEF SteadyOK, CachedApart
      <4>2. ASSUME NEW p \in Owner, NEW q \in Owner, p # q
            PROVE  cached'[p] \cap cached'[q] = {}
        <5>1. x \notin cached[p] /\ x \notin cached[q] /\ cached[p] \cap cached[q] = {}
          BY <3>3, <4>2 DEF SteadyOK, CachedApart
        <5>2. /\ cached'[p] \subseteq IF p = o THEN cached[p] \cup {x} ELSE cached[p]
              /\ cached'[q] \subseteq IF q = o THEN cached[q] \cup {x} ELSE cached[q]
          BY <3>3
        <5>. QED  BY <4>2, <5>1, <5>2
      <4>. QED  BY <4>1, <4>2 DEF CachedApart
    <3>6. RaiseAlone' /\ AbandonedEmpty'
      BY <3>1, <3>2 DEF SteadyOK, RaiseAlone, AbandonedEmpty
    <3>. QED  BY <3>4, <3>5, <3>6 DEF SteadyOK
  <2>2. ASSUME NEW s \in Scope, DisposeScope(f, s) PROVE SteadyOK'
    BY <1>t, <1>q, <2>2, EnterScopeSteady DEF DisposeScope
  <2>3. CASE DisposeKernel(f)
    BY <1>t, <1>q, <2>3, EnterScopeSteady, ConstantsAssumption DEF DisposeKernel
  <2>5. ASSUME NEW p \in RequestScope, DisposeRequestScope(f, p) PROVE SteadyOK'
    <3>. DEFINE fr == NewFrame("forget", p, NoArea, cached[p], {})
    <3>1. /\ stack[f] = <<>> /\ Push(f, <<fr>>) /\ cached' = [cached EXCEPT ![p] = {}]
          /\ UNCHANGED <<order, deactivated, disposed, area, items, status>>
      BY <1>q, <2>5 DEF DisposeRequestScope
    <3>2. p \in Owner /\ p \notin Scope /\ p # Kernel /\ p # NoOwner
      BY ConstantsAssumption
    <3>3. fr \in Frame
      BY <1>t, <3>2, NewFrameType DEF TypeOK
    <3>4. fr.pc = "forget" /\ fr.owner = p /\ fr.rest = cached[p] /\ fr.purge = {}
      BY DEF NewFrame
    <3>5. \A o \in Owner : cached'[o] = IF o = p THEN {} ELSE cached[o]
      BY <1>t, <3>1 DEF TypeOK
    <3>6. PICK gr \in Frame : gr = fr
      BY <3>3
    <3>. HIDE DEF fr
    <3>7. /\ gr.pc = "forget" /\ gr.owner = p /\ gr.purge = {} /\ gr.rest \subseteq Activated
          /\ \A o \in Owner : gr.rest \cap cached'[o] = {}
      BY <3>2, <3>4, <3>5, <3>6 DEF SteadyOK, CachedApart
    <3>8. SteadyFrame(f, gr)'
      BY <3>1, <3>2, <3>7 DEF SteadyFrame, SteadyRaise, SteadyClose, SteadyForget, Activated
    <3>9. CachedApart'
      BY <3>1, <3>5 DEF SteadyOK, CachedApart, Activated
    <3>10. PICK frames \in Seq(Frame) : frames = <<gr>>
      <4>1. <<gr>> \in Seq(Frame)
        BY <3>6
      <4>. QED  BY <4>1
    <3>11. \A k \in DOMAIN frames : frames[k] = gr
      BY <3>10
    <3>12. Push(f, frames)
      BY <3>1, <3>6, <3>10
    <3>13. \A g \in Flow : \A i \in DOMAIN stack[g] :
              stack[g][i].pc = "raise" => stack[g][i].owner # p
      BY <3>2 DEF SteadyOK, FramesSteady, SteadyFrame, SteadyRaise
    <3>14. /\ \A s \in Scope : cached'[s] = cached[s] /\ disposed'[s] = disposed[s]
           /\ \A o \in Owner : cached'[o] \subseteq cached[o]
      BY <3>1, <3>2, <3>5
    <3>15. \A k \in DOMAIN frames : SteadyFrame(f, frames[k])' /\ frames[k].pc # "raise"
      BY <3>7, <3>8, <3>11 DEF SteadyFrame, SteadyRaise, SteadyClose, SteadyForget
    <3>. QED  BY <1>t, <3>1, <3>7, <3>9, <3>11, <3>12, <3>13, <3>14, <3>15, PushSteady
  <2>7. CASE DisposeReturns(f)
    <3>. DEFINE fr == [Top(f) EXCEPT !.running = NoInstance]
    <3>1. /\ stack[f] # <<>> /\ SetTop(f, fr) /\ Top(f).running # NoInstance
          /\ UNCHANGED <<order, cached, deactivated, disposed, items, area, status>>
      BY <2>7 DEF DisposeReturns, InDispose
    <3>2. /\ fr \in Frame /\ fr.pc = Top(f).pc /\ fr.owner = Top(f).owner
          /\ fr.area = Top(f).area /\ fr.purge = Top(f).purge /\ fr.rest = Top(f).rest
      BY <1>f, <3>1 DEF Frame, FrameRecord
    <3>3. Top(f).pc \in {"drain", "forget"}
      BY <1>f, <3>1 DEF TrackInv, ShapeInv, FlowInv, RunningOK
    <3>. HIDE DEF fr
    <3>. QED  BY <1>g, <3>1, <3>2, <3>3
  <2>8. CASE DisposeThrows(f) \/ \E x \in Instance : Release(f, x)
    BY <1>q, <2>8 DEF DisposeThrows, Release
  <2>9. CASE \/ \E g \in Flow : Fork(f, g)
             \/ \E x \in Instance, o \in Owner : Share(f, x, o)
    BY <1>q, <2>9 DEF Fork, Share
  <2>. QED  BY <1>2, <2>1, <2>2, <2>3, <2>5, <2>7, <2>8, <2>9 DEF ApplicationStep
<1>3. ASSUME NEW x \in Instance, Collect(x) PROVE SteadyOK'
  BY <1>q, <1>3 DEF Collect
<1>4. CASE UNCHANGED vars
  BY <1>4 DEF vars, SteadyOK, CachedApart, Activated, FramesSteady, SteadyFrame,
              SteadyRaise, SteadyClose, SteadyForget, KernelGoes, RaiseAlone,
              AbandonedEmpty, Pending
<1>. QED  BY <1>1, <1>2, <1>3, <1>4 DEF Next

\* Where the application disposes a scope once and only when there is something to
\* dispose, no Dispose method resolves or throws, no flow is forked, nothing is
\* cached for two owners or released and the garbage collector does not run, the
\* documented promise holds: what went out of scope is disposed, with every number
\* of flows, request scopes and the disposal of the kernel included
\* (README.md, "Disposal Ordering"; DisposalManager.cs:12-22, 109-126).
THEOREM PromiseHolds ==
    ASSUME Steady
    PROVE  Spec => []ScopeDisposesServices
<1>s. Straight /\ ~Allows("throw") /\ ~Allows("collect")
  BY DEF Steady, Straight
<1>1. Init => KernelOK /\ SteadyOK
  BY DEF Init, KernelOK, KernelDeactivatesAll, SteadyOK, CachedApart, FramesSteady,
         RaiseAlone, AbandonedEmpty
<1>2. TrackInv /\ TrackInv' /\ KernelOK /\ [Next]_vars => KernelOK'
  BY <1>s, KernelStep
<1>3. TrackInv /\ TrackInv' /\ KernelOK /\ SteadyOK /\ [Next]_vars => SteadyOK'
  BY SteadyStep
<1>4. LossInv /\ SteadyOK => ScopeDisposesServices
  <2>. SUFFICES ASSUME LossInv, SteadyOK, \A f \in Flow : stack[f] = <<>>,
                       NEW x \in deactivated \cap Disposable
                PROVE  calls[x] = 1
    BY DEF ScopeDisposesServices
  <2>1. Accounted(x)
    BY DEF LossInv, Lossless, AccountedOK
  <2>. QED  BY <2>1 DEF Accounted, Holds, SteadyOK, AbandonedEmpty
<1>5. Spec => []TrackInv
  BY <1>s, TrackInvHolds
<1>6. Spec => []LossInv
  BY <1>s, LossInvHolds
<1>. QED  BY <1>1, <1>2, <1>3, <1>4, <1>5, <1>6, PTL DEF Spec

=============================================================================
