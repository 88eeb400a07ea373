---------------------- MODULE ParallelResolutionProofs ----------------------
(***************************************************************************)
(* Two threads are never in one monitor and an instance is only made where *)
(* there is none; and the monitors are ordered, scopes before the root     *)
(* scope before the cache: for every number of threads, scopes and         *)
(* services.  Transients go with their scope where no two threads add to   *)
(* one list of TransientScopes at once (TransientsOK).                     *)
(***************************************************************************)
EXTENDS ParallelResolution, TLAPS

USE DEF Asking, Owner, Index, Pc, Allows

IsApart(apart) ==
    /\ \A x \in Service : Lifetime[x] = "singleton" => x \in apart
    /\ \A x \in apart : Lifetime[x] # "scoped" /\ Needs[x] \subseteq apart

\* Services that singletons may be made of.
Apart == CHOOSE apart \in SUBSET Service : IsApart(apart)

LEMMA ApartIsApart == Apart \in SUBSET Service /\ IsApart(Apart)
<1>1. \E apart \in SUBSET Service : IsApart(apart)
  BY NoCaptives DEF IsApart
<1>. QED  BY <1>1 DEF Apart

Resolves(fr) == fr.svc # NoService

\* What a frame says about itself and the TransientScope it owns.
FrameFits(fr, par) ==
    /\ fr \in Frame
    /\ Resolves(fr) <=> fr.pc \in {"derive", "size", "slot", "enter", "try", "create"}
    /\ ~Resolves(fr) => fr.owner = fr.asking
    /\ Resolves(fr) =>
          /\ fr.left \subseteq Needs[fr.svc]
          /\ Lifetime[fr.svc] = "singleton" => fr.owner = Root
          /\ Lifetime[fr.svc] = "scoped" => fr.owner = fr.asking
          /\ Lifetime[fr.svc] = "transient" =>
                \/ fr.owner = NoLock
                \/ fr.owner \in Child /\ par[fr.owner] = fr.asking
    /\ fr.pc \in {"derive", "size", "slot"} =>
          fr.asking \in Scope /\ Lifetime[fr.svc] = "transient"
    /\ fr.pc \in {"size", "slot"} => fr.n \in Index /\ fr.owner \in Child
    /\ fr.pc = "children" => fr.asking \in Scope
    /\ fr.pc = "forget" => fr.asking \in RequestScope

\* A frame resolves a dependency of the one below, for the same scope.
GoodStack(st, par) ==
    /\ st \in Seq(Frame)
    /\ \A i \in DOMAIN st : FrameFits(st[i], par)
    /\ \A i \in DOMAIN st : i < Len(st) => st[i].pc \in {"create", "forget"}
    /\ \A i \in DOMAIN st : i > 1 => Resolves(st[i])
    /\ \A i, j \in DOMAIN st : i < j /\ Resolves(st[i]) =>
          /\ st[j].asking = st[i].asking
          /\ st[i].svc \in Apart => st[j].svc \in Apart
          /\ j = i + 1 => st[j].svc \in Needs[st[i].svc]

Locks(st) == UNION {HeldBy(st[i]) : i \in DOMAIN st}

Fresh(st, ent) ==
    \A i \in DOMAIN st :
        st[i].pc = "create" /\ st[i].owner # NoLock => ent[st[i].owner][st[i].svc] = 0

\* The TransientScopes a thread has derived and is not through with.
Owns(st) == {st[i].owner : i \in DOMAIN st} \cap Child

\* Without its last frame a stack is good, and holds and owns no more.
LEMMA PopGood ==
    ASSUME NEW st, NEW par, GoodStack(st, par), st # <<>>
    PROVE  LET new == SubSeq(st, 1, Len(st) - 1)
           IN  /\ GoodStack(new, par) /\ Locks(new) \subseteq Locks(st)
               /\ Owns(new) \subseteq Owns(st)
               /\ \A ent : Fresh(st, ent) => Fresh(new, ent)
<1>. DEFINE new == SubSeq(st, 1, Len(st) - 1)
<1>0. st \in Seq(Frame) /\ Len(st) \in Nat \ {0} /\ DOMAIN st = 1 .. Len(st)
  BY DEF GoodStack
<1>1. /\ new \in Seq(Frame) /\ Len(new) = Len(st) - 1
      /\ DOMAIN new \subseteq DOMAIN st
      /\ \A i \in DOMAIN new : new[i] = st[i] /\ i \in Nat /\ i < Len(st)
      /\ Len(st) \in Nat
  <2>1. new \in Seq(Frame) /\ Len(new) = Len(st) - 1 /\ DOMAIN new = 1 .. Len(st) - 1
    BY <1>0
  <2>2. \A i \in 1 .. Len(st) - 1 : new[i] = st[i]
    BY <1>0
  <2>. HIDE DEF new
  <2>. QED  BY <1>0, <2>1, <2>2
<1>. HIDE DEF new
<1>2. GoodStack(new, par)
  BY <1>1 DEF GoodStack
<1>3. Locks(new) \subseteq Locks(st)
  BY <1>1 DEF Locks
<1>4. \A ent : Fresh(st, ent) => Fresh(new, ent)
  BY <1>1 DEF Fresh
<1>5. Owns(new) \subseteq Owns(st)
  BY <1>1 DEF Owns
<1>. QED  BY <1>2, <1>3, <1>4, <1>5 DEF new

\* Its last frame may go on to a state of the same service and scope.
LEMMA SetTopGood ==
    ASSUME NEW st, NEW par, NEW parNew, GoodStack(st, par), st # <<>>, NEW fr,
           FrameFits(fr, parNew), fr.svc = st[Len(st)].svc,
           fr.asking = st[Len(st)].asking,
           \A i \in DOMAIN st : FrameFits(st[i], parNew)
    PROVE  LET new == [st EXCEPT ![Len(st)] = fr]
           IN  /\ GoodStack(new, parNew) /\ Locks(new) \subseteq Locks(st) \cup HeldBy(fr)
               /\ Owns(new) \subseteq Owns(st) \cup ({fr.owner} \cap Child)
               /\ \A ent : Fresh(st, ent) /\ Fresh(<<fr>>, ent) => Fresh(new, ent)
<1>. DEFINE new == [st EXCEPT ![Len(st)] = fr]
<1>1. /\ new \in Seq(Frame) /\ Len(new) = Len(st) /\ DOMAIN new = DOMAIN st
      /\ \A i \in DOMAIN new : new[i] = IF i = Len(st) THEN fr ELSE st[i]
      /\ Len(st) \in DOMAIN st /\ DOMAIN st \subseteq Nat
  BY DEF GoodStack, FrameFits
<1>. HIDE DEF new
<1>2. GoodStack(new, parNew)
  BY <1>1 DEF GoodStack, Resolves
<1>3. Locks(new) \subseteq Locks(st) \cup HeldBy(fr)
  BY <1>1 DEF Locks
<1>4. \A ent : Fresh(st, ent) /\ Fresh(<<fr>>, ent) => Fresh(new, ent)
  BY <1>1 DEF Fresh
<1>5. Owns(new) \subseteq Owns(st) \cup ({fr.owner} \cap Child)
  BY <1>1 DEF Owns
<1>. QED  BY <1>2, <1>3, <1>4, <1>5 DEF new

\* A dependency, or a first frame, may be put on top.
LEMMA PushGood ==
    ASSUME NEW st, NEW par, GoodStack(st, par), NEW fr, FrameFits(fr, par),
           HeldBy(fr) = {}, fr.pc # "create", fr.owner \notin Child,
           st # <<>> =>
              /\ Resolves(fr) /\ st[Len(st)].pc \in {"create", "forget"}
              /\ Resolves(st[Len(st)]) => /\ fr.svc \in Needs[st[Len(st)].svc]
                                          /\ fr.asking = st[Len(st)].asking
    PROVE  LET new == Append(st, fr)
           IN  /\ GoodStack(new, par) /\ Locks(new) \subseteq Locks(st)
               /\ Owns(new) \subseteq Owns(st)
               /\ \A ent : Fresh(st, ent) => Fresh(new, ent)
<1>. DEFINE new == Append(st, fr)
<1>1. /\ new \in Seq(Frame) /\ Len(new) = Len(st) + 1
      /\ \A i \in DOMAIN new : \/ i = Len(st) + 1 /\ new[i] = fr
                               \/ i # Len(st) + 1 /\ i \in DOMAIN st /\ new[i] = st[i]
      /\ Len(st) \in Nat /\ DOMAIN st = 1 .. Len(st) /\ DOMAIN new = 1 .. Len(st) + 1
      /\ st = <<>> <=> Len(st) = 0
  <2>1. st \in Seq(Frame) /\ fr \in Frame
    BY DEF GoodStack, FrameFits
  <2>2. /\ new \in Seq(Frame) /\ Len(new) = Len(st) + 1
        /\ Len(st) \in Nat /\ DOMAIN st = 1 .. Len(st) /\ DOMAIN new = 1 .. Len(st) + 1
    BY <2>1
  <2>3. \A i \in 1 .. Len(st) + 1 : new[i] = IF i = Len(st) + 1 THEN fr ELSE st[i]
    BY <2>1
  <2>4. st = <<>> <=> Len(st) = 0
    BY <2>1
  <2>. HIDE DEF new
  <2>5. ASSUME NEW i \in DOMAIN new
        PROVE  \/ i = Len(st) + 1 /\ new[i] = fr
               \/ i # Len(st) + 1 /\ i \in DOMAIN st /\ new[i] = st[i]
    <3>1. i \in 1 .. Len(st) + 1
      BY <2>2
    <3>2. CASE i = Len(st) + 1
      BY <3>1, <3>2, <2>2, <2>3
    <3>3. CASE i # Len(st) + 1
      BY <3>1, <3>3, <2>2, <2>3
    <3>. QED  BY <3>2, <3>3
  <2>. QED  BY <2>2, <2>4, <2>5
<1>. HIDE DEF new
<1>2. ASSUME NEW i \in DOMAIN new, NEW j \in DOMAIN new, i < j, Resolves(new[i])
      PROVE  /\ new[j].asking = new[i].asking
             /\ new[i].svc \in Apart => new[j].svc \in Apart
             /\ j = i + 1 => new[j].svc \in Needs[new[i].svc]
  <2>1. i \in DOMAIN st /\ new[i] = st[i]
    BY <1>1, <1>2
  <2>2. CASE j # Len(st) + 1
    BY <1>1, <1>2, <2>1, <2>2 DEF GoodStack
  <2>3. CASE j = Len(st) + 1 /\ i = Len(st)
    <3>1. new[j] = fr /\ st # <<>>
      BY <1>1, <2>1, <2>3
    <3>. QED  BY <1>2, <2>1, <2>3, <3>1, ApartIsApart DEF IsApart
  <2>4. CASE j = Len(st) + 1 /\ i # Len(st)
    <3>1. new[j] = fr /\ st # <<>> /\ i < Len(st) /\ Len(st) \in DOMAIN st
      BY <1>1, <2>1, <2>4
    <3>2. /\ Resolves(st[Len(st)]) /\ st[Len(st)].asking = st[i].asking
          /\ st[i].svc \in Apart => st[Len(st)].svc \in Apart
      BY <1>1, <1>2, <2>1, <3>1 DEF GoodStack
    <3>3. j # i + 1
      BY <1>1, <2>4
    <3>. QED  BY <2>1, <3>1, <3>2, <3>3, ApartIsApart DEF IsApart
  <2>. QED  BY <2>2, <2>3, <2>4
<1>3. GoodStack(new, par)
  <2>1. \A i \in DOMAIN new : FrameFits(new[i], par)
    BY <1>1 DEF GoodStack
  <2>2. \A i \in DOMAIN new : i < Len(new) => new[i].pc \in {"create", "forget"}
    BY <1>1 DEF GoodStack
  <2>3. \A i \in DOMAIN new : i > 1 => Resolves(new[i])
    BY <1>1 DEF GoodStack
  <2>. QED  BY <1>1, <1>2, <2>1, <2>2, <2>3 DEF GoodStack
<1>4. Locks(new) \subseteq Locks(st)
  BY <1>1 DEF Locks
<1>5. \A ent : Fresh(st, ent) => Fresh(new, ent)
  BY <1>1 DEF Fresh
<1>6. Owns(new) \subseteq Owns(st)
  BY <1>1 DEF Owns
<1>. QED  BY <1>3, <1>4, <1>5, <1>6 DEF new

(***************************************************************************)
(* The inductive invariant                                                 *)
(***************************************************************************)
StacksOK ==
    /\ stack \in [Thread -> Seq(Frame)]
    /\ \A t \in Thread : GoodStack(stack[t], parent) /\ Fresh(stack[t], entries)
    /\ \A t, u \in Thread : t # u =>
          /\ Locks(stack[t]) \cap Locks(stack[u]) = {}
          /\ Owns(stack[t]) \cap Owns(stack[u]) = {}

\* What a list holds was derived from its scope.
SlotsOK ==
    \A s \in Scope, i \in Index : slot[s][i] # NoLock => parent[slot[s][i]] = s

OnlyOne ==
    \A x \in Service, o \in Owner :
        /\ entries[o][x] <= 1
        /\ Lifetime[x] = "singleton" /\ entries[o][x] > 0 => o = Root

DataOK ==
    /\ entries \in [Owner -> [Service -> Nat]]
    /\ disposed \subseteq Asking
    /\ parent \in [Child -> Scope \cup {NoLock}]
    /\ size \in [Scope -> 0 .. MaxSize]
    /\ slot \in [Scope -> [Index -> Child \cup {NoLock}]]
    /\ version \in [Scope -> Nat]

IInv == StacksOK /\ DataOK /\ SlotsOK /\ OnlyOne

LEMMA InitHolds == Init => IInv
<1>. SUFFICES ASSUME Init PROVE IInv
  OBVIOUS
<1>. USE DEF Init
<1>1. StacksOK
  <2>1. \A t \in Thread : stack[t] = <<>> /\ DOMAIN stack[t] = {}
    <3>1. DOMAIN << >> = {}
      OBVIOUS
    <3>. QED  BY <3>1
  <2>2. \A t \in Thread : /\ GoodStack(stack[t], parent) /\ Fresh(stack[t], entries)
                          /\ Locks(stack[t]) = {} /\ Owns(stack[t]) = {}
    <3>1. /\ <<>> \in Seq(Frame) /\ UNION {HeldBy(<<>>[i]) : i \in {}} = {}
          /\ {<<>>[i].owner : i \in {}} = {}
      OBVIOUS
    <3>. QED  BY <2>1, <3>1 DEF GoodStack, Fresh, Locks, Owns
  <2>. QED  BY <2>1, <2>2 DEF StacksOK
<1>2. DataOK
  BY ParallelAssumption DEF DataOK
<1>3. SlotsOK
  BY DEF SlotsOK
<1>4. OnlyOne
  BY DEF OnlyOne
<1>. QED  BY <1>1, <1>2, <1>3, <1>4 DEF IInv

\* What a step of a thread does to its stack; it may take locks and own owns.
Moves(t, locks, owns) ==
    /\ stack' = [stack EXCEPT ![t] = stack'[t]]
    /\ GoodStack(stack'[t], parent')
    /\ Locks(stack'[t]) \subseteq Locks(stack[t]) \cup locks
    /\ Owns(stack'[t]) \subseteq Owns(stack[t]) \cup owns
    /\ Fresh(stack[t], entries') => Fresh(stack'[t], entries')

LEMMA OneMoves ==
    ASSUME StacksOK, NEW t \in Thread, NEW locks, NEW owns, Moves(t, locks, owns),
           Fresh(stack'[t], entries'),
           \A u \in Thread \ {t} :
              /\ Locks(stack[u]) \cap locks = {} /\ Owns(stack[u]) \cap owns = {}
              /\ GoodStack(stack[u], parent') /\ Fresh(stack[u], entries')
    PROVE  StacksOK'
<1>1. \A u \in Thread \ {t} : stack'[u] = stack[u]
  BY DEF Moves, StacksOK
<1>2. stack' \in [Thread -> Seq(Frame)]
  BY DEF Moves, StacksOK, GoodStack
<1>3. \A u \in Thread : GoodStack(stack'[u], parent') /\ Fresh(stack'[u], entries')
  BY <1>1 DEF Moves
<1>4. ASSUME NEW u \in Thread, NEW v \in Thread, u # v
      PROVE  /\ Locks(stack'[u]) \cap Locks(stack'[v]) = {}
             /\ Owns(stack'[u]) \cap Owns(stack'[v]) = {}
  <2>1. CASE u # t /\ v # t
    BY <1>1, <1>4, <2>1 DEF StacksOK
  <2>2. CASE u = t
    BY <1>1, <1>4, <2>2 DEF StacksOK, Moves
  <2>3. CASE v = t
    BY <1>1, <1>4, <2>3 DEF StacksOK, Moves
  <2>. QED  BY <2>1, <2>2, <2>3
<1>. QED  BY <1>2, <1>3, <1>4 DEF StacksOK

\* The usual step: no child is derived and no instance is remembered.
LEMMA OneMovesOn ==
    ASSUME StacksOK, NEW t \in Thread, NEW locks, Moves(t, locks, {}),
           parent' = parent, \A u \in Thread : Fresh(stack[u], entries'),
           \A u \in Thread \ {t} : Locks(stack[u]) \cap locks = {}
    PROVE  StacksOK'
<1>1. Fresh(stack'[t], entries')
  BY DEF Moves
<1>2. \A u \in Thread : GoodStack(stack[u], parent')
  BY DEF StacksOK
<1>. QED  BY <1>1, <1>2, OneMoves

LEMMA PopStep ==
    ASSUME StacksOK, NEW t \in Thread, stack[t] # <<>>, Pop(t), parent' = parent
    PROVE  Moves(t, {}, {})
<1>1. stack'[t] = SubSeq(stack[t], 1, Len(stack[t]) - 1)
  BY DEF Pop, StacksOK
<1>2. stack' = [stack EXCEPT ![t] = stack'[t]]
  BY <1>1 DEF Pop
<1>3. GoodStack(stack[t], parent)
  BY DEF StacksOK
<1>. QED  BY <1>1, <1>2, <1>3, PopGood DEF Moves

LEMMA SetTopStep ==
    ASSUME StacksOK, NEW t \in Thread, stack[t] # <<>>, NEW fr, SetTop(t, fr),
           FrameFits(fr, parent'), fr.svc = Top(t).svc, fr.asking = Top(t).asking,
           \A i \in DOMAIN stack[t] : FrameFits(stack[t][i], parent'),
           Fresh(<<fr>>, entries')
    PROVE  Moves(t, HeldBy(fr), {fr.owner} \cap Child)
<1>1. stack'[t] = [stack[t] EXCEPT ![Len(stack[t])] = fr]
  BY DEF SetTop, StacksOK
<1>2. stack' = [stack EXCEPT ![t] = stack'[t]]
  BY <1>1 DEF SetTop
<1>3. GoodStack(stack[t], parent)
  BY DEF StacksOK
<1>4. LET new == [stack[t] EXCEPT ![Len(stack[t])] = fr]
      IN  /\ GoodStack(new, parent') /\ Locks(new) \subseteq Locks(stack[t]) \cup HeldBy(fr)
          /\ Owns(new) \subseteq Owns(stack[t]) \cup ({fr.owner} \cap Child)
          /\ \A ent : Fresh(stack[t], ent) /\ Fresh(<<fr>>, ent) => Fresh(new, ent)
  BY <1>3, SetTopGood DEF Top
<1>. QED  BY <1>1, <1>2, <1>4 DEF Moves

\* Within one scope and TransientScope.
LEMMA GoesOn ==
    ASSUME StacksOK, NEW t \in Thread, stack[t] # <<>>, NEW fr, SetTop(t, fr),
           FrameFits(fr, parent), fr.svc = Top(t).svc, fr.asking = Top(t).asking,
           fr.owner = Top(t).owner, Fresh(<<fr>>, entries'), parent' = parent
    PROVE  Moves(t, HeldBy(fr), {})
<1>1. \A i \in DOMAIN stack[t] : FrameFits(stack[t][i], parent')
  BY DEF StacksOK, GoodStack
<1>2. Moves(t, HeldBy(fr), {fr.owner} \cap Child)
  BY <1>1, SetTopStep
<1>3. Len(stack[t]) \in DOMAIN stack[t]
  BY DEF StacksOK
<1>4. {fr.owner} \cap Child \subseteq Owns(stack[t])
  BY <1>3 DEF Owns, Top
<1>. QED  BY <1>2, <1>4 DEF Moves

LEMMA PushStep ==
    ASSUME StacksOK, NEW t \in Thread, NEW fr, Push(t, fr), parent' = parent,
           FrameFits(fr, parent),
           HeldBy(fr) = {}, fr.pc # "create", fr.owner \notin Child,
           stack[t] # <<>> =>
              /\ Resolves(fr) /\ Top(t).pc \in {"create", "forget"}
              /\ Resolves(Top(t)) => /\ fr.svc \in Needs[Top(t).svc]
                                     /\ fr.asking = Top(t).asking
    PROVE  Moves(t, {}, {})
<1>1. stack'[t] = Append(stack[t], fr)
  BY DEF Push, StacksOK
<1>2. stack' = [stack EXCEPT ![t] = stack'[t]]
  BY <1>1 DEF Push
<1>3. GoodStack(stack[t], parent)
  BY DEF StacksOK
<1>. QED  BY <1>1, <1>2, <1>3, PushGood DEF Moves, Top

LEMMA TopFits ==
    ASSUME StacksOK, NEW t \in Thread, stack[t] # <<>>
    PROVE  /\ FrameFits(Top(t), parent)
           /\ Len(stack[t]) \in DOMAIN stack[t] /\ Top(t) = stack[t][Len(stack[t])]
           /\ HeldBy(Top(t)) \subseteq Locks(stack[t])
<1>1. GoodStack(stack[t], parent) /\ stack[t] \in Seq(Frame)
  BY DEF StacksOK
<1>2. Len(stack[t]) \in DOMAIN stack[t]
  BY <1>1
<1>. QED  BY <1>1, <1>2 DEF GoodStack, Top, Locks

LEMMA StepOn ==
    ASSUME StacksOK, NEW t \in Thread, stack[t] # <<>>, NEW fr, SetTop(t, fr),
           FrameFits(fr, parent), fr.svc = Top(t).svc, fr.asking = Top(t).asking,
           fr.owner = Top(t).owner, Fresh(<<fr>>, entries'), parent' = parent,
           \A u \in Thread : Fresh(stack[u], entries'),
           \/ HeldBy(fr) \subseteq HeldBy(Top(t))
           \/ ~Waits(t) /\ HeldBy(fr) \subseteq HeldBy(Top(t)) \cup Wanted(Top(t))
    PROVE  StacksOK'
<1>1. Moves(t, HeldBy(fr), {})
  BY GoesOn
<1>2. ASSUME NEW u \in Thread \ {t}
      PROVE  Locks(stack[u]) \cap HeldBy(fr) = {}
  <2>1. Locks(stack[u]) \cap HeldBy(Top(t)) = {}
    BY TopFits DEF StacksOK
  <2>2. ~Waits(t) => Locks(stack[u]) \cap Wanted(Top(t)) = {}
    BY DEF Waits, WaitsFor, Held, Locks
  <2>. QED  BY <2>1, <2>2
<1>. QED  BY <1>1, <1>2, OneMovesOn

LEMMA PopOn ==
    ASSUME StacksOK, NEW t \in Thread, stack[t] # <<>>, Pop(t), parent' = parent,
           \A u \in Thread : Fresh(stack[u], entries')
    PROVE  StacksOK'
<1>1. Moves(t, {}, {})
  BY PopStep
<1>. QED  BY <1>1, OneMovesOn

\* To forget what an owner has makes nothing stale.
LEMMA ForgetKeepsFresh ==
    ASSUME StacksOK, DataOK, NEW o \in Owner, entries' = [entries EXCEPT ![o] = None]
    PROVE  \A u \in Thread : Fresh(stack[u], entries')
<1>1. ASSUME NEW u \in Thread, NEW i \in DOMAIN stack[u], stack[u][i].pc = "create",
             stack[u][i].owner # NoLock
      PROVE  entries'[stack[u][i].owner][stack[u][i].svc] = 0
  <2>1. FrameFits(stack[u][i], parent)
    BY DEF StacksOK, GoodStack
  <2>2. stack[u][i].svc \in Service /\ stack[u][i].owner \in Owner
    BY <1>1, <2>1 DEF FrameFits, Resolves, Frame
  <2>3. entries[stack[u][i].owner][stack[u][i].svc] = 0
    BY <1>1 DEF StacksOK, Fresh
  <2>. QED  BY <2>2, <2>3 DEF DataOK, None
<1>. QED  BY <1>1 DEF Fresh

LEMMA ForgetKeepsOne ==
    ASSUME IInv, NEW o \in Owner, entries' = [entries EXCEPT ![o] = None]
    PROVE  OnlyOne' /\ entries' \in [Owner -> [Service -> Nat]]
BY DEF IInv, DataOK, OnlyOne, None

\* What holds for a frame of a service and a scope before it is started.
LEMMA ResolvingFits ==
    ASSUME NEW x \in Service, NEW s \in Asking, NEW par
    PROVE  /\ FrameFits(Resolving(x, s), par) /\ Resolves(Resolving(x, s))
           /\ HeldBy(Resolving(x, s)) = {} /\ Resolving(x, s).owner \notin Child
           /\ Resolving(x, s).svc = x /\ Resolving(x, s).asking = s
           /\ Resolving(x, s).pc \in {"derive", "enter"}
<1>1. Lifetime[x] \in {"singleton", "scoped", "transient"} /\ x # NoService
  BY ParallelAssumption
<1>2. OwnerOf(x, s) \in Asking \cup {NoLock}
  BY ParallelAssumption DEF OwnerOf, SingletonOwner
<1>3. Resolving(x, s) \in Frame
  BY <1>2 DEF Resolving, Frame
<1>4. HeldBy(Resolving(x, s)) = {}
  BY DEF Resolving, HeldBy
<1>5. Resolving(x, s).owner \notin Child
  BY <1>2, ParallelAssumption DEF Resolving
<1>6. FrameFits(Resolving(x, s), par)
  BY <1>1, <1>3, ParallelAssumption
     DEF FrameFits, Resolving, Resolves, OwnerOf, SingletonOwner
<1>. QED  BY <1>1, <1>4, <1>5, <1>6 DEF Resolving, Resolves

(***************************************************************************)
(* Every step preserves it                                                 *)
(***************************************************************************)
LEMMA RequestKeeps ==
    ASSUME IInv, NEW t \in Thread, NEW s \in Asking, NEW x \in Service, Request(t, s, x)
    PROVE  IInv'
<1>. USE DEF IInv
<1>1. PICK fr : fr = Resolving(x, s)
  OBVIOUS
<1>2. /\ FrameFits(fr, parent) /\ Resolves(fr) /\ HeldBy(fr) = {}
      /\ fr.owner \notin Child /\ fr.pc # "create"
  BY <1>1, ResolvingFits
<1>3. stack[t] # <<>> => Top(t).pc = "forget" /\ ~Resolves(Top(t))
  BY TopFits DEF Request, At, FrameFits
<1>4. Moves(t, {}, {})
  BY <1>1, <1>2, <1>3, PushStep DEF Request
<1>5. StacksOK'
  BY <1>4, OneMovesOn DEF Request, StacksOK
<1>. QED  BY <1>5 DEF Request, DataOK, SlotsOK, OnlyOne

LEMMA DisposeKeeps ==
    ASSUME IInv, NEW t \in Thread, NEW s \in Asking, Dispose(t, s)
    PROVE  IInv'
<1>. USE DEF IInv
<1>1. PICK fr : fr = Disposing(s)
  OBVIOUS
<1>2. /\ FrameFits(fr, parent) /\ HeldBy(fr) = {}
      /\ fr.owner \notin Child /\ fr.pc # "create"
  <2>1. fr \in Frame
    BY <1>1 DEF Disposing, Frame
  <2>. QED  BY <1>1, <2>1, ParallelAssumption DEF Disposing, FrameFits, Resolves, HeldBy
<1>3. Moves(t, {}, {})
  BY <1>1, <1>2, PushStep DEF Dispose
<1>4. StacksOK'
  BY <1>3, OneMovesOn DEF Dispose, StacksOK
<1>. QED  BY <1>4 DEF Dispose, DataOK, SlotsOK, OnlyOne

\* A new TransientScope was nobody's.
LEMMA DeriveKeeps ==
    ASSUME IInv, NEW t \in Thread, DeriveTransientScope(t)
    PROVE  IInv'
<1>. USE DEF IInv
<1>1. stack[t] # <<>> /\ Top(t).pc = "derive"
  BY DEF DeriveTransientScope, At
<1>2. PICK s : s = Top(t).asking
  OBVIOUS
<1>3. FrameFits(Top(t), parent) /\ s \in Scope /\ Lifetime[Top(t).svc] = "transient"
  BY <1>1, <1>2, TopFits DEF FrameFits
<1>4. PICK c \in Child : /\ parent[c] = NoLock /\ parent' = [parent EXCEPT ![c] = s]
                         /\ SetTop(t, [Top(t) EXCEPT !.pc = "size", !.owner = c, !.n = size[s]])
                         /\ size[s] < MaxSize
  BY <1>2 DEF DeriveTransientScope, CanDerive
<1>5. PICK fr : fr = [Top(t) EXCEPT !.pc = "size", !.owner = c, !.n = size[s]]
  OBVIOUS
<1>6. s # NoLock /\ c # NoLock /\ size[s] \in Index /\ MaxSize \in Nat
  BY <1>3, <1>4, ParallelAssumption DEF DataOK
<1>7. \A d \in Child : d # c => parent'[d] = parent[d]
  BY <1>4 DEF DataOK
<1>8. parent'[c] = s
  BY <1>4 DEF DataOK
<1>9. ASSUME NEW g, FrameFits(g, parent)
      PROVE  FrameFits(g, parent')
  <2>1. Resolves(g) /\ Lifetime[g.svc] = "transient" /\ g.owner # NoLock => g.owner # c
    BY <1>4, <1>9, ParallelAssumption DEF FrameFits, Frame
  <2>. QED  BY <1>7, <1>9, <2>1 DEF FrameFits
<1>10. \A u \in Thread : /\ GoodStack(stack[u], parent')
                         /\ \A i \in DOMAIN stack[u] : FrameFits(stack[u][i], parent')
  BY <1>9 DEF StacksOK, GoodStack
<1>11. \A u \in Thread : c \notin Owns(stack[u])
  <2>1. ASSUME NEW u \in Thread, NEW i \in DOMAIN stack[u], stack[u][i].owner = c
        PROVE  FALSE
    <3>1. FrameFits(stack[u][i], parent)
      BY DEF StacksOK, GoodStack
    <3>2. parent[c] = stack[u][i].asking
      BY <2>1, <3>1, <1>6, ParallelAssumption DEF FrameFits, Frame, Resolves
    <3>3. stack[u][i].asking \in Asking
      BY <3>1 DEF FrameFits, Frame
    <3>. QED  BY <1>4, <3>2, <3>3, ParallelAssumption
  <2>. QED  BY <2>1 DEF Owns
<1>12. /\ fr \in Frame /\ fr.pc = "size" /\ fr.owner = c /\ fr.n = size[s]
       /\ fr.svc = Top(t).svc /\ fr.asking = s /\ fr.left = Top(t).left
  <2>1. Top(t) \in Frame /\ size[s] \in Nat /\ c \in Owner
    BY <1>3, <1>6 DEF FrameFits
  <2>. QED  BY <1>2, <1>5, <2>1 DEF Frame
<1>13. FrameFits(fr, parent')
  BY <1>1, <1>3, <1>6, <1>8, <1>12 DEF FrameFits, Resolves
<1>14. HeldBy(fr) = {} /\ Fresh(<<fr>>, entries')
  BY <1>12 DEF HeldBy, Fresh
<1>15. Moves(t, {}, {c})
  <2>1. Moves(t, HeldBy(fr), {fr.owner} \cap Child)
    BY <1>1, <1>2, <1>4, <1>5, <1>10, <1>12, <1>13, <1>14, SetTopStep
  <2>. QED  BY <1>12, <1>14, <2>1
<1>16. StacksOK'
  <2>1. \A u \in Thread : Fresh(stack[u], entries')
    BY DEF DeriveTransientScope, StacksOK
  <2>2. Fresh(stack'[t], entries')
    BY <1>15, <2>1 DEF Moves
  <2>3. \A u \in Thread \ {t} : Locks(stack[u]) \cap {} = {} /\ Owns(stack[u]) \cap {c} = {}
    BY <1>11
  <2>. QED  BY <1>10, <1>15, <2>1, <2>2, <2>3, OneMoves
<1>17. DataOK'
  BY <1>3, <1>4, <1>2 DEF DeriveTransientScope, DataOK
<1>18. SlotsOK'
  <2>1. ASSUME NEW r \in Scope, NEW i \in Index, slot[r][i] # NoLock
        PROVE  parent'[slot[r][i]] = r
    <3>1. slot[r][i] \in Child /\ parent[slot[r][i]] = r /\ r # NoLock
      BY <2>1, ParallelAssumption DEF DataOK, SlotsOK
    <3>. QED  BY <1>4, <1>7, <3>1
  <2>. QED  BY <2>1 DEF SlotsOK, DeriveTransientScope
<1>19. OnlyOne'
  BY DEF OnlyOne, DeriveTransientScope
<1>. QED  BY <1>16, <1>17, <1>18, <1>19

LEMMA AddSizeKeeps ==
    ASSUME IInv, NEW t \in Thread, AddSize(t)
    PROVE  IInv'
<1>. USE DEF IInv
<1>1. stack[t] # <<>> /\ Top(t).pc = "size"
  BY DEF AddSize, At
<1>2. PICK fr : fr = [Top(t) EXCEPT !.pc = "slot"]
  OBVIOUS
<1>3. FrameFits(Top(t), parent)
  BY <1>1, TopFits
<1>4. /\ fr \in Frame /\ fr.pc = "slot" /\ fr.n = Top(t).n /\ fr.owner = Top(t).owner
      /\ fr.svc = Top(t).svc /\ fr.asking = Top(t).asking /\ fr.left = Top(t).left
  BY <1>2, <1>3 DEF FrameFits, Frame
<1>5. FrameFits(fr, parent) /\ HeldBy(fr) = {} /\ Fresh(<<fr>>, entries')
  BY <1>1, <1>3, <1>4 DEF FrameFits, Resolves, HeldBy, Fresh
<1>6. StacksOK'
  <2>1. \A u \in Thread : Fresh(stack[u], entries')
    BY DEF AddSize, StacksOK
  <2>. QED  BY <1>1, <1>2, <1>4, <1>5, <2>1, StepOn DEF AddSize
<1>7. Top(t).asking \in Scope /\ NewSize(Top(t).n) \in 0 .. MaxSize
  BY <1>1, <1>3, ParallelAssumption DEF FrameFits, NewSize
<1>. QED  BY <1>6, <1>7 DEF AddSize, DataOK, SlotsOK, OnlyOne

LEMMA AddSlotKeeps ==
    ASSUME IInv, NEW t \in Thread, AddSlot(t)
    PROVE  IInv'
<1>. USE DEF IInv
<1>1. stack[t] # <<>> /\ Top(t).pc = "slot"
  BY DEF AddSlot, At
<1>2. PICK fr : fr = [Top(t) EXCEPT !.pc = "enter", !.n = 0]
  OBVIOUS
<1>3. FrameFits(Top(t), parent)
  BY <1>1, TopFits
<1>4. /\ fr \in Frame /\ fr.pc = "enter" /\ fr.owner = Top(t).owner
      /\ fr.svc = Top(t).svc /\ fr.asking = Top(t).asking /\ fr.left = Top(t).left
  BY <1>2, <1>3 DEF FrameFits, Frame
<1>5. FrameFits(fr, parent) /\ HeldBy(fr) = {} /\ Fresh(<<fr>>, entries')
  BY <1>1, <1>3, <1>4 DEF FrameFits, Resolves, HeldBy, Fresh
<1>6. StacksOK'
  <2>1. \A u \in Thread : Fresh(stack[u], entries')
    BY DEF AddSlot, StacksOK
  <2>. QED  BY <1>1, <1>2, <1>4, <1>5, <2>1, StepOn DEF AddSlot
<1>7. /\ Top(t).asking \in Scope /\ Top(t).n \in Index /\ Top(t).owner \in Child
      /\ parent[Top(t).owner] = Top(t).asking
  BY <1>1, <1>3, ParallelAssumption DEF FrameFits, Resolves
<1>8. DataOK' /\ SlotsOK'
  BY <1>7 DEF AddSlot, DataOK, SlotsOK
<1>. QED  BY <1>6, <1>8 DEF AddSlot, OnlyOne

\* The lock is free, and it is the only one the frame takes.
LEMMA EnterKeeps ==
    ASSUME IInv, NEW t \in Thread, Enter(t)
    PROVE  IInv'
<1>. USE DEF IInv
<1>1. stack[t] # <<>> /\ Top(t).pc = "enter"
  BY DEF Enter, At
<1>2. PICK fr : fr = [Top(t) EXCEPT !.pc = "try"]
  OBVIOUS
<1>3. FrameFits(Top(t), parent)
  BY <1>1, TopFits
<1>4. /\ fr \in Frame /\ fr.pc = "try" /\ fr.owner = Top(t).owner
      /\ fr.svc = Top(t).svc /\ fr.asking = Top(t).asking /\ fr.left = Top(t).left
  BY <1>2, <1>3 DEF FrameFits, Frame
<1>5. FrameFits(fr, parent) /\ Fresh(<<fr>>, entries')
  BY <1>1, <1>3, <1>4 DEF FrameFits, Resolves, Fresh
<1>6. HeldBy(fr) \subseteq Wanted(Top(t))
  BY <1>1, <1>4 DEF HeldBy, Wanted
<1>7. StacksOK'
  <2>1. \A u \in Thread : Fresh(stack[u], entries')
    BY DEF Enter, StacksOK
  <2>. QED  BY <1>1, <1>2, <1>4, <1>5, <1>6, <2>1, StepOn DEF Enter
<1>. QED  BY <1>7 DEF Enter, DataOK, SlotsOK, OnlyOne

\* What is not found is fresh.
LEMMA TryGetKeeps ==
    ASSUME IInv, NEW t \in Thread, TryGet(t)
    PROVE  IInv'
<1>. USE DEF IInv
<1>1. stack[t] # <<>> /\ Top(t).pc = "try"
  BY DEF TryGet, At
<1>2. \A u \in Thread : Fresh(stack[u], entries')
  BY DEF TryGet, StacksOK
<1>3. CASE Found(Top(t)) /\ Pop(t)
  <2>1. StacksOK'
    BY <1>1, <1>2, <1>3, PopOn DEF TryGet
  <2>. QED  BY <2>1 DEF TryGet, DataOK, SlotsOK, OnlyOne
<1>4. CASE /\ ~Found(Top(t))
           /\ SetTop(t, [Top(t) EXCEPT !.pc = "create", !.left = Needs[Top(t).svc]])
  <2>1. PICK fr : fr = [Top(t) EXCEPT !.pc = "create", !.left = Needs[Top(t).svc]]
    OBVIOUS
  <2>2. FrameFits(Top(t), parent) /\ Top(t).svc \in Service /\ Top(t) \in Frame
    BY <1>1, TopFits DEF FrameFits, Resolves, Frame
  <2>3. /\ fr \in Frame /\ fr.pc = "create" /\ fr.owner = Top(t).owner
        /\ fr.svc = Top(t).svc /\ fr.asking = Top(t).asking /\ fr.left = Needs[fr.svc]
    BY <2>1, <2>2, ParallelAssumption DEF Frame
  <2>4. FrameFits(fr, parent)
    BY <1>1, <2>2, <2>3 DEF FrameFits, Resolves
  <2>5. Fresh(<<fr>>, entries')
    <3>1. fr.owner # NoLock => fr.owner \in Owner /\ entries[fr.owner][fr.svc] = 0
      BY <1>4, <2>2, <2>3 DEF Found, Frame, DataOK
    <3>. QED  BY <3>1 DEF Fresh, TryGet
  <2>6. HeldBy(fr) \subseteq HeldBy(Top(t))
    BY <1>1, <2>3 DEF HeldBy
  <2>7. StacksOK'
    BY <1>1, <1>2, <1>4, <2>1, <2>3, <2>4, <2>5, <2>6, StepOn DEF TryGet
  <2>. QED  BY <2>7 DEF TryGet, DataOK, SlotsOK, OnlyOne
<1>. QED  BY <1>3, <1>4 DEF TryGet

LEMMA ResolveNeedKeeps ==
    ASSUME IInv, NEW t \in Thread, ResolveNeed(t)
    PROVE  IInv'
<1>. USE DEF IInv
<1>1. stack[t] # <<>> /\ Top(t).pc = "create" /\ Len(stack[t]) \in DOMAIN stack[t]
  BY TopFits DEF ResolveNeed, At
<1>2. PICK d \in Top(t).left :
         stack' = [stack EXCEPT ![t] =
                     Append([@ EXCEPT ![Len(@)] = [Top(t) EXCEPT !.left = @ \ {d}]],
                            Resolving(d, Top(t).asking))]
  BY DEF ResolveNeed
<1>3. PICK fr : fr = [Top(t) EXCEPT !.left = @ \ {d}]
  OBVIOUS
<1>4. PICK dep : dep = Resolving(d, Top(t).asking)
  OBVIOUS
<1>5. FrameFits(Top(t), parent) /\ Top(t).svc \in Service /\ Top(t) \in Frame
  BY <1>1, TopFits DEF FrameFits, Resolves, Frame
<1>6. /\ fr \in Frame /\ fr.pc = "create" /\ fr.owner = Top(t).owner
      /\ fr.svc = Top(t).svc /\ fr.asking = Top(t).asking
      /\ fr.left \subseteq Top(t).left /\ d \in Needs[fr.svc] /\ d \in Service
      /\ Top(t).asking \in Asking
  <2>1. Top(t).left \subseteq Needs[Top(t).svc] /\ Needs[Top(t).svc] \subseteq Service
    BY <1>1, <1>5, ParallelAssumption DEF FrameFits, Resolves
  <2>. QED  BY <1>1, <1>2, <1>3, <1>5, <2>1 DEF Frame
<1>7. FrameFits(fr, parent) /\ HeldBy(fr) \subseteq HeldBy(Top(t))
  BY <1>1, <1>5, <1>6 DEF FrameFits, Resolves, HeldBy
<1>8. /\ FrameFits(dep, parent) /\ Resolves(dep) /\ HeldBy(dep) = {}
      /\ dep.owner \notin Child /\ dep.pc # "create" /\ dep.svc = d
      /\ dep.asking = fr.asking
  BY <1>4, <1>6, ResolvingFits
<1>9. Fresh(stack[t], entries) /\ Fresh(<<fr>>, entries)
  <2>1. Fresh(stack[t], entries)
    BY DEF StacksOK
  <2>2. fr.owner # NoLock => entries[fr.owner][fr.svc] = 0
    BY <1>1, <1>6, <2>1 DEF Fresh, Top
  <2>. QED  BY <2>1, <2>2 DEF Fresh
<1>10. GoodStack(stack[t], parent) /\ stack[t] \in Seq(Frame)
  BY DEF StacksOK
<1>11. PICK mid : mid = [stack[t] EXCEPT ![Len(stack[t])] = fr]
  OBVIOUS
<1>12. /\ GoodStack(mid, parent) /\ Locks(mid) \subseteq Locks(stack[t]) \cup HeldBy(fr)
       /\ Owns(mid) \subseteq Owns(stack[t]) \cup ({fr.owner} \cap Child)
       /\ Fresh(mid, entries)
  <2>1. \A i \in DOMAIN stack[t] : FrameFits(stack[t][i], parent)
    BY <1>10 DEF GoodStack
  <2>. QED  BY <1>1, <1>6, <1>7, <1>9, <1>10, <1>11, <2>1, SetTopGood DEF Top
<1>13. /\ Locks(mid) \subseteq Locks(stack[t]) /\ Owns(mid) \subseteq Owns(stack[t])
       /\ mid # <<>> /\ mid[Len(mid)] = fr
  <2>1. HeldBy(fr) \subseteq Locks(stack[t])
    BY <1>1, <1>7, TopFits
  <2>2. {fr.owner} \cap Child \subseteq Owns(stack[t])
    BY <1>1, <1>6 DEF Owns, Top
  <2>3. mid # <<>> /\ mid[Len(mid)] = fr
    BY <1>1, <1>6, <1>10, <1>11
  <2>. QED  BY <1>12, <2>1, <2>2, <2>3
<1>14. PICK new : new = Append(mid, dep)
  OBVIOUS
<1>15. /\ GoodStack(new, parent) /\ Locks(new) \subseteq Locks(mid)
       /\ Owns(new) \subseteq Owns(mid) /\ Fresh(new, entries)
  BY <1>6, <1>8, <1>12, <1>13, <1>14, PushGood
<1>16. stack' = [stack EXCEPT ![t] = new] /\ stack'[t] = new
  BY <1>2, <1>3, <1>4, <1>11, <1>14 DEF StacksOK
<1>17. Moves(t, {}, {})
  BY <1>12, <1>13, <1>15, <1>16 DEF Moves, ResolveNeed
<1>18. StacksOK'
  BY <1>17, OneMovesOn DEF ResolveNeed, StacksOK
<1>. QED  BY <1>18 DEF ResolveNeed, DataOK, SlotsOK, OnlyOne

\* A thread is not resolving a service twice.
LEMMA NoRepeats ==
    ASSUME NEW st, NEW par, GoodStack(st, par), NEW i \in DOMAIN st, NEW j \in DOMAIN st,
           i < j, Resolves(st[i])
    PROVE  st[i].svc # st[j].svc
<1>. SUFFICES ASSUME st[i].svc = st[j].svc PROVE FALSE
  OBVIOUS
<1>. DEFINE xs == {st[k].svc : k \in i .. (j - 1)}
<1>1. /\ st \in Seq(Frame) /\ DOMAIN st = 1 .. Len(st) /\ Len(st) \in Nat
      /\ i \in Nat /\ j \in Nat /\ i \in i .. (j - 1) /\ i .. (j - 1) \subseteq DOMAIN st
  BY DEF GoodStack
<1>2. \A k \in DOMAIN st : k >= i => Resolves(st[k]) /\ st[k].svc \in Service
  <2>1. ASSUME NEW k \in DOMAIN st, k >= i
        PROVE  Resolves(st[k])
    BY <1>1, <2>1 DEF GoodStack
  <2>2. \A k \in DOMAIN st : st[k] \in Frame
    BY <1>1
  <2>. QED  BY <2>1, <2>2 DEF Frame, Resolves
<1>3. xs \subseteq Service /\ xs # {}
  BY <1>1, <1>2
<1>4. PICK x \in xs : Needs[x] \cap xs = {}
  BY <1>3, NoCycles
<1>5. PICK k \in i .. (j - 1) : x = st[k].svc
  BY <1>4
<1>6. k \in DOMAIN st /\ k + 1 \in DOMAIN st /\ k < k + 1 /\ Resolves(st[k])
  BY <1>1, <1>2, <1>5
<1>7. st[k + 1].svc \in Needs[x]
  BY <1>5, <1>6 DEF GoodStack
<1>8. st[k + 1].svc \in xs
  <2>1. CASE k = j - 1
    <3>1. k + 1 = j
      BY <1>1, <2>1
    <3>. QED  BY <1>1, <3>1
  <2>2. CASE k # j - 1
    <3>1. k + 1 \in i .. (j - 1)
      BY <1>1, <1>5, <2>2
    <3>. QED  BY <3>1
  <2>. QED  BY <2>1, <2>2
<1>. QED  BY <1>4, <1>7, <1>8

\* The instance goes where there was none; who else would make one is either
\* locked out or further down the same stack, for another service.
LEMMA RememberKeeps ==
    ASSUME IInv, NEW t \in Thread, Remember(t)
    PROVE  IInv'
<1>. USE DEF IInv
<1>1. stack[t] # <<>> /\ Top(t).pc = "create"
  BY DEF Remember, At
<1>2. /\ FrameFits(Top(t), parent) /\ Len(stack[t]) \in DOMAIN stack[t]
      /\ Top(t) = stack[t][Len(stack[t])] /\ Top(t).svc \in Service /\ Top(t) \in Frame
      /\ Resolves(Top(t))
  BY <1>1, TopFits DEF FrameFits, Resolves, Frame
<1>3. PICK o : o = Top(t).owner
  OBVIOUS
<1>4. PICK x : x = Top(t).svc
  OBVIOUS
<1>5. Moves(t, {}, {}) /\ parent' = parent
  BY <1>1, PopStep DEF Remember
<1>6. CASE o = NoLock
  <2>1. StacksOK'
    BY <1>1, <1>3, <1>6, PopOn DEF Remember, StacksOK
  <2>. QED  BY <1>3, <1>6, <2>1 DEF Remember, DataOK, SlotsOK, OnlyOne
<1>7. CASE o # NoLock
  <2>1. /\ o \in Owner /\ x \in Service
        /\ entries' = [entries EXCEPT ![o][x] = @ + 1]
    BY <1>2, <1>3, <1>4, <1>7 DEF Remember, Frame
  <2>2. entries[o][x] = 0
    BY <1>1, <1>2, <1>3, <1>4, <1>7 DEF StacksOK, Fresh
  <2>3. \A p \in Owner, y \in Service :
           entries'[p][y] = IF p = o /\ y = x THEN 1 ELSE entries[p][y]
    BY <2>1, <2>2 DEF DataOK
  <2>4. entries' \in [Owner -> [Service -> Nat]]
    BY <2>1, <2>2 DEF DataOK
  <2>5. OnlyOne'
    BY <1>2, <1>3, <1>4, <2>1, <2>2, <2>3 DEF OnlyOne, FrameFits
  <2>6. ASSUME NEW u \in Thread, NEW i \in DOMAIN stack[u], stack[u][i].pc = "create",
               stack[u][i].owner # NoLock, u # t \/ i # Len(stack[t])
        PROVE  entries'[stack[u][i].owner][stack[u][i].svc] = 0
    <3>1. FrameFits(stack[u][i], parent) /\ GoodStack(stack[u], parent)
      BY DEF StacksOK, GoodStack
    <3>2. /\ stack[u][i].svc \in Service /\ stack[u][i].owner \in Owner
          /\ Resolves(stack[u][i])
      BY <2>6, <3>1 DEF FrameFits, Resolves, Frame
    <3>3. entries[stack[u][i].owner][stack[u][i].svc] = 0
      BY <2>6 DEF StacksOK, Fresh
    <3>4. CASE u # t
      <4>1. stack[u][i].owner \in Locks(stack[u])
        BY <2>6 DEF Locks, HeldBy
      <4>2. o \in Locks(stack[t])
        BY <1>1, <1>2, <1>3, <1>7 DEF Locks, HeldBy
      <4>3. stack[u][i].owner # o
        BY <3>4, <4>1, <4>2 DEF StacksOK
      <4>. QED  BY <2>3, <3>2, <3>3, <4>3
    <3>5. CASE u = t
      <4>1. i < Len(stack[t])
        BY <2>6, <3>5 DEF StacksOK
      <4>2. stack[t][i].svc # x
        BY <1>2, <1>4, <3>1, <3>2, <3>5, <4>1, NoRepeats
      <4>. QED  BY <2>3, <3>2, <3>3, <3>5, <4>2
    <3>. QED  BY <3>4, <3>5
  <2>7. \A u \in Thread \ {t} : Fresh(stack[u], entries')
    BY <2>6 DEF Fresh
  <2>8. Fresh(stack'[t], entries')
    <3>1. stack'[t] = SubSeq(stack[t], 1, Len(stack[t]) - 1) /\ stack[t] \in Seq(Frame)
      BY DEF Remember, Pop, StacksOK
    <3>2. \A i \in DOMAIN stack'[t] :
             /\ i \in DOMAIN stack[t] /\ stack'[t][i] = stack[t][i] /\ i # Len(stack[t])
      BY <1>1, <3>1
    <3>. QED  BY <2>6, <3>2 DEF Fresh
  <2>9. StacksOK'
    <3>1. \A u \in Thread : GoodStack(stack[u], parent')
      BY <1>5 DEF StacksOK
    <3>. QED  BY <1>5, <2>7, <2>8, <3>1, OneMoves
  <2>. QED  BY <2>4, <2>5, <2>9 DEF Remember, DataOK, SlotsOK
<1>. QED  BY <1>6, <1>7

LEMMA ConstructorThrowsKeeps ==
    ASSUME IInv, NEW t \in Thread, ConstructorThrows(t)
    PROVE  IInv'
<1>. USE DEF IInv
<1>1. stack' = [stack EXCEPT ![t] = <<>>] /\ stack'[t] = <<>>
  BY DEF ConstructorThrows, StacksOK
<1>2. /\ GoodStack(<<>>, parent') /\ Fresh(<<>>, entries')
      /\ Locks(<<>>) = {} /\ Owns(<<>>) = {}
  <2>1. DOMAIN << >> = {} /\ <<>> \in Seq(Frame)
    OBVIOUS
  <2>. QED  BY <2>1 DEF GoodStack, Fresh, Locks, Owns
<1>3. Moves(t, {}, {})
  BY <1>1, <1>2 DEF Moves
<1>4. StacksOK'
  BY <1>3, OneMovesOn DEF ConstructorThrows, StacksOK
<1>. QED  BY <1>4 DEF ConstructorThrows, DataOK, SlotsOK, OnlyOne

\* A scope is locked while its Disposed event is raised.
LEMMA RaiseKeeps ==
    ASSUME IInv, NEW t \in Thread, Raise(t)
    PROVE  IInv'
<1>. USE DEF IInv
<1>1. stack[t] # <<>> /\ Top(t).pc = "raise"
  BY DEF Raise, At
<1>2. \A u \in Thread : Fresh(stack[u], entries')
  BY DEF Raise, StacksOK
<1>3. FrameFits(Top(t), parent) /\ Top(t) \in Frame
  BY <1>1, TopFits DEF FrameFits
<1>4. ASSUME NEW fr, SetTop(t, fr), fr \in Frame, fr.svc = Top(t).svc,
             fr.asking = Top(t).asking, fr.owner = Top(t).owner, fr.left = Top(t).left,
             \/ fr.pc = "clear"
             \/ fr.pc = "children" /\ fr.asking \in Scope
      PROVE  StacksOK'
  <2>1. FrameFits(fr, parent) /\ Fresh(<<fr>>, entries')
    BY <1>1, <1>3, <1>4 DEF FrameFits, Resolves, Fresh
  <2>2. HeldBy(fr) \subseteq Wanted(Top(t))
    BY <1>1, <1>4 DEF HeldBy, Wanted
  <2>. QED  BY <1>1, <1>2, <1>4, <2>1, <2>2, StepOn DEF Raise
<1>5. StacksOK'
  <2>1. CASE Pop(t)
    BY <1>1, <1>2, <2>1, PopOn DEF Raise
  <2>2. CASE /\ Top(t).asking \in Scope
             /\ SetTop(t, [Top(t) EXCEPT !.pc = "children", !.ver = version[Top(t).asking]])
    <3>1. PICK fr : fr = [Top(t) EXCEPT !.pc = "children", !.ver = version[Top(t).asking]]
      OBVIOUS
    <3>2. version[Top(t).asking] \in Nat
      BY <2>2 DEF DataOK
    <3>. QED  BY <1>3, <1>4, <2>2, <3>1, <3>2 DEF Frame
  <2>3. CASE SetTop(t, [Top(t) EXCEPT !.pc = "clear"])
    <3>1. PICK fr : fr = [Top(t) EXCEPT !.pc = "clear"]
      OBVIOUS
    <3>. QED  BY <1>3, <1>4, <2>3, <3>1 DEF Frame
  <2>. QED  BY <2>1, <2>2, <2>3 DEF Raise
<1>. QED  BY <1>5 DEF Raise, DataOK, SlotsOK, OnlyOne

\* The next child is in its place and was derived from the scope.
LEMMA NextChildFits ==
    ASSUME IInv, NEW fr, FrameFits(fr, parent), fr.pc = "children", HasNext(fr),
           NextChild(fr) # NoLock
    PROVE  NextChild(fr) \in Child /\ parent[NextChild(fr)] = fr.asking
<1>1. PICK s, n : s = fr.asking /\ n = fr.n
  OBVIOUS
<1>2. s \in Scope /\ n \in Nat /\ n < size[s] /\ NextChild(fr) = slot[s][n]
  BY <1>1 DEF FrameFits, Frame, HasNext, NextChild
<1>3. n \in Index
  <2>1. size[s] \in 0 .. MaxSize /\ MaxSize \in Nat
    BY <1>2, ParallelAssumption DEF IInv, DataOK
  <2>. QED  BY <1>2, <2>1
<1>4. slot[s] \in [Index -> Child \cup {NoLock}]
  BY <1>2 DEF IInv, DataOK
<1>5. slot[s][n] \in Child \cup {NoLock}
  BY <1>3, <1>4
<1>6. slot[s][n] # NoLock => parent[slot[s][n]] = s
  BY <1>2, <1>3 DEF IInv, SlotsOK
<1>. QED  BY <1>1, <1>2, <1>5, <1>6

LEMMA DisposeChildKeeps ==
    ASSUME IInv, NEW t \in Thread, DisposeChild(t)
    PROVE  IInv'
<1>. USE DEF IInv
<1>1. stack[t] # <<>> /\ Top(t).pc = "children"
  BY DEF DisposeChild, At
<1>2. PICK fr : fr = [Top(t) EXCEPT !.n = @ + 1]
  OBVIOUS
<1>3. FrameFits(Top(t), parent) /\ Top(t) \in Frame
  BY <1>1, TopFits DEF FrameFits
<1>4. PICK c : c = NextChild(Top(t))
  OBVIOUS
<1>5. c \in Owner /\ entries' = [entries EXCEPT ![c] = None]
  BY <1>1, <1>3, <1>4, NextChildFits DEF DisposeChild
<1>6. /\ fr \in Frame /\ fr.pc = "children" /\ fr.owner = Top(t).owner
      /\ fr.svc = Top(t).svc /\ fr.asking = Top(t).asking /\ fr.left = Top(t).left
  BY <1>1, <1>2, <1>3 DEF Frame
<1>7. FrameFits(fr, parent) /\ Fresh(<<fr>>, entries') /\ HeldBy(fr) \subseteq HeldBy(Top(t))
  BY <1>1, <1>3, <1>6 DEF FrameFits, Resolves, Fresh, HeldBy
<1>8. StacksOK'
  <2>1. \A u \in Thread : Fresh(stack[u], entries')
    BY <1>5, ForgetKeepsFresh
  <2>. QED  BY <1>1, <1>2, <1>6, <1>7, <2>1, StepOn DEF DisposeChild
<1>9. OnlyOne' /\ entries' \in [Owner -> [Service -> Nat]]
  BY <1>5, ForgetKeepsOne
<1>. QED  BY <1>8, <1>9 DEF DisposeChild, DataOK, SlotsOK

LEMMA ChildrenThrowKeeps ==
    ASSUME IInv, NEW t \in Thread, ChildrenThrow(t)
    PROVE  IInv'
<1>. USE DEF IInv
<1>1. StacksOK'
  BY PopOn DEF ChildrenThrow, At, StacksOK
<1>. QED  BY <1>1 DEF ChildrenThrow, DataOK, SlotsOK, OnlyOne

LEMMA ChildrenDoneKeeps ==
    ASSUME IInv, NEW t \in Thread, ChildrenDone(t)
    PROVE  IInv'
<1>. USE DEF IInv
<1>1. stack[t] # <<>> /\ Top(t).pc = "children"
  BY DEF ChildrenDone, At
<1>2. PICK fr : fr = [Top(t) EXCEPT !.pc = "clear"]
  OBVIOUS
<1>3. FrameFits(Top(t), parent) /\ Top(t) \in Frame
  BY <1>1, TopFits DEF FrameFits
<1>4. /\ fr \in Frame /\ fr.pc = "clear" /\ fr.owner = Top(t).owner
      /\ fr.svc = Top(t).svc /\ fr.asking = Top(t).asking /\ fr.left = Top(t).left
  BY <1>1, <1>2, <1>3 DEF Frame
<1>5. FrameFits(fr, parent) /\ Fresh(<<fr>>, entries') /\ HeldBy(fr) \subseteq HeldBy(Top(t))
  BY <1>1, <1>3, <1>4 DEF FrameFits, Resolves, Fresh, HeldBy
<1>6. StacksOK'
  <2>1. \A u \in Thread : Fresh(stack[u], entries')
    BY DEF ChildrenDone, StacksOK
  <2>. QED  BY <1>1, <1>2, <1>4, <1>5, <2>1, StepOn DEF ChildrenDone
<1>. QED  BY <1>6 DEF ChildrenDone, DataOK, SlotsOK, OnlyOne

LEMMA ClearScopeKeeps ==
    ASSUME IInv, NEW t \in Thread, ClearScope(t)
    PROVE  IInv'
<1>. USE DEF IInv
<1>1. stack[t] # <<>>
  BY DEF ClearScope, At
<1>2. PICK s : s = Top(t).asking
  OBVIOUS
<1>3. s \in Scope /\ s \in Owner /\ entries' = [entries EXCEPT ![s] = None]
  BY <1>2 DEF ClearScope
<1>4. \A u \in Thread : Fresh(stack[u], entries')
  BY <1>3, ForgetKeepsFresh
<1>5. StacksOK'
  BY <1>1, <1>4, PopOn DEF ClearScope
<1>6. OnlyOne' /\ entries' \in [Owner -> [Service -> Nat]]
  BY <1>3, ForgetKeepsOne
<1>. QED  BY <1>2, <1>3, <1>5, <1>6 DEF ClearScope, DataOK, SlotsOK

\* The cache is locked after the RequestScope.
LEMMA ForgetKeeps ==
    ASSUME IInv, NEW t \in Thread, Forget(t)
    PROVE  IInv'
<1>. USE DEF IInv
<1>1. stack[t] # <<>> /\ Top(t).pc = "clear" /\ Top(t).asking \in RequestScope
  BY DEF Forget, At
<1>2. PICK fr : fr = [Top(t) EXCEPT !.pc = "forget"]
  OBVIOUS
<1>3. FrameFits(Top(t), parent) /\ Top(t) \in Frame
  BY <1>1, TopFits DEF FrameFits
<1>4. PICK s : s = Top(t).asking
  OBVIOUS
<1>5. s \in Owner /\ entries' = [entries EXCEPT ![s] = None]
  BY <1>1, <1>4 DEF Forget
<1>6. /\ fr \in Frame /\ fr.pc = "forget" /\ fr.owner = Top(t).owner
      /\ fr.svc = Top(t).svc /\ fr.asking = Top(t).asking /\ fr.left = Top(t).left
  BY <1>1, <1>2, <1>3 DEF Frame
<1>7. FrameFits(fr, parent) /\ Fresh(<<fr>>, entries')
  BY <1>1, <1>3, <1>6 DEF FrameFits, Resolves, Fresh
<1>8. HeldBy(fr) \subseteq HeldBy(Top(t)) \cup Wanted(Top(t))
  BY <1>1, <1>6 DEF HeldBy, Wanted
<1>9. StacksOK'
  <2>1. \A u \in Thread : Fresh(stack[u], entries')
    BY <1>5, ForgetKeepsFresh
  <2>. QED  BY <1>1, <1>2, <1>6, <1>7, <1>8, <2>1, StepOn DEF Forget
<1>10. OnlyOne' /\ entries' \in [Owner -> [Service -> Nat]]
  BY <1>5, ForgetKeepsOne
<1>. QED  BY <1>9, <1>10 DEF Forget, DataOK, SlotsOK

LEMMA ForgottenKeeps ==
    ASSUME IInv, NEW t \in Thread, Forgotten(t)
    PROVE  IInv'
<1>. USE DEF IInv
<1>1. stack[t] # <<>>
  BY DEF Forgotten, At
<1>2. Top(t).asking \in Asking
  BY <1>1, TopFits DEF FrameFits, Frame
<1>3. StacksOK'
  BY <1>1, PopOn DEF Forgotten, StacksOK
<1>. QED  BY <1>2, <1>3 DEF Forgotten, DataOK, SlotsOK, OnlyOne

LEMMA StepKeeps == IInv /\ [Next]_vars => IInv'
<1>. SUFFICES ASSUME IInv, [Next]_vars PROVE IInv'
  OBVIOUS
<1>1. CASE UNCHANGED vars
  BY <1>1 DEF vars, IInv, StacksOK, DataOK, SlotsOK, OnlyOne
<1>2. ASSUME NEW t \in Thread, Step(t) PROVE IInv'
  BY <1>2, DeriveKeeps, AddSizeKeeps, AddSlotKeeps, EnterKeeps, TryGetKeeps,
     ResolveNeedKeeps, RememberKeeps, ConstructorThrowsKeeps, RaiseKeeps,
     DisposeChildKeeps, ChildrenThrowKeeps, ChildrenDoneKeeps, ClearScopeKeeps,
     ForgetKeeps, ForgottenKeeps DEF Step
<1>3. ASSUME NEW t \in Thread, NEW s \in Asking, Dispose(t, s) PROVE IInv'
  BY <1>3, DisposeKeeps
<1>4. ASSUME NEW t \in Thread, NEW s \in Asking, NEW x \in Service, Request(t, s, x)
      PROVE  IInv'
  BY <1>4, RequestKeeps
<1>. QED  BY <1>1, <1>2, <1>3, <1>4 DEF Next

LEMMA Inductive == Spec => []IInv
BY InitHolds, StepKeeps, PTL DEF Spec

\* The variables have their types: stacks are sequences of frames, and no list of
\* children counts more than it has room for.
THEOREM TypeCorrect == Spec => []TypeOK
<1>1. IInv => TypeOK
  BY DEF IInv, StacksOK, DataOK, TypeOK
<1>. QED  BY <1>1, Inductive, PTL

\* However many threads resolve at once, an owner gets one instance of a service,
\* and a singleton has one owner (ServiceCollectionAdapter.cs, ConfigureLifecycle).
THEOREM OneInstancePerOwner == Spec => []OneInstance
<1>1. IInv => OneInstance
  BY DEF IInv, OnlyOne, OneInstance
<1>. QED  BY <1>1, Inductive, PTL

(***************************************************************************)
(* Nobody waits in a circle                                                *)
(***************************************************************************)
\* What a thread may have to wait for.
LEMMA WantedCases ==
    ASSUME IInv, NEW t \in Thread, stack[t] # <<>>, NEW lock \in Wanted(Top(t))
    PROVE  \/ lock = Cache
           \/ /\ Top(t).pc \in {"enter", "raise"} /\ lock = Top(t).owner
              /\ lock \in Owner
           \/ /\ Top(t).pc = "children" /\ lock \in Child
              /\ parent[lock] = Top(t).asking
<1>1. FrameFits(Top(t), parent) /\ Top(t).owner \in Owner \cup {NoLock}
  BY TopFits DEF IInv, FrameFits, Frame
<1>2. CASE Top(t).pc = "children"
  BY <1>1, <1>2, NextChildFits DEF Wanted
<1>3. CASE Top(t).pc # "children"
  BY <1>1, <1>3 DEF Wanted
<1>. QED  BY <1>2, <1>3

\* Which frame holds a lock, and what that says of the top of its stack.
LEMMA HeldCases ==
    ASSUME IInv, NEW t \in Thread, NEW lock \in Held(t)
    PROVE  /\ stack[t] # <<>>
           /\ \E i \in DOMAIN stack[t] :
                 /\ FrameFits(stack[t][i], parent)
                 /\ stack[t][i].pc \in {"try", "create", "children", "clear", "forget"}
                 /\ \/ lock = stack[t][i].owner /\ lock \in Owner
                    \/ lock = Cache /\ stack[t][i].pc = "forget"
                 /\ \/ i = Len(stack[t]) /\ stack[t][i] = Top(t)
                    \/ /\ i < Len(stack[t]) /\ stack[t][i].pc \in {"create", "forget"}
                       /\ Resolves(Top(t))
                       /\ Resolves(stack[t][i]) =>
                             /\ Top(t).asking = stack[t][i].asking
                             /\ stack[t][i].svc \in Apart => Top(t).svc \in Apart
                 /\ ~Resolves(stack[t][i]) => i = 1
<1>1. PICK i \in DOMAIN stack[t] : lock \in HeldBy(stack[t][i])
  BY DEF Held
<1>2. /\ stack[t] \in Seq(Frame) /\ GoodStack(stack[t], parent) /\ i \in 1 .. Len(stack[t])
      /\ Len(stack[t]) \in DOMAIN stack[t] /\ stack[t] # <<>>
  BY <1>1 DEF IInv, StacksOK
<1>3. FrameFits(stack[t][i], parent) /\ stack[t][i].owner \in Owner \cup {NoLock}
  BY <1>1, <1>2 DEF GoodStack, FrameFits, Frame
<1>4. /\ stack[t][i].pc \in {"try", "create", "children", "clear", "forget"}
      /\ \/ lock = stack[t][i].owner /\ lock \in Owner
         \/ lock = Cache /\ stack[t][i].pc = "forget"
  BY <1>1, <1>3 DEF HeldBy
<1>5. ~Resolves(stack[t][i]) => i = 1
  BY <1>2 DEF GoodStack
<1>6. CASE i = Len(stack[t])
  BY <1>2, <1>3, <1>4, <1>5, <1>6 DEF Top
<1>7. CASE i # Len(stack[t])
  <2>1. i < Len(stack[t]) /\ Len(stack[t]) > 1
    BY <1>2, <1>7
  <2>2. stack[t][i].pc \in {"create", "forget"} /\ Resolves(Top(t))
    BY <1>2, <2>1 DEF GoodStack, Top
  <2>3. Resolves(stack[t][i]) =>
           /\ Top(t).asking = stack[t][i].asking
           /\ stack[t][i].svc \in Apart => Top(t).svc \in Apart
    BY <1>2, <2>1 DEF GoodStack, Top
  <2>. QED  BY <1>2, <1>3, <1>4, <1>5, <2>1, <2>2, <2>3
<1>. QED  BY <1>6, <1>7

\* Everybody would have to wait for a scope: the cache is only held by who forgets
\* what a RequestScope had, and a TransientScope by who resolves from its scope.
\* But who waits for the root scope holds it, and who waits for another one too.
LEMMA NoCircle ==
    ASSUME IInv, NEW ts \in SUBSET Thread, NEW t0 \in ts,
           \A t \in ts : \E u \in ts : WaitsFor(t, u),
           ~DisposedInUse, ~ResolvesInDispose
    PROVE  FALSE
<1>1. ASSUME NEW t \in ts, NEW u \in ts, t # u
      PROVE  Held(t) \cap Held(u) = {}
  <2>1. t \in Thread /\ u \in Thread
    OBVIOUS
  <2>2. Locks(stack[t]) \cap Locks(stack[u]) = {}
    BY <1>1, <2>1 DEF IInv, StacksOK
  <2>. QED  BY <2>2 DEF Held, Locks
<1>2. ASSUME NEW t \in ts
      PROVE  Cache \notin Held(t)
  <2>. SUFFICES ASSUME Cache \in Held(t) PROVE FALSE
    OBVIOUS
  <2>1. PICK i \in DOMAIN stack[t] :
           /\ FrameFits(stack[t][i], parent) /\ stack[t][i].pc = "forget"
           /\ stack[t][i] = Top(t) \/ i < Len(stack[t])
           /\ ~Resolves(stack[t][i]) => i = 1
    BY HeldCases, ParallelAssumption
  <2>2. i = 1
    BY <2>1 DEF FrameFits
  <2>3. CASE i < Len(stack[t])
    BY <2>1, <2>2, <2>3 DEF ResolvesInDispose
  <2>4. CASE stack[t][i] = Top(t)
    <3>1. Wanted(Top(t)) = {}
      BY <2>1, <2>4 DEF Wanted
    <3>. QED  BY <3>1 DEF WaitsFor
  <2>. QED  BY <2>1, <2>3, <2>4
<1>3. ASSUME NEW t \in ts
      PROVE  \E u \in ts \ {t} :
                /\ Top(t).owner \in Held(u) /\ Top(t).owner \in Asking
                /\ Top(t).pc \in {"enter", "raise"}
  <2>1. PICK u \in ts \ {t} : stack[t] # <<>> /\ \E lock \in Held(u) : lock \in Wanted(Top(t))
    BY <1>3 DEF WaitsFor
  <2>2. PICK lock \in Held(u) : lock \in Wanted(Top(t))
    BY <2>1
  <2>3. lock # Cache
    BY <1>2, <2>2
  <2>4. \/ Top(t).pc \in {"enter", "raise"} /\ lock = Top(t).owner /\ lock \in Owner
        \/ Top(t).pc = "children" /\ lock \in Child /\ parent[lock] = Top(t).asking
    BY <2>1, <2>2, <2>3, WantedCases
  <2>5. lock \notin Child
    <3>. SUFFICES ASSUME lock \in Child PROVE FALSE
      OBVIOUS
    <3>1. PICK j \in DOMAIN stack[u] :
             FrameFits(stack[u][j], parent) /\ lock = stack[u][j].owner
      BY <2>2, <2>3, HeldCases
    <3>2. Resolves(stack[u][j]) /\ parent[lock] = stack[u][j].asking
      BY <3>1, ParallelAssumption DEF FrameFits, Frame, Resolves
    <3>3. lock \in Owns(stack[u])
      BY <3>1 DEF Owns
    <3>4. CASE lock = Top(t).owner
      <4>1. lock \in Owns(stack[t])
        BY <2>1, <3>4, TopFits DEF Owns, IInv
      <4>. QED  BY <3>3, <4>1 DEF IInv, StacksOK
    <3>5. CASE Top(t).pc = "children" /\ parent[lock] = Top(t).asking
      <4>1. FrameFits(Top(t), parent) /\ Top(t).asking \in Scope
        BY <2>1, <3>5, TopFits DEF IInv, FrameFits
      <4>2. Len(stack[t]) = 1 /\ Top(t) = stack[t][1] /\ ~Resolves(Top(t))
        <5>1. ~Resolves(Top(t))
          BY <3>5, <4>1 DEF FrameFits
        <5>2. stack[t] \in Seq(Frame) /\ GoodStack(stack[t], parent)
          BY DEF IInv, StacksOK
        <5>3. PICK n : n = Len(stack[t])
          OBVIOUS
        <5>4. n \in 1 .. n /\ n \in Nat /\ n \in DOMAIN stack[t] /\ Top(t) = stack[t][n]
          BY <2>1, <5>2, <5>3 DEF Top
        <5>5. ~(n > 1)
          BY <5>1, <5>2, <5>4 DEF GoodStack
        <5>6. n = 1
          BY <5>4, <5>5
        <5>. QED  BY <5>1, <5>3, <5>4, <5>6
      <4>3. Disposes(t, Top(t).asking)
        BY <2>1, <4>2 DEF Disposes, Resolves
      <4>4. Uses(u, Top(t).asking)
        BY <3>2, <3>5 DEF Uses, Resolves
      <4>. QED  BY <4>1, <4>3, <4>4 DEF DisposedInUse
    <3>. QED  BY <2>4, <3>4, <3>5
  <2>. QED  BY <2>1, <2>2, <2>4, <2>5
\* Who holds a scope resolves for it, or resolves a singleton.
<1>4. ASSUME NEW t \in ts, NEW lock \in Held(t), lock \in Asking
      PROVE  /\ Resolves(Top(t)) /\ FrameFits(Top(t), parent)
             /\ \/ lock = Top(t).asking
                \/ lock = Root /\ Top(t).svc \in Apart
  <2>1. PICK i \in DOMAIN stack[t] :
           /\ FrameFits(stack[t][i], parent) /\ lock = stack[t][i].owner
           /\ stack[t][i].pc \in {"try", "create", "children", "clear", "forget"}
           /\ \/ i = Len(stack[t]) /\ stack[t][i] = Top(t)
              \/ /\ stack[t][i].pc \in {"create", "forget"}
                 /\ Resolves(stack[t][i]) =>
                       /\ Top(t).asking = stack[t][i].asking
                       /\ stack[t][i].svc \in Apart => Top(t).svc \in Apart
    BY <1>2, HeldCases
  <2>2. stack[t] # <<>>
    BY HeldCases
  <2>3. Top(t).pc \in {"enter", "raise"}
    BY <1>3, <2>2
  <2>4. /\ stack[t][i] # Top(t)
        /\ stack[t][i].pc # "forget"
    BY <1>2, <2>1, <2>3 DEF Held, HeldBy
  <2>5. Resolves(stack[t][i]) /\ stack[t][i].pc = "create"
    BY <2>1, <2>4 DEF FrameFits
  <2>6. FrameFits(Top(t), parent) /\ Resolves(Top(t))
    BY <2>1, <2>2, <2>4, <2>5, TopFits, HeldCases DEF IInv
  <2>7. stack[t][i].svc \in Service /\ lock \notin Child /\ lock # NoLock
    BY <1>4, <2>1, <2>5, ParallelAssumption DEF FrameFits, Frame, Resolves
  <2>8. \/ lock = stack[t][i].asking
        \/ lock = Root /\ stack[t][i].svc \in Apart
    BY <2>1, <2>5, <2>7, ApartIsApart, ParallelAssumption DEF FrameFits, IsApart
  <2>. QED  BY <2>1, <2>4, <2>5, <2>6, <2>8
<1>5. ASSUME NEW t \in ts, NEW lock \in Held(t), lock \in Asking
      PROVE  Top(t).owner = Root /\ lock # Root
  <2>1. /\ Resolves(Top(t)) /\ FrameFits(Top(t), parent) /\ stack[t] # <<>>
        /\ \/ lock = Top(t).asking
           \/ lock = Root /\ Top(t).svc \in Apart
    BY <1>4, <1>5, HeldCases
  <2>2. PICK u \in ts \ {t} : Top(t).owner \in Held(u) /\ Top(t).owner \in Asking
    BY <1>3, <2>1
  <2>3. lock # Top(t).owner
    BY <1>1, <2>2
  <2>4. Top(t).svc \in Service /\ Top(t).owner \notin Child /\ Top(t).owner # NoLock
    BY <2>1, <2>2, ParallelAssumption DEF FrameFits, Frame, Resolves
  <2>5. \/ Lifetime[Top(t).svc] = "singleton" /\ Top(t).owner = Root
        \/ Lifetime[Top(t).svc] = "scoped" /\ Top(t).owner = Top(t).asking
    BY <2>1, <2>4, ParallelAssumption DEF FrameFits
  <2>. QED  BY <2>1, <2>3, <2>5, ApartIsApart DEF IsApart
<1>6. PICK t1 \in ts : Top(t0).owner \in Held(t1) /\ Top(t0).owner \in Asking
  BY <1>3
<1>7. Top(t1).owner = Root /\ stack[t1] # <<>>
  BY <1>5, <1>6, HeldCases
<1>8. PICK t2 \in ts : Root \in Held(t2)
  BY <1>3, <1>7
<1>9. Root \in Asking
  BY ParallelAssumption
<1>. QED  BY <1>5, <1>8, <1>9

\* Whatever the number of threads, scopes and services: a circle of threads that
\* wait takes an application that disposes a scope in use, or resolves in a Dispose
\* method a RequestScope calls.
THEOREM NoDeadlock == Spec => []StuckOnlyByMisuse
<1>1. IInv => StuckOnlyByMisuse
  <2>. SUFFICES ASSUME IInv,
                       \E ts \in (SUBSET Thread) \ {{}} :
                          \A t \in ts : \E u \in ts : WaitsFor(t, u)
                PROVE  DisposedInUse \/ ResolvesInDispose
    BY Zenon DEF StuckOnlyByMisuse
  <2>1. PICK ts \in (SUBSET Thread) \ {{}} : \A t \in ts : \E u \in ts : WaitsFor(t, u)
    OBVIOUS
  <2>2. PICK t0 \in ts : TRUE
    OBVIOUS
  <2>. QED  BY <2>1, <2>2, NoCircle
<1>. QED  BY <1>1, Inductive, PTL

-----------------------------------------------------------------------------
(***************************************************************************)
(* Transients go with their scope.  What can keep one is that two threads  *)
(* are in List.Add of one list at once, that a scope is disposed while it  *)
(* is in use, or that it is asked after it was disposed, and nothing else. *)
(***************************************************************************)
UsesIn(st, s) == \E i \in DOMAIN st : st[i].svc # NoService /\ st[i].asking = s

DisposesIn(st, s) == st # <<>> /\ st[1].svc = NoService /\ st[1].asking = s

\* A thread is in List.Add for the children of a scope.
AddsIn(st, s) ==
    st # <<>> /\ st[Len(st)].pc \in {"size", "slot"} /\ st[Len(st)].asking = s

OneAdds ==
    \A t, u \in Thread, s \in Scope :
        AddsIn(stack[t], s) /\ AddsIn(stack[u], s) => t = u

\* A child is in one of the first n places of the list.
Listed(c, s, n) == \E i \in Index : i < n /\ slot[s][i] = c

ListOK ==
    \A s \in Scope :
        /\ \A t \in Thread : AddsIn(stack[t], s) =>
              /\ size[s] = IF Top(t).pc = "size" THEN Top(t).n ELSE Top(t).n + 1
              /\ \A c \in Child :
                    parent[c] = s => c = Top(t).owner \/ Listed(c, s, Top(t).n)
        /\ (\A t \in Thread : ~AddsIn(stack[t], s)) =>
              \A c \in Child : parent[c] = s => Listed(c, s, size[s])

\* What the disposal of a scope has forgotten so far.
Cleared(t, s) ==
    /\ Top(t).pc = "raise" => Top(t).n = 0
    /\ Top(t).pc = "children" =>
          \A c \in Child : Listed(c, s, Top(t).n) => entries[c] = None
    /\ Top(t).pc = "clear" => \A c \in Child : parent[c] = s => entries[c] = None

DisposalOK ==
    \A t \in Thread, s \in Scope : DisposesIn(stack[t], s) =>
        Cleared(t, s) /\ \A u \in Thread : ~UsesIn(stack[u], s)

GoneOK ==
    \A s \in Scope \cap disposed :
        /\ \A c \in Child : parent[c] = s => entries[c] = None
        /\ \A t \in Thread : ~UsesIn(stack[t], s)

TransientsOK == ListOK /\ DisposalOK /\ GoneOK

\* The disposal of a service scope is all that its thread does.
LEMMA DisposerIsAlone ==
    ASSUME NEW st, NEW par, GoodStack(st, par), NEW s \in Scope, DisposesIn(st, s)
    PROVE  Len(st) = 1 /\ ~Resolves(st[Len(st)]) /\ \A r : ~UsesIn(st, r)
<1>1. st \in Seq(Frame) /\ Len(st) \in Nat \ {0} /\ DOMAIN st = 1 .. Len(st) /\ 1 \in DOMAIN st
  BY DEF GoodStack, DisposesIn
<1>2. ~(1 < Len(st))
  <2>1. FrameFits(st[1], par) /\ (1 < Len(st) => st[1].pc \in {"create", "forget"})
    BY <1>1 DEF GoodStack
  <2>. QED  BY <2>1, ParallelAssumption DEF DisposesIn, FrameFits, Resolves
<1>3. Len(st) = 1 /\ DOMAIN st = {1}
  BY <1>1, <1>2
<1>. QED  BY <1>3 DEF DisposesIn, UsesIn, Resolves

\* A thread whose last frame resolves uses the scope, and disposes none.
LEMMA ResolverUses ==
    ASSUME NEW st, NEW par, GoodStack(st, par), st # <<>>, Resolves(st[Len(st)])
    PROVE  UsesIn(st, st[Len(st)].asking) /\ \A s \in Scope : ~DisposesIn(st, s)
<1>1. Len(st) \in DOMAIN st
  BY DEF GoodStack
<1>. QED  BY <1>1, DisposerIsAlone DEF UsesIn, Resolves

\* Without its last frame a stack uses no more, disposes no service scope and is
\* in no List.Add.
LEMMA PopUses ==
    ASSUME NEW st, NEW par, GoodStack(st, par), st # <<>>, NEW new,
           new = SubSeq(st, 1, Len(st) - 1), NEW s \in Scope
    PROVE  ~DisposesIn(new, s) /\ ~AddsIn(new, s) /\ (UsesIn(new, s) => UsesIn(st, s))
<1>1. st \in Seq(Frame) /\ Len(st) \in Nat \ {0} /\ DOMAIN st = 1 .. Len(st)
  BY DEF GoodStack
<1>2. new \in Seq(Frame) /\ Len(new) = Len(st) - 1 /\ DOMAIN new = 1 .. Len(st) - 1
  BY <1>1
<1>3. \A i \in 1 .. Len(st) - 1 : new[i] = st[i] /\ i \in DOMAIN st /\ i < Len(st)
  BY <1>1
<1>4. \A i \in DOMAIN new :
         new[i] = st[i] /\ i \in DOMAIN st /\ i < Len(st) /\ st[i].pc \in {"create", "forget"}
  BY <1>2, <1>3 DEF GoodStack
<1>5. new # <<>> => 1 \in DOMAIN new /\ Len(new) \in DOMAIN new
  BY <1>2
<1>6. ~AddsIn(new, s)
  BY <1>4, <1>5 DEF AddsIn
<1>7. ~DisposesIn(new, s)
  <2>. SUFFICES ASSUME DisposesIn(new, s) PROVE FALSE
    OBVIOUS
  <2>1. st[1] = new[1] /\ 1 < Len(st)
    BY <1>4, <1>5 DEF DisposesIn
  <2>2. DisposesIn(st, s)
    BY <2>1 DEF DisposesIn
  <2>. QED  BY <2>1, <2>2, DisposerIsAlone
<1>8. UsesIn(new, s) => UsesIn(st, s)
  BY <1>4 DEF UsesIn
<1>. QED  BY <1>6, <1>7, <1>8

\* The last frame goes on for the same service and scope.
LEMMA SetTopUses ==
    ASSUME NEW st, NEW par, GoodStack(st, par), st # <<>>, NEW fr \in Frame, NEW new,
           new = [st EXCEPT ![Len(st)] = fr],
           fr.svc = st[Len(st)].svc, fr.asking = st[Len(st)].asking
    PROVE  /\ new # <<>> /\ Len(new) = Len(st) /\ new[Len(new)] = fr
           /\ \A s : /\ UsesIn(new, s) <=> UsesIn(st, s)
                     /\ DisposesIn(new, s) <=> DisposesIn(st, s)
<1>1. /\ new \in Seq(Frame) /\ Len(new) = Len(st) /\ DOMAIN new = DOMAIN st
      /\ \A i \in DOMAIN new : new[i] = IF i = Len(st) THEN fr ELSE st[i]
      /\ Len(st) \in DOMAIN st /\ 1 \in DOMAIN st /\ new # <<>>
  BY DEF GoodStack
<1>2. \A i \in DOMAIN new : new[i].svc = st[i].svc /\ new[i].asking = st[i].asking
  BY <1>1
<1>. QED  BY <1>1, <1>2 DEF UsesIn, DisposesIn

\* A frame is put on top.
LEMMA PushUses ==
    ASSUME NEW t \in Thread, NEW st \in Seq(Frame), NEW fr \in Frame,
           stack'[t] = Append(st, fr)
    PROVE  /\ stack'[t] # <<>> /\ Top(t)' = fr
           /\ \A s : /\ UsesIn(stack'[t], s) => UsesIn(st, s) \/ (Resolves(fr) /\ fr.asking = s)
                     /\ DisposesIn(stack'[t], s) =>
                           \/ DisposesIn(st, s)
                           \/ st = <<>> /\ ~Resolves(fr) /\ fr.asking = s
<1>0. PICK new : new = stack'[t] /\ new = Append(st, fr)
  OBVIOUS
<1>1. /\ new \in Seq(Frame) /\ Len(new) = Len(st) + 1 /\ Len(st) \in Nat
      /\ DOMAIN new = 1 .. Len(st) + 1 /\ DOMAIN st = 1 .. Len(st)
      /\ st = <<>> <=> Len(st) = 0
  BY <1>0, Z3
<1>2. \A i \in 1 .. Len(st) + 1 : new[i] = IF i = Len(st) + 1 THEN fr ELSE st[i]
  BY <1>0
<1>3. new # <<>> /\ new[Len(new)] = fr
  BY <1>1, <1>2
<1>4. ASSUME NEW i \in DOMAIN new
      PROVE  (i = Len(st) + 1 /\ new[i] = fr) \/ (i \in DOMAIN st /\ new[i] = st[i])
  BY <1>1, <1>2
<1>5. ASSUME NEW s, UsesIn(new, s)
      PROVE  UsesIn(st, s) \/ (Resolves(fr) /\ fr.asking = s)
  BY <1>4, <1>5 DEF UsesIn, Resolves
<1>6. ASSUME NEW s, DisposesIn(new, s)
      PROVE  DisposesIn(st, s) \/ (st = <<>> /\ ~Resolves(fr) /\ fr.asking = s)
  <2>1. CASE Len(st) = 0
    BY <1>1, <1>2, <1>6, <2>1 DEF DisposesIn, Resolves
  <2>2. CASE Len(st) # 0
    <3>1. 1 \in 1 .. Len(st) + 1 /\ 1 # Len(st) + 1
      BY <1>1, <2>2
    <3>2. new[1] = st[1]
      BY <1>2, <3>1
    <3>. QED  BY <1>1, <1>6, <2>2, <3>2 DEF DisposesIn
  <2>. QED  BY <2>1, <2>2
<1>7. Top(t)' = new[Len(new)]
  BY <1>0 DEF Top
<1>. QED  BY <1>0, <1>3, <1>5, <1>6, <1>7

\* A step of a thread that leaves the scopes others dispose, and those disposed
\* before, alone.
LEMMA ScopesStay ==
    ASSUME IInv, DisposalOK, GoneOK, NEW t \in Thread,
           \A u \in Thread \ {t} : stack'[u] = stack[u],
           \A s \in Scope : UsesIn(stack'[t], s) =>
              \/ UsesIn(stack[t], s)
              \/ s \notin disposed' /\ \A u \in Thread : ~DisposesIn(stack'[u], s),
           \A s \in Scope : DisposesIn(stack'[t], s) =>
              /\ Cleared(t, s)'
              /\ DisposesIn(stack[t], s) \/ \A u \in Thread : ~UsesIn(stack'[u], s),
           \A s \in Scope \cap disposed' :
              s \in disposed \/ (DisposesIn(stack[t], s) /\ Top(t).pc = "clear"),
           \A s \in Scope :
              \/ UsesIn(stack[t], s)
              \/ slot'[s] = slot[s] /\ \A c \in Child : parent'[c] = s => parent[c] = s,
           \A c \in Child : \/ entries'[c] = entries[c] \/ entries'[c] = None
                            \/ UsesIn(stack[t], parent[c])
    PROVE  DisposalOK' /\ GoneOK'
<1>1. ASSUME NEW s \in Scope, \A u \in Thread : ~UsesIn(stack[u], s),
             NEW v \in Thread, DisposesIn(stack'[v], s) \/ s \in disposed'
      PROVE  \A u \in Thread : ~UsesIn(stack'[u], s)
  BY <1>1
<1>2. ASSUME NEW s \in Scope, ~UsesIn(stack[t], s), NEW c \in Child,
             parent[c] = s, entries[c] = None
      PROVE  entries'[c] = None
  BY <1>2
<1>3. ASSUME NEW s \in Scope, ~UsesIn(stack[t], s), NEW c \in Child, NEW n,
             Listed(c, s, n)'
      PROVE  Listed(c, s, n) /\ parent[c] = s
  BY <1>3, ParallelAssumption DEF Listed, IInv, SlotsOK
<1>4. ASSUME NEW v \in Thread, NEW s \in Scope, DisposesIn(stack'[v], s)
      PROVE  Cleared(v, s)' /\ \A u \in Thread : ~UsesIn(stack'[u], s)
  <2>1. CASE v = t
    BY <1>1, <1>4, <2>1 DEF DisposalOK
  <2>2. CASE v # t
    <3>1. stack'[v] = stack[v] /\ DisposesIn(stack[v], s)
      BY <1>4, <2>2
    <3>2. Cleared(v, s) /\ \A u \in Thread : ~UsesIn(stack[u], s)
      BY <3>1 DEF DisposalOK
    <3>3. Top(v)' = Top(v)
      BY <3>1 DEF Top
    <3>4. Cleared(v, s)'
      <4>1. ASSUME Top(v).pc = "children", NEW c \in Child, Listed(c, s, Top(v).n)'
            PROVE  entries'[c] = None
        <5>1. PICK n : n = Top(v).n
          OBVIOUS
        <5>2. Listed(c, s, n)'
          BY <3>3, <4>1, <5>1 DEF Listed
        <5>3. Listed(c, s, n) /\ parent[c] = s
          BY <1>3, <3>2, <5>2
        <5>. QED  BY <1>2, <3>2, <4>1, <5>1, <5>3 DEF Cleared
      <4>2. ASSUME Top(v).pc = "clear", NEW c \in Child, parent'[c] = s
            PROVE  entries'[c] = None
        BY <1>2, <3>2, <4>2 DEF Cleared
      <4>. QED  BY <3>2, <3>3, <4>1, <4>2 DEF Cleared
    <3>. QED  BY <1>1, <1>4, <3>2, <3>4
  <2>. QED  BY <2>1, <2>2
<1>5. ASSUME NEW s \in Scope \cap disposed'
      PROVE  /\ \A c \in Child : parent'[c] = s => entries'[c] = None
             /\ \A u \in Thread : ~UsesIn(stack'[u], s)
  <2>1. /\ \A c \in Child : parent[c] = s => entries[c] = None
        /\ \A u \in Thread : ~UsesIn(stack[u], s)
    BY DEF DisposalOK, GoneOK, Cleared
  <2>2. \A u \in Thread : ~UsesIn(stack'[u], s)
    BY <1>1, <1>5, <2>1
  <2>. QED  BY <1>2, <2>1, <2>2
<1>. QED  BY <1>4, <1>5 DEF DisposalOK, GoneOK

\* No list changes.
LEMMA ListStays ==
    ASSUME ListOK, NEW t \in Thread, \A u \in Thread \ {t} : stack'[u] = stack[u],
           \A s \in Scope : ~AddsIn(stack[t], s) /\ ~AddsIn(stack'[t], s),
           UNCHANGED <<parent, size, slot>>
    PROVE  ListOK'
<1>. SUFFICES ASSUME NEW s \in Scope
              PROVE  /\ \A u \in Thread : AddsIn(stack'[u], s) =>
                           /\ size[s] = IF Top(u)'.pc = "size" THEN Top(u)'.n ELSE Top(u)'.n + 1
                           /\ \A c \in Child : parent[c] = s =>
                                 c = Top(u)'.owner \/ Listed(c, s, Top(u)'.n)
                     /\ (\A u \in Thread : ~AddsIn(stack'[u], s)) =>
                           \A c \in Child : parent[c] = s => Listed(c, s, size[s])
  BY DEF ListOK, Listed
<1>1. \A u \in Thread : AddsIn(stack'[u], s) => AddsIn(stack[u], s) /\ Top(u)' = Top(u)
  BY DEF Top
<1>2. (\A u \in Thread : ~AddsIn(stack'[u], s)) => \A u \in Thread : ~AddsIn(stack[u], s)
  BY DEF Top
<1>. QED  BY <1>1, <1>2 DEF ListOK

\* A call returns.
LEMMA PopTransients ==
    ASSUME IInv, TransientsOK, NEW t \in Thread, stack[t] # <<>>, Pop(t),
           Top(t).pc \notin {"size", "slot"}, UNCHANGED <<parent, size, slot>>,
           \A s \in Scope \cap disposed' :
              s \in disposed \/ (DisposesIn(stack[t], s) /\ Top(t).pc = "clear"),
           \A c \in Child : \/ entries'[c] = entries[c] \/ entries'[c] = None
                            \/ UsesIn(stack[t], parent[c])
    PROVE  TransientsOK'
<1>1. GoodStack(stack[t], parent)
  BY DEF IInv, StacksOK
<1>2. /\ stack'[t] = SubSeq(stack[t], 1, Len(stack[t]) - 1)
      /\ \A u \in Thread \ {t} : stack'[u] = stack[u]
  BY DEF Pop, IInv, StacksOK
<1>3. \A s \in Scope : /\ ~DisposesIn(stack'[t], s) /\ ~AddsIn(stack'[t], s)
                       /\ UsesIn(stack'[t], s) => UsesIn(stack[t], s)
  BY <1>1, <1>2, PopUses
<1>4. \A s \in Scope : ~AddsIn(stack[t], s)
  BY DEF AddsIn, Top
<1>5. ListOK'
  BY <1>2, <1>3, <1>4, ListStays DEF TransientsOK
<1>6. DisposalOK' /\ GoneOK'
  BY <1>2, <1>3, ScopesStay DEF TransientsOK
<1>. QED  BY <1>5, <1>6 DEF TransientsOK

\* A call goes on.
LEMMA GoOnTransients ==
    ASSUME IInv, TransientsOK, NEW t \in Thread, stack[t] # <<>>, NEW fr \in Frame,
           SetTop(t, fr), fr.svc = Top(t).svc, fr.asking = Top(t).asking,
           Top(t).pc \notin {"size", "slot"}, fr.pc \notin {"size", "slot"},
           UNCHANGED <<parent, size, slot, disposed>>,
           \A s \in Scope : DisposesIn(stack[t], s) =>
              /\ fr.pc # "raise"
              /\ fr.pc = "children" =>
                    \A c \in Child : Listed(c, s, fr.n) => entries'[c] = None
              /\ fr.pc = "clear" => \A c \in Child : parent[c] = s => entries'[c] = None,
           \A c \in Child : entries'[c] = entries[c] \/ entries'[c] = None
    PROVE  TransientsOK'
<1>1. GoodStack(stack[t], parent)
  BY DEF IInv, StacksOK
<1>2. /\ stack'[t] = [stack[t] EXCEPT ![Len(stack[t])] = fr]
      /\ \A u \in Thread \ {t} : stack'[u] = stack[u]
  BY DEF SetTop, IInv, StacksOK
<1>3. /\ stack'[t] # <<>> /\ Top(t)' = fr
      /\ \A s : /\ UsesIn(stack'[t], s) <=> UsesIn(stack[t], s)
                /\ DisposesIn(stack'[t], s) <=> DisposesIn(stack[t], s)
  BY <1>1, <1>2, SetTopUses DEF Top
<1>4. \A s \in Scope : ~AddsIn(stack[t], s) /\ ~AddsIn(stack'[t], s)
  BY <1>3 DEF AddsIn, Top
<1>5. ListOK'
  BY <1>2, <1>4, ListStays DEF TransientsOK
<1>6. ASSUME NEW s \in Scope, DisposesIn(stack[t], s)
      PROVE  Cleared(t, s)'
  BY <1>3, <1>6 DEF Cleared, Listed
<1>7. DisposalOK' /\ GoneOK'
  BY <1>2, <1>3, <1>6, ScopesStay DEF TransientsOK
<1>. QED  BY <1>5, <1>7 DEF TransientsOK

\* A frame that resolves goes on.
LEMMA ResolveTransients ==
    ASSUME IInv, TransientsOK, NEW t \in Thread, stack[t] # <<>>, NEW fr \in Frame,
           SetTop(t, fr), fr.svc = Top(t).svc, fr.asking = Top(t).asking,
           Top(t).pc \in {"enter", "try", "create"}, fr.pc \notin {"size", "slot"},
           UNCHANGED <<parent, size, slot, disposed, entries>>
    PROVE  TransientsOK'
<1>1. GoodStack(stack[t], parent) /\ Resolves(Top(t)) /\ Top(t) = stack[t][Len(stack[t])]
  BY TopFits DEF IInv, StacksOK, FrameFits
<1>2. \A s \in Scope : ~DisposesIn(stack[t], s)
  BY <1>1, ResolverUses
<1>. QED  BY <1>2, GoOnTransients

\* A frame is put on top, in a scope that is in order.
LEMMA PushTransients ==
    ASSUME IInv, TransientsOK, NEW t \in Thread, NEW st, NEW fr \in Frame,
           GoodStack(st, parent), stack'[t] = Append(st, fr),
           \A u \in Thread \ {t} : stack'[u] = stack[u],
           \A s \in Scope : /\ UsesIn(st, s) <=> UsesIn(stack[t], s)
                            /\ DisposesIn(st, s) <=> DisposesIn(stack[t], s)
                            /\ ~AddsIn(stack[t], s) /\ ~DisposesIn(stack[t], s),
           fr.pc \in {"derive", "enter", "raise"}, fr.n = 0,
           Resolves(fr) /\ fr.asking \in Scope =>
              \/ UsesIn(stack[t], fr.asking)
              \/ /\ fr.asking \notin disposed
                 /\ \A u \in Thread : ~DisposesIn(stack[u], fr.asking),
           ~Resolves(fr) /\ fr.asking \in Scope =>
              \A u \in Thread : ~UsesIn(stack[u], fr.asking),
           UNCHANGED <<parent, size, slot, disposed, entries>>
    PROVE  TransientsOK'
<1>1. /\ stack'[t] # <<>> /\ Top(t)' = fr
      /\ \A s : /\ UsesIn(stack'[t], s) => UsesIn(st, s) \/ (Resolves(fr) /\ fr.asking = s)
                /\ DisposesIn(stack'[t], s) =>
                      \/ DisposesIn(st, s)
                      \/ st = <<>> /\ ~Resolves(fr) /\ fr.asking = s
  <2>1. st \in Seq(Frame)
    BY DEF GoodStack
  <2>. QED  BY <2>1, PushUses
<1>2. \A s \in Scope : ~AddsIn(stack[t], s) /\ ~AddsIn(stack'[t], s)
  BY <1>1 DEF AddsIn, Top
<1>3. ListOK'
  BY <1>2, ListStays DEF TransientsOK
<1>4. ASSUME NEW s \in Scope, UsesIn(stack'[t], s), ~UsesIn(stack[t], s)
      PROVE  s \notin disposed' /\ \A u \in Thread : ~DisposesIn(stack'[u], s)
  <2>1. Resolves(fr) /\ fr.asking = s
    BY <1>1, <1>4
  <2>2. s \notin disposed /\ \A u \in Thread : ~DisposesIn(stack[u], s)
    BY <1>4, <2>1
  <2>3. ~DisposesIn(stack'[t], s)
    BY <1>1, <2>1
  <2>. QED  BY <2>2, <2>3
<1>5. ASSUME NEW s \in Scope, DisposesIn(stack'[t], s)
      PROVE  Cleared(t, s)' /\ \A u \in Thread : ~UsesIn(stack'[u], s)
  <2>1. st = <<>> /\ ~Resolves(fr) /\ fr.asking = s
    BY <1>1, <1>5
  <2>2. \A u \in Thread : ~UsesIn(stack[u], s)
    BY <2>1
  <2>3. ~UsesIn(stack'[t], s)
    BY <1>1, <2>1, <2>2
  <2>. QED  BY <1>1, <2>2, <2>3 DEF Cleared
<1>6. DisposalOK' /\ GoneOK'
  BY <1>4, <1>5, ScopesStay DEF TransientsOK
<1>. QED  BY <1>3, <1>6 DEF TransientsOK

\* A last frame that disposes is the only one.
LEMMA TopDisposes ==
    ASSUME NEW st, NEW par, GoodStack(st, par), st # <<>>, ~Resolves(st[Len(st)])
    PROVE  Len(st) = 1 /\ DisposesIn(st, st[Len(st)].asking)
<1>1. st \in Seq(Frame) /\ Len(st) \in Nat \ {0} /\ DOMAIN st = 1 .. Len(st)
  BY DEF GoodStack
<1>2. Len(st) = 1
  BY <1>1 DEF GoodStack
<1>. QED  BY <1>2 DEF DisposesIn, Resolves

LEMMA EnterTransients ==
    ASSUME IInv, TransientsOK, NEW t \in Thread, Enter(t)
    PROVE  TransientsOK'
<1>1. stack[t] # <<>> /\ Top(t).pc = "enter" /\ Top(t) \in Frame
  BY TopFits DEF Enter, At, IInv, FrameFits
<1>2. PICK fr : fr = [Top(t) EXCEPT !.pc = "try"]
  OBVIOUS
<1>3. fr \in Frame /\ fr.pc = "try" /\ fr.svc = Top(t).svc /\ fr.asking = Top(t).asking
  BY <1>1, <1>2 DEF Frame
<1>. QED  BY <1>1, <1>2, <1>3, ResolveTransients DEF Enter

LEMMA TryGetTransients ==
    ASSUME IInv, TransientsOK, NEW t \in Thread, TryGet(t)
    PROVE  TransientsOK'
<1>1. /\ stack[t] # <<>> /\ Top(t).pc = "try" /\ Top(t) \in Frame
      /\ Top(t).svc \in Service
  BY TopFits DEF TryGet, At, IInv, FrameFits, Resolves, Frame
<1>2. CASE Pop(t)
  BY <1>1, <1>2, PopTransients DEF TryGet
<1>3. CASE SetTop(t, [Top(t) EXCEPT !.pc = "create", !.left = Needs[Top(t).svc]])
  <2>1. PICK fr : fr = [Top(t) EXCEPT !.pc = "create", !.left = Needs[Top(t).svc]]
    OBVIOUS
  <2>2. /\ fr \in Frame /\ fr.pc = "create"
        /\ fr.svc = Top(t).svc /\ fr.asking = Top(t).asking
    BY <1>1, <2>1, ParallelAssumption DEF Frame
  <2>. QED  BY <1>1, <1>3, <2>1, <2>2, ResolveTransients DEF TryGet
<1>. QED  BY <1>2, <1>3 DEF TryGet

\* What a transient owns is remembered while its thread uses the scope.
LEMMA RememberTransients ==
    ASSUME IInv, TransientsOK, NEW t \in Thread, Remember(t)
    PROVE  TransientsOK'
<1>1. /\ stack[t] # <<>> /\ Top(t).pc = "create" /\ FrameFits(Top(t), parent)
      /\ Top(t) = stack[t][Len(stack[t])] /\ GoodStack(stack[t], parent)
  BY TopFits DEF Remember, At, IInv, StacksOK
<1>2. Resolves(Top(t)) /\ Lifetime[Top(t).svc] \in {"singleton", "scoped", "transient"}
  BY <1>1, ParallelAssumption DEF FrameFits, Frame, Resolves
<1>3. ASSUME NEW c \in Child, entries'[c] # entries[c]
      PROVE  UsesIn(stack[t], parent[c])
  <2>1. Top(t).owner = c
    BY <1>3 DEF Remember, IInv, DataOK
  <2>2. Top(t).owner \notin Asking
    BY <2>1, ParallelAssumption
  <2>3. parent[c] = Top(t).asking
    BY <1>1, <1>2, <2>1, <2>2, ParallelAssumption DEF FrameFits, Frame
  <2>. QED  BY <1>1, <1>2, <2>3, ResolverUses
<1>. QED  BY <1>1, <1>3, PopTransients DEF Remember

LEMMA ConstructorThrowsTransients ==
    ASSUME IInv, TransientsOK, NEW t \in Thread, ConstructorThrows(t)
    PROVE  TransientsOK'
<1>1. stack[t] # <<>> /\ Top(t).pc = "create"
  BY DEF ConstructorThrows, At
<1>2. stack'[t] = <<>> /\ \A u \in Thread \ {t} : stack'[u] = stack[u]
  BY DEF ConstructorThrows, IInv, StacksOK
<1>3. \A s : ~DisposesIn(stack'[t], s) /\ ~AddsIn(stack'[t], s) /\ ~UsesIn(stack'[t], s)
  BY <1>2 DEF DisposesIn, AddsIn, UsesIn
<1>4. \A s : ~AddsIn(stack[t], s)
  BY <1>1 DEF AddsIn, Top
<1>5. ListOK'
  BY <1>2, <1>3, <1>4, ListStays DEF TransientsOK, ConstructorThrows
<1>6. DisposalOK' /\ GoneOK'
  BY <1>2, <1>3, ScopesStay DEF TransientsOK, ConstructorThrows
<1>. QED  BY <1>5, <1>6 DEF TransientsOK

\* The disposal of a scope starts at the head of its list.
LEMMA RaiseTransients ==
    ASSUME IInv, TransientsOK, NEW t \in Thread, Raise(t)
    PROVE  TransientsOK'
<1>1. /\ stack[t] # <<>> /\ Top(t).pc = "raise" /\ Top(t) \in Frame
      /\ GoodStack(stack[t], parent) /\ Top(t) = stack[t][Len(stack[t])]
  BY TopFits DEF Raise, At, IInv, StacksOK, FrameFits
<1>2. ASSUME NEW s \in Scope, DisposesIn(stack[t], s)
      PROVE  Top(t).n = 0 /\ Top(t).asking = s
  <2>1. Top(t).asking = s
    BY <1>1, <1>2, DisposerIsAlone DEF DisposesIn
  <2>. QED  BY <1>1, <1>2, <2>1 DEF TransientsOK, DisposalOK, Cleared
<1>3. CASE Pop(t)
  BY <1>1, <1>3, PopTransients DEF Raise
<1>4. CASE /\ Top(t).asking \in Scope
           /\ SetTop(t, [Top(t) EXCEPT !.pc = "children", !.ver = version[Top(t).asking]])
  <2>1. PICK fr : fr = [Top(t) EXCEPT !.pc = "children", !.ver = version[Top(t).asking]]
    OBVIOUS
  <2>2. version[Top(t).asking] \in Nat
    BY <1>4 DEF IInv, DataOK
  <2>3. /\ fr \in Frame /\ fr.pc = "children" /\ fr.n = Top(t).n
        /\ fr.svc = Top(t).svc /\ fr.asking = Top(t).asking
    BY <1>1, <2>1, <2>2 DEF Frame
  <2>4. ASSUME NEW s \in Scope, DisposesIn(stack[t], s), NEW c \in Child
        PROVE  ~Listed(c, s, fr.n)
    BY <1>2, <2>3, <2>4, ParallelAssumption DEF Listed
  <2>. QED  BY <1>1, <1>4, <2>1, <2>3, <2>4, GoOnTransients DEF Raise
<1>5. CASE Top(t).asking \in RequestScope /\ SetTop(t, [Top(t) EXCEPT !.pc = "clear"])
  <2>1. PICK fr : fr = [Top(t) EXCEPT !.pc = "clear"]
    OBVIOUS
  <2>2. /\ fr \in Frame /\ fr.pc = "clear"
        /\ fr.svc = Top(t).svc /\ fr.asking = Top(t).asking
    BY <1>1, <2>1 DEF Frame
  <2>3. \A s \in Scope : ~DisposesIn(stack[t], s)
    BY <1>2, <1>5, ParallelAssumption
  <2>. QED  BY <1>1, <1>5, <2>1, <2>2, <2>3, GoOnTransients DEF Raise
<1>. QED  BY <1>3, <1>4, <1>5 DEF Raise

\* The child at the enumerator is forgotten, and the enumerator goes past it.
LEMMA DisposeChildTransients ==
    ASSUME IInv, TransientsOK, NEW t \in Thread, DisposeChild(t)
    PROVE  TransientsOK'
<1>1. /\ stack[t] # <<>> /\ Top(t).pc = "children" /\ FrameFits(Top(t), parent)
      /\ Top(t) \in Frame /\ Top(t).n \in Nat
      /\ GoodStack(stack[t], parent) /\ Top(t) = stack[t][Len(stack[t])]
  BY TopFits DEF DisposeChild, At, IInv, StacksOK, FrameFits, Frame
<1>2. PICK fr : fr = [Top(t) EXCEPT !.n = @ + 1]
  OBVIOUS
<1>3. /\ fr \in Frame /\ fr.pc = "children" /\ fr.n = Top(t).n + 1
      /\ fr.svc = Top(t).svc /\ fr.asking = Top(t).asking
  BY <1>1, <1>2 DEF Frame
<1>4. PICK k : k = NextChild(Top(t))
  OBVIOUS
<1>5. k \in Child /\ entries' = [entries EXCEPT ![k] = None]
  BY <1>1, <1>4, NextChildFits DEF DisposeChild
<1>6. \A c \in Child : entries'[c] = IF c = k THEN None ELSE entries[c]
  BY <1>5 DEF IInv, DataOK
<1>7. ASSUME NEW s \in Scope, DisposesIn(stack[t], s), NEW c \in Child, Listed(c, s, fr.n)
      PROVE  entries'[c] = None
  <2>1. Top(t).asking = s
    BY <1>1, <1>7, DisposerIsAlone DEF DisposesIn
  <2>2. PICK i \in Index : i < Top(t).n + 1 /\ slot[s][i] = c
    BY <1>3, <1>7 DEF Listed
  <2>3. CASE i = Top(t).n
    BY <1>4, <1>6, <2>1, <2>2, <2>3 DEF NextChild
  <2>4. CASE i # Top(t).n
    <3>1. i < Top(t).n
      BY <1>1, <2>2, <2>4, ParallelAssumption
    <3>2. entries[c] = None
      BY <1>1, <1>7, <2>2, <3>1 DEF TransientsOK, DisposalOK, Cleared, Listed
    <3>. QED  BY <1>6, <3>2
  <2>. QED  BY <2>3, <2>4
<1>8. SetTop(t, fr) /\ UNCHANGED <<parent, size, slot, disposed>>
  BY <1>2 DEF DisposeChild
<1>9. \A s \in Scope : DisposesIn(stack[t], s) =>
         \A c \in Child : Listed(c, s, fr.n) => entries'[c] = None
  BY <1>7
<1>. QED  BY <1>1, <1>3, <1>6, <1>8, <1>9, GoOnTransients

\* At the end of the list all children are forgotten: nobody adds one any more.
LEMMA ChildrenDoneTransients ==
    ASSUME IInv, TransientsOK, NEW t \in Thread, ChildrenDone(t)
    PROVE  TransientsOK'
<1>1. /\ stack[t] # <<>> /\ Top(t).pc = "children"
      /\ Top(t) \in Frame /\ Top(t).n \in Nat
      /\ GoodStack(stack[t], parent) /\ Top(t) = stack[t][Len(stack[t])]
  BY TopFits DEF ChildrenDone, At, IInv, StacksOK, FrameFits, Frame
<1>2. PICK fr : fr = [Top(t) EXCEPT !.pc = "clear"]
  OBVIOUS
<1>3. /\ fr \in Frame /\ fr.pc = "clear"
      /\ fr.svc = Top(t).svc /\ fr.asking = Top(t).asking
  BY <1>1, <1>2 DEF Frame
<1>4. ASSUME NEW s \in Scope, DisposesIn(stack[t], s), NEW c \in Child, parent[c] = s
      PROVE  entries[c] = None
  <2>1. Top(t).asking = s
    BY <1>1, <1>4, DisposerIsAlone DEF DisposesIn
  <2>2. ASSUME NEW u \in Thread, AddsIn(stack[u], s)
        PROVE  FALSE
    <3>1. FrameFits(Top(u), parent) /\ Top(u) = stack[u][Len(stack[u])]
      BY <2>2, TopFits DEF AddsIn, IInv
    <3>2. Resolves(Top(u)) /\ Top(u).asking = s
      BY <2>2, <3>1 DEF AddsIn, FrameFits
    <3>3. UsesIn(stack[u], s)
      BY <2>2, <3>1, <3>2, ResolverUses DEF AddsIn, IInv, StacksOK
    <3>. QED  BY <1>4, <3>3 DEF TransientsOK, DisposalOK
  <2>3. Listed(c, s, size[s])
    BY <1>4, <2>2 DEF TransientsOK, ListOK
  <2>4. Top(t).n >= size[s] /\ size[s] \in Nat
    BY <2>1, ParallelAssumption DEF ChildrenDone, IInv, DataOK
  <2>5. Listed(c, s, Top(t).n)
    BY <1>1, <2>3, <2>4, ParallelAssumption DEF Listed
  <2>. QED  BY <1>1, <1>4, <2>5 DEF TransientsOK, DisposalOK, Cleared
<1>5. \A s \in Scope : DisposesIn(stack[t], s) =>
         \A c \in Child : parent[c] = s => entries'[c] = None
  BY <1>4 DEF ChildrenDone
<1>. QED  BY <1>1, <1>2, <1>3, <1>5, GoOnTransients DEF ChildrenDone

LEMMA ChildrenThrowTransients ==
    ASSUME IInv, TransientsOK, NEW t \in Thread, ChildrenThrow(t)
    PROVE  TransientsOK'
BY PopTransients DEF ChildrenThrow, At

LEMMA ClearScopeTransients ==
    ASSUME IInv, TransientsOK, NEW t \in Thread, ClearScope(t)
    PROVE  TransientsOK'
<1>1. /\ stack[t] # <<>> /\ Top(t).pc = "clear" /\ FrameFits(Top(t), parent)
      /\ GoodStack(stack[t], parent) /\ Top(t) = stack[t][Len(stack[t])]
  BY TopFits DEF ClearScope, At, IInv, StacksOK
<1>2. DisposesIn(stack[t], Top(t).asking)
  BY <1>1, TopDisposes DEF FrameFits
<1>3. \A c \in Child : entries'[c] = entries[c]
  BY ParallelAssumption DEF ClearScope, IInv, DataOK
<1>. QED  BY <1>1, <1>2, <1>3, PopTransients DEF ClearScope

LEMMA ForgetTransients ==
    ASSUME IInv, TransientsOK, NEW t \in Thread, Forget(t)
    PROVE  TransientsOK'
<1>1. /\ stack[t] # <<>> /\ Top(t).pc = "clear" /\ Top(t) \in Frame
      /\ GoodStack(stack[t], parent) /\ Top(t) = stack[t][Len(stack[t])]
      /\ Top(t).asking \in RequestScope
  BY TopFits DEF Forget, At, IInv, StacksOK, FrameFits
<1>2. PICK fr : fr = [Top(t) EXCEPT !.pc = "forget"]
  OBVIOUS
<1>3. /\ fr \in Frame /\ fr.pc = "forget"
      /\ fr.svc = Top(t).svc /\ fr.asking = Top(t).asking
  BY <1>1, <1>2 DEF Frame
<1>4. \A c \in Child : entries'[c] = entries[c]
  BY <1>1, ParallelAssumption DEF Forget, IInv, DataOK
<1>. QED  BY <1>1, <1>2, <1>3, <1>4, GoOnTransients DEF Forget

LEMMA ForgottenTransients ==
    ASSUME IInv, TransientsOK, NEW t \in Thread, Forgotten(t)
    PROVE  TransientsOK'
<1>1. stack[t] # <<>> /\ Top(t).pc = "forget" /\ Top(t).asking \in RequestScope
  BY TopFits DEF Forgotten, At, IInv, FrameFits
<1>2. Scope \cap disposed' \subseteq disposed
  BY <1>1, ParallelAssumption DEF Forgotten
<1>. QED  BY <1>1, <1>2, PopTransients DEF Forgotten

\* A dependency is resolved for the scope that its dependent uses.
LEMMA ResolveNeedTransients ==
    ASSUME IInv, TransientsOK, NEW t \in Thread, ResolveNeed(t)
    PROVE  TransientsOK'
<1>1. /\ stack[t] # <<>> /\ Top(t).pc = "create" /\ FrameFits(Top(t), parent)
      /\ GoodStack(stack[t], parent) /\ Top(t) = stack[t][Len(stack[t])]
      /\ Resolves(Top(t)) /\ Top(t) \in Frame /\ Top(t).svc \in Service
  BY TopFits DEF ResolveNeed, At, IInv, StacksOK, FrameFits, Resolves, Frame
<1>2. PICK d \in Top(t).left :
         stack' = [stack EXCEPT ![t] =
                     Append([@ EXCEPT ![Len(@)] = [Top(t) EXCEPT !.left = @ \ {d}]],
                            Resolving(d, Top(t).asking))]
  BY DEF ResolveNeed
<1>3. PICK fr : fr = [Top(t) EXCEPT !.left = @ \ {d}]
  OBVIOUS
<1>4. PICK dep : dep = Resolving(d, Top(t).asking)
  OBVIOUS
<1>5. d \in Service /\ Top(t).asking \in Asking
  <2>1. Top(t).left \subseteq Needs[Top(t).svc] /\ Needs[Top(t).svc] \subseteq Service
    BY <1>1, ParallelAssumption DEF FrameFits
  <2>. QED  BY <1>1, <2>1 DEF Frame
<1>6. /\ fr \in Frame /\ fr.svc = Top(t).svc /\ fr.asking = Top(t).asking
      /\ FrameFits(fr, parent)
  <2>1. /\ fr \in Frame /\ fr.pc = "create" /\ fr.owner = Top(t).owner
        /\ fr.svc = Top(t).svc /\ fr.asking = Top(t).asking /\ fr.left \subseteq Top(t).left
    BY <1>1, <1>3 DEF Frame
  <2>. QED  BY <1>1, <2>1 DEF FrameFits, Resolves
<1>7. /\ dep \in Frame /\ dep.pc \in {"derive", "enter"} /\ dep.n = 0
      /\ dep.asking = Top(t).asking
  BY <1>4, <1>5, ResolvingFits DEF FrameFits, Resolving
<1>8. PICK mid : mid = [stack[t] EXCEPT ![Len(stack[t])] = fr]
  OBVIOUS
<1>9. GoodStack(mid, parent)
  <2>1. \A i \in DOMAIN stack[t] : FrameFits(stack[t][i], parent)
    BY <1>1 DEF GoodStack
  <2>. QED  BY <1>1, <1>6, <1>8, <2>1, SetTopGood
<1>10. \A s : /\ UsesIn(mid, s) <=> UsesIn(stack[t], s)
              /\ DisposesIn(mid, s) <=> DisposesIn(stack[t], s)
  BY <1>1, <1>6, <1>8, SetTopUses
<1>11. stack'[t] = Append(mid, dep) /\ \A u \in Thread \ {t} : stack'[u] = stack[u]
  BY <1>2, <1>3, <1>4, <1>8 DEF IInv, StacksOK
<1>12. /\ UsesIn(stack[t], Top(t).asking)
       /\ \A s \in Scope : ~DisposesIn(stack[t], s) /\ ~AddsIn(stack[t], s)
  BY <1>1, ResolverUses DEF AddsIn
<1>13. UNCHANGED <<parent, size, slot, disposed, entries>>
  BY DEF ResolveNeed
<1>14. Resolves(dep)
  BY <1>4, <1>5, ResolvingFits
<1>. QED  BY <1>7, <1>9, <1>10, <1>11, <1>12, <1>13, <1>14, PushTransients

\* The application asks a scope that nobody disposes and that is not disposed.
LEMMA RequestTransients ==
    ASSUME ~Allows("inuse"), ~Allows("late"), IInv, TransientsOK, NEW t \in Thread,
           NEW s \in Asking, NEW x \in Service, Request(t, s, x)
    PROVE  TransientsOK'
<1>1. PICK fr : fr = Resolving(x, s)
  OBVIOUS
<1>2. /\ fr \in Frame /\ fr.pc \in {"derive", "enter"} /\ fr.n = 0 /\ fr.asking = s
      /\ Resolves(fr)
  BY <1>1, ResolvingFits DEF FrameFits, Resolving
<1>3. GoodStack(stack[t], parent)
  BY DEF IInv, StacksOK
<1>4. \A r \in Scope : ~DisposesIn(stack[t], r) /\ ~AddsIn(stack[t], r)
  <2>1. CASE stack[t] = <<>>
    BY <2>1 DEF DisposesIn, AddsIn
  <2>2. CASE stack[t] # <<>> /\ Top(t).pc = "forget"
    <3>1. /\ FrameFits(Top(t), parent) /\ Top(t) = stack[t][Len(stack[t])]
          /\ Top(t).asking \in RequestScope
      BY <2>2, TopFits DEF IInv, FrameFits
    <3>2. \A r \in Scope : ~DisposesIn(stack[t], r)
      BY <1>3, <3>1, DisposerIsAlone, ParallelAssumption DEF DisposesIn
    <3>. QED  BY <2>2, <3>1, <3>2 DEF AddsIn
  <2>. QED  BY <2>1, <2>2 DEF Request, At
<1>5. s \in Scope => s \notin disposed /\ \A u \in Thread : ~DisposesIn(stack[u], s)
  BY <1>4 DEF Request, Disposes, DisposesIn
<1>6. stack'[t] = Append(stack[t], fr) /\ \A u \in Thread \ {t} : stack'[u] = stack[u]
  BY <1>1 DEF Request, Push, IInv, StacksOK
<1>7. UNCHANGED <<parent, size, slot, disposed, entries>>
  BY DEF Request
<1>. QED  BY <1>2, <1>3, <1>4, <1>5, <1>6, <1>7, PushTransients

\* The application disposes a scope that nobody uses.
LEMMA DisposeTransients ==
    ASSUME ~Allows("inuse"), IInv, TransientsOK, NEW t \in Thread, NEW s \in Asking,
           Dispose(t, s)
    PROVE  TransientsOK'
<1>1. PICK fr : fr = Disposing(s)
  OBVIOUS
<1>2. fr \in Frame /\ fr.pc = "raise" /\ fr.n = 0 /\ fr.asking = s /\ ~Resolves(fr)
  BY <1>1 DEF Disposing, Frame, Resolves
<1>3. GoodStack(stack[t], parent) /\ stack[t] = <<>>
  BY DEF IInv, StacksOK, Dispose
<1>4. \A r : ~DisposesIn(stack[t], r) /\ ~AddsIn(stack[t], r) /\ ~UsesIn(stack[t], r)
  BY <1>3 DEF DisposesIn, AddsIn, UsesIn
<1>5. \A u \in Thread : ~UsesIn(stack[u], s)
  BY <1>4 DEF Dispose, Uses, UsesIn
<1>6. stack'[t] = Append(stack[t], fr) /\ \A u \in Thread \ {t} : stack'[u] = stack[u]
  BY <1>1 DEF Dispose, Push, IInv, StacksOK
<1>7. UNCHANGED <<parent, size, slot, disposed, entries>>
  BY DEF Dispose
<1>. QED  BY <1>2, <1>3, <1>4, <1>5, <1>6, <1>7, PushTransients

\* What the three steps of List.Add have in common: their thread uses the scope.
LEMMA AddLeavesScopes ==
    ASSUME IInv, TransientsOK, NEW t \in Thread, stack[t] # <<>>,
           Top(t).pc \in {"derive", "size", "slot"}, NEW fr \in Frame, SetTop(t, fr),
           fr.svc = Top(t).svc, fr.asking = Top(t).asking,
           \A s \in Scope \ {Top(t).asking} :
              slot'[s] = slot[s] /\ \A c \in Child : parent'[c] = s => parent[c] = s,
           UNCHANGED <<entries, disposed>>
    PROVE  /\ Top(t).asking \in Scope /\ Top(t)' = fr /\ stack'[t] # <<>>
           /\ \A u \in Thread \ {t} : stack'[u] = stack[u]
           /\ DisposalOK' /\ GoneOK'
<1>1. /\ FrameFits(Top(t), parent) /\ Resolves(Top(t)) /\ Top(t).asking \in Scope
      /\ GoodStack(stack[t], parent) /\ Top(t) = stack[t][Len(stack[t])]
  BY TopFits DEF IInv, StacksOK, FrameFits
<1>2. /\ UsesIn(stack[t], Top(t).asking)
      /\ \A s \in Scope : ~DisposesIn(stack[t], s)
  BY <1>1, ResolverUses
<1>3. /\ stack'[t] = [stack[t] EXCEPT ![Len(stack[t])] = fr]
      /\ \A u \in Thread \ {t} : stack'[u] = stack[u]
  BY DEF SetTop, IInv, StacksOK
<1>4. /\ stack'[t] # <<>> /\ Top(t)' = fr
      /\ \A s : /\ UsesIn(stack'[t], s) <=> UsesIn(stack[t], s)
                /\ DisposesIn(stack'[t], s) <=> DisposesIn(stack[t], s)
  BY <1>1, <1>3, SetTopUses DEF Top
<1>5. DisposalOK' /\ GoneOK'
  BY <1>2, <1>3, <1>4, ScopesStay DEF TransientsOK
<1>. QED  BY <1>1, <1>3, <1>4, <1>5

\* The list of a scope in whose List.Add a thread is, or no thread is.
AddingOK(t, s) ==
    /\ size[s] = IF Top(t).pc = "size" THEN Top(t).n ELSE Top(t).n + 1
    /\ \A c \in Child : parent[c] = s => c = Top(t).owner \/ Listed(c, s, Top(t).n)

RestingOK(s) == \A c \in Child : parent[c] = s => Listed(c, s, size[s])

\* A step in List.Add of a scope leaves the lists of the others alone.
LEMMA OtherLists ==
    ASSUME ListOK, NEW t \in Thread, \A u \in Thread \ {t} : stack'[u] = stack[u],
           NEW s \in Scope, \A r \in Scope \ {s} : ~AddsIn(stack[t], r) /\ ~AddsIn(stack'[t], r),
           \A r \in Scope \ {s} : /\ size'[r] = size[r] /\ slot'[r] = slot[r]
                                  /\ \A c \in Child : parent'[c] = r => parent[c] = r,
           \A u \in Thread : AddsIn(stack'[u], s) => AddingOK(u, s)',
           (\A u \in Thread : ~AddsIn(stack'[u], s)) => RestingOK(s)'
    PROVE  ListOK'
<1>1. ASSUME NEW r \in Scope \ {s}
      PROVE  /\ \A u \in Thread : AddsIn(stack'[u], r) => AddingOK(u, r)'
             /\ (\A u \in Thread : ~AddsIn(stack'[u], r)) => RestingOK(r)'
  <2>1. ASSUME NEW u \in Thread, AddsIn(stack'[u], r)
        PROVE  AddingOK(u, r)'
    <3>1. AddsIn(stack[u], r) /\ Top(u)' = Top(u)
      BY <2>1 DEF Top
    <3>. QED  BY <3>1 DEF ListOK, AddingOK, Listed
  <2>2. (\A u \in Thread : ~AddsIn(stack'[u], r)) => \A u \in Thread : ~AddsIn(stack[u], r)
    OBVIOUS
  <2>. QED  BY <2>1, <2>2 DEF ListOK, RestingOK, Listed
<1>. QED  BY <1>1 DEF ListOK, AddingOK, RestingOK

LEMMA DeriveTransients ==
    ASSUME IInv, OneAdds', TransientsOK, NEW t \in Thread, DeriveTransientScope(t)
    PROVE  TransientsOK'
<1>1. /\ stack[t] # <<>> /\ Top(t).pc = "derive" /\ Top(t) \in Frame
      /\ Top(t).asking \in Scope
  BY TopFits DEF DeriveTransientScope, At, IInv, FrameFits
<1>2. PICK s : s = Top(t).asking
  OBVIOUS
<1>3. PICK c \in Child : /\ parent[c] = NoLock /\ parent' = [parent EXCEPT ![c] = s]
                         /\ SetTop(t, [Top(t) EXCEPT !.pc = "size", !.owner = c, !.n = size[s]])
  BY <1>2 DEF DeriveTransientScope, CanDerive
<1>4. PICK fr : fr = [Top(t) EXCEPT !.pc = "size", !.owner = c, !.n = size[s]]
  OBVIOUS
<1>5. /\ fr \in Frame /\ fr.pc = "size" /\ fr.owner = c /\ fr.n = size[s]
      /\ fr.svc = Top(t).svc /\ fr.asking = Top(t).asking
  <2>1. size[s] \in Nat /\ c \in Owner
    BY <1>1, <1>2, ParallelAssumption DEF IInv, DataOK
  <2>. QED  BY <1>1, <1>4, <2>1 DEF Frame
<1>6. \A d \in Child : parent'[d] = IF d = c THEN s ELSE parent[d]
  BY <1>3 DEF IInv, DataOK
<1>7. UNCHANGED <<entries, disposed, size, slot>>
  BY DEF DeriveTransientScope
<1>8. \A r \in Scope \ {s} : \A d \in Child : parent'[d] = r => parent[d] = r
  BY <1>6
<1>9. /\ Top(t)' = fr /\ stack'[t] # <<>>
      /\ \A u \in Thread \ {t} : stack'[u] = stack[u]
      /\ DisposalOK' /\ GoneOK'
  BY <1>1, <1>2, <1>3, <1>4, <1>5, <1>7, <1>8, AddLeavesScopes
<1>10. \A r : ~AddsIn(stack[t], r) /\ (AddsIn(stack'[t], r) <=> r = s)
  BY <1>1, <1>2, <1>5, <1>9 DEF AddsIn, Top
<1>11. \A u \in Thread : AddsIn(stack'[u], s) => u = t
  BY <1>1, <1>2, <1>10 DEF OneAdds
<1>12. \A d \in Child : parent[d] = s => Listed(d, s, size[s])
  BY <1>1, <1>2, <1>9, <1>10, <1>11 DEF TransientsOK, ListOK
<1>13. AddingOK(t, s)'
  <2>1. ASSUME NEW d \in Child, parent'[d] = s
        PROVE  d = c \/ Listed(d, s, size[s])
    BY <1>6, <1>12, <2>1
  <2>. QED  BY <1>5, <1>7, <1>9, <2>1 DEF AddingOK, Listed
<1>14. ListOK'
  BY <1>1, <1>2, <1>7, <1>8, <1>9, <1>10, <1>11, <1>13, OtherLists DEF TransientsOK
<1>. QED  BY <1>9, <1>14 DEF TransientsOK

LEMMA AddSizeTransients ==
    ASSUME IInv, OneAdds, TransientsOK, NEW t \in Thread, AddSize(t)
    PROVE  TransientsOK'
<1>1. /\ stack[t] # <<>> /\ Top(t).pc = "size" /\ Top(t) \in Frame
      /\ Top(t).asking \in Scope /\ Top(t).n \in Nat
  BY TopFits DEF AddSize, At, IInv, FrameFits, Frame
<1>2. PICK s : s = Top(t).asking
  OBVIOUS
<1>3. PICK fr : fr = [Top(t) EXCEPT !.pc = "slot"]
  OBVIOUS
<1>4. /\ fr \in Frame /\ fr.pc = "slot" /\ fr.owner = Top(t).owner /\ fr.n = Top(t).n
      /\ fr.svc = Top(t).svc /\ fr.asking = Top(t).asking
  BY <1>1, <1>3 DEF Frame
<1>5. UNCHANGED <<entries, disposed, parent, slot>> /\ SetTop(t, fr)
  BY <1>3 DEF AddSize
<1>6. \A r \in Scope : size'[r] = IF r = s THEN Top(t).n + 1 ELSE size[r]
  BY <1>1, <1>2 DEF AddSize, NewSize, IInv, DataOK
<1>7. /\ Top(t)' = fr /\ stack'[t] # <<>>
      /\ \A u \in Thread \ {t} : stack'[u] = stack[u]
      /\ DisposalOK' /\ GoneOK'
  BY <1>1, <1>4, <1>5, AddLeavesScopes
<1>8. \A r : (AddsIn(stack[t], r) <=> r = s) /\ (AddsIn(stack'[t], r) <=> r = s)
  BY <1>1, <1>2, <1>4, <1>7 DEF AddsIn, Top
<1>9. \A u \in Thread : AddsIn(stack'[u], s) => u = t
  BY <1>1, <1>2, <1>7, <1>8 DEF OneAdds
<1>10. \A d \in Child : parent[d] = s => d = Top(t).owner \/ Listed(d, s, Top(t).n)
  BY <1>1, <1>2, <1>8 DEF TransientsOK, ListOK
<1>11. AddingOK(t, s)'
  BY <1>1, <1>2, <1>4, <1>5, <1>6, <1>7, <1>10 DEF AddingOK, Listed
<1>12. ListOK'
  BY <1>1, <1>2, <1>5, <1>6, <1>7, <1>8, <1>9, <1>11, OtherLists DEF TransientsOK
<1>. QED  BY <1>7, <1>12 DEF TransientsOK

LEMMA AddSlotTransients ==
    ASSUME IInv, OneAdds, TransientsOK, NEW t \in Thread, AddSlot(t)
    PROVE  TransientsOK'
<1>1. /\ stack[t] # <<>> /\ Top(t).pc = "slot" /\ Top(t) \in Frame
      /\ Top(t).asking \in Scope /\ Top(t).n \in Index
  BY TopFits DEF AddSlot, At, IInv, FrameFits
<1>2. PICK s, n : s = Top(t).asking /\ n = Top(t).n
  OBVIOUS
<1>3. PICK fr : fr = [Top(t) EXCEPT !.pc = "enter", !.n = 0]
  OBVIOUS
<1>4. /\ fr \in Frame /\ fr.pc = "enter"
      /\ fr.svc = Top(t).svc /\ fr.asking = Top(t).asking
  BY <1>1, <1>3 DEF Frame
<1>5. UNCHANGED <<entries, disposed, parent, size>> /\ SetTop(t, fr)
  BY <1>3 DEF AddSlot
<1>6. /\ \A r \in Scope \ {s} : slot'[r] = slot[r]
      /\ \A i \in Index : slot'[s][i] = IF i = n THEN Top(t).owner ELSE slot[s][i]
  BY <1>1, <1>2 DEF AddSlot, IInv, DataOK
<1>7. /\ Top(t)' = fr /\ stack'[t] # <<>>
      /\ \A u \in Thread \ {t} : stack'[u] = stack[u]
      /\ DisposalOK' /\ GoneOK'
  BY <1>1, <1>2, <1>4, <1>5, <1>6, AddLeavesScopes
<1>8. \A r : (AddsIn(stack[t], r) <=> r = s) /\ ~AddsIn(stack'[t], r)
  BY <1>1, <1>2, <1>4, <1>7 DEF AddsIn, Top
<1>9. \A u \in Thread : ~AddsIn(stack'[u], s)
  BY <1>1, <1>2, <1>7, <1>8 DEF OneAdds
<1>10. /\ size[s] = n + 1
       /\ \A d \in Child : parent[d] = s => d = Top(t).owner \/ Listed(d, s, n)
  BY <1>1, <1>2, <1>8 DEF TransientsOK, ListOK
<1>11. RestingOK(s)'
  <2>1. ASSUME NEW d \in Child, parent[d] = s
        PROVE  \E i \in Index : i < n + 1 /\ slot'[s][i] = d
    <3>1. CASE d = Top(t).owner
      BY <1>1, <1>2, <1>6, <3>1, ParallelAssumption
    <3>2. CASE Listed(d, s, n)
      <4>1. PICK i \in Index : i < n /\ slot[s][i] = d
        BY <3>2 DEF Listed
      <4>2. i < n + 1 /\ slot'[s][i] = d
        BY <1>1, <1>2, <1>6, <4>1, ParallelAssumption
      <4>. QED  BY <4>2
    <3>. QED  BY <1>10, <2>1, <3>1, <3>2
  <2>. QED  BY <1>5, <1>10, <2>1 DEF RestingOK, Listed
<1>12. ListOK'
  BY <1>1, <1>2, <1>5, <1>6, <1>7, <1>8, <1>9, <1>11, OtherLists DEF TransientsOK
<1>. QED  BY <1>7, <1>12 DEF TransientsOK

LEMMA TransientsStep ==
    ASSUME ~Allows("inuse"), ~Allows("late"), IInv, OneAdds, OneAdds', TransientsOK,
           [Next]_vars
    PROVE  TransientsOK'
<1>1. CASE UNCHANGED vars
  BY <1>1 DEF vars, TransientsOK, ListOK, DisposalOK, GoneOK, Cleared, Listed, Top
<1>2. ASSUME NEW t \in Thread, Step(t) PROVE TransientsOK'
  BY <1>2, DeriveTransients, AddSizeTransients, AddSlotTransients, EnterTransients,
     TryGetTransients, ResolveNeedTransients, RememberTransients,
     ConstructorThrowsTransients, RaiseTransients, DisposeChildTransients,
     ChildrenThrowTransients, ChildrenDoneTransients, ClearScopeTransients,
     ForgetTransients, ForgottenTransients DEF Step
<1>3. ASSUME NEW t \in Thread, NEW s \in Asking, Dispose(t, s) PROVE TransientsOK'
  BY <1>3, DisposeTransients
<1>4. ASSUME NEW t \in Thread, NEW s \in Asking, NEW x \in Service, Request(t, s, x)
      PROVE  TransientsOK'
  BY <1>4, RequestTransients
<1>. QED  BY <1>1, <1>2, <1>3, <1>4 DEF Next

\* README.md:229 holds, for every number of threads, of an application that
\* disposes no scope in use and asks none that is disposed, as long as no two
\* threads are in List.Add of one scope's children at once: once all threads are
\* through, a disposed scope has left no transient instance in the cache.
THEOREM TransientsGo ==
    ASSUME ~Allows("inuse"), ~Allows("late")
    PROVE  Spec /\ []OneAdds => []TransientsGoWithScope
<1>1. Init => TransientsOK
  <2>. SUFFICES ASSUME Init PROVE TransientsOK
    OBVIOUS
  <2>1. \A t \in Thread : stack[t] = <<>>
    BY DEF Init
  <2>2. \A s \in Scope, c \in Child : parent[c] # s
    BY ParallelAssumption DEF Init
  <2>. QED  BY <2>1, <2>2
            DEF Init, TransientsOK, ListOK, DisposalOK, GoneOK, AddsIn, DisposesIn
<1>2. IInv /\ OneAdds /\ OneAdds' /\ TransientsOK /\ [Next]_vars => TransientsOK'
  BY TransientsStep
<1>3. IInv /\ TransientsOK => TransientsGoWithScope
  BY ParallelAssumption
     DEF TransientsOK, GoneOK, TransientsGoWithScope, IInv, DataOK
<1>. QED  BY <1>1, <1>2, <1>3, Inductive, PTL DEF Spec

=============================================================================
