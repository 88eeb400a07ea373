-------------------------- MODULE DisposalPromise --------------------------
(***************************************************************************)
(* What the disposal of service instances promises, without flows, scopes, *)
(* caches or the stack of Dispose calls: ScopeDisposal implements it.      *)
(*                                                                         *)
(* An instance is created after those it depends on.  Once, it goes out of *)
(* scope: with others into a group that is disposed together and in order, *)
(* or alone, to be disposed on the spot, or into no group at all, and then *)
(* nothing is promised.  A group only grows while nothing of it has been   *)
(* disposed, and is closed when all of it has been taken care of.          *)
(***************************************************************************)
EXTENDS Naturals, TLAPS

CONSTANTS
    Instance,   \* service instances
    Group,      \* sets of instances that are disposed together
    Deps,       \* Deps[x]: the instances x was constructed with
    Disposable  \* the instances that implement IDisposable

VARIABLES
    created,    \* the instances there were
    condemned,  \* those that went out of scope
    group,      \* the members of every group
    closed,     \* the groups whose disposal is through
    calls,      \* how often Dispose of an instance was called
    lost        \* the instances the garbage collector took

vars == <<created, condemned, group, closed, calls, lost>>

Init ==
    /\ created = {} /\ condemned = {} /\ closed = {} /\ lost = {}
    /\ group = [g \in Group |-> {}]
    /\ calls = [x \in Instance |-> 0]

\* Nothing is left to do for an instance.
Settled(x) == calls[x] = 1 \/ x \notin Disposable \ lost

Create(x) ==
    /\ x \notin created
    /\ Deps[x] \subseteq created
    /\ created' = created \cup {x}
    /\ UNCHANGED <<condemned, group, closed, calls, lost>>

\* Instances go out of scope together with what the group has already.
Condemn(xs, g) ==
    /\ xs \cap condemned = {}
    /\ g \notin closed
    /\ \A y \in group[g] : calls[y] = 0
    /\ condemned' = condemned \cup xs
    /\ group' = [group EXCEPT ![g] = @ \cup xs]
    /\ UNCHANGED <<created, closed, calls, lost>>

\* Instances go out of scope and nobody is left to dispose them.
Forfeit(xs) ==
    /\ xs \cap condemned = {}
    /\ condemned' = condemned \cup xs
    /\ UNCHANGED <<created, group, closed, calls, lost>>

\* An instance of a group is disposed after those that depend on it.
Dispose(x, g) ==
    /\ x \in group[g] /\ calls[x] = 0 /\ x \in Disposable \ lost
    /\ \A y \in group[g] : x \in Deps[y] => Settled(y)
    /\ calls' = [calls EXCEPT ![x] = 1]
    /\ UNCHANGED <<created, condemned, group, closed, lost>>

\* An instance goes out of scope and is disposed at once.
DisposeNow(x) ==
    /\ x \notin condemned /\ x \in Disposable \ lost
    /\ condemned' = condemned \cup {x}
    /\ calls' = [calls EXCEPT ![x] = 1]
    /\ UNCHANGED <<created, group, closed, lost>>

Close(g) ==
    /\ g \notin closed
    /\ \A x \in group[g] : Settled(x)
    /\ closed' = closed \cup {g}
    /\ UNCHANGED <<created, condemned, group, calls, lost>>

Lose(x) ==
    /\ lost' = lost \cup {x}
    /\ UNCHANGED <<created, condemned, group, closed, calls>>

Next ==
    \/ \E x \in created : Lose(x) \/ DisposeNow(x)
    \/ \E x \in Instance : Create(x)
    \/ \E xs \in SUBSET created : Forfeit(xs) \/ \E g \in Group : Condemn(xs, g)
    \/ \E g \in Group : Close(g) \/ \E x \in group[g] : Dispose(x, g)

Spec == Init /\ [][Next]_vars

-----------------------------------------------------------------------------
\* Of two members of a group the one that depends on the other goes first, and
\* a closed group has nothing left to dispose.  ScopeDisposal's DependentsFirst
\* and DrainComplete are this property of its areas.
PromiseKept ==
    \A g \in Group :
        /\ \A x, y \in group[g] : y \in Deps[x] /\ calls[y] > 0 => Settled(x)
        /\ g \in closed => \A x \in group[g] : Settled(x)

-----------------------------------------------------------------------------
(***************************************************************************)
(* Its proof                                                               *)
(***************************************************************************)
\* Only what went out of scope is in a group or was disposed, groups share no
\* instance, and no instance was disposed twice.
PromiseInv ==
    /\ calls \in [Instance -> {0, 1}]
    /\ group \in [Group -> SUBSET Instance]
    /\ created \subseteq Instance
    /\ \A g \in Group : group[g] \subseteq condemned
    /\ \A x \in Instance : calls[x] = 1 => x \in condemned
    /\ \A g, h \in Group : g # h => group[g] \cap group[h] = {}
    /\ PromiseKept

LEMMA PromiseStep == PromiseInv /\ [Next]_vars => PromiseInv'
<1>. SUFFICES ASSUME PromiseInv, [Next]_vars PROVE PromiseInv'
  OBVIOUS
<1>1. ASSUME NEW x \in created, Lose(x) PROVE PromiseInv'
  BY <1>1 DEF Lose, PromiseInv, PromiseKept, Settled
<1>2. ASSUME NEW x \in created, DisposeNow(x) PROVE PromiseInv'
  BY <1>2 DEF DisposeNow, PromiseInv, PromiseKept, Settled
<1>3. ASSUME NEW x \in Instance, Create(x) PROVE PromiseInv'
  BY <1>3 DEF Create, PromiseInv, PromiseKept, Settled
<1>4. ASSUME NEW xs \in SUBSET created, Forfeit(xs) PROVE PromiseInv'
  BY <1>4 DEF Forfeit, PromiseInv, PromiseKept, Settled
<1>5. ASSUME NEW xs \in SUBSET created, NEW g \in Group, Condemn(xs, g)
      PROVE  PromiseInv'
  <2>1. \A h \in Group : group'[h] = IF h = g THEN group[h] \cup xs ELSE group[h]
    BY <1>5 DEF Condemn, PromiseInv
  <2>2. \A x \in group'[g] : calls[x] = 0
    BY <1>5, <2>1 DEF Condemn, PromiseInv
  <2>3. PromiseKept'
    BY <1>5, <2>1, <2>2 DEF Condemn, PromiseInv, PromiseKept, Settled
  <2>. QED  BY <1>5, <2>1, <2>3 DEF Condemn, PromiseInv
<1>6. ASSUME NEW g \in Group, Close(g) PROVE PromiseInv'
  BY <1>6 DEF Close, PromiseInv, PromiseKept, Settled
<1>7. ASSUME NEW g \in Group, NEW x \in group[g], Dispose(x, g) PROVE PromiseInv'
  <2>1. x \in Instance /\ \A y \in Instance : calls'[y] = IF y = x THEN 1 ELSE calls[y]
    BY <1>7 DEF Dispose, PromiseInv
  <2>2. \A h \in Group : h # g => x \notin group[h]
    BY DEF PromiseInv
  <2>3. PromiseKept'
    BY <1>7, <2>1, <2>2 DEF Dispose, PromiseInv, PromiseKept, Settled
  <2>. QED  BY <1>7, <2>1, <2>3 DEF Dispose, PromiseInv
<1>8. CASE UNCHANGED vars
  BY <1>8 DEF vars, PromiseInv, PromiseKept, Settled
<1>. QED  BY <1>1, <1>2, <1>3, <1>4, <1>5, <1>6, <1>7, <1>8 DEF Next

\* Groups are disposed in order and completely, whatever goes out of scope alone
\* and whatever the garbage collector takes.
THEOREM PromiseIsKept == Spec => []PromiseKept
<1>1. Init => PromiseInv
  BY DEF Init, PromiseInv, PromiseKept
<1>2. PromiseInv => PromiseKept
  BY DEF PromiseInv
<1>. QED  BY <1>1, <1>2, PromiseStep, PTL DEF Spec

=============================================================================
