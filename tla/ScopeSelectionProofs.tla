------------------------ MODULE ScopeSelectionProofs ------------------------
(***************************************************************************)
(* Proofs about ScopeSelection.  Three invariants, each inductive with the *)
(* ones before it: RequestInv says where the RequestScopes in use are,     *)
(* ActiveInv that only detached flows are left with a disposed one, and    *)
(* HeldInv that what an instance holds is its owner's or the root scope's. *)
(***************************************************************************)
EXTENDS ScopeSelection, TLAPS

\* A flow inside a using block runs, the RequestScope of the block is its
\* current one and in use by no other flow.
InsideInv ==
    /\ \A f \in Flow : inside[f] # NoScope =>
          /\ f \in started
          /\ current[f] = inside[f]
          /\ inside[f] \in used
          /\ inside[f] \notin disposed
    /\ \A f, g \in Flow : inside[f] # NoScope /\ inside[f] = inside[g] => f = g
    /\ disposed \cap RequestScope \subseteq used

RequestInv == TypeOK /\ InsideInv

ActiveInv == RequestInv /\ CurrentIsActive

\* What an instance holds belongs to its own owner, to the root or to nobody.
HeldByOwner == \A h \in holds : h[4] \in {NoScope, Root, h[2]}

HeldInv == HeldByOwner /\ HeldAlive

-----------------------------------------------------------------------------
(***************************************************************************)
(* The owner that is computed for an instance or for what it is given      *)
(***************************************************************************)
\* Every lifetime takes its owner from the scopes there are (ConfigureLifecycle).
LEMMA ScopeOfType ==
    ASSUME TypeOK, NEW f \in Flow, NEW source \in SourceScope, NEW t \in Service
    PROVE  ScopeOf(f, source, t) \in Owner \cup {NoScope}
<1>1. current[f] \in RequestScope \cup {NoScope}
  BY DEF TypeOK
<1>2. QED
  BY <1>1, ServicesAssumption, ScopesAssumption
  DEF ScopeOf, GetRequestScope, SourceScope, Owner

\* A dependency, the IServiceProvider included, has such an owner too.
LEMMA ScopeOfDepType ==
    ASSUME TypeOK, NEW f \in Flow, NEW source \in SourceScope, NEW t \in Service,
           NEW d \in Service \cup {Provider}
    PROVE  ScopeOfDep(f, source, t, d) \in Owner \cup {NoScope}
<1>1. SourceOfDeps(source, t) \in SourceScope
  BY ScopesAssumption DEF SourceOfDeps, SourceScope
<1>2. ProviderOf(source, t) \in Owner \cup {NoScope}
  BY <1>1, ScopesAssumption DEF ProviderOf, InjectedProvider, SourceScope, Owner
<1>3. QED
  BY <1>1, <1>2, ScopeOfType DEF ScopeOfDep

\* The heart of HeldAlive: a dependency belongs to the owner of the instance
\* that holds it, or to a scope that outlives it.
LEMMA DependencyOutlives ==
    ASSUME NoCaptives,
           NEW f \in Flow, NEW source \in SourceScope, NEW t \in Service,
           NEW d \in Deps[t], HasScope(ScopeOf(f, source, t))
    PROVE  ScopeOfDep(f, source, t, d) \in {NoScope, Root, ScopeOf(f, source, t)}
<1> DEFINE o == ScopeOf(f, source, t)
<1>0. d \in Service \cup {Provider}
  BY ServicesAssumption
<1>1. CASE t \in Singleton
  <2>1. o = Root
    BY <1>1 DEF ScopeOf
  <2>2. d \in Singleton \/ (d = Provider /\ t \notin Factory)
    BY <1>1 DEF NoCaptives
  <2>3. CASE d \in Singleton
    BY <2>3, ServicesAssumption DEF ScopeOfDep, ScopeOf
  <2>4. CASE d = Provider /\ t \notin Factory
    BY <1>1, <2>4 DEF ScopeOfDep, ProviderOf, InjectedProvider
  <2>5. QED
    BY <2>2, <2>3, <2>4
<1>2. CASE t \in Scoped
  <2>1. o = GetRequestScope(f, source)
    BY <1>2, ServicesAssumption DEF ScopeOf
  <2>2. t \notin Singleton
    BY <1>2, ServicesAssumption
  <2>3. CASE d = Provider
    BY <2>1, <2>2, <2>3
    DEF ScopeOfDep, ProviderOf, InjectedProvider, SourceOfDeps, GetRequestScope
  <2>4. CASE d \in Singleton
    BY <2>4, ServicesAssumption DEF ScopeOfDep, ScopeOf
  <2>5. CASE d \in Scoped
    BY <2>1, <2>5, ServicesAssumption
    DEF ScopeOfDep, ScopeOf, SourceOfDeps, GetRequestScope
  <2>6. CASE d \in Transient
    BY <2>1, <2>6, ServicesAssumption
    DEF ScopeOfDep, ScopeOf, SourceOfDeps, GetRequestScope
  <2>7. QED
    BY <1>0, <2>3, <2>4, <2>5, <2>6, ServicesAssumption
<1>3. CASE t \in Transient
  <2>1. o = source
    BY <1>3, ServicesAssumption DEF ScopeOf
  <2>2. source # NoScope
    BY <2>1 DEF HasScope
  <2>3. t \notin Singleton /\ SourceOfDeps(source, t) = source
    BY <1>3, <2>2, ServicesAssumption DEF SourceOfDeps
  <2>4. CASE d = Provider
    BY <2>1, <2>2, <2>3, <2>4 DEF ScopeOfDep, ProviderOf, InjectedProvider
  <2>5. CASE d \in Service
    BY <2>1, <2>2, <2>3, <2>5, ServicesAssumption
    DEF ScopeOfDep, ScopeOf, GetRequestScope
  <2>6. QED
    BY <1>0, <2>4, <2>5
<1>4. QED
  BY <1>1, <1>2, <1>3, ServicesAssumption

-----------------------------------------------------------------------------
(***************************************************************************)
(* RequestInv                                                              *)
(***************************************************************************)
\* Nothing is in use at the start.
LEMMA RequestInvInit == Init => RequestInv
BY ScopesAssumption DEF Init, RequestInv, TypeOK, InsideInv, Owner

\* Every step keeps the types of the variables.
LEMMA TypeStep == TypeOK /\ [Next]_vars => TypeOK'
<1> SUFFICES ASSUME TypeOK, [Next]_vars PROVE TypeOK'
  OBVIOUS
<1>1. ASSUME NEW f \in Flow, EnterRequest(f) PROVE TypeOK'
  BY <1>1 DEF EnterRequest, SetCurrent, TypeOK
<1>2. ASSUME NEW f \in Flow, LeaveRequest(f) PROVE TypeOK'
  <2>1. inside[f] \in RequestScope
    BY <1>2 DEF LeaveRequest, TypeOK
  <2>2. QED
    BY <1>2, <2>1 DEF LeaveRequest, ClearCurrent, SetCurrent, Dispose, TypeOK, Owner
<1>3. ASSUME NEW f \in Flow, End(f) PROVE TypeOK'
  BY <1>3 DEF End, TypeOK
<1>4. ASSUME NEW f \in Flow, NEW g \in Flow, Fork(f, g) PROVE TypeOK'
  BY <1>4 DEF Fork, TypeOK
<1>5. ASSUME NEW f \in Flow, NEW s \in SourceScope, NEW t \in Service,
             Activate(f, s, t)
      PROVE  TypeOK'
  <2> DEFINE o == ScopeOf(f, s, t)
  <2>1. o \in Owner
    BY <1>5, ScopeOfType DEF Activate, HasScope
  <2>2. \A d \in Deps[t] :
           /\ d \in Service \cup {Provider}
           /\ ScopeOfDep(f, s, t, d) \in Owner \cup {NoScope}
    BY ScopeOfDepType, ServicesAssumption
  <2>3. instances' \subseteq Service \X Owner
    BY <1>5, <2>1 DEF Activate, TypeOK
  <2>4. holds' = holds \cup {<<t, o, d, ScopeOfDep(f, s, t, d)>> : d \in Deps[t]}
    BY <1>5 DEF Activate
  <2>5. holds' \subseteq
           Service \X Owner \X (Service \cup {Provider}) \X (Owner \cup {NoScope})
    BY <2>1, <2>2, <2>4 DEF TypeOK
  <2>6. QED
    BY <1>5, <2>3, <2>5 DEF Activate, TypeOK
<1>6. ASSUME NEW s \in ServiceScope, DisposeScope(s) PROVE TypeOK'
  BY <1>6 DEF DisposeScope, Dispose, TypeOK, Owner
<1>7. CASE UNCHANGED vars
  BY <1>7 DEF vars, TypeOK
<1>8. QED
  BY <1>1, <1>2, <1>3, <1>4, <1>5, <1>6, <1>7 DEF Next

\* The RequestScopes in use stay apart, whatever flows are forked.
LEMMA InsideStep == RequestInv /\ [Next]_vars => InsideInv'
<1> SUFFICES ASSUME TypeOK, InsideInv, [Next]_vars PROVE InsideInv'
  BY DEF RequestInv
<1>1. ASSUME NEW f \in Flow, EnterRequest(f) PROVE InsideInv'
  <2>1. PICK r \in RequestScope \ used :
           /\ current' = [current EXCEPT ![f] = r]
           /\ inside' = [inside EXCEPT ![f] = r]
           /\ used' = used \cup {r}
    BY <1>1 DEF EnterRequest, SetCurrent
  <2>2. r \notin disposed
    BY DEF InsideInv
  <2>3. f \in started /\ UNCHANGED <<disposed, started>>
    BY <1>1 DEF EnterRequest
  <2>4. QED
    BY <2>1, <2>2, <2>3 DEF InsideInv, TypeOK
<1>2. ASSUME NEW f \in Flow, LeaveRequest(f) PROVE InsideInv'
  <2>1. /\ inside[f] # NoScope
        /\ current' = [current EXCEPT ![f] = NoScope]
        /\ inside' = [inside EXCEPT ![f] = NoScope]
        /\ disposed' = disposed \cup {inside[f]}
        /\ UNCHANGED <<used, started>>
    BY <1>2 DEF LeaveRequest, ClearCurrent, SetCurrent, Dispose
  <2>2. QED
    BY <2>1 DEF InsideInv, TypeOK
<1>3. ASSUME NEW f \in Flow, End(f) PROVE InsideInv'
  BY <1>3 DEF End, InsideInv, TypeOK
<1>4. ASSUME NEW f \in Flow, NEW g \in Flow, Fork(f, g) PROVE InsideInv'
  <2>1. inside[g] = NoScope
    BY <1>4 DEF Fork, InsideInv
  <2>2. QED
    BY <1>4, <2>1 DEF Fork, InsideInv, TypeOK
<1>5. ASSUME NEW f \in Flow, NEW s \in SourceScope, NEW t \in Service,
             Activate(f, s, t)
      PROVE  InsideInv'
  BY <1>5 DEF Activate, InsideInv
<1>6. ASSUME NEW s \in ServiceScope, DisposeScope(s) PROVE InsideInv'
  <2>1. \A r \in RequestScope : r # s
    BY ScopesAssumption
  <2>2. /\ disposed' = disposed \cup {s}
        /\ UNCHANGED <<current, inside, used, started>>
    BY <1>6 DEF DisposeScope, Dispose
  <2>3. \A f \in Flow : inside[f] \in RequestScope \cup {NoScope}
    BY DEF TypeOK
  <2>4. QED
    BY <2>1, <2>2, <2>3 DEF InsideInv
<1>7. CASE UNCHANGED vars
  BY <1>7 DEF vars, InsideInv
<1>8. QED
  BY <1>1, <1>2, <1>3, <1>4, <1>5, <1>6, <1>7 DEF Next

\* Both together are an invariant.
LEMMA RequestInvariant == Spec => []RequestInv
<1>1. Init => RequestInv
  BY RequestInvInit
<1>2. RequestInv /\ [Next]_vars => RequestInv'
  BY TypeStep, InsideStep DEF RequestInv
<1>3. QED
  BY <1>1, <1>2, PTL DEF Spec

\* The variables of the model always have their types.
THEOREM SelectionTypeCorrect == Spec => []TypeOK
<1>1. RequestInv => TypeOK
  BY DEF RequestInv
<1>2. QED
  BY <1>1, RequestInvariant, PTL

\* The RequestScope of a request is current and not disposed for as long as its
\* handler runs, whatever other requests and forked flows do, also those that
\* outlive their request (RequestScope.cs:9-34, RequestScopeMiddleware.cs:22-28).
THEOREM RequestScopeKept == Spec => []RequestKeepsScope
<1>1. RequestInv => RequestKeepsScope
  BY DEF RequestInv, InsideInv, RequestKeepsScope
<1>2. QED
  BY <1>1, RequestInvariant, PTL

-----------------------------------------------------------------------------
(***************************************************************************)
(* ActiveInv: what the flows a request waits for find                      *)
(***************************************************************************)
\* No flow has a scope at the start.
LEMMA ActiveInvInit == Init => ActiveInv
BY RequestInvInit DEF Init, ActiveInv, CurrentIsActive

\* No step leaves a flow that is waited for with a disposed scope.
LEMMA ActiveInvStep == ActiveInv /\ [Next]_vars => ActiveInv'
<1> SUFFICES ASSUME ActiveInv, [Next]_vars PROVE CurrentIsActive'
  BY TypeStep, InsideStep DEF ActiveInv, RequestInv
<1>0. TypeOK /\ InsideInv /\ CurrentIsActive
  BY DEF ActiveInv, RequestInv
<1>1. ASSUME NEW f \in Flow, EnterRequest(f) PROVE CurrentIsActive'
  <2>1. PICK r \in RequestScope \ used : current' = [current EXCEPT ![f] = r]
    BY <1>1 DEF EnterRequest, SetCurrent
  <2>2. r \notin disposed
    BY <1>0 DEF InsideInv
  <2>3. UNCHANGED <<disposed, started>>
    BY <1>1 DEF EnterRequest
  <2>4. QED
    BY <1>0, <2>1, <2>2, <2>3 DEF CurrentIsActive, TypeOK
<1>2. ASSUME NEW f \in Flow, LeaveRequest(f) PROVE CurrentIsActive'
  <2>1. /\ started' = started /\ disposed' = disposed \cup {inside[f]}
        /\ current' = [current EXCEPT ![f] = NoScope]
        /\ inside[f] # NoScope
        /\ \A g \in started \ (Detached \cup {f}) : current[g] # inside[f]
    BY <1>2 DEF LeaveRequest, ClearCurrent, SetCurrent, Dispose
  <2>2. NoScope \notin disposed'
    BY <1>0, <2>1, ScopesAssumption DEF TypeOK
  <2> SUFFICES ASSUME NEW g \in started' \ Detached PROVE current'[g] \notin disposed'
    BY DEF CurrentIsActive
  <2>3. g \in Flow /\ g \in started
    BY <1>0, <2>1 DEF TypeOK
  <2>4. CASE g = f
    BY <1>0, <2>1, <2>2, <2>4 DEF TypeOK
  <2>5. CASE g # f
    BY <1>0, <2>1, <2>3, <2>5 DEF CurrentIsActive, TypeOK
  <2>6. QED
    BY <2>4, <2>5
<1>3. ASSUME NEW f \in Flow, End(f) PROVE CurrentIsActive'
  BY <1>0, <1>3 DEF End, CurrentIsActive
<1>4. ASSUME NEW f \in Flow, NEW g \in Flow, Fork(f, g) PROVE CurrentIsActive'
  <2>1. /\ f \in started /\ started' = started \cup {g} /\ disposed' = disposed
        /\ current' = [current EXCEPT ![g] = current[f]]
        /\ f \in Detached => g \in Detached
    BY <1>4 DEF Fork
  <2>2. QED
    BY <1>0, <2>1 DEF CurrentIsActive, TypeOK
<1>5. ASSUME NEW f \in Flow, NEW s \in SourceScope, NEW t \in Service,
             Activate(f, s, t)
      PROVE  CurrentIsActive'
  BY <1>0, <1>5 DEF Activate, CurrentIsActive
<1>6. ASSUME NEW s \in ServiceScope, DisposeScope(s) PROVE CurrentIsActive'
  <2>1. \A f \in Flow : current[f] # s
    BY <1>0, <1>6, ScopesAssumption DEF TypeOK, Owner
  <2>2. QED
    BY <1>0, <1>6, <2>1 DEF CurrentIsActive, DisposeScope, Dispose, TypeOK
<1>7. CASE UNCHANGED vars
  BY <1>0, <1>7 DEF vars, CurrentIsActive
<1>8. QED
  BY <1>1, <1>2, <1>3, <1>4, <1>5, <1>6, <1>7 DEF Next

\* Only a flow that nobody waits for can find a disposed RequestScope, however
\* many requests and forked flows there are (RequestScope.cs:26-34,
\* RequestScopeMiddleware.cs:24-27, AspNetCoreApplicationPlugin.cs:23).
THEOREM CurrentStaysActive == Spec => []CurrentIsActive
<1>1. Init => ActiveInv
  BY ActiveInvInit
<1>2. ActiveInv /\ [Next]_vars => ActiveInv'
  BY ActiveInvStep
<1>3. ActiveInv => CurrentIsActive
  BY DEF ActiveInv
<1>4. QED
  BY <1>1, <1>2, <1>3, PTL DEF Spec

-----------------------------------------------------------------------------
(***************************************************************************)
(* HeldInv, where no singleton holds what may go before it                 *)
(***************************************************************************)
\* What a disposed scope owned goes with it, and nobody else held on to it.
LEMMA DisposeKeeps ==
    ASSUME HeldInv, NEW o \in Owner, Dispose(o)
    PROVE  HeldInv'
<1>1. /\ disposed' = disposed \cup {o}
      /\ instances' = {i \in instances : i[2] # o}
      /\ holds' = {h \in holds : h[2] # o}
  BY DEF Dispose
<1>2. HeldByOwner'
  BY <1>1 DEF HeldInv, HeldByOwner
<1>3. HeldAlive'
  <2> SUFFICES ASSUME NEW h \in holds', h[4] # Root \/ Root \notin disposed',
                      h[3] # Provider \/ h[4] # h[2]
               PROVE  Alive(h[3], h[4])'
    BY DEF HeldAlive
  <2>1. h \in holds /\ h[2] # o
    BY <1>1
  <2>2. h[4] \in {NoScope, Root, h[2]} /\ Alive(h[3], h[4])
    BY <1>1, <2>1 DEF HeldInv, HeldByOwner, HeldAlive
  <2>3. h[4] # o
    BY <1>1, <2>1, <2>2, ScopesAssumption
  <2>4. CASE h[3] = Provider
    BY <1>1, <2>2, <2>3, <2>4 DEF Alive
  <2>5. CASE h[3] # Provider
    <3>1. h[4] = NoScope \/ <<h[3], h[4]>> \in instances
      BY <2>2, <2>5 DEF Alive
    <3>2. <<h[3], h[4]>>[2] = h[4]
      OBVIOUS
    <3>3. QED
      BY <1>1, <2>3, <2>5, <3>1, <3>2 DEF Alive
  <2>6. QED
    BY <2>4, <2>5
<1>4. QED
  BY <1>2, <1>3 DEF HeldInv

\* A new instance holds what is alive, or the provider of its own scope.
LEMMA ActivateKeeps ==
    ASSUME NoCaptives, TypeOK, HeldInv,
           NEW f \in Flow, NEW s \in SourceScope, NEW t \in Service,
           Activate(f, s, t)
    PROVE  HeldInv'
<1> DEFINE o == ScopeOf(f, s, t)
           new == {<<t, o, d, ScopeOfDep(f, s, t, d)>> : d \in Deps[t]}
<1>1. /\ HasScope(o) /\ holds' = holds \cup new
      /\ instances \subseteq instances' /\ disposed' = disposed
      /\ \A d \in Deps[t] : Owned(d, ScopeOfDep(f, s, t, d))
  BY DEF Activate
<1>2. \A d \in Deps[t] : ScopeOfDep(f, s, t, d) \in {NoScope, Root, o}
  BY <1>1, DependencyOutlives
<1>3. NoScope \notin disposed
  BY ScopesAssumption DEF TypeOK
<1>4. HeldByOwner'
  BY <1>1, <1>2 DEF HeldInv, HeldByOwner
<1>5. ASSUME NEW h \in holds
      PROVE  \/ Alive(h[3], h[4])'
             \/ h[4] = Root /\ Root \in disposed'
             \/ h[3] = Provider /\ h[4] = h[2]
  BY <1>1 DEF HeldInv, HeldAlive, Alive
<1>6. ASSUME NEW d \in Deps[t], NEW p, p = ScopeOfDep(f, s, t, d)
      PROVE  \/ Alive(d, p)'
             \/ p = Root /\ Root \in disposed'
             \/ d = Provider /\ p = o
  <2>1. p \in {NoScope, Root, o} /\ Owned(d, p)
    BY <1>1, <1>2, <1>6
  <2>2. CASE d = Provider
    BY <1>1, <1>3, <2>1, <2>2 DEF Alive
  <2>3. CASE d # Provider
    BY <1>1, <2>1, <2>3 DEF Alive, Owned
  <2>4. QED
    BY <2>2, <2>3
<1>7. HeldAlive'
  <2> SUFFICES ASSUME NEW h \in holds'
               PROVE  \/ Alive(h[3], h[4])'
                      \/ h[4] = Root /\ Root \in disposed'
                      \/ h[3] = Provider /\ h[4] = h[2]
    BY DEF HeldAlive, Alive
  <2>1. CASE h \in holds
    BY <1>5, <2>1
  <2>2. CASE h \in new
    <3>1. PICK d \in Deps[t] : h = <<t, o, d, ScopeOfDep(f, s, t, d)>>
      BY <2>2
    <3>2. h[2] = o /\ h[3] = d /\ h[4] = ScopeOfDep(f, s, t, d)
      BY <3>1
    <3>3. QED
      BY <1>6, <3>2
  <2>3. QED
    BY <1>1, <2>1, <2>2
<1>8. QED
  BY <1>4, <1>7 DEF HeldInv

\* No step lets an instance outlive what it holds.
LEMMA HeldInvStep ==
    ASSUME NoCaptives
    PROVE  RequestInv /\ HeldInv /\ [Next]_vars => HeldInv'
<1> SUFFICES ASSUME TypeOK, HeldInv, [Next]_vars PROVE HeldInv'
  BY DEF RequestInv
<1>0. UNCHANGED <<disposed, instances, holds>> => HeldInv'
  BY DEF HeldInv, HeldByOwner, HeldAlive, Alive
<1>1. ASSUME NEW f \in Flow, EnterRequest(f) \/ End(f) PROVE HeldInv'
  BY <1>0, <1>1 DEF EnterRequest, End
<1>2. ASSUME NEW f \in Flow, NEW g \in Flow, Fork(f, g) PROVE HeldInv'
  BY <1>0, <1>2 DEF Fork
<1>3. ASSUME NEW f \in Flow, LeaveRequest(f) PROVE HeldInv'
  <2>1. inside[f] \in Owner /\ Dispose(inside[f])
    BY <1>3 DEF LeaveRequest, TypeOK, Owner
  <2>2. QED
    BY <2>1, DisposeKeeps
<1>4. ASSUME NEW f \in Flow, NEW s \in SourceScope, NEW t \in Service,
             Activate(f, s, t)
      PROVE  HeldInv'
  BY <1>4, ActivateKeeps
<1>5. ASSUME NEW s \in ServiceScope, DisposeScope(s) PROVE HeldInv'
  BY <1>5, DisposeKeeps DEF DisposeScope, Owner
<1>6. CASE UNCHANGED vars
  BY <1>0, <1>6 DEF vars
<1>7. QED
  BY <1>1, <1>2, <1>3, <1>4, <1>5, <1>6 DEF Next

\* No instance outlives what it was given, whichever provider made it, in
\* detached flows and disposed scopes too
\* (AspNetCoreApplicationPlugin.cs:17-25, ServiceCollectionAdapter.cs:116-142).
THEOREM HeldStaysAlive ==
    ASSUME NoCaptives
    PROVE  Spec => []HeldAlive
<1>1. Init => HeldInv
  BY DEF Init, HeldInv, HeldByOwner, HeldAlive
<1>2. RequestInv /\ HeldInv /\ [Next]_vars => HeldInv'
  BY HeldInvStep
<1>3. HeldInv => HeldAlive
  BY DEF HeldInv
<1>4. QED
  BY <1>1, <1>2, <1>3, RequestInvariant, PTL DEF Spec

=============================================================================
