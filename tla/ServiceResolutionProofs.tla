---------------------- MODULE ServiceResolutionProofs ----------------------
(***************************************************************************)
(* Theorems about ServiceResolution, for any number of types, keys,        *)
(* threads, descriptors and bindings: which binding a request for one      *)
(* service gets, that concurrent requests for a key served by an AnyKey    *)
(* registration share one binding, and what a request for a collection     *)
(* gets: every descriptor once and in the order of the registrations.  At  *)
(* the end, for which registrations no key reaches a request without one   *)
(* and no AnyKey registration a collection.                                *)
(***************************************************************************)
EXTENDS ServiceResolution, FiniteSetTheorems, WellFoundedInduction, TLAPS

(***************************************************************************)
(* The inductive invariant.                                                *)
(***************************************************************************)
StateOK ==
    /\ bindings \in Seq(Binding)
    /\ count \in Nat
    /\ latest \in [Type \X AllKeys -> Nat \cup {NoItem}]
    /\ built \in BOOLEAN
    /\ pc \in [Thread -> {"idle", "missing", "retry"}]
    /\ request \in [Thread -> Request \cup {NoRequest}]
    /\ candidate \in [Thread -> Nat]
    /\ answer = [th \in Thread |-> answer[th]]

\* What each kind of binding looks like.
BindingsOK ==
    \A i \in DOMAIN bindings :
        LET b == bindings[i]
        IN  /\ b.root = "own" <=> b.implicit
            /\ b.root = "own" => b.key \in Key
            /\ b.root = "none" => b.key = NoKey
            /\ b.root = "populate" => b.total < count

\* Nobody asks and no binding is made for a request before Build is through.
QuietUntilBuilt ==
    ~built =>
        /\ \A th \in Thread : pc[th] = "idle" /\ request[th] = NoRequest
        /\ \A i \in DOMAIN bindings : bindings[i].root # "own"

\* Items are numbered in the order of their registration ...
ItemsAscend ==
    \A i, j \in DOMAIN bindings :
        bindings[i].root = "populate" /\ bindings[j].root = "populate" /\ i < j
            => bindings[i].total < bindings[j].total

\* ... and the index knows the last one of every type and key.
IndexKnowsLatest ==
    \A t \in Type, k \in AllKeys : Registered(t, k) # {} =>
        \E m \in Registered(t, k) :
            /\ \A j \in Registered(t, k) : j <= m
            /\ latest[<<t, k>>] = bindings[m].total

\* A binding made for a key stands for the last AnyKey descriptor, and only
\* where no descriptor has the key.
OwnOK ==
    \A i \in DOMAIN bindings : bindings[i].root = "own" =>
        LET A == Registered(bindings[i].type, AnyKey)
        IN  /\ Registered(bindings[i].type, bindings[i].key) = {}
            /\ A # {} /\ bindings[i].from = Latest(A)

\* A thread that handles a missing binding has found the one to copy, and once
\* it retries there is something to find.
PendingOK ==
    \A th \in Thread : pc[th] # "idle" =>
        /\ request[th] \in Request /\ request[th].op = "GetKeyed"
        /\ Registered(request[th].type, AnyKey) # {}
        /\ candidate[th] = Latest(Registered(request[th].type, AnyKey))
        /\ pc[th] = "retry" => Satisfied(request[th]) # {}

\* An answer made of an AnyKey registration is one of the bindings.
AnswerBound ==
    \A th \in Thread :
        /\ Answered(th, "GetKeyed")
        /\ Registered(request[th].type, request[th].key) = {}
        /\ Registered(request[th].type, AnyKey) # {}
        => answer[th][1] \in DOMAIN bindings

RegistryInv ==
    /\ StateOK /\ BindingsOK /\ QuietUntilBuilt
    /\ ItemsAscend /\ IndexKnowsLatest

ResolutionInv ==
    /\ RegistryInv /\ OneBindingPerKey /\ OwnOK /\ PendingOK
    /\ AnswerBound /\ LastRegistrationWins /\ LastKeyedRegistrationWins

-----------------------------------------------------------------------------
(***************************************************************************)
(* The order of bindings                                                   *)
(***************************************************************************)
CriteriaRecord ==
    [precedence : Int, conditional : BOOLEAN, closed : BOOLEAN, explicit : BOOLEAN]

Above(p, q) == p /\ ~q

\* The comparison of 5 bit numbers, one of which is made of a difference that
\* depends on both bindings, is the lexicographic order of the criteria: first
\* the position among the descriptors, then conditional, closed and explicit
\* bindings before others, and it is a consistent comparison: antisymmetric and
\* transitive (IndexedBindingPrecedenceComparer.cs:26-46).
THEOREM CompareIsLexicographic ==
    ASSUME NEW x \in CriteriaRecord, NEW y \in CriteriaRecord, NEW z \in CriteriaRecord
    PROVE  /\ Compare(x, y) > 0 <=>
                \/ x.precedence > y.precedence
                \/ /\ x.precedence = y.precedence
                   /\ \/ Above(x.conditional, y.conditional)
                      \/ /\ x.conditional = y.conditional
                         /\ \/ Above(x.closed, y.closed)
                            \/ /\ x.closed = y.closed
                               /\ Above(x.explicit, y.explicit)
           /\ Compare(y, x) = -Compare(x, y)
           /\ Compare(x, y) > 0 /\ Compare(y, z) > 0 => Compare(x, z) > 0
<1>. DEFINE Lex(u, v) ==
               \/ u.precedence > v.precedence
               \/ /\ u.precedence = v.precedence
                  /\ \/ Above(u.conditional, v.conditional)
                     \/ /\ u.conditional = v.conditional
                        /\ \/ Above(u.closed, v.closed)
                           \/ /\ u.closed = v.closed
                              /\ Above(u.explicit, v.explicit)
<1>1. ASSUME NEW u \in CriteriaRecord, NEW v \in CriteriaRecord
      PROVE  (Compare(u, v) > 0 <=> Lex(u, v)) /\ Compare(v, u) = -Compare(u, v)
  <2>. DEFINE d == u.precedence - v.precedence
  <2>1. d \in Int /\ v.precedence - u.precedence = -d
    BY DEF CriteriaRecord
  <2>2. CASE d > 0
    BY <2>1, <2>2 DEF CriteriaRecord, Compare, Bits, Bit, Above
  <2>3. CASE d = 0
    BY <2>1, <2>3 DEF CriteriaRecord, Compare, Bits, Bit, Above
  <2>4. CASE d < 0
    BY <2>1, <2>4 DEF CriteriaRecord, Compare, Bits, Bit, Above
  <2>. QED  BY <2>1, <2>2, <2>3, <2>4
<1>2. Lex(x, y) /\ Lex(y, z) => Lex(x, z)
  BY DEF CriteriaRecord, Above
<1>. QED  BY <1>1, <1>2

LEMMA ComparePrecedence ==
    ASSUME NEW x \in CriteriaRecord, NEW y \in CriteriaRecord,
           x.precedence > y.precedence
    PROVE  Compare(x, y) > 0 /\ Compare(y, x) < 0
<1>1. Compare(x, y) \in Int
  BY DEF CriteriaRecord, Compare, Bits, Bit
<1>. QED  BY <1>1, CompareIsLexicographic

LEMMA CardinalityOne == \A x : Cardinality({x}) = 1
BY FS_Singleton

LEMMA FiniteBindings ==
    ASSUME StateOK, NEW S \in SUBSET DOMAIN bindings
    PROVE  IsFiniteSet(S) /\ Cardinality(S) \in Nat
<1>1. DOMAIN bindings = 1..Len(bindings) /\ Len(bindings) \in Nat
  BY DEF StateOK
<1>2. IsFiniteSet(DOMAIN bindings)
  BY <1>1, FS_Interval
<1>. QED  BY <1>2, FS_Subset, FS_CardinalityType

\* What comes before everything else is the first of the sorted bindings.
LEMMA SortedFirst ==
    ASSUME StateOK, NEW S \in SUBSET DOMAIN bindings, NEW top \in S,
           \A j \in S \ {top} : Before(top, j) /\ ~Before(j, top)
    PROVE  Sorted(S)[1] = top /\ Len(Sorted(S)) = Cardinality(S)
<1>. DEFINE Ahead(i) == {j \in S \ {i} : Before(j, i)}
<1>1. IsFiniteSet(S) /\ Cardinality(S) \in Nat /\ Cardinality(S) # 0
  BY FiniteBindings, FS_EmptySet
<1>2. \A i \in S : IsFiniteSet(Ahead(i)) /\ Cardinality(Ahead(i)) \in Nat
  BY FiniteBindings
<1>3. \A i \in S : Cardinality(Ahead(i)) = 0 <=> i = top
  <2>1. Ahead(top) = {}
    OBVIOUS
  <2>2. \A i \in S \ {top} : top \in Ahead(i)
    OBVIOUS
  <2>. QED  BY <2>1, <2>2, <1>2, FS_EmptySet
<1>4. (CHOOSE i \in S : Cardinality(Ahead(i)) = 1 - 1) = top
  BY <1>3
<1>5. 1 \in 1..Cardinality(S)
  BY <1>1
<1>. QED  BY <1>1, <1>4, <1>5 DEF Sorted

LEMMA SmallestIndex ==
    ASSUME StateOK, NEW S \in SUBSET DOMAIN bindings, S # {}
    PROVE  \E m \in S : \A j \in S : m <= j
<1>. DEFINE R == OpToRel(<, Nat)
<1>1. S \subseteq Nat
  BY DEF StateOK
<1>2. \A j, m \in Nat : j < m => <<j, m>> \in R
  BY DEF OpToRel
<1>3. IsWellFoundedOn(R, Nat)
  BY NatLessThanWellFounded
<1>. HIDE DEF R
<1>4. \E m \in S : \A j \in S : ~ (<<j, m>> \in R)
  BY <1>1, <1>3, WFMin
<1>5. PICK m \in S : \A j \in S : ~ (<<j, m>> \in R)
  BY <1>4
<1>6. \A j \in S : ~(j < m)
  BY <1>1, <1>2, <1>5
<1>. QED  BY <1>1, <1>6

\* Where all but the first are of equal rank, the second is one of them.
LEMMA SortedSecond ==
    ASSUME StateOK, NEW S \in SUBSET DOMAIN bindings, NEW top \in S,
           Cardinality(S) > 1,
           \A j \in S \ {top} : Before(top, j) /\ ~Before(j, top),
           \A i, j \in S \ {top} : Before(i, j) <=> i < j
    PROVE  Sorted(S)[2] \in S \ {top}
<1>. DEFINE Ahead(i) == {j \in S \ {i} : Before(j, i)}
<1>1. Cardinality(S) \in Nat /\ 2 \in 1..Cardinality(S)
  BY FiniteBindings
<1>2. S \ {top} # {}
  <2>. SUFFICES ASSUME S = {top} PROVE FALSE
    OBVIOUS
  <2>1. Cardinality({top}) = 1
    BY CardinalityOne
  <2>. QED  BY <2>1
<1>3. PICK m \in S \ {top} : \A j \in S \ {top} : m <= j
  BY <1>2, SmallestIndex
<1>4. S \subseteq Nat
  BY DEF StateOK
<1>5. Ahead(m) = {top}
  BY <1>3, <1>4
<1>6. Cardinality(Ahead(m)) = 1
  BY <1>5, CardinalityOne
<1>7. Cardinality(Ahead(top)) = 0
  <2>1. Ahead(top) = {}
    OBVIOUS
  <2>. QED  BY <2>1, FS_EmptySet
<1>8. Sorted(S)[2] = CHOOSE i \in S : Cardinality(Ahead(i)) = 1
  <2>1. Sorted(S)[2] = CHOOSE i \in S : Cardinality(Ahead(i)) = 2 - 1
    BY <1>1 DEF Sorted
  <2>2. 2 - 1 = 1
    OBVIOUS
  <2>. HIDE DEF Ahead
  <2>. QED  BY <2>1, <2>2, Zenon
<1>. HIDE DEF Ahead
<1>. QED  BY <1>3, <1>6, <1>7, <1>8

-----------------------------------------------------------------------------
(***************************************************************************)
(* What the index says and what a request for one service gets             *)
(***************************************************************************)
LEMMA BindingType ==
    ASSUME StateOK, NEW i \in DOMAIN bindings
    PROVE  i \in Nat /\ i > 0 /\ bindings[i] \in Binding
BY DEF StateOK

LEMMA LatestRegistered ==
    ASSUME RegistryInv, NEW t \in Type, NEW k \in AllKeys, Registered(t, k) # {}
    PROVE  /\ Latest(Registered(t, k)) \in Registered(t, k)
           /\ \A i \in Registered(t, k) :
                 IsLatest(bindings[i]) <=> i = Latest(Registered(t, k))
<1>. DEFINE S == Registered(t, k)
<1>1. PICK m \in S : (\A j \in S : j <= m) /\ latest[<<t, k>>] = bindings[m].total
  BY DEF RegistryInv, IndexKnowsLatest
<1>2. S \subseteq DOMAIN bindings /\ S \subseteq Nat
  BY BindingType DEF Registered, RegistryInv
<1>3. Latest(S) = m
  BY <1>1, <1>2 DEF Latest
<1>4. \A i \in S : IsLatest(bindings[i]) <=> bindings[i].total = bindings[m].total
  BY <1>1 DEF IsLatest, Registered
<1>5. \A i \in S : i # m => bindings[i].total < bindings[m].total
  BY <1>1, <1>2 DEF Registered, RegistryInv, ItemsAscend
<1>6. \A i \in S : bindings[i].total \in Nat
  BY <1>2, BindingType DEF RegistryInv, Binding
<1>. QED  BY <1>1, <1>3, <1>4, <1>5, <1>6

LEMMA RequestType ==
    ASSUME NEW r \in Request
    PROVE  /\ r.type \in Type /\ r.key \in AllKeys
           /\ r.op = "Get" => r.key = NoKey
           /\ r.op = "GetKeyed" => r.key \in Key
BY DEF Request, AllKeys

LEMMA CriteriaType ==
    ASSUME StateOK, NEW i \in DOMAIN bindings
    PROVE  Criteria(bindings[i]) \in CriteriaRecord
<1>1. bindings[i] \in Binding /\ count \in Nat
  BY BindingType DEF StateOK
<1>2. Precedence(bindings[i]) \in Int
  BY <1>1 DEF Precedence, Binding
<1>. QED  BY <1>1, <1>2 DEF Criteria, CriteriaRecord, Binding

\* One binding is all that satisfies a request: it is the answer.
LEMMA SingleResult ==
    ASSUME StateOK, NEW r \in Request, IsUnique(r),
           NEW m, Satisfied(r) = {m}
    PROVE  Result(r) = <<m>>
<1>. DEFINE s == Sorted({m})
<1>1. {m} \in SUBSET DOMAIN bindings /\ m \in {m}
  BY DEF Satisfied
<1>2. s[1] = m /\ Len(s) = Cardinality({m})
  BY <1>1, SortedFirst
<1>3. Len(s) = 1
  BY <1>2, CardinalityOne
<1>4. Result(r) = IF IsAmbiguous(s) THEN Ambiguous ELSE <<s[1]>>
  BY DEF Result
<1>. HIDE DEF s
<1>5. ~IsAmbiguous(s)
  BY <1>3 DEF IsAmbiguous
<1>. QED  BY <1>2, <1>4, <1>5

\* A descriptor comes before the bindings of modules.
LEMMA DescriptorFirst ==
    ASSUME RegistryInv, NEW i \in DOMAIN bindings, NEW j \in DOMAIN bindings,
           bindings[i].root = "populate", bindings[j].root = "none"
    PROVE  /\ Compare(Criteria(bindings[i]), Criteria(bindings[j])) > 0
           /\ Before(i, j) /\ ~Before(j, i)
<1>1. bindings[i] \in Binding /\ bindings[j] \in Binding /\ i \in Nat /\ j \in Nat
  BY BindingType DEF RegistryInv
<1>2. bindings[i].total < count /\ count \in Nat /\ bindings[i].total \in Nat
  BY <1>1 DEF RegistryInv, BindingsOK, StateOK, Binding
<1>3. Precedence(bindings[i]) = count - bindings[i].total
  BY DEF Precedence
<1>4. Precedence(bindings[j]) = 0
  BY DEF Precedence
<1>5. Criteria(bindings[i]).precedence > Criteria(bindings[j]).precedence
  BY <1>2, <1>3, <1>4 DEF Criteria
<1>6. /\ Criteria(bindings[i]) \in CriteriaRecord
      /\ Criteria(bindings[j]) \in CriteriaRecord
  BY CriteriaType DEF RegistryInv
<1>7. /\ Compare(Criteria(bindings[i]), Criteria(bindings[j])) > 0
      /\ Compare(Criteria(bindings[j]), Criteria(bindings[i])) < 0
  BY <1>5, <1>6, ComparePrecedence
<1>8. /\ Compare(Criteria(bindings[i]), Criteria(bindings[j])) \in Int
      /\ Compare(Criteria(bindings[j]), Criteria(bindings[i])) \in Int
  BY <1>6 DEF CriteriaRecord, Compare, Bits, Bit
<1>. HIDE DEF Criteria, Compare
<1>. QED  BY <1>7, <1>8 DEF Before

\* The bindings of modules are ordered by position alone.
LEMMA ModulesTie ==
    ASSUME RegistryInv, NEW i \in DOMAIN bindings, NEW j \in DOMAIN bindings,
           bindings[i].root = "none", bindings[j].root = "none"
    PROVE  Before(i, j) <=> i < j
<1>1. bindings[i] \in Binding /\ bindings[j] \in Binding
  BY BindingType DEF RegistryInv
<1>2. ~bindings[i].implicit /\ ~bindings[j].implicit
  BY <1>1 DEF RegistryInv, BindingsOK, Binding
<1>3. Criteria(bindings[i]) = Criteria(bindings[j])
  BY <1>2 DEF Criteria, Precedence
<1>4. Compare(Criteria(bindings[i]), Criteria(bindings[j])) = 0
  <2>1. Criteria(bindings[i]).precedence = 0
    BY DEF Criteria, Precedence
  <2>. QED  BY <2>1, <1>3 DEF Compare, Bits, Bit
<1>. QED  BY <1>4 DEF Before

\* The descriptor registered last answers a request without a key.
LEMMA GetResult ==
    ASSUME RegistryInv, NEW r \in Request, r.op = "Get",
           Registered(r.type, NoKey) # {}
    PROVE  /\ Satisfied(r) # {}
           /\ Result(r) = <<Latest(Registered(r.type, NoKey))>>
<1>. DEFINE R == Registered(r.type, NoKey)
            top == Latest(R)
            S == Satisfied(r)
            s == Sorted(S)
<1>0. r.type \in Type /\ NoKey \in AllKeys /\ IsUnique(r) /\ StateOK
  BY RequestType DEF AllKeys, IsUnique, RegistryInv
<1>1. top \in R /\ \A i \in R : IsLatest(bindings[i]) <=> i = top
  BY <1>0, LatestRegistered
<1>2. \A i \in DOMAIN bindings :
         i \in S <=> /\ bindings[i].type = r.type /\ bindings[i].key = NoKey
                     /\ IsLatest(bindings[i])
  BY <1>0 DEF Satisfied, SatifiesRequest, MeetsConstraint
<1>3. S \in SUBSET DOMAIN bindings
  BY DEF Satisfied
<1>4. top \in S
  BY <1>1, <1>2 DEF Registered
<1>5. \A j \in S \ {top} : bindings[j].root = "none"
  <2>. SUFFICES ASSUME NEW j \in S \ {top}, bindings[j].root # "none"
                PROVE  FALSE
    OBVIOUS
  <2>1. bindings[j] \in Binding
    BY <1>0, <1>3, BindingType
  <2>2. CASE bindings[j].root = "own"
    BY <2>2, <1>2, <1>3, KeysAssumption DEF RegistryInv, BindingsOK
  <2>3. CASE bindings[j].root = "populate"
    BY <2>3, <1>1, <1>2, <1>3 DEF Registered
  <2>. QED  BY <2>1, <2>2, <2>3 DEF Binding
<1>6. \A j \in S \ {top} :
         /\ Compare(Criteria(bindings[top]), Criteria(bindings[j])) > 0
         /\ Before(top, j) /\ ~Before(j, top)
  BY <1>1, <1>3, <1>5, DescriptorFirst DEF Registered
<1>7. s[1] = top /\ Len(s) = Cardinality(S)
  BY <1>0, <1>3, <1>4, <1>6, SortedFirst
<1>8. ~IsAmbiguous(s)
  <2>. SUFFICES ASSUME Cardinality(S) > 1
                PROVE  Compare(Criteria(bindings[s[1]]), Criteria(bindings[s[2]])) # 0
    BY <1>7 DEF IsAmbiguous
  <2>1. \A i, j \in S \ {top} : Before(i, j) <=> i < j
    BY <1>0, <1>3, <1>5, ModulesTie
  <2>2. s[2] \in S \ {top}
    BY <1>0, <1>3, <1>4, <1>6, <2>1, SortedSecond
  <2>. QED  BY <2>2, <1>6, <1>7
<1>. QED  BY <1>0, <1>4, <1>7, <1>8 DEF Result

\* A request with a key: the descriptor registered last for it ...
LEMMA KeyedResult ==
    ASSUME RegistryInv, OwnOK, NEW r \in Request, r.op = "GetKeyed",
           Registered(r.type, r.key) # {}
    PROVE  /\ Satisfied(r) = {Latest(Registered(r.type, r.key))}
           /\ Result(r) = <<Latest(Registered(r.type, r.key))>>
<1>. DEFINE R == Registered(r.type, r.key)
<1>0. r.type \in Type /\ r.key \in Key /\ r.key \in AllKeys /\ IsUnique(r) /\ StateOK
  BY RequestType DEF IsUnique, RegistryInv
<1>1. Latest(R) \in R /\ \A i \in R : IsLatest(bindings[i]) <=> i = Latest(R)
  BY <1>0, LatestRegistered
<1>2. \A i \in DOMAIN bindings :
         i \in Satisfied(r) <=> /\ bindings[i].type = r.type /\ bindings[i].key = r.key
                                /\ IsLatest(bindings[i])
  BY <1>0, KeysAssumption DEF Satisfied, SatifiesRequest, MeetsConstraint, MatchesKey
<1>3. \A i \in Satisfied(r) : i \in R
  <2>. SUFFICES ASSUME NEW i \in DOMAIN bindings, i \in Satisfied(r)
                PROVE  bindings[i].root = "populate"
    BY <1>2 DEF Registered, Satisfied
  <2>1. bindings[i] \in Binding
    BY <1>0, BindingType
  <2>2. bindings[i].root # "none"
    BY <1>0, <1>2, KeysAssumption DEF RegistryInv, BindingsOK
  <2>3. bindings[i].root # "own"
    BY <1>2 DEF OwnOK
  <2>. QED  BY <2>1, <2>2, <2>3 DEF Binding
<1>4. Satisfied(r) = {Latest(R)}
  BY <1>1, <1>2, <1>3 DEF Registered, Satisfied
<1>. QED  BY <1>0, <1>4, SingleResult

\* ... or the binding that was made for it.
LEMMA OwnResult ==
    ASSUME RegistryInv, OneBindingPerKey, NEW r \in Request, r.op = "GetKeyed",
           Registered(r.type, r.key) = {}
    PROVE  /\ \A i \in DOMAIN bindings :
                 i \in Satisfied(r) <=> /\ bindings[i].root = "own"
                                        /\ bindings[i].type = r.type
                                        /\ bindings[i].key = r.key
           /\ \A i \in Satisfied(r) : Result(r) = <<i>>
<1>0. r.type \in Type /\ r.key \in Key /\ IsUnique(r) /\ StateOK
  BY RequestType DEF IsUnique, RegistryInv
<1>1. \A i \in DOMAIN bindings :
         i \in Satisfied(r) <=> /\ bindings[i].type = r.type /\ bindings[i].key = r.key
                                /\ IsLatest(bindings[i])
  BY <1>0, KeysAssumption DEF Satisfied, SatifiesRequest, MeetsConstraint, MatchesKey
<1>2. \A i \in DOMAIN bindings :
         bindings[i].type = r.type /\ bindings[i].key = r.key => bindings[i].root = "own"
  <2>. SUFFICES ASSUME NEW i \in DOMAIN bindings,
                       bindings[i].type = r.type, bindings[i].key = r.key
                PROVE  bindings[i].root = "own"
    OBVIOUS
  <2>1. bindings[i] \in Binding
    BY <1>0, BindingType
  <2>2. bindings[i].root # "none"
    BY <1>0, KeysAssumption DEF RegistryInv, BindingsOK
  <2>3. bindings[i].root # "populate"
    BY DEF Registered
  <2>. QED  BY <2>1, <2>2, <2>3 DEF Binding
<1>3. \A i \in DOMAIN bindings : bindings[i].root = "own" => IsLatest(bindings[i])
  BY DEF IsLatest
<1>4. \A i, j \in Satisfied(r) : i = j
  <2>1. \A i \in DOMAIN bindings : bindings[i].root = "own" => bindings[i].implicit
    BY DEF RegistryInv, BindingsOK
  <2>. QED  BY <2>1, <1>1, <1>2 DEF Satisfied, OneBindingPerKey
<1>5. \A i \in Satisfied(r) : Satisfied(r) = {i}
  BY <1>4
<1>. QED  BY <1>0, <1>1, <1>2, <1>3, <1>5, SingleResult

\* The resolver has one binding to choose: the AnyKey descriptor registered last.
LEMMA AnyKeyCandidates ==
    ASSUME RegistryInv, NEW r \in Request, r.op = "GetKeyed"
    PROVE  LET A == Registered(r.type, AnyKey)
           IN  AnyKeyBindings(r) = IF A = {} THEN {} ELSE {Latest(A)}
<1>. DEFINE A == Registered(r.type, AnyKey)
<1>1. r.type \in Type /\ AnyKey \in AllKeys
  BY RequestType DEF AllKeys
<1>2. \A i \in DOMAIN bindings : bindings[i].key = AnyKey => bindings[i].root = "populate"
  <2>. SUFFICES ASSUME NEW i \in DOMAIN bindings, bindings[i].key = AnyKey
                PROVE  bindings[i].root = "populate"
    OBVIOUS
  <2>1. bindings[i].root \in {"populate", "own", "none"}
    BY BindingType DEF RegistryInv, Binding
  <2>. QED  BY <2>1, KeysAssumption DEF RegistryInv, BindingsOK
<1>3. AnyKeyBindings(r) = {i \in A : IsLatest(bindings[i])}
  BY <1>2 DEF AnyKeyBindings, Registered
<1>4. CASE A = {}
  BY <1>3, <1>4
<1>5. CASE A # {}
  <2>1. Latest(A) \in A /\ \A i \in A : IsLatest(bindings[i]) <=> i = Latest(A)
    BY <1>1, <1>5, LatestRegistered
  <2>. QED  BY <2>1, <1>3, <1>5
<1>. QED  BY <1>4, <1>5

-----------------------------------------------------------------------------
(***************************************************************************)
(* Every step preserves the invariant                                      *)
(***************************************************************************)
LEMMA AppendBinding ==
    ASSUME StateOK, NEW b \in Binding, bindings' = Append(bindings, b)
    PROVE  /\ bindings' \in Seq(Binding)
           /\ DOMAIN bindings' = DOMAIN bindings \cup {Len(bindings) + 1}
           /\ bindings'[Len(bindings) + 1] = b
           /\ \A i \in DOMAIN bindings :
                 bindings'[i] = bindings[i] /\ i \in Nat /\ i < Len(bindings) + 1
BY DEF StateOK

\* Only a descriptor changes what is registered.
LEMMA RegisteredKept ==
    ASSUME StateOK, NEW b \in Binding, b.root # "populate",
           bindings' = Append(bindings, b)
    PROVE  \A t, k : Registered(t, k)' = Registered(t, k)
BY AppendBinding DEF Registered

LEMMA InitOK == Init => ResolutionInv
<1>. SUFFICES ASSUME Init PROVE ResolutionInv
  OBVIOUS
<1>. USE DEF Init, Nothing, NoItem
<1>1. StateOK
  <2>. HIDE DEF Init
  <2>0. \A S : <<>> \in Seq(S)
    OBVIOUS
  <2>1. bindings \in Seq(Binding) /\ count \in Nat /\ built \in BOOLEAN
    BY <2>0 DEF Init
  <2>2. latest \in [Type \X AllKeys -> Nat \cup {NoItem}]
    BY DEF Init
  <2>3. /\ pc \in [Thread -> {"idle", "missing", "retry"}]
        /\ request \in [Thread -> Request \cup {NoRequest}]
        /\ candidate \in [Thread -> Nat]
    BY DEF Init
  <2>4. answer = [th \in Thread |-> answer[th]]
    BY DEF Init
  <2>. QED  BY <2>1, <2>2, <2>3, <2>4 DEF StateOK
<1>2. \A t, k : Registered(t, k) = {}
  BY DEF Registered
<1>3. RegistryInv
  BY <1>1, <1>2 DEF RegistryInv, BindingsOK, QuietUntilBuilt, ItemsAscend,
                    IndexKnowsLatest
<1>. QED  BY <1>1, <1>2, <1>3 DEF ResolutionInv, OneBindingPerKey, OwnOK, PendingOK,
                    AnswerBound, LastRegistrationWins, LastKeyedRegistrationWins, Answered

\* Before Build is through there are no requests and no bindings made for one.
LEMMA QuietInv ==
    ASSUME RegistryInv, ~built
    PROVE  /\ OneBindingPerKey /\ OwnOK /\ PendingOK
           /\ AnswerBound /\ LastRegistrationWins /\ LastKeyedRegistrationWins
<1>1. \A th \in Thread : \A op : ~Answered(th, op)
  BY DEF RegistryInv, QuietUntilBuilt, Answered
<1>2. \A i \in DOMAIN bindings : bindings[i].root # "own" /\ ~bindings[i].implicit
  BY BindingType DEF RegistryInv, QuietUntilBuilt, BindingsOK, Binding
<1>3. OneBindingPerKey /\ OwnOK /\ PendingOK
  BY <1>2 DEF OneBindingPerKey, OwnOK, PendingOK, RegistryInv, QuietUntilBuilt
<1>. QED  BY <1>1, <1>3 DEF AnswerBound, LastRegistrationWins, LastKeyedRegistrationWins

LEMMA PopulateStep ==
    ASSUME RegistryInv, NEW t \in Type, NEW k \in AllKeys, Populate(t, k)
    PROVE  RegistryInv' /\ ~built'
<1>. DEFINE b == NewBinding(t, k, "populate", count, FALSE, 0)
            n == Len(bindings) + 1
<1>. USE DEF RegistryInv
<1>0. /\ ~built /\ built' = built /\ count' = count + 1 /\ count \in Nat
      /\ bindings' = Append(bindings, b)
      /\ latest' = [latest EXCEPT ![<<t, k>>] = count]
      /\ <<pc, request, candidate, answer>>' = <<pc, request, candidate, answer>>
  BY DEF Populate, SetLatest, TotalIndex, StateOK
<1>1. b \in Binding
  BY <1>0 DEF NewBinding, Binding
<1>3. b.root = "populate" /\ b.total = count /\ ~b.implicit /\ b.type = t /\ b.key = k
  BY DEF NewBinding
<1>. HIDE DEF b
<1>2. /\ bindings' \in Seq(Binding)
      /\ DOMAIN bindings' = DOMAIN bindings \cup {n}
      /\ bindings'[n] = b
      /\ \A i \in DOMAIN bindings :
            bindings'[i] = bindings[i] /\ i \in Nat /\ i < n /\ bindings[i] \in Binding
      /\ n \in Nat
  BY <1>0, <1>1, AppendBinding, BindingType DEF StateOK
<1>. HIDE DEF n
<1>4. StateOK'
  BY <1>0, <1>2 DEF StateOK
<1>5. BindingsOK'
  BY <1>0, <1>2, <1>3 DEF BindingsOK, Binding
<1>6. QuietUntilBuilt'
  BY <1>0, <1>2, <1>3 DEF QuietUntilBuilt
<1>7. ItemsAscend'
  BY <1>0, <1>2, <1>3 DEF ItemsAscend, BindingsOK
<1>8. IndexKnowsLatest'
  <2>. SUFFICES ASSUME NEW u \in Type, NEW v \in AllKeys, Registered(u, v)' # {}
                PROVE  \E m \in Registered(u, v)' :
                          /\ \A j \in Registered(u, v)' : j <= m
                          /\ latest'[<<u, v>>] = bindings'[m].total
    BY DEF IndexKnowsLatest
  <2>1. CASE u = t /\ v = k
    <3>1. n \in Registered(u, v)'
      BY <2>1, <1>2, <1>3 DEF Registered
    <3>2. \A j \in Registered(u, v)' : j <= n
      BY <1>2 DEF Registered
    <3>3. latest'[<<u, v>>] = bindings'[n].total
      BY <2>1, <1>0, <1>2, <1>3 DEF StateOK
    <3>. QED  BY <3>1, <3>2, <3>3
  <2>2. CASE ~(u = t /\ v = k)
    <3>1. Registered(u, v)' = Registered(u, v)
      BY <2>2, <1>2, <1>3 DEF Registered
    <3>2. latest'[<<u, v>>] = latest[<<u, v>>]
      BY <2>2, <1>0 DEF StateOK
    <3>3. \A m \in Registered(u, v) : bindings'[m] = bindings[m]
      BY <1>2 DEF Registered
    <3>. QED  BY <3>1, <3>2, <3>3 DEF IndexKnowsLatest
  <2>. QED  BY <2>1, <2>2
<1>. QED  BY <1>0, <1>4, <1>5, <1>6, <1>7, <1>8

\* A binding that is no descriptor leaves the index right.
LEMMA RegistryAppend ==
    ASSUME RegistryInv, NEW b \in Binding, b.root # "populate",
           bindings' = Append(bindings, b), UNCHANGED <<count, latest>>
    PROVE  ItemsAscend' /\ IndexKnowsLatest'
<1>. USE DEF RegistryInv
<1>1. /\ DOMAIN bindings' = DOMAIN bindings \cup {Len(bindings) + 1}
      /\ bindings'[Len(bindings) + 1] = b
      /\ \A i \in DOMAIN bindings : bindings'[i] = bindings[i]
  BY AppendBinding
<1>2. ItemsAscend'
  BY <1>1 DEF ItemsAscend
<1>3. \A t, k : Registered(t, k)' = Registered(t, k)
  BY RegisteredKept
<1>4. \A t, k : \A m \in Registered(t, k) : bindings'[m] = bindings[m]
  BY <1>1 DEF Registered
<1>5. IndexKnowsLatest'
  <2>. SUFFICES ASSUME NEW t \in Type, NEW k \in AllKeys, Registered(t, k) # {}
                PROVE  \E m \in Registered(t, k) :
                          /\ \A j \in Registered(t, k) : j <= m
                          /\ latest[<<t, k>>] = bindings'[m].total
    BY <1>3 DEF IndexKnowsLatest
  <2>1. PICK m \in Registered(t, k) : /\ \A j \in Registered(t, k) : j <= m
                                      /\ latest[<<t, k>>] = bindings[m].total
    BY DEF IndexKnowsLatest
  <2>2. bindings'[m] = bindings[m]
    BY <1>4
  <2>. QED  BY <2>1, <2>2
<1>. QED  BY <1>2, <1>5

LEMMA BindNativeStep ==
    ASSUME RegistryInv, NEW t \in Type, BindNative(t)
    PROVE  RegistryInv' /\ ~built'
<1>. DEFINE b == NewBinding(t, NoKey, "none", 0, FALSE, 0)
<1>. USE DEF RegistryInv
<1>1. b \in Binding /\ b.root = "none" /\ ~b.implicit /\ b.key = NoKey
  BY DEF NewBinding, Binding, AllKeys
<1>2. /\ bindings' = Append(bindings, b) /\ ~built
      /\ UNCHANGED <<count, latest, built, pc, request, candidate, answer>>
  BY DEF BindNative
<1>. HIDE DEF b
<1>3. /\ bindings' \in Seq(Binding)
      /\ DOMAIN bindings' = DOMAIN bindings \cup {Len(bindings) + 1}
      /\ bindings'[Len(bindings) + 1] = b
      /\ \A i \in DOMAIN bindings : bindings'[i] = bindings[i]
  BY <1>1, <1>2, AppendBinding
<1>4. StateOK' /\ BindingsOK' /\ QuietUntilBuilt'
  BY <1>1, <1>2, <1>3 DEF StateOK, BindingsOK, QuietUntilBuilt
<1>5. ItemsAscend' /\ IndexKnowsLatest'
  BY <1>1, <1>2, RegistryAppend
<1>. QED  BY <1>2, <1>4, <1>5

\* A thread's new answer is right, whatever the other threads were told.
LEMMA AnswerStep ==
    ASSUME ResolutionInv, NEW th \in Thread, NEW r \in Request,
           UNCHANGED <<bindings, count, latest, built, candidate>>, built,
           request' = [request EXCEPT ![th] = r],
           \/ Satisfied(r) # {} /\ answer' = [answer EXCEPT ![th] = Result(r)]
           \/ /\ Satisfied(r) = {} /\ AnyKeyBindings(r) = {}
              /\ answer' = [answer EXCEPT ![th] = Nothing],
           pc' = [pc EXCEPT ![th] = "idle"]
    PROVE  ResolutionInv'
<1>. USE DEF ResolutionInv
<1>0. StateOK /\ r.type \in Type /\ r.key \in AllKeys
  BY RequestType DEF RegistryInv
<1>1. \A t, k : Registered(t, k)' = Registered(t, k)
  BY DEF Registered
<1>2. \A q : Satisfied(q)' = Satisfied(q)
  BY DEF Satisfied, SatifiesRequest, IsLatest
<1>3. StateOK'
  BY <1>0 DEF StateOK
<1>4. RegistryInv'
  BY <1>1, <1>3 DEF RegistryInv, BindingsOK, QuietUntilBuilt, ItemsAscend, IndexKnowsLatest
<1>5. OneBindingPerKey' /\ OwnOK'
  BY <1>1 DEF OneBindingPerKey, OwnOK
<1>6. PendingOK'
  BY <1>0, <1>1, <1>2 DEF PendingOK, StateOK
<1>7. ASSUME NEW o \in Thread, o # th, NEW op, Answered(o, op)'
      PROVE  Answered(o, op) /\ request'[o] = request[o] /\ answer'[o] = answer[o]
  BY <1>0, <1>7 DEF Answered, StateOK
<1>8. answer'[th] \in {Result(r), Nothing} /\ request'[th] = r
  BY <1>0 DEF StateOK
<1>9. Satisfied(r) # {} => answer'[th] = Result(r)
  BY <1>0 DEF StateOK
<1>10. LastRegistrationWins'
  <2>. SUFFICES ASSUME NEW o \in Thread, Answered(o, "Get")',
                       Registered(request'[o].type, NoKey) # {}
                PROVE  answer'[o] = <<Latest(Registered(request'[o].type, NoKey))>>
    BY <1>1 DEF LastRegistrationWins
  <2>1. CASE o = th
    BY <2>1, <1>8, <1>9, GetResult DEF Answered
  <2>2. CASE o # th
    BY <2>2, <1>7 DEF LastRegistrationWins
  <2>. QED  BY <2>1, <2>2
<1>11. ASSUME NEW o \in Thread, Answered(o, "GetKeyed")'
       PROVE  LET S == Registered(request'[o].type, request'[o].key)
                  A == Registered(request'[o].type, AnyKey)
              IN  /\ S # {} => answer'[o] = <<Latest(S)>>
                  /\ S = {} /\ A # {} =>
                        /\ answer'[o][1] \in DOMAIN bindings
                        /\ Len(answer'[o]) = 1
                        /\ bindings[answer'[o][1]].key = request'[o].key
                        /\ bindings[answer'[o][1]].from = Latest(A)
  <2>. DEFINE S == Registered(request'[o].type, request'[o].key)
              A == Registered(request'[o].type, AnyKey)
  <2>1. CASE o # th
    BY <2>1, <1>7, <1>11 DEF LastKeyedRegistrationWins, AnswerBound
  <2>2. CASE o = th /\ S # {}
    BY <2>2, <1>8, <1>9, <1>11, KeyedResult DEF Answered
  <2>3. CASE o = th /\ S = {} /\ A # {}
    <3>1. r.op = "GetKeyed" /\ request'[o] = r
      BY <2>3, <1>8, <1>11 DEF Answered
    <3>2. AnyKeyBindings(r) # {}
      BY <2>3, <3>1, AnyKeyCandidates
    <3>3. Satisfied(r) # {} /\ answer'[o] = Result(r)
      BY <2>3, <3>2, <1>9
    <3>4. PICK i \in Satisfied(r) : TRUE
      BY <3>3
    <3>5. i \in DOMAIN bindings /\ answer'[o] = <<i>>
      BY <2>3, <3>1, <3>3, <3>4, OwnResult DEF Satisfied
    <3>6. bindings[i].root = "own" /\ bindings[i].type = r.type /\ bindings[i].key = r.key
      BY <2>3, <3>1, <3>4, <3>5, OwnResult
    <3>7. bindings[i].from = Latest(A)
      BY <3>1, <3>5, <3>6 DEF OwnOK
    <3>. QED  BY <2>3, <3>1, <3>5, <3>6, <3>7
  <2>. QED  BY <2>1, <2>2, <2>3
<1>12. LastKeyedRegistrationWins' /\ AnswerBound'
  BY <1>1, <1>11 DEF LastKeyedRegistrationWins, AnswerBound
<1>. QED  BY <1>4, <1>5, <1>6, <1>10, <1>12

LEMMA MissStep ==
    ASSUME ResolutionInv, NEW th \in Thread, NEW r \in Request, Miss(th, r)
    PROVE  ResolutionInv'
<1>. USE DEF ResolutionInv
<1>1. /\ built /\ pc[th] = "idle" /\ Satisfied(r) = {}
      /\ request' = [request EXCEPT ![th] = r]
      /\ pc' = [pc EXCEPT ![th] = "missing"]
      /\ UNCHANGED <<bindings, count, latest, built, answer>>
  BY DEF Miss
<1>2. PICK i \in AnyKeyBindings(r) : candidate' = [candidate EXCEPT ![th] = i]
  BY DEF Miss
<1>3. r.op = "GetKeyed" /\ StateOK
  BY <1>2 DEF AnyKeyBindings, RegistryInv
<1>4. Registered(r.type, AnyKey) # {} /\ i = Latest(Registered(r.type, AnyKey))
  BY <1>2, <1>3, AnyKeyCandidates
<1>5. i \in Nat
  BY <1>2, <1>3, BindingType DEF AnyKeyBindings
<1>6. \A t, k : Registered(t, k)' = Registered(t, k)
  BY <1>1 DEF Registered
<1>7. \A q : Satisfied(q)' = Satisfied(q)
  BY <1>1 DEF Satisfied, SatifiesRequest, IsLatest
<1>8. StateOK'
  BY <1>1, <1>2, <1>3, <1>5 DEF StateOK
<1>9. RegistryInv'
  BY <1>1, <1>6, <1>8
     DEF RegistryInv, BindingsOK, QuietUntilBuilt, ItemsAscend, IndexKnowsLatest
<1>10. OneBindingPerKey' /\ OwnOK'
  BY <1>1, <1>6 DEF OneBindingPerKey, OwnOK
<1>11. PendingOK'
  BY <1>1, <1>2, <1>3, <1>4, <1>6, <1>7 DEF PendingOK, StateOK
<1>12. \A o \in Thread : \A op :
             Answered(o, op)' => Answered(o, op) /\ request'[o] = request[o]
  BY <1>1, <1>3 DEF Answered, StateOK
<1>13. LastRegistrationWins' /\ LastKeyedRegistrationWins' /\ AnswerBound'
  BY <1>1, <1>6, <1>12 DEF LastRegistrationWins, LastKeyedRegistrationWins, AnswerBound
<1>. QED  BY <1>9, <1>10, <1>11, <1>13

\* The second look under the lock keeps one binding per key.
LEMMA AddMissingStep ==
    ASSUME ResolutionInv, NEW th \in Thread, AddMissing(th)
    PROVE  ResolutionInv'
<1>. USE DEF ResolutionInv
<1>. DEFINE r == request[th]
            A == Registered(r.type, AnyKey)
            b == NewBinding(r.type, r.key, "own", 0, TRUE, candidate[th])
            n == Len(bindings) + 1
<1>1. /\ pc[th] = "missing" /\ pc' = [pc EXCEPT ![th] = "retry"]
      /\ UNCHANGED <<count, latest, built, request, candidate, answer>>
      /\ bindings' = IF Satisfied(r) = {} THEN Append(bindings, b) ELSE bindings
  BY DEF AddMissing, StillMissing
<1>2. /\ r \in Request /\ r.op = "GetKeyed" /\ A # {} /\ candidate[th] = Latest(A)
      /\ StateOK /\ built /\ candidate[th] \in Nat
  BY <1>1 DEF PendingOK, RegistryInv, QuietUntilBuilt, StateOK
<1>3. r.type \in Type /\ r.key \in Key /\ r.key \in AllKeys
  BY <1>2, RequestType DEF AllKeys
<1>4. b \in Binding
  BY <1>2, <1>3 DEF NewBinding, Binding
<1>5. /\ b.root = "own" /\ b.implicit /\ b.type = r.type /\ b.key = r.key
      /\ b.from = candidate[th]
  BY DEF NewBinding
<1>6. \A o \in Thread : \A op : Answered(o, op)' => Answered(o, op)
  BY <1>1, <1>2 DEF Answered, StateOK
<1>. HIDE DEF b
<1>7. CASE Satisfied(r) # {}
  <2>1. bindings' = bindings
    BY <1>1, <1>7
  <2>2. \A t, k : Registered(t, k)' = Registered(t, k)
    BY <2>1 DEF Registered
  <2>3. \A q : Satisfied(q)' = Satisfied(q)
    BY <1>1, <2>1 DEF Satisfied, SatifiesRequest, IsLatest
  <2>4. RegistryInv'
    BY <1>1, <1>2, <2>1, <2>2
       DEF RegistryInv, StateOK, BindingsOK, QuietUntilBuilt, ItemsAscend, IndexKnowsLatest
  <2>5. OneBindingPerKey' /\ OwnOK'
    BY <2>1, <2>2 DEF OneBindingPerKey, OwnOK
  <2>6. PendingOK'
    BY <1>1, <1>2, <1>7, <2>2, <2>3 DEF PendingOK, StateOK
  <2>7. LastRegistrationWins' /\ LastKeyedRegistrationWins' /\ AnswerBound'
    BY <1>1, <1>6, <2>1, <2>2
       DEF LastRegistrationWins, LastKeyedRegistrationWins, AnswerBound
  <2>. QED  BY <2>4, <2>5, <2>6, <2>7
<1>8. CASE Satisfied(r) = {}
  <2>0. bindings' = Append(bindings, b)
    BY <1>1, <1>8
  <2>1. /\ bindings' \in Seq(Binding)
        /\ DOMAIN bindings' = DOMAIN bindings \cup {n}
        /\ bindings'[n] = b
        /\ \A i \in DOMAIN bindings : bindings'[i] = bindings[i] /\ i # n
    BY <1>2, <1>4, <2>0, AppendBinding
  <2>. HIDE DEF n
  <2>2. \A t, k : Registered(t, k)' = Registered(t, k)
    BY <1>2, <1>4, <1>5, <2>0, RegisteredKept
  <2>3. \A q : Satisfied(q) \subseteq Satisfied(q)'
    BY <1>1, <2>1 DEF Satisfied, SatifiesRequest, IsLatest
  <2>4. Registered(r.type, r.key) = {}
    BY <1>2, <1>8, KeyedResult
  <2>5. \A i \in DOMAIN bindings : bindings[i].root = "own"
           => ~(bindings[i].type = r.type /\ bindings[i].key = r.key)
    BY <1>2, <1>8, <2>4, OwnResult
  <2>6. StateOK' /\ BindingsOK' /\ QuietUntilBuilt'
    BY <1>1, <1>2, <1>3, <1>5, <2>1
       DEF StateOK, RegistryInv, BindingsOK, QuietUntilBuilt
  <2>7. ItemsAscend' /\ IndexKnowsLatest'
    BY <1>1, <1>4, <1>5, <2>0, RegistryAppend
  <2>8. OneBindingPerKey'
    BY <1>5, <2>1, <2>5 DEF OneBindingPerKey, RegistryInv, BindingsOK
  <2>9. OwnOK'
    BY <1>2, <1>5, <2>1, <2>2, <2>4 DEF OwnOK
  <2>10. Satisfied(r)' # {}
    <3>1. request' = request /\ n \in DOMAIN bindings' /\ bindings'[n] = b
      BY <1>1, <2>1
    <3>2. MatchesKey(b, r.key) /\ b.root # "populate"
      BY <1>3, <1>5, KeysAssumption DEF MatchesKey
    <3>3. n \in Satisfied(r)'
      BY <1>2, <1>5, <3>1, <3>2
         DEF Satisfied, SatifiesRequest, MeetsConstraint, MatchesKey, IsLatest
    <3>. QED  BY <3>3
  <2>11. PendingOK'
    BY <1>1, <1>2, <2>2, <2>3, <2>10 DEF PendingOK, StateOK
  <2>12. LastRegistrationWins'
    BY <1>1, <1>6, <2>2 DEF LastRegistrationWins
  <2>13. LastKeyedRegistrationWins' /\ AnswerBound'
    BY <1>1, <1>6, <2>1, <2>2 DEF LastKeyedRegistrationWins, AnswerBound
  <2>. QED  BY <2>6, <2>7, <2>8, <2>9, <2>11, <2>12, <2>13 DEF RegistryInv
<1>. QED  BY <1>7, <1>8

\* The end of Build, and stuttering.
LEMMA SameBindings ==
    ASSUME ResolutionInv, built' \in {built, TRUE},
           UNCHANGED <<bindings, count, latest, pc, request, candidate, answer>>
    PROVE  ResolutionInv'
<1>. USE DEF ResolutionInv
<1>1. \A t, k : Registered(t, k)' = Registered(t, k)
  BY DEF Registered
<1>2. \A q : Satisfied(q)' = Satisfied(q)
  BY DEF Satisfied, SatifiesRequest, IsLatest
<1>3. StateOK'
  <2>1. StateOK
    BY DEF RegistryInv
  <2>2. built' \in BOOLEAN
    BY <2>1 DEF StateOK
  <2>3. answer' = [th \in Thread |-> answer'[th]]
    BY <2>1, Zenon DEF StateOK
  <2>. QED  BY <2>1, <2>2, <2>3 DEF StateOK
<1>4. BindingsOK' /\ ItemsAscend' /\ IndexKnowsLatest'
  BY <1>1 DEF RegistryInv, BindingsOK, ItemsAscend, IndexKnowsLatest
<1>5. QuietUntilBuilt'
  <2>. SUFFICES ASSUME ~built' PROVE QuietUntilBuilt'
    BY DEF QuietUntilBuilt
  <2>1. ~built
    OBVIOUS
  <2>. QED  BY <2>1 DEF RegistryInv, QuietUntilBuilt
<1>6. OneBindingPerKey' /\ OwnOK' /\ PendingOK'
  BY <1>1, <1>2 DEF OneBindingPerKey, OwnOK, PendingOK
<1>7. LastRegistrationWins' /\ LastKeyedRegistrationWins' /\ AnswerBound'
  BY <1>1 DEF LastRegistrationWins, LastKeyedRegistrationWins, AnswerBound, Answered
<1>. QED  BY <1>3, <1>4, <1>5, <1>6, <1>7 DEF RegistryInv

LEMMA ResolutionStep == ResolutionInv /\ [Next]_vars => ResolutionInv'
<1>. SUFFICES ASSUME ResolutionInv, [Next]_vars PROVE ResolutionInv'
  OBVIOUS
<1>0. RegistryInv /\ StateOK
  BY DEF ResolutionInv, RegistryInv
<1>1. ASSUME NEW t \in Type, NEW k \in AllKeys, Populate(t, k) PROVE ResolutionInv'
  <2>1. RegistryInv' /\ ~built'
    BY <1>0, <1>1, PopulateStep
  <2>2. (RegistryInv /\ ~built => OneBindingPerKey /\ OwnOK /\ PendingOK /\ AnswerBound
           /\ LastRegistrationWins /\ LastKeyedRegistrationWins)'
    BY QuietInv, PTL
  <2>. QED  BY <2>1, <2>2 DEF ResolutionInv
<1>2. ASSUME NEW t \in Type, BindNative(t) PROVE ResolutionInv'
  <2>1. RegistryInv' /\ ~built'
    BY <1>0, <1>2, BindNativeStep
  <2>2. (RegistryInv /\ ~built => OneBindingPerKey /\ OwnOK /\ PendingOK /\ AnswerBound
           /\ LastRegistrationWins /\ LastKeyedRegistrationWins)'
    BY QuietInv, PTL
  <2>. QED  BY <2>1, <2>2 DEF ResolutionInv
<1>3. CASE Build
  BY <1>3, SameBindings DEF Build
<1>4. ASSUME NEW th \in Thread, NEW r \in Request, Answer(th, r) PROVE ResolutionInv'
  <2>1. pc' = [pc EXCEPT ![th] = "idle"]
    BY <1>0, <1>4 DEF Answer, StateOK
  <2>. QED  BY <2>1, <1>4, AnswerStep DEF Answer
<1>5. ASSUME NEW th \in Thread, NEW r \in Request, Miss(th, r) PROVE ResolutionInv'
  BY <1>5, MissStep
<1>6. ASSUME NEW th \in Thread, AddMissing(th) PROVE ResolutionInv'
  BY <1>6, AddMissingStep
<1>7. ASSUME NEW th \in Thread, Retry(th) PROVE ResolutionInv'
  <2>. DEFINE r == request[th]
  <2>1. r \in Request /\ Satisfied(r) # {} /\ built
    BY <1>0, <1>7 DEF Retry, ResolutionInv, PendingOK, RegistryInv, QuietUntilBuilt
  <2>2. request' = [request EXCEPT ![th] = r]
    BY <1>0, <1>7 DEF Retry, StateOK
  <2>3. /\ answer' = [answer EXCEPT ![th] = Result(r)]
        /\ pc' = [pc EXCEPT ![th] = "idle"]
        /\ UNCHANGED <<bindings, count, latest, built, candidate>>
    BY <1>7, <2>1 DEF Retry
  <2>. HIDE DEF r
  <2>. QED  BY <2>1, <2>2, <2>3, AnswerStep
<1>8. CASE UNCHANGED vars
  BY <1>8, SameBindings DEF vars
<1>. QED  BY <1>1, <1>2, <1>3, <1>4, <1>5, <1>6, <1>7, <1>8 DEF Next

LEMMA ResolutionInvariant == Spec => []ResolutionInv
BY InitOK, ResolutionStep, PTL DEF Spec

\* Of any number of descriptors of one type without a key, whatever else is
\* bound and resolved, the one registered last answers a request for a single
\* service (AspNetCoreKernel.cs:35-49 with BindingIndex.IsLatest).
THEOREM LastWins == Spec => []LastRegistrationWins
<1>1. ResolutionInv => LastRegistrationWins
  BY DEF ResolutionInv
<1>. QED  BY <1>1, ResolutionInvariant, PTL

\* The same for requests with a key, and, where no descriptor has the key, for a
\* binding made of the last AnyKey descriptor, with any number of threads.
THEOREM LastKeyedWins == Spec => []LastKeyedRegistrationWins
<1>1. ResolutionInv => LastKeyedRegistrationWins
  BY DEF ResolutionInv
<1>. QED  BY <1>1, ResolutionInvariant, PTL

\* However many threads miss a binding for a key at once, one is added.
THEOREM OnePerKey == Spec => []OneBindingPerKey
<1>1. ResolutionInv => OneBindingPerKey
  BY DEF ResolutionInv
<1>. QED  BY <1>1, ResolutionInvariant, PTL

-----------------------------------------------------------------------------
(***************************************************************************)
(* Sorted is a permutation and follows the order                           *)
(***************************************************************************)
LEMMA CompareFacts ==
    ASSUME NEW x \in CriteriaRecord, NEW y \in CriteriaRecord, NEW z \in CriteriaRecord
    PROVE  /\ Compare(x, y) \in Int /\ Compare(y, x) = -Compare(x, y)
           /\ Compare(x, y) = 0 => Compare(x, z) = Compare(y, z)
           /\ Compare(y, z) = 0 => Compare(x, y) = Compare(x, z)
           /\ Compare(x, y) > 0 /\ Compare(y, z) > 0 => Compare(x, z) > 0
<1>1. ASSUME NEW u \in CriteriaRecord, NEW v \in CriteriaRecord
      PROVE  Compare(u, v) \in Int
  BY DEF CriteriaRecord, Compare, Bits, Bit
<1>2. ASSUME NEW u \in CriteriaRecord, NEW v \in CriteriaRecord, Compare(u, v) = 0
      PROVE  u = v
  <2>1. ~(Compare(u, v) > 0) /\ ~(Compare(v, u) > 0)
    BY <1>1, <1>2, CompareIsLexicographic
  <2>2. /\ u.precedence = v.precedence /\ u.conditional = v.conditional
        /\ u.closed = v.closed /\ u.explicit = v.explicit
    BY <2>1, CompareIsLexicographic DEF Above, CriteriaRecord
  <2>. QED  BY <2>2 DEF CriteriaRecord
<1>. QED  BY <1>1, <1>2, CompareIsLexicographic

LEMMA BeforeIsOrder ==
    ASSUME StateOK, NEW i \in DOMAIN bindings, NEW j \in DOMAIN bindings,
           NEW k \in DOMAIN bindings
    PROVE  /\ ~Before(i, i)
           /\ i # j => Before(i, j) \/ Before(j, i)
           /\ Before(i, j) => ~Before(j, i)
           /\ Before(i, j) /\ Before(j, k) => Before(i, k)
<1>1. PICK x, y, z : /\ x = Criteria(bindings[i]) /\ y = Criteria(bindings[j])
                     /\ z = Criteria(bindings[k])
  OBVIOUS
<1>2. x \in CriteriaRecord /\ y \in CriteriaRecord /\ z \in CriteriaRecord
  BY <1>1, CriteriaType
<1>3. i \in Nat /\ j \in Nat /\ k \in Nat  BY BindingType
<1>4. /\ Compare(x, y) \in Int /\ Compare(y, x) = -Compare(x, y)
      /\ Compare(y, z) \in Int /\ Compare(x, z) \in Int /\ Compare(x, x) \in Int
      /\ Compare(x, x) = -Compare(x, x)
      /\ Compare(x, y) = 0 => Compare(x, z) = Compare(y, z)
      /\ Compare(y, z) = 0 => Compare(x, y) = Compare(x, z)
      /\ Compare(x, y) > 0 /\ Compare(y, z) > 0 => Compare(x, z) > 0
  BY <1>2, CompareFacts
<1>5. /\ Before(i, j) <=> Compare(x, y) > 0 \/ (Compare(x, y) = 0 /\ i < j)
      /\ Before(j, i) <=> Compare(y, x) > 0 \/ (Compare(y, x) = 0 /\ j < i)
      /\ Before(j, k) <=> Compare(y, z) > 0 \/ (Compare(y, z) = 0 /\ j < k)
      /\ Before(i, k) <=> Compare(x, z) > 0 \/ (Compare(x, z) = 0 /\ i < k)
      /\ Before(i, i) <=> Compare(x, x) > 0 \/ (Compare(x, x) = 0 /\ i < i)
  BY <1>1 DEF Before
<1>6. PICK xy, yx, yz, xz, xx : /\ xy = Compare(x, y) /\ yx = Compare(y, x)
                                /\ yz = Compare(y, z) /\ xz = Compare(x, z)
                                /\ xx = Compare(x, x)
  OBVIOUS
<1>. QED  BY <1>3, <1>4, <1>5, <1>6

\* How many bindings of S come before i.
Ahead(S, i) == {j \in S \ {i} : Before(j, i)}
Rank(S, i) == Cardinality(Ahead(S, i)) + 1

LEMMA RankFacts ==
    ASSUME StateOK, NEW S \in SUBSET DOMAIN bindings, NEW i \in S
    PROVE  /\ Rank(S, i) \in 1 .. Cardinality(S)
           /\ \A j \in S : Before(i, j) => Rank(S, i) < Rank(S, j)
<1>1. \A j \in S : IsFiniteSet(Ahead(S, j)) /\ Cardinality(Ahead(S, j)) \in Nat
  BY FiniteBindings DEF Ahead
<1>2. Rank(S, i) \in 1 .. Cardinality(S)
  <2>1. IsFiniteSet(S \ {i}) /\ Cardinality(S \ {i}) = Cardinality(S) - 1
    BY FiniteBindings, FS_RemoveElement
  <2>2. Cardinality(Ahead(S, i)) <= Cardinality(S \ {i})
    BY <2>1, FS_Subset DEF Ahead
  <2>3. PICK c : c = Cardinality(Ahead(S, i))  OBVIOUS
  <2>4. PICK n : n = Cardinality(S)  OBVIOUS
  <2>5. n \in Nat  BY <2>4, FiniteBindings
  <2>. QED  BY <1>1, <2>1, <2>2, <2>3, <2>4, <2>5 DEF Rank
<1>3. ASSUME NEW j \in S, Before(i, j)
      PROVE  Rank(S, i) < Rank(S, j)
  <2>1. Ahead(S, i) \subseteq Ahead(S, j)
    BY <1>3, BeforeIsOrder DEF Ahead
  <2>2. i \in Ahead(S, j) /\ i \notin Ahead(S, i)
    BY <1>3, BeforeIsOrder DEF Ahead
  <2>3. Cardinality(Ahead(S, i)) <= Cardinality(Ahead(S, j))
    BY <1>1, <2>1, FS_Subset
  <2>4. Cardinality(Ahead(S, i)) # Cardinality(Ahead(S, j))
    BY <1>1, <2>1, <2>2, FS_Subset
  <2>5. PICK c, d : c = Cardinality(Ahead(S, i)) /\ d = Cardinality(Ahead(S, j))
    OBVIOUS
  <2>. QED  BY <1>1, <2>3, <2>4, <2>5 DEF Rank
<1>. QED  BY <1>2, <1>3

\* Every binding stands where its rank says, and every place is taken.
LEMMA SortedByRank ==
    ASSUME StateOK, NEW S \in SUBSET DOMAIN bindings
    PROVE  /\ Sorted(S) \in Seq(S) /\ Len(Sorted(S)) = Cardinality(S)
           /\ \A k \in 1 .. Cardinality(S) :
                 Sorted(S)[k] \in S /\ Rank(S, Sorted(S)[k]) = k
           /\ \A i \in S : Sorted(S)[Rank(S, i)] = i
<1>1. PICK n : n = Cardinality(S)  OBVIOUS
<1>2. n \in Nat /\ IsFiniteSet(S)  BY <1>1, FiniteBindings
<1>. DEFINE rank == [i \in S |-> Rank(S, i)]
<1>3. \A i \in S : Rank(S, i) \in 1 .. n  BY <1>1, RankFacts
<1>4. \A i, j \in S : i # j => Rank(S, i) # Rank(S, j)
  <2>1. \A i, j \in S : Before(i, j) => Rank(S, i) < Rank(S, j)  BY RankFacts
  <2>2. \A i, j \in S : i # j => Before(i, j) \/ Before(j, i)  BY BeforeIsOrder
  <2>. QED  BY <1>3, <2>1, <2>2
<1>5. rank \in Injection(S, 1 .. n)  BY <1>3, <1>4 DEF Injection, IsInjective
<1>6. IsFiniteSet(1 .. n) /\ Cardinality(1 .. n) = n  BY <1>2, FS_Interval
<1>7. rank \in Surjection(S, 1 .. n)
  <2>. HIDE DEF rank
  <2>. QED  BY <1>1, <1>5, <1>6, FS_Injection
<1>8. \A k \in 1 .. n : \E i \in S : Rank(S, i) = k
  BY <1>7 DEF Surjection
<1>9. ASSUME NEW k \in 1 .. n, NEW i \in S, Rank(S, i) = k
      PROVE  Sorted(S)[k] = i
  <2>1. \A j \in S : Cardinality(Ahead(S, j)) \in Nat
    BY FiniteBindings DEF Ahead
  <2>2. \A j \in S : Cardinality(Ahead(S, j)) = k - 1 <=> Rank(S, j) = k
    BY <1>2, <2>1 DEF Rank
  <2>3. (CHOOSE j \in S : Cardinality(Ahead(S, j)) = k - 1) = i
    BY <1>4, <1>9, <2>2
  <2>. QED  BY <1>1, <2>3 DEF Sorted, Ahead
<1>10. \A k \in 1 .. n : Sorted(S)[k] \in S /\ Rank(S, Sorted(S)[k]) = k
  BY <1>8, <1>9
<1>11. Sorted(S) \in [1 .. n -> S]
  <2>. DEFINE F(k) == CHOOSE i \in S :
                         Cardinality({j \in S \ {i} : Before(j, i)}) = k - 1
  <2>1. Sorted(S) = [k \in 1 .. n |-> F(k)]  BY <1>1 DEF Sorted
  <2>. HIDE DEF F
  <2>2. \A k \in 1 .. n : F(k) \in S  BY <1>10, <2>1
  <2>. QED  BY <2>1, <2>2
<1>12. Sorted(S) \in Seq(S) /\ Len(Sorted(S)) = n  BY <1>2, <1>11
<1>. QED  BY <1>1, <1>3, <1>9, <1>10, <1>12

\* What comes before all the rest takes the first places.
LEMMA SortedPrefix ==
    ASSUME StateOK, NEW S \in SUBSET DOMAIN bindings, NEW R \in SUBSET S,
           \A i \in R : \A j \in S \ R : Before(i, j)
    PROVE  /\ {Sorted(S)[k] : k \in 1 .. Cardinality(R)} = R
           /\ Cardinality(R) <= Cardinality(S)
           /\ \A k \in 1 .. Cardinality(S) :
                 k > Cardinality(R) => Sorted(S)[k] \notin R
<1>1. PICK m, n : m = Cardinality(R) /\ n = Cardinality(S)  OBVIOUS
<1>2. m \in Nat /\ n \in Nat /\ m <= n /\ IsFiniteSet(R) /\ IsFiniteSet(S)
  BY <1>1, FiniteBindings, FS_Subset
<1>3. ASSUME NEW i \in R
      PROVE  Rank(S, i) \in 1 .. m
  <2>1. Ahead(S, i) \subseteq R \ {i}
    BY BeforeIsOrder DEF Ahead
  <2>2. IsFiniteSet(R \ {i}) /\ Cardinality(R \ {i}) = m - 1
    BY <1>1, <1>2, FS_RemoveElement
  <2>3. Cardinality(Ahead(S, i)) <= m - 1 /\ Cardinality(Ahead(S, i)) \in Nat
    BY <2>1, <2>2, FS_Subset, FiniteBindings
  <2>4. PICK c : c = Cardinality(Ahead(S, i))  OBVIOUS
  <2>. QED  BY <1>2, <2>3, <2>4 DEF Rank
<1>. DEFINE T == {Sorted(S)[k] : k \in 1 .. m}
            s == [k \in 1 .. m |-> Sorted(S)[k]]
<1>4. R \subseteq T  BY <1>3, SortedByRank
<1>5. s \in Surjection(1 .. m, T)  BY DEF Surjection
<1>6. IsFiniteSet(1 .. m) /\ Cardinality(1 .. m) = m  BY <1>2, FS_Interval
<1>7. IsFiniteSet(T) /\ Cardinality(T) <= m
  <2>. HIDE DEF T, s
  <2>. QED  BY <1>5, <1>6, FS_Surjection
<1>8. T = R
  <2>. HIDE DEF T, s
  <2>1. Cardinality(R) <= Cardinality(T) /\ (Cardinality(T) = Cardinality(R) => T = R)
    BY <1>4, <1>7, FS_Subset
  <2>2. Cardinality(T) \in Nat  BY <1>7, FS_CardinalityType
  <2>3. PICK c : c = Cardinality(T)  OBVIOUS
  <2>. QED  BY <1>1, <1>2, <1>7, <2>1, <2>2, <2>3
<1>9. ASSUME NEW k \in 1 .. n, k > m
      PROVE  Sorted(S)[k] \notin R
  BY <1>1, <1>2, <1>3, <1>9, SortedByRank
<1>. QED  BY <1>1, <1>2, <1>8, <1>9

-----------------------------------------------------------------------------
(***************************************************************************)
(* What a request for a collection gets                                    *)
(***************************************************************************)
\* Where there are descriptors of the type and key: they, in their order, and
\* then the bindings of modules.
Ordered(r, s) ==
    LET S == Registered(r.type, r.key)
        n == Cardinality(S)
    IN  S # {} =>
            /\ {s[i] : i \in 1 .. n} = S
            /\ IsIncreasing(SubSeq(s, 1, n))
            /\ \A i \in DOMAIN s : i > n => bindings[s[i]].root = "none"

\* Every descriptor with a key but those with AnyKey.
AllWithKey(r, s) ==
    LET S == UNION {Registered(r.type, k) : k \in Key}
    IN  S # {} => {s[i] : i \in DOMAIN s} = S

LEMMA CollectionBindings ==
    ASSUME RegistryInv, NEW r \in Request, ~IsUnique(r)
    PROVE  LET C == ForCollection(Satisfied(r))
           IN  /\ C \in SUBSET DOMAIN bindings
               /\ Satisfied(r) # {} => Result(r) = Sorted(C)
               /\ C \subseteq Satisfied(r)
<1>1. Satisfied(r) \in SUBSET DOMAIN bindings  BY DEF Satisfied
<1>2. ForCollection(Satisfied(r)) \subseteq Satisfied(r)  BY DEF ForCollection
<1>3. Result(r) = Sorted(ForCollection(Satisfied(r)))  BY DEF Result
<1>. QED  BY <1>1, <1>2, <1>3

\* Descriptors are sorted by their position.
LEMMA DescriptorOrder ==
    ASSUME RegistryInv, NEW i \in DOMAIN bindings, NEW j \in DOMAIN bindings,
           bindings[i].root = "populate", bindings[j].root = "populate", Before(i, j)
    PROVE  i < j
<1>. SUFFICES ASSUME ~(i < j) PROVE FALSE  OBVIOUS
<1>1. /\ bindings[i] \in Binding /\ bindings[j] \in Binding
      /\ i \in Nat /\ j \in Nat /\ count \in Nat /\ StateOK
  BY BindingType DEF RegistryInv, StateOK
<1>2. i # j  BY <1>1, BeforeIsOrder
<1>3. bindings[j].total < bindings[i].total
  BY <1>1, <1>2 DEF RegistryInv, ItemsAscend
<1>4. /\ Precedence(bindings[i]) = count - bindings[i].total
      /\ Precedence(bindings[j]) = count - bindings[j].total
  BY DEF Precedence
<1>5. Criteria(bindings[j]).precedence > Criteria(bindings[i]).precedence
  BY <1>1, <1>3, <1>4 DEF Criteria, Binding
<1>6. PICK x, y : x = Criteria(bindings[i]) /\ y = Criteria(bindings[j])  OBVIOUS
<1>7. x \in CriteriaRecord /\ y \in CriteriaRecord  BY <1>1, <1>6, CriteriaType
<1>8. Compare(y, x) > 0 /\ Compare(x, y) < 0  BY <1>5, <1>6, <1>7, ComparePrecedence
<1>9. Compare(x, y) \in Int  BY <1>7, CompareFacts
<1>10. Before(i, j) <=> Compare(x, y) > 0 \/ (Compare(x, y) = 0 /\ i < j)
  BY <1>6 DEF Before
<1>. QED  BY <1>8, <1>9, <1>10

LEMMA OrderedResult ==
    ASSUME RegistryInv, NEW r \in Request, r.op \in {"GetAll", "GetAllKeyed"},
           r.key # AnyKey, Registered(r.type, r.key) # {}
    PROVE  Satisfied(r) # {} /\ Ordered(r, Result(r))
<1>. DEFINE C == ForCollection(Satisfied(r))
            R == Registered(r.type, r.key)
<1>0. StateOK /\ (r.op = "GetAll" <=> r.key = NoKey)
  BY DEF RegistryInv, Request
<1>1. \A i \in DOMAIN bindings :
         i \in Satisfied(r) <=> bindings[i].type = r.type /\ bindings[i].key = r.key
  BY <1>0 DEF Satisfied, SatifiesRequest, MeetsConstraint, MatchesKey, IsUnique
<1>2. R \subseteq Satisfied(r)  BY <1>1 DEF Registered
<1>3. \A i \in DOMAIN bindings :
         /\ bindings[i] \in Binding
         /\ bindings[i].root = "own" <=> bindings[i].implicit
  BY <1>0, BindingType DEF RegistryInv, BindingsOK
<1>4. /\ C = {i \in Satisfied(r) : ~bindings[i].implicit}
      /\ R \subseteq C
  BY <1>2, <1>3 DEF ForCollection, Registered
<1>5. \A i \in C \ R : i \in DOMAIN bindings /\ bindings[i].root = "none"
  BY <1>1, <1>3, <1>4 DEF Registered, Satisfied, Binding
<1>6. C \in SUBSET DOMAIN bindings /\ Satisfied(r) # {} /\ Result(r) = Sorted(C)
  BY <1>2, CollectionBindings DEF IsUnique
<1>7. \A i \in R : \A j \in C \ R : Before(i, j)
  BY <1>5, DescriptorFirst DEF Registered
<1>8. PICK s, n, c : s = Sorted(C) /\ n = Cardinality(R) /\ c = Cardinality(C)  OBVIOUS
<1>. HIDE DEF C
<1>9. /\ {s[k] : k \in 1 .. n} = R /\ n <= c
      /\ \A k \in 1 .. c : k > n => s[k] \notin R
  <2>1. /\ {Sorted(C)[k] : k \in 1 .. Cardinality(R)} = R
        /\ Cardinality(R) <= Cardinality(C)
        /\ \A k \in 1 .. Cardinality(C) : k > Cardinality(R) => Sorted(C)[k] \notin R
    <3>1. R \in SUBSET C  BY <1>4
    <3>. HIDE DEF R
    <3>. QED  BY <1>0, <3>1, <1>6, <1>7, SortedPrefix
  <2>. QED  BY <2>1, <1>8
<1>10. /\ s \in Seq(C) /\ Len(s) = c /\ c \in Nat /\ n \in Nat
       /\ \A k \in 1 .. c : s[k] \in C /\ Rank(C, s[k]) = k
  BY <1>0, <1>4, <1>6, <1>8, SortedByRank, FiniteBindings
<1>11. \A i \in DOMAIN s : i > n => bindings[s[i]].root = "none"
  <2>1. DOMAIN s = 1 .. c  BY <1>10
  <2>. QED  BY <2>1, <1>5, <1>9, <1>10
<1>12. IsIncreasing(SubSeq(s, 1, n))
  <2>1. PICK t : t = SubSeq(s, 1, n)  OBVIOUS
  <2>2. DOMAIN t = 1 .. n /\ \A k \in 1 .. n : t[k] = s[k]
    BY <2>1, <1>9, <1>10
  <2>3. ASSUME NEW a \in 1 .. n, NEW b \in 1 .. n, a < b
        PROVE  s[a] < s[b]
    <3>1. s[a] \in R /\ s[b] \in R /\ s[a] \in C /\ s[b] \in C
      BY <1>9, <1>10
    <3>2. Rank(C, s[a]) = a /\ Rank(C, s[b]) = b  BY <1>9, <1>10
    <3>3. ~Before(s[b], s[a])
      BY <1>0, <1>6, <3>1, <3>2, <2>3, RankFacts
    <3>4. Before(s[a], s[b])
      BY <1>0, <1>6, <3>1, <3>2, <3>3, <2>3, BeforeIsOrder
    <3>. QED  BY <3>1, <3>4, DescriptorOrder DEF Registered
  <2>. QED  BY <2>1, <2>2, <2>3 DEF IsIncreasing
<1>. QED  BY <1>6, <1>8, <1>9, <1>11, <1>12 DEF Ordered

LEMMA AnyKeyResult ==
    ASSUME RegistryInv, NEW r \in Request, r.op = "GetAllKeyed", r.key = AnyKey,
           UNION {Registered(r.type, k) : k \in Key} # {}
    PROVE  Satisfied(r) # {} /\ AllWithKey(r, Result(r))
<1>. DEFINE C == ForCollection(Satisfied(r))
            R == UNION {Registered(r.type, k) : k \in Key}
<1>0. StateOK  BY DEF RegistryInv
<1>1. \A i \in DOMAIN bindings :
         i \in Satisfied(r) <=>
            bindings[i].type = r.type /\ bindings[i].key \notin {NoKey, AnyKey}
  BY DEF Satisfied, SatifiesRequest, MeetsConstraint, MatchesKey, IsUnique
<1>2. \A i \in DOMAIN bindings :
         /\ bindings[i] \in Binding
         /\ bindings[i].root = "own" <=> bindings[i].implicit
         /\ bindings[i].root = "none" => bindings[i].key = NoKey
  BY <1>0, BindingType DEF RegistryInv, BindingsOK
<1>3. R \subseteq Satisfied(r)  BY <1>1, KeysAssumption DEF Registered
<1>4. \A i \in R : ~bindings[i].implicit  BY <1>2 DEF Registered
<1>5. C = {i \in Satisfied(r) : ~bindings[i].implicit}
  BY <1>3, <1>4 DEF ForCollection
<1>6. ASSUME NEW i \in C
      PROVE  i \in R
  <2>1. /\ i \in DOMAIN bindings /\ bindings[i].root = "populate"
        /\ bindings[i].type = r.type /\ bindings[i].key \in Key
    BY <1>1, <1>2, <1>5, <1>6 DEF Binding, AllKeys, Satisfied
  <2>. QED  BY <2>1 DEF Registered
<1>7. C = R  BY <1>3, <1>4, <1>5, <1>6
<1>8. C \in SUBSET DOMAIN bindings /\ Satisfied(r) # {} /\ Result(r) = Sorted(C)
  BY <1>3, CollectionBindings DEF IsUnique
<1>9. PICK s, c : s = Sorted(C) /\ c = Cardinality(C)  OBVIOUS
<1>. HIDE DEF C, R
<1>10. /\ s \in Seq(C) /\ Len(s) = c /\ c \in Nat
       /\ \A k \in 1 .. c : s[k] \in C
       /\ \A i \in C : Rank(C, i) \in 1 .. c /\ s[Rank(C, i)] = i
  BY <1>0, <1>8, <1>9, SortedByRank, RankFacts, FiniteBindings
<1>11. {s[i] : i \in DOMAIN s} = C
  <2>1. DOMAIN s = 1 .. c  BY <1>10
  <2>. QED  BY <2>1, <1>10
<1>12. {Result(r)[i] : i \in DOMAIN Result(r)} = C  BY <1>8, <1>9, <1>11
<1>. QED  BY <1>7, <1>8, <1>12 DEF AllWithKey, R

LEMMA ResultType ==
    ASSUME RegistryInv, NEW r \in Request, Satisfied(r) # {}
    PROVE  /\ Result(r) \in Seq(Nat)
           /\ r.op \in {"GetAll", "GetAllKeyed"} => Result(r) \in Seq(DOMAIN bindings)
<1>0. StateOK /\ DOMAIN bindings \subseteq Nat
  BY BindingType DEF RegistryInv
<1>1. CASE IsUnique(r)
  <2>1. Satisfied(r) \in SUBSET DOMAIN bindings  BY DEF Satisfied
  <2>2. PICK s : s = Sorted(Satisfied(r))  OBVIOUS
  <2>3. Cardinality(Satisfied(r)) \in Nat /\ Cardinality(Satisfied(r)) # 0
    BY <1>0, <2>1, FiniteBindings, FS_EmptySet
  <2>4. s[1] \in Nat  BY <1>0, <2>1, <2>2, <2>3, SortedByRank
  <2>5. Result(r) \in {Ambiguous, <<s[1]>>}  BY <1>1, <2>2 DEF Result
  <2>6. Ambiguous \in Seq(Nat) /\ <<s[1]>> \in Seq(Nat)  BY <2>4 DEF Ambiguous
  <2>7. r.op \notin {"GetAll", "GetAllKeyed"}  BY <1>1 DEF IsUnique
  <2>. QED  BY <2>5, <2>6, <2>7
<1>2. CASE ~IsUnique(r)
  <2>2. PICK C \in SUBSET DOMAIN bindings : Result(r) = Sorted(C)
    BY <1>2, CollectionBindings
  <2>3. Result(r) \in Seq(C) /\ C \subseteq Nat  BY <1>0, <2>2, SortedByRank
  <2>. QED  BY <2>2, <2>3
<1>. QED  BY <1>1, <1>2

-----------------------------------------------------------------------------
(***************************************************************************)
(* The answers threads were given stay right                               *)
(***************************************************************************)
Collected(th) == Answered(th, "GetAll") \/ Answered(th, "GetAllKeyed")

\* The last answer to a request for a collection.
CollectedOK ==
    \A th \in Thread : Collected(th) =>
        /\ request[th] \in Request
        /\ answer[th] \in Seq(DOMAIN bindings)
        /\ request[th].key # AnyKey => Ordered(request[th], answer[th])
        /\ request[th].op = "GetAllKeyed" /\ request[th].key = AnyKey =>
              AllWithKey(request[th], answer[th])

CollectionInv == ResolutionInv /\ answer \in [Thread -> Seq(Nat)] /\ CollectedOK

\* Before Build is through nobody was told anything.
LEMMA QuietCollections ==
    ASSUME RegistryInv, ~built
    PROVE  CollectedOK
BY DEF RegistryInv, QuietUntilBuilt, CollectedOK, Collected, Answered

\* A thread that gets no new answer keeps a right one: a binding may have been
\* added, but no descriptor.
LEMMA OldAnswer ==
    ASSUME CollectionInv, NEW th \in Thread, Collected(th)',
           Collected(th), request'[th] = request[th], answer'[th] = answer[th],
           \A t, k : Registered(t, k)' = Registered(t, k),
           DOMAIN bindings \subseteq DOMAIN bindings',
           \A i \in DOMAIN bindings : bindings'[i] = bindings[i]
    PROVE  /\ request'[th] \in Request
           /\ answer'[th] \in Seq(DOMAIN bindings')
           /\ request'[th].key # AnyKey => Ordered(request[th], answer[th])'
           /\ request'[th].op = "GetAllKeyed" /\ request'[th].key = AnyKey =>
                 AllWithKey(request[th], answer[th])'
<1>1. PICK r, s : r = request[th] /\ s = answer[th]  OBVIOUS
<1>2. /\ r \in Request /\ s \in Seq(DOMAIN bindings)
      /\ r.key # AnyKey => Ordered(r, s)
      /\ r.op = "GetAllKeyed" /\ r.key = AnyKey => AllWithKey(r, s)
  BY <1>1 DEF CollectionInv, CollectedOK
<1>3. s \in Seq(DOMAIN bindings')
  BY <1>2
<1>4. \A i \in DOMAIN s : s[i] \in DOMAIN bindings  BY <1>2
<1>5. r.key # AnyKey => Ordered(r, s)'
  BY <1>2, <1>4 DEF Ordered
<1>6. r.op = "GetAllKeyed" /\ r.key = AnyKey => AllWithKey(r, s)'
  BY <1>2 DEF AllWithKey
<1>7. request'[th] = r /\ answer'[th] = s  BY <1>1
<1>. QED  BY <1>2, <1>3, <1>5, <1>6, <1>7

LEMMA NewAnswer ==
    ASSUME CollectionInv, NEW th \in Thread, NEW r \in Request,
           UNCHANGED <<bindings, count, latest>>,
           request' = [request EXCEPT ![th] = r],
           answer' = [answer EXCEPT ![th] = IF Satisfied(r) = {} THEN Nothing
                                            ELSE Result(r)],
           \A o \in Thread \ {th} : pc'[o] = pc[o]
    PROVE  answer' \in [Thread -> Seq(Nat)] /\ CollectedOK'
<1>0. StateOK /\ RegistryInv /\ answer \in [Thread -> Seq(Nat)]
  BY DEF CollectionInv, ResolutionInv, RegistryInv
<1>1. PICK s : s = IF Satisfied(r) = {} THEN Nothing ELSE Result(r)  OBVIOUS
<1>2. s \in Seq(Nat)  BY <1>0, <1>1, ResultType DEF Nothing
<1>3. /\ answer'[th] = s /\ request'[th] = r
      /\ \A o \in Thread \ {th} : answer'[o] = answer[o] /\ request'[o] = request[o]
      /\ answer' \in [Thread -> Seq(Nat)]
  BY <1>0, <1>1, <1>2 DEF StateOK
<1>4. \A t, k : Registered(t, k)' = Registered(t, k)  BY DEF Registered
<1>5. ASSUME Collected(th)'
      PROVE  /\ s \in Seq(DOMAIN bindings)
             /\ r.key # AnyKey => Ordered(r, s)
             /\ r.op = "GetAllKeyed" /\ r.key = AnyKey => AllWithKey(r, s)
  <2>1. r.op \in {"GetAll", "GetAllKeyed"}
    BY <1>3, <1>5 DEF Collected, Answered
  <2>2. s \in Seq(DOMAIN bindings)
    <3>1. CASE Satisfied(r) = {}  BY <1>1, <3>1 DEF Nothing
    <3>2. CASE Satisfied(r) # {}  BY <1>0, <1>1, <2>1, <3>2, ResultType
    <3>. QED  BY <3>1, <3>2
  <2>3. r.key # AnyKey => Ordered(r, s)
    <3>1. CASE Registered(r.type, r.key) = {}  BY <3>1 DEF Ordered
    <3>2. CASE Registered(r.type, r.key) # {}
      BY <1>0, <1>1, <2>1, <3>2, OrderedResult
    <3>. QED  BY <3>1, <3>2
  <2>4. r.op = "GetAllKeyed" /\ r.key = AnyKey => AllWithKey(r, s)
    <3>1. CASE UNION {Registered(r.type, k) : k \in Key} = {}
      BY <3>1 DEF AllWithKey
    <3>2. CASE UNION {Registered(r.type, k) : k \in Key} # {}
      BY <1>0, <1>1, <3>2, AnyKeyResult
    <3>. QED  BY <3>1, <3>2
  <2>. QED  BY <2>2, <2>3, <2>4
<1>6. \A q, a : Ordered(q, a)' = Ordered(q, a) /\ AllWithKey(q, a)' = AllWithKey(q, a)
  BY <1>4 DEF Ordered, AllWithKey
<1>7. CollectedOK'
  <2>. SUFFICES ASSUME NEW o \in Thread, Collected(o)'
                PROVE  /\ request'[o] \in Request
                       /\ answer'[o] \in Seq(DOMAIN bindings')
                       /\ request'[o].key # AnyKey => Ordered(request[o], answer[o])'
                       /\ request'[o].op = "GetAllKeyed" /\ request'[o].key = AnyKey =>
                             AllWithKey(request[o], answer[o])'
    BY DEF CollectedOK
  <2>1. CASE o = th
    <3>1. answer'[o] = s /\ request'[o] = r  BY <1>3, <2>1
    <3>2. Collected(th)'  BY <2>1
    <3>3. answer'[o] \in Seq(DOMAIN bindings')  BY <3>1, <3>2, <1>5
    <3>4. r.key # AnyKey => Ordered(request[o], answer[o])'
      BY <3>1, <3>2, <1>5, <1>4 DEF Ordered
    <3>5. r.op = "GetAllKeyed" /\ r.key = AnyKey => AllWithKey(request[o], answer[o])'
      BY <3>1, <3>2, <1>5, <1>4 DEF AllWithKey
    <3>. QED  BY <3>1, <3>3, <3>4, <3>5
  <2>2. CASE o # th
    <3>1. Collected(o) /\ request'[o] = request[o] /\ answer'[o] = answer[o]
      BY <2>2, <1>3 DEF Collected, Answered
    <3>. QED  BY <3>1, <1>4, OldAnswer
  <2>. QED  BY <2>1, <2>2
<1>. QED  BY <1>3, <1>7

LEMMA CollectionStep == CollectionInv /\ [Next]_vars => CollectionInv'
<1>. SUFFICES ASSUME CollectionInv, [Next]_vars PROVE CollectionInv'  OBVIOUS
<1>0. /\ ResolutionInv /\ RegistryInv /\ StateOK /\ answer \in [Thread -> Seq(Nat)]
      /\ ResolutionInv'
  BY ResolutionStep DEF CollectionInv, ResolutionInv, RegistryInv
<1>. SUFFICES answer' \in [Thread -> Seq(Nat)] /\ CollectedOK'
  BY <1>0 DEF CollectionInv
<1>1. ASSUME ~built', answer' = answer
      PROVE  answer' \in [Thread -> Seq(Nat)] /\ CollectedOK'
  <2>1. (RegistryInv /\ ~built => CollectedOK)'  BY QuietCollections, PTL
  <2>. QED  BY <1>0, <1>1, <2>1 DEF ResolutionInv
<1>2. ASSUME answer' = answer,
             \A t, k : Registered(t, k)' = Registered(t, k),
             DOMAIN bindings \subseteq DOMAIN bindings',
             \A i \in DOMAIN bindings : bindings'[i] = bindings[i],
             \A th \in Thread : Collected(th)' =>
                                   Collected(th) /\ request'[th] = request[th]
      PROVE  answer' \in [Thread -> Seq(Nat)] /\ CollectedOK'
  BY <1>0, <1>2, OldAnswer DEF CollectedOK
<1>3. ASSUME NEW t \in Type, NEW k \in AllKeys, Populate(t, k)
      PROVE  answer' \in [Thread -> Seq(Nat)] /\ CollectedOK'
  BY <1>1, <1>3 DEF Populate
<1>4. ASSUME NEW t \in Type, BindNative(t)
      PROVE  answer' \in [Thread -> Seq(Nat)] /\ CollectedOK'
  BY <1>1, <1>4 DEF BindNative
<1>5. CASE Build \/ UNCHANGED vars
  <2>1. UNCHANGED <<bindings, count, latest, pc, request, candidate, answer>>
    BY <1>5 DEF Build, vars
  <2>2. \A t, k : Registered(t, k)' = Registered(t, k)  BY <2>1 DEF Registered
  <2>3. \A th \in Thread : Collected(th)' => Collected(th)
    BY <2>1 DEF Collected, Answered
  <2>. QED  BY <1>2, <2>1, <2>2, <2>3
<1>6. ASSUME NEW th \in Thread, NEW r \in Request, Answer(th, r)
      PROVE  answer' \in [Thread -> Seq(Nat)] /\ CollectedOK'
  BY <1>6, NewAnswer DEF Answer
<1>7. ASSUME NEW th \in Thread, NEW r \in Request, Miss(th, r)
      PROVE  answer' \in [Thread -> Seq(Nat)] /\ CollectedOK'
  <2>1. /\ UNCHANGED <<bindings, answer>> /\ pc' = [pc EXCEPT ![th] = "missing"]
        /\ request' = [request EXCEPT ![th] = r]
    BY <1>7 DEF Miss
  <2>2. \A t, k : Registered(t, k)' = Registered(t, k)  BY <2>1 DEF Registered
  <2>3. \A o \in Thread : Collected(o)' => Collected(o) /\ request'[o] = request[o]
    BY <2>1, <1>0 DEF Collected, Answered, StateOK
  <2>. QED  BY <1>2, <2>1, <2>2, <2>3
<1>8. ASSUME NEW th \in Thread, AddMissing(th)
      PROVE  answer' \in [Thread -> Seq(Nat)] /\ CollectedOK'
  <2>. DEFINE b == NewBinding(request[th].type, request[th].key, "own", 0, TRUE,
                              candidate[th])
  <2>1. /\ UNCHANGED <<request, answer>> /\ pc' = [pc EXCEPT ![th] = "retry"]
        /\ bindings' = bindings \/ bindings' = Append(bindings, b)
        /\ pc[th] = "missing"
    BY <1>8 DEF AddMissing
  <2>2. request[th] \in Request /\ candidate[th] \in Nat
    BY <2>1, <1>0 DEF ResolutionInv, PendingOK, StateOK
  <2>3. b \in Binding /\ b.root = "own"
    BY <2>2, RequestType DEF NewBinding, Binding
  <2>. HIDE DEF b
  <2>4. \A t, k : Registered(t, k)' = Registered(t, k)
    BY <2>1, <2>3, <1>0, RegisteredKept DEF Registered
  <2>5. /\ DOMAIN bindings \subseteq DOMAIN bindings'
        /\ \A i \in DOMAIN bindings : bindings'[i] = bindings[i]
    BY <2>1, <2>3, <1>0, AppendBinding
  <2>6. \A o \in Thread : Collected(o)' => Collected(o)
    BY <2>1, <1>0 DEF Collected, Answered, StateOK
  <2>. QED  BY <1>2, <2>1, <2>4, <2>5, <2>6
<1>9. ASSUME NEW th \in Thread, Retry(th)
      PROVE  answer' \in [Thread -> Seq(Nat)] /\ CollectedOK'
  <2>1. PICK r : r = request[th]  OBVIOUS
  <2>2. pc[th] = "retry" /\ r \in Request
    BY <2>1, <1>0, <1>9 DEF Retry, ResolutionInv, PendingOK
  <2>3. request' = [request EXCEPT ![th] = r]
    BY <2>1, <1>0, <1>9 DEF Retry, StateOK
  <2>4. /\ answer' = [answer EXCEPT ![th] = IF Satisfied(r) = {} THEN Nothing
                                            ELSE Result(r)]
        /\ UNCHANGED <<bindings, count, latest>>
        /\ pc' = [pc EXCEPT ![th] = "idle"]
    BY <2>1, <1>9 DEF Retry
  <2>5. \A o \in Thread \ {th} : pc'[o] = pc[o]  BY <2>4, <1>0 DEF StateOK
  <2>. QED  BY <2>2, <2>3, <2>4, <2>5, NewAnswer
<1>. QED  BY <1>3, <1>4, <1>5, <1>6, <1>7, <1>8, <1>9 DEF Next

LEMMA CollectionInvariant == Spec => []CollectionInv
<1>1. Init => CollectionInv
  <2>. SUFFICES ASSUME Init PROVE CollectionInv  OBVIOUS
  <2>1. ResolutionInv /\ ~built /\ RegistryInv  BY InitOK DEF Init, ResolutionInv
  <2>2. answer \in [Thread -> Seq(Nat)]  BY DEF Init, Nothing
  <2>. QED  BY <2>1, <2>2, QuietCollections DEF CollectionInv
<1>. QED  BY <1>1, CollectionStep, PTL DEF Spec

\* The types; the answers are positions of bindings.
THEOREM ResolutionTypeCorrect == Spec => []TypeOK
<1>1. CollectionInv => TypeOK
  BY DEF CollectionInv, ResolutionInv, RegistryInv, StateOK, TypeOK
<1>. QED  BY <1>1, CollectionInvariant, PTL

\* A collection holds each descriptor of its type and key once, in the order of
\* the registrations, and the bindings of modules after them, whatever the
\* packed comparison has to sort (IndexedBindingPrecedenceComparer.cs:26-46).
THEOREM CollectionsKeepOrder == Spec => []RegistrationOrderPreserved
<1>1. ASSUME CollectionInv, NEW th \in Thread,
             \/ Answered(th, "GetAll")
             \/ Answered(th, "GetAllKeyed") /\ request[th].key # AnyKey
      PROVE  Ordered(request[th], answer[th])
  <2>1. Collected(th)  BY <1>1 DEF Collected
  <2>2. request[th] \in Request  BY <1>1, <2>1 DEF CollectionInv, CollectedOK
  <2>3. request[th].key # AnyKey
    BY <1>1, <2>2, KeysAssumption DEF Answered, Request
  <2>. QED  BY <1>1, <2>1, <2>3 DEF CollectionInv, CollectedOK
<1>2. CollectionInv => RegistrationOrderPreserved
  BY <1>1 DEF RegistrationOrderPreserved, Ordered
<1>. QED  BY <1>2, CollectionInvariant, PTL

\* A collection for AnyKey is complete, also when threads have bindings added
\* for single keys meanwhile (KeyedServicesMetaDataExtensions.cs:15-28).
THEOREM AnyKeyCollectsAll == Spec => []AnyKeyCollection
<1>1. ASSUME CollectionInv, NEW th \in Thread,
             Answered(th, "GetAllKeyed"), request[th].key = AnyKey
      PROVE  AllWithKey(request[th], answer[th])
  BY <1>1 DEF CollectionInv, CollectedOK, Collected, Answered
<1>2. CollectionInv => AnyKeyCollection
  BY <1>1 DEF AnyKeyCollection, AllWithKey
<1>. QED  BY <1>2, CollectionInvariant, PTL

-----------------------------------------------------------------------------
(***************************************************************************)
(* Where parameters without a key get what the comments say: it depends on *)
(* the registrations alone.                                                *)
(***************************************************************************)
KeysInv == CollectionInv /\ PlainKeepsOwn

\* The binding without a key comes before those with one, whose indexes are larger
\* or which the resolver made.
LEMMA PlainResult ==
    ASSUME RegistryInv, NEW r \in Request, r.op = "Plain",
           Registered(r.type, NoKey) # {}, KeysLast(r.type)
    PROVE  /\ Satisfied(r) # {}
           /\ Result(r) = <<Latest(Registered(r.type, NoKey))>>
<1>. DEFINE R == Registered(r.type, NoKey)
            top == Latest(R)
            S == Satisfied(r)
            s == Sorted(S)
<1>0. r.type \in Type /\ NoKey \in AllKeys /\ IsUnique(r) /\ StateOK
  BY RequestType DEF AllKeys, IsUnique, RegistryInv
<1>1. top \in R /\ \A i \in R : IsLatest(bindings[i]) <=> i = top
  BY <1>0, LatestRegistered
<1>2. \A i \in DOMAIN bindings :
         i \in S <=> bindings[i].type = r.type /\ IsLatest(bindings[i])
  BY <1>0 DEF Satisfied, SatifiesRequest, MeetsConstraint
<1>3. S \in SUBSET DOMAIN bindings
  BY DEF Satisfied
<1>4. top \in S /\ top \in DOMAIN bindings /\ bindings[top].root = "populate"
  BY <1>1, <1>2 DEF Registered
<1>5. ASSUME NEW j \in S \ {top}
      PROVE  /\ Compare(Criteria(bindings[top]), Criteria(bindings[j])) > 0
             /\ Before(top, j) /\ ~Before(j, top)
  <2>0. /\ j \in DOMAIN bindings /\ bindings[j] \in Binding /\ bindings[top] \in Binding
        /\ count \in Nat /\ bindings[top].total \in Nat /\ bindings[top].total < count
        /\ Precedence(bindings[top]) = count - bindings[top].total
    BY <1>0, <1>3, <1>4, BindingType DEF RegistryInv, BindingsOK, StateOK, Binding, Precedence
  <2>1. /\ Criteria(bindings[top]) \in CriteriaRecord
        /\ Criteria(bindings[j]) \in CriteriaRecord
        /\ Criteria(bindings[top]).precedence = count - bindings[top].total
        /\ Criteria(bindings[j]).precedence = Precedence(bindings[j])
    BY <1>0, <1>4, <2>0, CriteriaType DEF Criteria
  <2>2. CASE bindings[j].root = "none"
    BY <1>4, <2>0, <2>2, DescriptorFirst
  <2>3. ASSUME Compare(Criteria(bindings[top]), Criteria(bindings[j])) > 0
        PROVE  /\ Compare(Criteria(bindings[top]), Criteria(bindings[j])) > 0
               /\ Before(top, j) /\ ~Before(j, top)
    <3>1. PICK u, v : u = Criteria(bindings[top]) /\ v = Criteria(bindings[j])
      OBVIOUS
    <3>2. Compare(u, v) > 0 /\ Compare(v, u) = -Compare(u, v) /\ Compare(u, v) \in Int
      BY <2>1, <2>3, <3>1, CompareFacts
    <3>3. ~(Compare(v, u) > 0) /\ Compare(v, u) # 0
      BY <3>2
    <3>. QED  BY <3>1, <3>2, <3>3 DEF Before
  <2>4. CASE bindings[j].root = "own"
    <3>1. bindings[j].implicit /\ ~bindings[top].implicit
      BY <1>4, <2>0, <2>4 DEF RegistryInv, BindingsOK, Binding
    <3>2. Precedence(bindings[j]) = 1
      BY <2>4 DEF Precedence
    <3>3. /\ Criteria(bindings[top]).explicit /\ ~Criteria(bindings[j]).explicit
          /\ Criteria(bindings[top]).conditional = Criteria(bindings[j]).conditional
          /\ Criteria(bindings[top]).closed = Criteria(bindings[j]).closed
          /\ Criteria(bindings[top]).precedence >= Criteria(bindings[j]).precedence
      <4>1. \A b : /\ Criteria(b).explicit = ~b.implicit
                   /\ Criteria(b).conditional = FALSE
                   /\ Criteria(b).closed = TRUE
        BY DEF Criteria
      <4>2. Criteria(bindings[top]).explicit /\ ~Criteria(bindings[j]).explicit
        BY <3>1, <4>1, Zenon
      <4>3. /\ Criteria(bindings[top]).conditional = Criteria(bindings[j]).conditional
            /\ Criteria(bindings[top]).closed = Criteria(bindings[j]).closed
        BY <4>1, Zenon
      <4>4. count - bindings[top].total >= 1
        BY <2>0
      <4>5. Criteria(bindings[top]).precedence >= Criteria(bindings[j]).precedence
        BY <2>1, <3>2, <4>4
      <4>. QED  BY <4>2, <4>3, <4>5
    <3>4. PICK u, v : u = Criteria(bindings[top]) /\ v = Criteria(bindings[j])
      OBVIOUS
    <3>5. u \in CriteriaRecord /\ v \in CriteriaRecord
      BY <2>1, <3>4
    <3>6. u.precedence > v.precedence \/ u.precedence = v.precedence
      BY <3>3, <3>4, <3>5 DEF CriteriaRecord
    <3>7. Compare(u, v) > 0
      BY <3>3, <3>4, <3>5, <3>6, CompareIsLexicographic DEF Above
    <3>. QED  BY <2>3, <3>4, <3>7
  <2>5. CASE bindings[j].root = "populate"
    <3>1. PICK k : k = bindings[j].key
      OBVIOUS
    <3>2. k \in AllKeys /\ j \in Registered(r.type, k)
      BY <1>2, <2>0, <2>5, <3>1 DEF Registered, Binding
    <3>3. k # NoKey
      BY <1>1, <1>2, <2>0, <3>2
    <3>4. j = Latest(Registered(r.type, k))
      BY <1>0, <1>2, <2>0, <3>2, LatestRegistered
    <3>5. top < j
      BY <1>0, <3>2, <3>3, <3>4 DEF KeysLast, AllKeys
    <3>6. bindings[top].total < bindings[j].total /\ bindings[j].total \in Nat
      BY <1>4, <2>0, <2>5, <3>5 DEF RegistryInv, ItemsAscend, Binding
    <3>7. Precedence(bindings[j]) = count - bindings[j].total
      BY <2>5 DEF Precedence
    <3>8. Criteria(bindings[top]).precedence > Criteria(bindings[j]).precedence
      BY <2>0, <2>1, <3>6, <3>7
    <3>9. PICK u, v : u = Criteria(bindings[top]) /\ v = Criteria(bindings[j])
      OBVIOUS
    <3>10. Compare(u, v) > 0
      BY <2>1, <3>8, <3>9, ComparePrecedence
    <3>. QED  BY <2>3, <3>9, <3>10
  <2>. QED  BY <2>0, <2>2, <2>4, <2>5 DEF Binding
<1>6. s[1] = top /\ Len(s) = Cardinality(S)
  BY <1>0, <1>3, <1>4, <1>5, SortedFirst
<1>7. ~IsAmbiguous(s)
  <2>. SUFFICES ASSUME Cardinality(S) > 1
                PROVE  Compare(Criteria(bindings[s[1]]), Criteria(bindings[s[2]])) # 0
    BY <1>6 DEF IsAmbiguous
  <2>1. Cardinality(S) \in Nat /\ 1 \in 1 .. Cardinality(S) /\ 2 \in 1 .. Cardinality(S)
    BY <1>0, <1>3, FiniteBindings
  <2>2. \A n \in 1 .. Cardinality(S) : s[n] \in S /\ Rank(S, s[n]) = n
    BY <1>0, <1>3, SortedByRank
  <2>3. s[2] \in S \ {top}
    BY <1>6, <2>1, <2>2
  <2>. QED  BY <1>5, <1>6, <2>3
<1>. QED  BY <1>0, <1>4, <1>6, <1>7 DEF Result

\* No new answer to such a parameter, and no descriptor.
LEMMA KeysStay ==
    ASSUME PlainKeepsOwn,
           \A t, k : Registered(t, k)' = Registered(t, k),
           \A th \in Thread :
              Answered(th, "Plain")' =>
                 /\ Answered(th, "Plain")
                 /\ request'[th] = request[th] /\ answer'[th] = answer[th]
    PROVE  PlainKeepsOwn'
<1>1. \A t : KeysLast(t)' => KeysLast(t)
  BY DEF KeysLast
<1>. QED  BY <1>1 DEF PlainKeepsOwn

LEMMA KeysAnswer ==
    ASSUME KeysInv, NEW th \in Thread, NEW r \in Request, Answer(th, r)
    PROVE  PlainKeepsOwn'
<1>0. RegistryInv /\ StateOK /\ answer \in [Thread -> Seq(Nat)]
  BY DEF KeysInv, CollectionInv, ResolutionInv, RegistryInv
<1>1. \A t, k : Registered(t, k)' = Registered(t, k)
  BY DEF Answer, Registered
<1>2. /\ request'[th] = r
      /\ answer'[th] = IF Satisfied(r) = {} THEN Nothing ELSE Result(r)
      /\ \A o \in Thread \ {th} : request'[o] = request[o] /\ answer'[o] = answer[o]
      /\ pc' = pc
  BY <1>0 DEF Answer, StateOK
<1>3. \A o \in Thread \ {th} : \A op : Answered(o, op)' => Answered(o, op)
  BY <1>2 DEF Answered
<1>4. \A t : KeysLast(t)' => KeysLast(t)
  BY <1>1 DEF KeysLast
<1>. SUFFICES ASSUME NEW o \in Thread, Answered(o, "Plain")',
                     Registered(request'[o].type, NoKey) # {},
                     KeysLast(request'[o].type)
              PROVE  answer'[o] = <<Latest(Registered(request'[o].type, NoKey))>>
  BY <1>1, <1>4 DEF PlainKeepsOwn
<1>5. CASE o = th
  BY <1>0, <1>2, <1>5, PlainResult DEF Answered
<1>6. CASE o # th
  BY <1>2, <1>3, <1>6 DEF KeysInv, PlainKeepsOwn
<1>. QED  BY <1>5, <1>6

LEMMA KeysStep == KeysInv /\ [Next]_vars => KeysInv'
<1>. SUFFICES ASSUME KeysInv, [Next]_vars PROVE KeysInv'  OBVIOUS
<1>0. /\ ResolutionInv /\ RegistryInv /\ StateOK /\ PendingOK
      /\ CollectionInv' /\ RegistryInv'
  <2>1. CollectionInv'  BY CollectionStep DEF KeysInv
  <2>. QED  BY <2>1 DEF KeysInv, CollectionInv, ResolutionInv, RegistryInv
<1>. SUFFICES PlainKeepsOwn'
  BY <1>0 DEF KeysInv
<1>1. ASSUME ~built'
      PROVE  PlainKeepsOwn'
  <2>1. \A th \in Thread : request'[th] = NoRequest
    BY <1>0, <1>1 DEF RegistryInv, QuietUntilBuilt
  <2>. QED  BY <2>1 DEF PlainKeepsOwn, Answered
<1>2. ASSUME NEW t \in Type, NEW k \in AllKeys, Populate(t, k) \/ BindNative(t)
      PROVE  PlainKeepsOwn'
  BY <1>1, <1>2 DEF Populate, BindNative
<1>3. CASE Build \/ UNCHANGED vars
  <2>1. UNCHANGED <<bindings, count, latest, pc, request, candidate, answer>>
    BY <1>3 DEF Build, vars
  <2>2. \A t, k : Registered(t, k)' = Registered(t, k)  BY <2>1 DEF Registered
  <2>3. \A th, op : Answered(th, op)' => Answered(th, op)  BY <2>1 DEF Answered
  <2>. QED  BY <2>1, <2>2, <2>3, KeysStay DEF KeysInv
<1>4. ASSUME NEW th \in Thread, NEW r \in Request, Answer(th, r)
      PROVE  PlainKeepsOwn'
  BY <1>4, KeysAnswer
<1>5. ASSUME NEW th \in Thread, NEW r \in Request, Miss(th, r)
      PROVE  PlainKeepsOwn'
  <2>1. /\ UNCHANGED <<bindings, answer>> /\ pc' = [pc EXCEPT ![th] = "missing"]
        /\ request' = [request EXCEPT ![th] = r]
    BY <1>5 DEF Miss
  <2>2. \A t, k : Registered(t, k)' = Registered(t, k)  BY <2>1 DEF Registered
  <2>3. \A o \in Thread : \A op :
           Answered(o, op)' => Answered(o, op) /\ request'[o] = request[o]
    BY <2>1, <1>0 DEF Answered, StateOK
  <2>. QED  BY <2>1, <2>2, <2>3, KeysStay DEF KeysInv
<1>6. ASSUME NEW th \in Thread, AddMissing(th)
      PROVE  PlainKeepsOwn'
  <2>. DEFINE b == NewBinding(request[th].type, request[th].key, "own", 0, TRUE,
                              candidate[th])
  <2>1. /\ UNCHANGED <<request, answer>> /\ pc' = [pc EXCEPT ![th] = "retry"]
        /\ bindings' = bindings \/ bindings' = Append(bindings, b)
        /\ pc[th] = "missing"
    BY <1>6 DEF AddMissing
  <2>2. request[th] \in Request /\ candidate[th] \in Nat
    BY <2>1, <1>0 DEF PendingOK, StateOK
  <2>3. b \in Binding /\ b.root = "own"
    BY <2>2, RequestType DEF NewBinding, Binding
  <2>. HIDE DEF b
  <2>4. \A t, k : Registered(t, k)' = Registered(t, k)
    BY <2>1, <2>3, <1>0, RegisteredKept DEF Registered
  <2>5. \A o \in Thread : \A op : Answered(o, op)' => Answered(o, op)
    BY <2>1, <1>0 DEF Answered, StateOK
  <2>. QED  BY <2>1, <2>4, <2>5, KeysStay DEF KeysInv
<1>7. ASSUME NEW th \in Thread, Retry(th)
      PROVE  PlainKeepsOwn'
  <2>1. /\ UNCHANGED <<bindings, request>> /\ pc' = [pc EXCEPT ![th] = "idle"]
        /\ request[th].op = "GetKeyed"
        /\ \A o \in Thread \ {th} : answer'[o] = answer[o]
    BY <1>0, <1>7 DEF Retry, PendingOK, StateOK
  <2>2. \A t, k : Registered(t, k)' = Registered(t, k)  BY <2>1 DEF Registered
  <2>3. \A o \in Thread :
           Answered(o, "Plain")' => Answered(o, "Plain") /\ answer'[o] = answer[o]
    BY <2>1, <1>0 DEF Answered, StateOK
  <2>. QED  BY <2>1, <2>2, <2>3, KeysStay DEF KeysInv
<1>. QED  BY <1>2, <1>3, <1>4, <1>5, <1>6, <1>7 DEF Next, AllKeys

LEMMA KeysInvariant == Spec => []KeysInv
<1>1. Init => KeysInv
  <2>. SUFFICES ASSUME Init PROVE KeysInv  OBVIOUS
  <2>1. ResolutionInv /\ ~built /\ RegistryInv  BY InitOK DEF Init, ResolutionInv
  <2>2. answer \in [Thread -> Seq(Nat)]  BY DEF Init, Nothing
  <2>3. CollectionInv  BY <2>1, <2>2, QuietCollections DEF CollectionInv
  <2>. QED  BY <2>3 DEF KeysInv, PlainKeepsOwn, Init, Answered
<1>. QED  BY <1>1, KeysStep, PTL DEF Spec

\* A parameter without attributes gets the last registration without a key
\* (BindingIndex.cs:72-76) wherever the type is registered with keys after that:
\* the order of the registrations alone decides, not what is resolved.
THEOREM PlainGetsItsOwn == Spec => []PlainKeepsOwn
<1>1. KeysInv => PlainKeepsOwn  BY DEF KeysInv
<1>. QED  BY <1>1, KeysInvariant, PTL
=============================================================================
