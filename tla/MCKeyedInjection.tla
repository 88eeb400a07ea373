-------------------------- MODULE MCKeyedInjection --------------------------
(***************************************************************************)
(* Small instances of KeyedInjection: the services A, B and C, where A     *)
(* needs B and B needs C, in various ways, and D, which nobody registers.  *)
(***************************************************************************)
EXTENDS KeyedInjection

CONSTANTS A, B, C, D, k1, k2

Param(kind, t, k, default) == [kind |-> kind, type |-> t, key |-> k, default |-> default]

Service(t, k, singleton, factory, fits, parameters) ==
    [type |-> t, key |-> k, singleton |-> singleton, factory |-> factory,
     fits |-> fits, malformed |-> {}, parameters |-> parameters]

\* The key of the registration is a string that is no number, for example.
Malformed(service) == [service EXCEPT !.malformed = {service.key}]

Plain(t) == Param("plain", t, NoKey, FALSE)
Keyed(t, k) == Param("keyed", t, k, FALSE)
Inherit(t) == Param("inherit", t, NoKey, FALSE)
Optional(t, k) == Param("keyed", t, k, TRUE)

\* Chains of parameters of every kind; the C of k2 cannot take AnyKey.
MCChains ==
    << Service(A, NoKey, FALSE, FALSE, AllKeys, {Plain(B), Keyed(B, k1)}),
       Service(A, k1, FALSE, FALSE, AllKeys, {Keyed(B, k2), Inherit(B), Plain(B)}),
       Service(A, k2, FALSE, FALSE, AllKeys,
               {Inherit(B), Inherit(C), Param("null", B, NoKey, FALSE)}),
       Service(B, NoKey, FALSE, FALSE, AllKeys, {Inherit(C), Plain(C)}),
       Service(B, AnyKey, FALSE, FALSE, AllKeys, {Inherit(C), Plain(C)}),
       Service(B, k1, TRUE, TRUE, AllKeys, {}),
       Service(C, k2, FALSE, FALSE, Key, {}) >>

\* Some of the services that are needed are missing, or cannot take their key.
MCFailures ==
    << Service(A, NoKey, FALSE, FALSE, AllKeys, {Plain(B), Optional(C, k1)}),
       Service(A, k1, FALSE, FALSE, AllKeys,
               {Keyed(B, k1), Optional(B, k2), Keyed(C, k2)}),
       Service(A, k2, FALSE, FALSE, AllKeys,
               {Optional(B, k1), Optional(C, k1), Keyed(C, k2)}),
       Service(B, NoKey, FALSE, FALSE, AllKeys, {Plain(C), Optional(B, k2)}),
       Service(B, k1, TRUE, FALSE, AllKeys, {Keyed(C, k1), Optional(C, k2)}),
       Malformed(Service(B, k2, TRUE, FALSE, {k1}, {Plain(D)})),
       Service(C, k2, FALSE, FALSE, Key, {Optional(D, k1)}) >>

\* What fails below parameters without attributes, with and without a keyed one
\* further up.
MCMissing ==
    << Service(A, NoKey, FALSE, FALSE, AllKeys, {Plain(B)}),
       Service(A, k1, FALSE, FALSE, AllKeys, {Keyed(B, k1), Optional(B, k2)}),
       Service(A, k2, FALSE, FALSE, AllKeys, {Keyed(B, k2)}),
       Service(B, NoKey, FALSE, FALSE, AllKeys, {Plain(C)}),
       Service(B, k1, FALSE, FALSE, AllKeys, {Plain(C)}),
       Malformed(Service(B, k2, FALSE, FALSE, {k1}, {Optional(C, k1)})),
       Service(C, NoKey, FALSE, FALSE, AllKeys, {Plain(D)}),
       Service(C, k1, FALSE, FALSE, AllKeys, {Keyed(D, k1)}) >>

\* Singletons that are reached in one way each.
MCSingletons ==
    << Service(A, NoKey, FALSE, FALSE, AllKeys, {Keyed(B, k1), Plain(B)}),
       Service(A, AnyKey, TRUE, FALSE, AllKeys, {Inherit(B), Keyed(C, k2)}),
       Service(B, NoKey, TRUE, FALSE, AllKeys, {Plain(C)}),
       Service(B, AnyKey, TRUE, TRUE, AllKeys, {}),
       Service(C, NoKey, TRUE, FALSE, AllKeys, {}),
       Service(C, k1, TRUE, TRUE, AllKeys, {}),
       Service(C, k2, TRUE, FALSE, AllKeys, {}) >>

MCRegistrations == {MCChains, MCFailures, MCMissing, MCSingletons}

ASSUME MCReachedByKey == ReachedByKey
=============================================================================
