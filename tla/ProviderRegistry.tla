-------------------------- MODULE ProviderRegistry --------------------------
(***************************************************************************)
(* internal/ai/registry.go: the providers by name and, for each provider   *)
(* type, a default.  A mutex makes every operation one step.  A model is   *)
(* [type, key], where key numbers the models in the order in which they    *)
(* were made.                                                              *)
(***************************************************************************)
EXTENDS Naturals, FiniteSetsExt

CONSTANTS
    Names,
    Types,          \* what GetProviderName returns
    MaxModels       \* bound on the registrations

ASSUME RegistryAssumption == MaxModels \in Nat

VARIABLES
    providers,      \* the model registered under each name
    defaults        \* the default of each type

registryVars == <<providers, defaults>>

Models == [type : Types, key : 1..MaxModels]
Nothing == [x \in {} |-> x]
Values(f) == {f[x] : x \in DOMAIN f}

\* The map f with an entry for x set to v.
Set(f, x, v) == [y \in DOMAIN f \cup {x} |-> IF y = x THEN v ELSE f[y]]

RegistryInit == providers = Nothing /\ defaults = Nothing

\* A key that no model has; a default may outlive its registration.
NextKey == Max({0} \cup {m.key : m \in Values(providers) \cup Values(defaults)}) + 1

\* Mutated: the last model of a type becomes its default.
Register_Last(name, type) ==
    LET m == [type |-> type, key |-> NextKey]
    IN  /\ NextKey <= MaxModels
        /\ providers' = Set(providers, name, m)
        /\ defaults' = Set(defaults, type, m)

\* The first model of a type becomes its default and remains it.
Register(name, type) ==
    LET m == [type |-> type, key |-> NextKey]
    IN  /\ NextKey <= MaxModels
        /\ providers' = Set(providers, name, m)
        /\ defaults' = IF type \in DOMAIN defaults THEN defaults ELSE Set(defaults, type, m)

RegistryNext == \E name \in Names, type \in Types : Register(name, type)

RegistrySpec == RegistryInit /\ [][RegistryNext]_registryVars

\* The models that Get and GetDefault can return.
Obtainable == Values(providers) \cup Values(defaults)

-----------------------------------------------------------------------------
\* Whoever has registered a provider finds a default of its type, and whatever
\* names were given away since, the default is the oldest model of that type:
\* registering a model under a name already used changes what Get returns and
\* never what GetDefault returns.
DefaultIsOldest ==
    /\ \A m \in Values(providers) : m.type \in DOMAIN defaults
    /\ \A t \in DOMAIN defaults :
           /\ defaults[t].type = t
           /\ \A m \in Values(providers) : m.type = t => defaults[t].key <= m.key
=============================================================================
