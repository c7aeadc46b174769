--------------------------- MODULE MCDIContainer ----------------------------
(***************************************************************************)
(* Small applications for DIContainer: what is registered, and what two    *)
(* callers ask for.                                                        *)
(***************************************************************************)
EXTENDS DIContainer, TLC

Ask(t) == [type |-> t, key |-> NoKey]
AskKey(t, k) == [type |-> t, key |-> k]

MCElem == [t \in {"[]I"} |-> "I"]

\* A singleton that needs another and may fail; the one it needs is asked for
\* at the same time.
Singletons ==
    [build |-> <<AddSingleton("X", <<>>, TRUE), MayFail(AddSingleton("Y", <<"X">>, TRUE))>>,
     ask |-> {Ask("X"), Ask("Y")}]

\* Scoped services on a singleton, and a transient on a scoped one.
Scoped ==
    [build |-> <<AddSingleton("X", <<>>, FALSE), AddScoped("C", <<"X">>, TRUE),
                 AddScoped("D", <<"C", "Container">>, TRUE), AddTransient("T", <<"C">>, TRUE)>>,
     ask |-> {Ask("D"), Ask("T")}]

\* A singleton that would capture a scoped service through a transient.
Captive ==
    [build |-> <<ConfigureOptions({"ValidateScopes", "DetectLifetimeConflicts"}),
                 AddScoped("C", <<>>, TRUE), AddTransient("T", <<"C">>, FALSE),
                 AddSingleton("S", <<"T">>, TRUE)>>,
     ask |-> {Ask("S"), Ask("T")}]

\* Two implementations of an interface, asked for as such and as a slice.
Aliases ==
    [build |-> <<AddSingletonWithLookupKeys("X", <<>>, {}, {"I"}), AddInstance("Y", {"I"})>>,
     ask |-> {Ask("[]I"), Ask("I")}]

\* A factory that gets what it needs from its container; a registration that
\* is replaced; a type nobody registered.
Factories ==
    [build |-> <<AddScoped("X", <<"Z">>, TRUE), Remove("X"), AddSingleton("X", <<>>, TRUE),
                 AddSingletonFactory("F", <<"X">>), ConfigureOptions({"ValidateOnBuild"})>>,
     ask |-> {Ask("F"), Ask("Z")}]

\* A transient factory that gets what a scoped one makes, from the scope it was
\* asked in.
FactoriesOfScopes ==
    [build |-> <<AddScopedFactory("H", <<>>), AddTransientFactory("J", <<"H">>)>>,
     ask |-> {Ask("J")}]

\* A lookup key, and a cycle that is refused.
Keys ==
    [build |-> <<AddSingletonWithLookupKeys("X", <<>>, {"k"}, {}),
                 AddSingleton("A", <<"B">>, TRUE), AddSingleton("B", <<"A">>, TRUE)>>,
     ask |-> {AskKey("X", "k"), AskKey("X", "other"), Ask("A")}]

\* What Build refuses.
Refused ==
    {[build |-> <<AddSingleton("X", <<"Z">>, TRUE), ConfigureOptions({"ValidateOnBuild"})>>,
      ask |-> {}],
     [build |-> <<AddScoped("C", <<>>, TRUE), AddSingleton("S", <<"C">>, TRUE),
                  ConfigureOptions({"ValidateOnBuild", "ValidateScopes"})>>, ask |-> {}],
     [build |-> <<AddScoped("C", <<>>, TRUE), AddSingleton("C", <<>>, TRUE),
                  ConfigureOptions({"DetectLifetimeConflicts"})>>, ask |-> {}]}

MCPlans == {Singletons, Scoped, Captive, Aliases, Factories, FactoriesOfScopes, Keys} \union Refused

\* For the run that shows where the documentation and the code differ.
OneKey == {[build |-> <<AddSingletonWithLookupKeys("X", <<>>, {"k"}, {})>>, ask |-> {AskKey("X", "k")}]}
=============================================================================
