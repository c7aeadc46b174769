------------------------------- MODULE MCRules ------------------------------
(***************************************************************************)
(* Rules on small instances: the filter language, the filter sets, and the *)
(* claims a method requires.  Three questions share the run: one of them   *)
(* is the subject, and the others rest in their first state.               *)
(***************************************************************************)
EXTENDS CEFilterGrammar, IndexedFilterSet, ClaimsGate, TLC

VARIABLE subject    \* "language", "sets" or "claims"

A == <<"a">>
AB == <<"a", "b">>

is(k, v) == <<Ident(k), Sym("="), Str(v)>>
like(g) == <<Ident("type"), Sym("LIKE"), Str(g)>>

\* Boolean structure over a comparison and an EXISTS.
Connectives ==
    {<<Sym("AND")>>, <<Sym("OR")>>, <<Sym("NOT")>>, <<Sym("(")>>, <<Sym(")")>>,
     is("type", A), <<Sym("OR"), Sym("EXISTS"), Ident("src")>>}

\* Single tokens: every way a comparison can be right or wrong.
Comparisons ==
    {<<Ident("type")>>, <<Str(A)>>, <<Sym("=")>>, <<Sym("IN"), Sym("(")>>,
     <<Sym(")")>>, <<Sym(","), Str(AB)>>, <<Sym("LIKE")>>, <<Sym("EXISTS")>>}

\* Constraints on the type, for the extractor: whole comparisons, connected.
TypeTests ==
    {<<Sym("AND")>>, <<Sym("OR")>>,
     is("type", AB),
     like(<<"a", "*">>),
     <<Ident("type"), Sym("!="), Str(A)>>,
     <<Sym("(")>> \o is("type", A) \o <<Sym("OR")>> \o like(<<"?", "b">>) \o <<Sym(")")>>}

MaxComparison == 5   \* bound: pieces of an expression over Comparisons

\* Both quotes, a backslash, symbols and halves of one, parts of words.
MCChunks == {<<" ">>, <<"!">>, <<"=">>, <<"'">>, <<"\"">>, <<"\\">>, <<"i">>, <<"N">>, <<"-">>}

MCAlphabets == {Connectives, Comparisons, TypeTests}

\* Events without a type, with each type, and with a source.
SampleTypes == {<<>>, A, AB, <<"b", "b">>, <<"a", "a", "b">>}
MCSamples ==
    {<<>>} \union {[k \in {"type"} |-> t] : t \in SampleTypes}
           \union {[k \in {"type", "src"} |-> t] : t \in SampleTypes}

\* Rules in both buckets; in a bucket and under a glob; twice under globs; a
\* contradiction; on another key; one that does not parse.
MCExprs ==
    {<<Ident("type"), Sym("IN"), Sym("("), Str(A), Sym(","), Str(AB), Sym(")")>>,
     is("type", A) \o <<Sym("OR")>> \o like(<<"a", "*">>),
     like(<<"a", "*">>) \o <<Sym("AND")>> \o like(<<"*", "b">>),
     is("type", A) \o <<Sym("AND")>> \o is("type", AB),
     <<Sym("NOT")>> \o is("src", A),
     <<Sym("EXISTS")>>}

MCEvents ==
    {<<>>, [k \in {"src"} |-> A]}
    \union {[k \in {"type"} |-> t] : t \in {A, AB}}
    \union {[k \in {"type", "src"} |-> t] : t \in {A, AB, <<"b">>}}

NamesSymmetry == Permutations(Names)

-----------------------------------------------------------------------------
(* Requirements over two claim types.                                      *)

A1 == NewClaimFact([type |-> "a", value |-> "1"])
A2 == NewClaimFact([type |-> "a", value |-> "2"])
B == NewClaimFactType([type |-> "b", value |-> "1"])
MCFacts == {A2}

UpTo(n, S) == {T \in SUBSET S : Cardinality(T) <= n}

\* Groups of facts; no group inside a requirement is empty.
Groups == {AST(F, {}, {}, {}) : F \in {{A1}, {A1, A2}, {A2, B}}}
Dsl == {Leaf(A1), Or({Leaf(A1), Leaf(B)}), And({Leaf(A2), Not(Leaf(B))})}

\* A group under each operator, beside a fact.
Inner ==
    {n \in {AST(F, a, o, t) : F \in UpTo(1, {A1, B}), a \in UpTo(1, Groups \union Dsl),
                              o \in UpTo(1, Groups), t \in {{}, {AST({A2, B}, {}, {}, {})}}} :
       n # AST({}, {}, {}, {})}

MCTrees ==
    {AST({}, {}, {}, {})}
    \union Inner
    \union {AST({}, {}, {n}, {}) : n \in Inner}
    \union {AST({B}, {n}, {}, {}) : n \in Inner}
    \union {AST({A2}, {}, {AST({}, {}, {}, {n})}, {}) : n \in Inner}
    \union {Root(n) : n \in Dsl \union {Not(Or(Dsl)), And(Dsl), Or({Not(Leaf(A2)), And(Dsl)})}}

Levels == {[AND |-> F, OR |-> G] : F \in UpTo(1, {A1, A2, B}), G \in UpTo(2, {A1, A2, B})}
MCConfigs == {<<l>> : l \in Levels} \union (Levels \X Levels)

-----------------------------------------------------------------------------

MCInit ==
    /\ subject \in {"language", "sets", "claims"}
    /\ InitExpr /\ SetInit /\ GateInit
    /\ subject = "language" \/ alphabet = Connectives
    /\ subject = "sets" \/ MaxMatches = 0
    /\ subject = "claims" \/ entry = Unlisted
    /\ zeroTrust \/ (subject = "claims" /\ entry = Unlisted)

MCNext ==
    \/ /\ subject = "language" /\ NextExpr
       /\ alphabet = Comparisons => pieces < MaxComparison
       /\ alphabet # Connectives => text' = <<>>
       /\ UNCHANGED <<setVars, vars>>
    \/ subject = "sets" /\ SetNext /\ UNCHANGED <<exprVars, vars>>
    \/ subject = "claims" /\ GateNext /\ UNCHANGED <<exprVars, setVars>>

allVars == <<exprVars, setVars, vars>>
MCSpec == MCInit /\ [][MCNext /\ UNCHANGED subject]_<<allVars, subject>>
=============================================================================
