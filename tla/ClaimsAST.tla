----------------------------- MODULE ClaimsAST ------------------------------
(***************************************************************************)
(* Claims requirements: the ClaimsAST struct (claims_ast.go), the DSL      *)
(* nodes that may stand inside it (services/common/claimsast), and the     *)
(* older ClaimsConfig chain (middleware/claimsprincipal).  The slices of a *)
(* node are sets: no operation tells their order or repetitions apart.     *)
(***************************************************************************)
EXTENDS ClaimsPrincipal, FiniteSetsExt

LOCAL SeqExt == INSTANCE SequencesExt

-----------------------------------------------------------------------------
(* Facts and nodes                                                         *)

\* Directive ClaimType looks at the type only.
NewClaimFact(c) == [claim |-> c, directive |-> "typeAndValue"]
NewClaimFactType(c) == [claim |-> c, directive |-> "type"]

FactHasClaim(f, p) ==
    IF f.directive = "type" THEN HasClaimType(p, f.claim.type) ELSE HasClaim(p, f.claim)

AST(facts, ands, ors, nots) ==
    [node |-> "ast", facts |-> facts, and |-> ands, or |-> ors, not |-> nots]
Or(children) == [node |-> "or", children |-> children]
And(children) == [node |-> "and", children |-> children]
Not(child) == [node |-> "not", child |-> child]
Leaf(fact) == [node |-> "leaf", fact |-> fact]
Root(n) == AST({}, {}, {n}, {})

AppendClaimsFact(n, f) == [n EXCEPT !.facts = @ \union {f}]

-----------------------------------------------------------------------------
(* Validation                                                              *)

RECURSIVE ValidateWithOperand(_, _, _)

DslValidate(n, p) ==
    CASE n.node = "or" -> \E c \in n.children : ValidateWithOperand(c, "and", p)
      [] n.node = "and" -> \A c \in n.children : ValidateWithOperand(c, "and", p)
      [] n.node = "not" -> ~ValidateWithOperand(n.child, "and", p)
      [] n.node = "leaf" -> FactHasClaim(n.fact, p)

\* Mutant of _validate: the elements of Not are evaluated as the root is.
_validateNotAsRoot(n, op, p) ==
    IF op = "and"
      THEN /\ \A f \in n.facts : FactHasClaim(f, p)
           /\ \A c \in n.and : ValidateWithOperand(c, "and", p)
           /\ \A c \in n.or : ValidateWithOperand(c, "or", p)
           /\ \A c \in n.not : ~ValidateWithOperand(c, "and", p)
      ELSE \/ \E f \in n.facts : FactHasClaim(f, p)
           \/ \E c \in n.and : ValidateWithOperand(c, "and", p)
           \/ \E c \in n.or : ValidateWithOperand(c, "or", p)
           \/ \E c \in n.not : ~ValidateWithOperand(c, "and", p)

_validate(n, op, p) ==
    IF op = "and"
      THEN /\ \A f \in n.facts : FactHasClaim(f, p)
           /\ \A c \in n.and : ValidateWithOperand(c, "and", p)
           /\ \A c \in n.or : ValidateWithOperand(c, "or", p)
           /\ \A c \in n.not : ~ValidateWithOperand(c, op, p)
      ELSE \/ \E f \in n.facts : FactHasClaim(f, p)
           \/ \E c \in n.and : ValidateWithOperand(c, "and", p)
           \/ \E c \in n.or : ValidateWithOperand(c, "or", p)
           \/ \E c \in n.not : ~ValidateWithOperand(c, op, p)

\* The DSL nodes ignore the operand.
ValidateWithOperand(n, op, p) ==
    IF n.node = "ast" THEN _validate(n, op, p) ELSE DslValidate(n, p)

\* Root is processed as an AND operation.
ASTValidate(n, p) == ValidateWithOperand(n, "and", p)

-----------------------------------------------------------------------------
(* The printed expression, as the tokens DumpExpressions shows             *)

NoClaim == [type |-> NoType, value |-> CHOOSE v \in ClaimValues : TRUE]
Sign(s) == [tok |-> s, fact |-> NewClaimFact(NoClaim)]
Expression(f) == <<[tok |-> "fact", fact |-> f]>>

Join(groups, sep) ==
    LET s == SeqExt!SetToSeq(groups)
    IN  SeqExt!FlattenSeq([i \in DOMAIN s |-> IF i = 1 THEN s[i] ELSE <<Sign(sep)>> \o s[i]])

Paren(s) == <<Sign("(")>> \o s \o <<Sign(")")>>

RECURSIVE StringWithOperand(_, _)

DslString(n) ==
    CASE n.node = "or" -> Paren(Join({StringWithOperand(c, "and") : c \in n.children}, "or"))
      [] n.node = "and" -> Paren(Join({StringWithOperand(c, "and") : c \in n.children}, "and"))
      [] n.node = "not" -> <<Sign("!")>> \o Paren(StringWithOperand(n.child, "and"))
      [] n.node = "leaf" -> Expression(n.fact)

_string(n, op) ==
    Paren(Join({Expression(f) : f \in n.facts}
               \union {StringWithOperand(c, "and") : c \in n.and}
               \union {StringWithOperand(c, "or") : c \in n.or}
               \union {<<Sign("!")>> \o StringWithOperand(c, op) : c \in n.not}, op))

StringWithOperand(n, op) ==
    IF n.node = "ast" THEN _string(n, op) ELSE DslString(n)

String(n) == StringWithOperand(n, "and")

-----------------------------------------------------------------------------
(* ClaimsConfig: a level per Child                                         *)

validateAND(level, p) == \A f \in level.AND : FactHasClaim(f, p)

\* Mutant of validateOR: without the early return for an empty OR.
validateORNeedsOne(level, p) == \E f \in level.OR : FactHasClaim(f, p)

validateOR(level, p) ==
    level.OR = {} \/ \E f \in level.OR : FactHasClaim(f, p)

Validate(config, p) ==
    \A i \in DOMAIN config : validateAND(config[i], p) /\ validateOR(config[i], p)
=============================================================================
