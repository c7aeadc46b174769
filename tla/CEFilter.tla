------------------------------ MODULE CEFilter ------------------------------
(***************************************************************************)
(* The filter language of cloudevent/cefilter: the lexer, the recursive-   *)
(* descent parser, the predicate trees it builds and what they match, and  *)
(* the type constraint the index extracts from a tree.                     *)
(*                                                                         *)
(* A token is a record [kind, val].  An attribute value and a glob pattern *)
(* are sequences of characters; an event is a function from the keys it    *)
(* carries to values (Attrs).                                              *)
(***************************************************************************)
EXTENDS Naturals, Sequences

Tok(kind, val) == [kind |-> kind, val |-> val]
Ident(k) == Tok("ident", k)
Str(v) == Tok("string", v)
Sym(kind) == Tok(kind, <<>>)

eqPred(k, v) == [op |-> "eq", key |-> k, val |-> v]
nePred(k, v) == [op |-> "ne", key |-> k, val |-> v]
likePred(k, v) == [op |-> "like", key |-> k, val |-> v]
inPred(k, vs) == [op |-> "in", key |-> k, vals |-> vs]
existsPred(k) == [op |-> "exists", key |-> k]
andPred(l, r) == [op |-> "and", left |-> l, right |-> r]
orPred(l, r) == [op |-> "or", left |-> l, right |-> r]
notPred(p) == [op |-> "not", inner |-> p]

\* a["type"], which is "" when the event has no type.
TypeOf(a) == IF "type" \in DOMAIN a THEN a["type"] ELSE <<>>

-----------------------------------------------------------------------------
(* Matching                                                                *)

RECURSIVE globMatches(_, _)
\* globToRegexp: `*' is any run of characters, `?' is one character.
globMatches(g, v) ==
    IF g = <<>> THEN v = <<>>
    ELSE CASE Head(g) = "*" -> \E i \in 0..Len(v) :
                                  globMatches(Tail(g), SubSeq(v, i + 1, Len(v)))
           [] Head(g) = "?" -> v # <<>> /\ globMatches(Tail(g), Tail(v))
           [] OTHER -> v # <<>> /\ Head(v) = Head(g) /\ globMatches(Tail(g), Tail(v))

RECURSIVE matches(_, _)
\* Predicate.Match: every comparison but != wants the attribute to be there.
matches(p, a) ==
    CASE p.op = "eq" -> p.key \in DOMAIN a /\ a[p.key] = p.val
      [] p.op = "ne" -> p.key \in DOMAIN a => a[p.key] # p.val
      [] p.op = "like" -> p.key \in DOMAIN a /\ globMatches(p.val, a[p.key])
      [] p.op = "in" -> p.key \in DOMAIN a /\ a[p.key] \in p.vals
      [] p.op = "exists" -> p.key \in DOMAIN a
      [] p.op = "and" -> matches(p.left, a) /\ matches(p.right, a)
      [] p.op = "or" -> matches(p.left, a) \/ matches(p.right, a)
      [] p.op = "not" -> ~matches(p.inner, a)

-----------------------------------------------------------------------------
(* The lexer, on sequences of characters.                                  *)

\* The letters of the reserved words stand for all letters.
Capitals == [a |-> "A", d |-> "D", e |-> "E", i |-> "I", k |-> "K", l |-> "L",
             n |-> "N", o |-> "O", r |-> "R", s |-> "S", t |-> "T", x |-> "X"]
ToUpper(word) == [i \in DOMAIN word |-> IF word[i] \in DOMAIN Capitals THEN Capitals[word[i]] ELSE word[i]]
Reserved == {<<<<"A", "N", "D">>, "AND">>, <<<<"O", "R">>, "OR">>, <<<<"N", "O", "T">>, "NOT">>, <<<<"I", "N">>, "IN">>,
             <<<<"L", "I", "K", "E">>, "LIKE">>, <<<<"E", "X", "I", "S", "T", "S">>, "EXISTS">>}

StartsWord(ch) == ch \in {"_"} \union DOMAIN Capitals \union {Capitals[c] : c \in DOMAIN Capitals}
InWord(ch) == StartsWord(ch) \/ ch \in {"1", "-", "."}
Quotes == {"'", "\""}

\* Reserved words are not case-sensitive, identifiers are.
emitWord(word) ==
    IF \E r \in Reserved : r[1] = ToUpper(word)
      THEN Sym((CHOOSE r \in Reserved : r[1] = ToUpper(word))[2])
      ELSE Ident(word)

RECURSIVE readWord(_, _)
\* The position after the word that goes on at i.
readWord(s, i) == IF i <= Len(s) /\ InWord(s[i]) THEN readWord(s, i + 1) ELSE i

RECURSIVE readString(_, _, _, _)
\* A backslash makes the next character, whichever it is, part of the string.
readString(s, i, quote, val) ==
    CASE i > Len(s) -> [ok |-> FALSE]
      [] i <= Len(s) /\ s[i] = quote -> [ok |-> TRUE, val |-> val, pos |-> i + 1]
      [] i < Len(s) /\ s[i] = "\\" -> readString(s, i + 2, quote, Append(val, s[i + 1]))
      [] OTHER -> readString(s, i + 1, quote, Append(val, s[i]))

RECURSIVE tokenize(_, _, _)
tokenize(s, i, toks) ==
    IF i > Len(s) THEN [ok |-> TRUE, toks |-> toks]
    ELSE CASE s[i] = " " -> tokenize(s, i + 1, toks)
           [] s[i] \in {"(", ")", ",", "="} -> tokenize(s, i + 1, Append(toks, Sym(s[i])))
           [] s[i] = "!" /\ i < Len(s) /\ s[i + 1] = "=" -> tokenize(s, i + 2, Append(toks, Sym("!=")))
           [] s[i] \in Quotes ->
                LET r == readString(s, i + 1, s[i], <<>>)
                IN  IF r.ok THEN tokenize(s, r.pos, Append(toks, Str(r.val))) ELSE r
           [] StartsWord(s[i]) ->
                LET end == readWord(s, i)
                IN  tokenize(s, end, Append(toks, emitWord(SubSeq(s, i, end - 1))))
           [] OTHER -> [ok |-> FALSE]

lex(s) == tokenize(s, 1, <<>>)

-----------------------------------------------------------------------------
(* The parser.  A parse function takes the tokens and the position of the  *)
(* first one it may consume, and returns the predicate and the position    *)
(* after it, or Fail.                                                      *)

Fail == [ok |-> FALSE]
Ok(p, i) == [ok |-> TRUE, pred |-> p, pos |-> i]
peek(ts, i) == IF i <= Len(ts) THEN ts[i].kind ELSE "eof"

\* parseComparison, the string of =, != and LIKE.
Operand(ts, i, op, key) ==
    IF peek(ts, i) = "string"
      THEN Ok([op |-> op, key |-> key, val |-> ts[i].val], i + 1)
      ELSE Fail

RECURSIVE parseInList(_, _, _, _)
\* parseComparison, the loop over the strings of IN ( ... ).
parseInList(ts, i, key, vals) ==
    IF peek(ts, i) # "string" THEN Fail
    ELSE LET vs == vals \union {ts[i].val}
         IN  CASE peek(ts, i + 1) = "," -> parseInList(ts, i + 2, key, vs)
               [] peek(ts, i + 1) = ")" -> Ok(inPred(key, vs), i + 2)
               [] OTHER -> Fail

parseComparison(ts, i, key) ==
    CASE peek(ts, i) = "=" -> Operand(ts, i + 1, "eq", key)
      [] peek(ts, i) = "!=" -> Operand(ts, i + 1, "ne", key)
      [] peek(ts, i) = "LIKE" -> Operand(ts, i + 1, "like", key)
      [] peek(ts, i) = "IN" -> IF peek(ts, i + 1) = "("
                                 THEN parseInList(ts, i + 2, key, {})
                                 ELSE Fail
      [] OTHER -> Fail

RECURSIVE parseOr(_, _), parseAnd(_, _), parseNot(_, _),
          orLoop(_, _), andLoop(_, _)

parsePrimary(ts, i) ==
    CASE peek(ts, i) = "(" ->
            LET inner == parseOr(ts, i + 1)
            IN  IF inner.ok /\ peek(ts, inner.pos) = ")"
                  THEN Ok(inner.pred, inner.pos + 1)
                  ELSE Fail
      [] peek(ts, i) = "EXISTS" ->
            IF peek(ts, i + 1) = "ident"
              THEN Ok(existsPred(ts[i + 1].val), i + 2)
              ELSE Fail
      [] peek(ts, i) = "ident" -> parseComparison(ts, i + 1, ts[i].val)
      [] OTHER -> Fail

parseNot(ts, i) ==
    IF peek(ts, i) = "NOT"
      THEN LET inner == parseNot(ts, i + 1)
           IN  IF inner.ok THEN Ok(notPred(inner.pred), inner.pos) ELSE Fail
      ELSE parsePrimary(ts, i)

\* The loops of parseAnd and parseOr, with `left' parsed.
andLoop(ts, left) ==
    IF ~left.ok \/ peek(ts, left.pos) # "AND" THEN left
    ELSE LET right == parseNot(ts, left.pos + 1)
         IN  IF right.ok
               THEN andLoop(ts, Ok(andPred(left.pred, right.pred), right.pos))
               ELSE Fail

orLoop(ts, left) ==
    IF ~left.ok \/ peek(ts, left.pos) # "OR" THEN left
    ELSE LET right == parseAnd(ts, left.pos + 1)
         IN  IF right.ok
               THEN orLoop(ts, Ok(orPred(left.pred, right.pred), right.pos))
               ELSE Fail

parseAnd(ts, i) == andLoop(ts, parseNot(ts, i))
parseOr(ts, i) == orLoop(ts, parseAnd(ts, i))

\* Parse: an expression, and nothing after it.
Parse(ts) ==
    LET r == parseOr(ts, 1)
    IN  IF r.ok /\ peek(ts, r.pos) = "eof" THEN r ELSE Fail

-----------------------------------------------------------------------------
(* The type constraint of a predicate                                      *)

Constraint(exact, globs) ==
    [exact |-> exact, globs |-> globs, unconstrained |-> FALSE]
Unconstrained == [exact |-> {}, globs |-> <<>>, unconstrained |-> TRUE]

AnyGlob(tc, v) == \E i \in DOMAIN tc.globs : globMatches(tc.globs[i], v)

\* Mutant of intersectConstraints: globs matter only where there is no exact
\* value.
intersectPrefersExact(a, b) ==
    Constraint((a.exact \intersect b.exact)
                 \union {v \in a.exact : AnyGlob(b, v)}
                 \union {v \in b.exact : AnyGlob(a, v)},
               IF a.exact \union b.exact = {} THEN a.globs \o b.globs ELSE <<>>)

\* intersectConstraints: exact values both admit; globs as a superset.
intersectConstraints(a, b) ==
    Constraint((a.exact \intersect b.exact)
                 \union {v \in a.exact : AnyGlob(b, v)}
                 \union {v \in b.exact : AnyGlob(a, v)},
               a.globs \o b.globs)

unionConstraints(a, b) == Constraint(a.exact \union b.exact, a.globs \o b.globs)

RECURSIVE extractTypeConstraint(_)
extractTypeConstraint(p) ==
    CASE p.op = "eq" /\ p.key = "type" -> Constraint({p.val}, <<>>)
      [] p.op = "like" /\ p.key = "type" -> Constraint({}, <<p.val>>)
      [] p.op = "in" /\ p.key = "type" -> Constraint(p.vals, <<>>)
      [] p.op = "and" ->
            LET lc == extractTypeConstraint(p.left)
                rc == extractTypeConstraint(p.right)
            IN  CASE lc.unconstrained -> rc
                  [] rc.unconstrained -> lc
                  [] OTHER -> intersectConstraints(lc, rc)
      [] p.op = "or" ->
            LET lc == extractTypeConstraint(p.left)
                rc == extractTypeConstraint(p.right)
            IN  IF lc.unconstrained \/ rc.unconstrained
                  THEN Unconstrained
                  ELSE unionConstraints(lc, rc)
      [] OTHER -> Unconstrained

=============================================================================
