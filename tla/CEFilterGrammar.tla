--------------------------- MODULE CEFilterGrammar --------------------------
(***************************************************************************)
(* Expressions are written one piece at a time; after every piece the      *)
(* parser of CEFilter is compared with the grammar in the comment of Parse *)
(* (parser.go), read as a grammar: the set of all trees it derives from    *)
(* the token sequence.  Or a text is typed, a few characters at a time,    *)
(* and the lexer is compared with the words, strings and symbols the text  *)
(* can be cut into.                                                        *)
(***************************************************************************)
EXTENDS CEFilter, FiniteSets

CONSTANTS
    Alphabets,  \* sets of pieces; a piece is a sequence of tokens
    MaxPieces,  \* bound: pieces of an expression
    Chunks,     \* what is typed at once: sequences of characters
    MaxChunks,  \* bound: chunks of a text
    Samples     \* the Attrs predicates are evaluated on

ASSUME GrammarAssumption ==
    /\ MaxPieces \in Nat /\ MaxChunks \in Nat
    /\ \A A \in Alphabets : \A piece \in A : \A i \in DOMAIN piece :
          piece[i] = Tok(piece[i].kind, piece[i].val)

VARIABLES alphabet, pieces, toks,
          text       \* what was typed, a sequence of characters

exprVars == <<alphabet, pieces, toks, text>>

InitExpr == alphabet \in Alphabets /\ pieces = 0 /\ toks = <<>> /\ text = <<>>

Write(piece) ==
    /\ text = <<>>
    /\ pieces < MaxPieces
    /\ pieces' = pieces + 1
    /\ toks' = toks \o piece
    /\ UNCHANGED <<alphabet, text>>

Type(chunk) ==
    /\ toks = <<>>
    /\ pieces < MaxChunks
    /\ pieces' = pieces + 1
    /\ text' = text \o chunk
    /\ UNCHANGED <<alphabet, toks>>

NextExpr ==
    \/ \E piece \in alphabet : Write(piece)
    \/ \E chunk \in Chunks : Type(chunk)

-----------------------------------------------------------------------------
(* The grammar, for the tokens from i to j.  The repetition of and_expr    *)
(* and or_expr groups to the left.                                         *)

kind(i) == toks[i].kind

RECURSIVE OrTrees(_, _), AndTrees(_, _), NotTrees(_, _)

Compared(i, j, op) ==
    j = i + 2 /\ kind(i) = "ident" /\ kind(i + 1) = op /\ kind(j) = "string"

InList(i, j) ==
    /\ j >= i + 4
    /\ kind(i) = "ident" /\ kind(i + 1) = "IN"
    /\ kind(i + 2) = "(" /\ kind(j) = ")"
    /\ \A m \in i+3 .. j-1 :
          kind(m) = IF (m - i) % 2 = 1 THEN "string" ELSE ","
    /\ (j - i) % 2 = 0

PrimaryTrees(i, j) ==
    (IF j > i + 1 /\ kind(i) = "(" /\ kind(j) = ")" THEN OrTrees(i + 1, j - 1) ELSE {})
    \union (IF j = i + 1 /\ kind(i) = "EXISTS" /\ kind(j) = "ident"
              THEN {existsPred(toks[j].val)} ELSE {})
    \union (IF Compared(i, j, "=") THEN {eqPred(toks[i].val, toks[j].val)} ELSE {})
    \union (IF Compared(i, j, "!=") THEN {nePred(toks[i].val, toks[j].val)} ELSE {})
    \union (IF Compared(i, j, "LIKE") THEN {likePred(toks[i].val, toks[j].val)} ELSE {})
    \union (IF InList(i, j)
              THEN {inPred(toks[i].val,
                      {toks[m].val : m \in {k \in i+3 .. j-1 : kind(k) = "string"}})}
              ELSE {})

NotTrees(i, j) ==
    PrimaryTrees(i, j)
    \union (IF i < j /\ kind(i) = "NOT" THEN {notPred(p) : p \in NotTrees(i + 1, j)} ELSE {})

AndTrees(i, j) ==
    NotTrees(i, j)
    \union UNION {{andPred(l, r) : l \in AndTrees(i, m - 1), r \in NotTrees(m + 1, j)} :
                    m \in {k \in i+1 .. j-1 : kind(k) = "AND"}}

OrTrees(i, j) ==
    AndTrees(i, j)
    \union UNION {{orPred(l, r) : l \in OrTrees(i, m - 1), r \in AndTrees(m + 1, j)} :
                    m \in {k \in i+1 .. j-1 : kind(k) = "OR"}}

-----------------------------------------------------------------------------
(* What a text can be cut into.                                            *)

\* In the string that opens at i, an odd run of backslashes ends before k.
Escaped(i, k) ==
    \E n \in 1 .. k-i-1 :
      /\ n % 2 = 1
      /\ \A m \in k-n .. k-1 : text[m] = "\\"
      /\ k - n - 1 = i \/ text[k - n - 1] # "\\"

Quoted(i, j) ==
    /\ i < j /\ text[i] \in Quotes /\ text[j] = text[i]
    /\ \A k \in i+1 .. j : text[k] = text[i] => (Escaped(i, k) <=> k # j)

\* What is between the quotes, without the backslashes that escape.
Contents(i, j) ==
    LET Kept(k) == text[k] = "\\" => Escaped(i, k)
        kept == SelectSeq([m \in 1 .. j-i-1 |-> i + m], Kept)
    IN  [m \in DOMAIN kept |-> text[kept[m]]]

\* The tokens that may be written from i to j; a word ends where it must.
Lexemes(i, j) ==
    {Sym(c) : c \in {c \in {"(", ")", ",", "="} : i = j /\ text[i] = c}}
    \union (IF j = i + 1 /\ text[i] = "!" /\ text[j] = "=" THEN {Sym("!=")} ELSE {})
    \union (IF Quoted(i, j) THEN {Str(Contents(i, j))} ELSE {})
    \union (IF StartsWord(text[i]) /\ (\A k \in i..j : InWord(text[k]))
               /\ (j < Len(text) => ~InWord(text[j + 1]))
              THEN {emitWord(SubSeq(text, i, j))} ELSE {})

RECURSIVE Readings(_)
Readings(i) ==
    IF i > Len(text) THEN {<<>>}
    ELSE (IF text[i] = " " THEN Readings(i + 1) ELSE {})
         \union UNION {{<<t>> \o rest : t \in Lexemes(i, j), rest \in Readings(j + 1)} : j \in i .. Len(text)}

-----------------------------------------------------------------------------
\* The recursive-descent parser accepts exactly the expressions the documented
\* grammar derives, and builds the one tree it derives: precedence, grouping,
\* parentheses and IN lists included (Parse, parseOr ... parseComparison).  And
\* the lexer reads a text in the one way it can be cut into words, strings and
\* symbols, or refuses it: quotes and escapes included (tokenize, readString).
ParsesTheGrammar ==
    LET parsed == Parse(toks)
        lexed == lex(text)
    IN  /\ OrTrees(1, Len(toks)) = IF parsed.ok THEN {parsed.pred} ELSE {}
        /\ Readings(1) = IF lexed.ok THEN {lexed.toks} ELSE {}

\* The index looks a filter up only under the types its constraint admits: a
\* parsed predicate never matches an event whose type its constraint excludes
\* (extractTypeConstraint against Predicate.Match).
ConstraintIsSound ==
    LET parsed == Parse(toks)
    IN  parsed.ok =>
        LET tc == extractTypeConstraint(parsed.pred)
        IN  \A a \in Samples : matches(parsed.pred, a) =>
              tc.unconstrained \/ TypeOf(a) \in tc.exact \/ AnyGlob(tc, TypeOf(a))

\* An expression means what is written: the lexer and the parser read it as the
\* grammar does, and the index asks it about every event it could match.
ReadAsWritten == ParsesTheGrammar /\ ConstraintIsSound
=============================================================================
