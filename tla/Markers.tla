-------------------------------- MODULE Markers --------------------------------
(***************************************************************************)
(* Marker expressions, as in -m 'lifecycle and not fails_on_aws': the      *)
(* recursive descent parser of ParseMarkerExpr, and its grammar.           *)
(*                                                                         *)
(* An expression stands for the sets of markers it matches, so that the    *)
(* syntax tree and its evaluation are one.                                 *)
(***************************************************************************)
EXTENDS Integers, Sequences

CONSTANT Marker  \* the names of the markers

ASSUME MarkerAssumption == Marker \cap {"", "and", "or", "not", "(", ")"} = {}

MarkerSet == SUBSET Marker

\* What lexMarkers makes of the names, operators and parentheses.
Token == Marker \cup {"and", "or", "not", "(", ")"}

Operators == {"or", "and"}

Levels == Operators \cup {"not", "atom"}

\* The operands of "or" are chains of "and", and those of "and" negations.
Operand(op) == IF op = "or" THEN "and" ELSE "not"

Join(op, a, b) == IF op = "or" THEN a \cup b ELSE a \cap b

-----------------------------------------------------------------------------
(* The parser.                                                             *)

Matched(s, p) == [ok |-> TRUE, sat |-> s, pos |-> p]
Error == [ok |-> FALSE, sat |-> {}, pos |-> 0]

Peek(toks, i) == IF i <= Len(toks) THEN toks[i] ELSE ""

\* A variant of NotOperand: "not" takes all that follows.
NotTakesAll == "or"

\* The level of the operand of "not".
NotOperand == "not"

\* parseOr and parseAnd, from the i-th token.  The loop over a chain of operators
\* is recursion on the rest of the chain.
ParseChain(toks, parse, op, i) ==
  LET lhs == parse[<<Operand(op), i>>] IN
  IF lhs.ok /\ Peek(toks, lhs.pos) = op
  THEN LET rest == parse[<<op, lhs.pos + 1>>] IN
       IF rest.ok THEN Matched(Join(op, lhs.sat, rest.sat), rest.pos) ELSE Error
  ELSE lhs

ParseNot(toks, parse, i) ==
  IF Peek(toks, i) = "not"
  THEN LET inner == parse[<<NotOperand, i + 1>>] IN
       IF inner.ok THEN Matched(MarkerSet \ inner.sat, inner.pos) ELSE Error
  ELSE parse[<<"atom", i>>]

ParseAtom(toks, parse, i) ==
  IF Peek(toks, i) \in Marker
  THEN Matched({m \in MarkerSet : toks[i] \in m}, i + 1)
  ELSE IF Peek(toks, i) = "("
  THEN LET inner == parse[<<"or", i + 1>>] IN
       IF inner.ok /\ Peek(toks, inner.pos) = ")"
       THEN Matched(inner.sat, inner.pos + 1) ELSE Error
  ELSE Error

ParseLevel(toks, parse, l, i) ==
  CASE l \in Operators -> ParseChain(toks, parse, l, i)
    [] l = "not" -> ParseNot(toks, parse, i)
    [] l = "atom" -> ParseAtom(toks, parse, i)

\* Where the parser may be: at a level, before the i-th token.
Places(toks) == Levels \X (1..(Len(toks) + 1))

Parser(toks) ==
  LET parse[p \in Places(toks)] == ParseLevel(toks, parse, p[1], p[2]) IN parse

\* ParseMarkerExpr.  Tokens left over are an error, no tokens match everything.
Parse(toks) ==
  IF toks = <<>> THEN Matched(MarkerSet, 1)
  ELSE LET r == Parser(toks)[<<"or", 1>>] IN
       IF r.ok /\ r.pos = Len(toks) + 1 THEN r ELSE Error

-----------------------------------------------------------------------------
(* The grammar, of which the comment of MarkerExpr says that it is the one *)
(* of pytest -m:                                                           *)
(*   or := and ('or' and)*      and  := not ('and' not)*                   *)
(*   not := 'not' not | atom    atom := '(' expr ')' | IDENT               *)

\* What the tokens from i to j can mean at level l.  The last operator of a
\* chain is its root.
Means(toks, means, l, i, j) ==
  CASE l \in Operators ->
         means[<<Operand(l), i, j>>] \cup
           UNION {{Join(l, a, b) : a \in means[<<l, i, k - 1>>],
                                   b \in means[<<Operand(l), k + 1, j>>]} :
                    k \in {k \in i..j : toks[k] = l}}
    [] l = "not" ->
         IF i <= j /\ toks[i] = "not"
         THEN {MarkerSet \ a : a \in means[<<"not", i + 1, j>>]}
         ELSE means[<<"atom", i, j>>]
    [] l = "atom" ->
         IF i = j /\ toks[i] \in Marker
         THEN {{m \in MarkerSet : toks[i] \in m}}
         ELSE IF i < j /\ toks[i] = "(" /\ toks[j] = ")" THEN means[<<"or", i + 1, j - 1>>]
         ELSE {}

Spans(toks) == Levels \X (1..(Len(toks) + 1)) \X (0..Len(toks))

Grammar(toks) ==
  LET means[s \in Spans(toks)] == Means(toks, means, s[1], s[2], s[3]) IN means

Meanings(toks) ==
  IF toks = <<>> THEN {MarkerSet} ELSE Grammar(toks)[<<"or", 1, Len(toks)>>]
=============================================================================
