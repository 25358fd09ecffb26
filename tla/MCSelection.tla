------------------------------ MODULE MCSelection ------------------------------
(***************************************************************************)
(* A small run of Selection: names that differ by a "test_" only, suites   *)
(* of at most two tests, lists of at most two entries, every expression of *)
(* up to four tokens over two markers, and longer ones that tell           *)
(* precedence, chains and parentheses apart.                               *)
(***************************************************************************)
EXTENDS Selection

\* "x", "test_x" and their node IDs, one of a test in a suite, one in a list.
TestNames == {<<0, 1>>, <<1, 1>>}
EntryNames == {<<0, 1>>, <<1, 1>>, <<2, 1>>}

\* "a" marks the test with the shorter name, the other one has both markers.
TestOf(n, m) == [name |-> n, module |-> m, markers |-> IF n[1] = 0 THEN {"a"} ELSE {"a", "b"}]

SomeTests == {TestOf(n, m) : n \in TestNames, m \in Modules} \cup {TestOf(<<0, 1>>, "other")}

SomeEntries ==
  {[valid |-> TRUE, module |-> m, name |-> n] : m \in Modules, n \in EntryNames}
    \cup {[valid |-> FALSE, module |-> "s3", name |-> <<0, 1>>]}

SmallSuites == BoundedSeq(SomeTests, 2)
SmallLists == BoundedSeq(SomeEntries, 2)

LongExpressions ==
  UNION {{<<x, o, y, p, z>>, <<"(", x, o, y, ")", p, z>>, <<x, o, "(", y, p, z, ")">>,
          <<"not", x, o, y, p, z>>, <<"not", "(", x, o, y, ")">>} :
            x \in Marker, y \in Marker, z \in Marker, o \in Operators, p \in Operators}

SmallExpressions == BoundedSeq(Token, 4) \cup LongExpressions

\* No marker expression.
OneExpression == {<<>>}
=============================================================================
