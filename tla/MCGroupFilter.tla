---------------------------- MODULE MCGroupFilter ----------------------------
(* Small instances of GroupFilter: all names up to four characters over an *)
(* alphabet of two, and filters of up to two patterns.                     *)
EXTENDS GroupFilter

Words(n) == UNION {[1..k -> {"a", "b"}] : k \in 1..n}
Names == {<< >>} \union Words(4)

PatternsOf(tokenLists) ==
  [tokens: tokenLists, openFront: BOOLEAN, openBack: BOOLEAN]
OneToken == {<<w>> : w \in Words(2)}
SeveralTokens == {<<<<"a", "b">>, <<"b">>>>, <<<<"a">>, <<"b">>>>,
                  <<<<"b">>, <<"a">>, <<"b">>>>}

Lists ==
  {<< >>} \union {<<p>> : p \in PatternsOf(OneToken \union SeveralTokens)}
  \union {<<p, q>> : p \in PatternsOf({<<<<"b", "a">>>>}),
                     q \in PatternsOf({<<<<"a">>, <<"b">>>>})}
Garbage == {<< >>} \union
  {<<p>> : p \in {x \in PatternsOf({<<<<"a">>>>, <<<<"b", "b">>>>}) : x.openBack}}
================================================================================
