----------------------------- MODULE Derivation -----------------------------
(***************************************************************************)
(* The grammar of an expression statement, as the comments of              *)
(* libs/js/grammar.c and the order of its levels give it, and the tree     *)
(* that the parser returns.  In a module apart, since it is recursive.     *)
(***************************************************************************)
EXTENDS Grammar

\* The expression e of the level n is derived from the tokens a to b.
RECURSIVE Derived(_, _, _, _)
Derived(e, a, b, n) ==
  /\ a <= b
  /\ \/ n > 1 /\ Derived(e, a, b, n - 1)
     \/ /\ n = 1
        /\ \/ a = b /\ T(a) \in Literal /\ e = <<"leaf", a>>
           \/ T(a) = "(" /\ T(b) = ")" /\ Derived(e, a + 1, b - 1, 16)
           \/ /\ e[1] = "." /\ b > a + 1 /\ T(b - 1) = "." /\ T(b) = "ID"
              /\ e[3] = <<"leaf", b>> /\ Derived(e[2], a, b - 2, 1)
           \/ /\ e[1] = "[]" /\ T(b) = "]"
              /\ \E k \in a..b : /\ T(k) = "[" /\ Derived(e[2], a, k - 1, 1)
                                 /\ Derived(e[3], k + 1, b - 1, 16)
     \/ /\ n = 2 /\ T(b) \in Step1 /\ ~read[b].line
        /\ e[1] = Post(T(b)) /\ Derived(e[2], a, b - 1, 1)
     \/ /\ n = 3 /\ T(a) \in Prefix
        /\ Len(e) = 2 /\ e[1] = T(a) /\ Derived(e[2], a + 1, b, 3)
     \/ /\ n \in Binary
        /\ \E k \in a..b : /\ T(k) \in Operators(n) /\ Len(e) = 3 /\ e[1] = T(k)
                           /\ Derived(e[2], a, k - 1, n) /\ Derived(e[3], k + 1, b, n - 1)
     \/ /\ n = 14 /\ e[1] = "?:"
        /\ \E k, m \in a..b : /\ T(k) = "?" /\ T(m) = ":" /\ Derived(e[2], a, k - 1, 13)
                              /\ Derived(e[3], k + 1, m - 1, 15) /\ Derived(e[4], m + 1, b, 15)
     \/ /\ n = 15
        /\ \E k \in a..b : /\ T(k) \in Assign /\ Len(e) = 3 /\ e[1] = T(k)
                           /\ Derived(e[2], a, k - 1, 14) /\ Derived(e[3], k + 1, b, 15)

\* A tree that the parser returns is the one that the grammar in its comments
\* and the order of its levels derive from all the tokens that it took, and the
\* statement ends at a semicolon, before a brace or before a new line.
ParsesAsGrammar ==
  tree # NoNode =>
    LET last == Len(read) IN
      /\ Derived(tree, 1, last - 1, 16)
      /\ T(last) \in {";", "}"} \/ read[last].line
      /\ ahead <=> T(last) # ";"
=============================================================================
