------------------------------- MODULE MCSearch -------------------------------
(* Search for TLC, and the meaning of unification on a small universe.     *)
EXTENDS Search

a == Atom(1)
b == Atom(2)

X == Var(1)
Y == Var(2)
A(t) == Array(<<t>>)
AA(t, u) == Array(<<t, u>>)

(* Variables with each other and with terms that hold them, so that two in *)
(* a row make aliases and cycles; rests of every kind; open frames; the    *)
(* wildcard.                                                               *)
GoalsDef ==
    {<<X, Y>>, <<X, a>>, <<X, A(Y)>>, <<X, Unbound>>, <<AA(X, b), AA(a, X)>>, <<AA(X, Y), AA(Y, a)>>,
     <<Array(<<X, Y, X>>), Array(<<A(Y), A(X), Y>>)>>,
     <<b, Y>>, <<AA(a, Rest(2)), Array(<<>>)>>, <<AA(a, X), A(Y)>>,
     <<AA(a, Rest(2)), X>>, <<AA(a, b), AA(X, Rest(1))>>, <<AA(X, Rest(2)), AA(a, b)>>, <<AA(X, Rest(0)), A(Y)>>,
     <<AA(X, Rest(1)), A(Rest(2))>>, <<AA(Rest(1), a), AA(a, a)>>,
     <<Frame(<<1, 2>>, <<a, X>>), Frame(<<2, 3>>, <<Y, b>>)>>}

(* Values, and the terms the goals are made of.                            *)
GroundDef == {a, b, Array(<<>>), Array(<<a>>), Array(<<b>>), Array(<<a, b>>), Array(<<b, b>>)}

Plain(t) == /\ t.tag \in {"atom", "var", "array"}
            /\ t.tag = "array" =>
                 /\ ~RestInside(t)
                 /\ \A i \in 1 .. Len(t.items) : t.items[i].tag # "unbound" /\ t.items[i] # Rest(0)
WithParts(T) ==
    T \cup UNION {{t.items[i] : i \in {j \in 1 .. Len(t.items) : t.items[j].tag # "rest"}} : t \in T}
      \cup UNION {{Array(SubSeq(t.items, n, Len(t.items))) : n \in 1 .. Len(t.items) + 1} :
                    t \in {u \in T : u.tag = "array" /\ ~EndsInRest(u)}}
TermsDef == WithParts(WithParts({X, Y} \cup {t \in {g[1] : g \in Goals} \cup {g[2] : g \in Goals} : Plain(t)}))

RECURSIVE ValueDef(_, _)
ValueDef(s, t) ==
    IF t.tag = "var" THEN s[t.id]
    ELSE IF t.tag # "array" THEN t
    ELSE LET n == IF EndsInRest(t) THEN Len(t.items) - 1 ELSE Len(t.items)
             parts == [i \in 1 .. n |-> ValueDef(s, t.items[i])]
             rest == IF EndsInRest(t) THEN s[t.items[n + 1].id] ELSE Array(<<>>)
         IN  IF rest.tag # "array" \/ None \in {parts[i] : i \in 1 .. n} THEN None
             ELSE Array(parts \o rest.items)
==============================================================================
