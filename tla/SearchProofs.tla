----------------------------- MODULE SearchProofs -----------------------------
(***************************************************************************)
(* Backtracking restores the binding store, for any number of variables,   *)
(* any depth, any terms and any nesting of choices; and unification        *)
(* answers for equality, for any terms and any assignment of values.       *)
(***************************************************************************)
EXTENDS Search, TLAPS

Types ==
    /\ \E S : trail \in Seq(S)
    /\ \E S : prompts \in Seq(S)
    /\ store = [v \in Vars |-> store[v]]
    /\ top \in 0 .. MaxVars
    /\ Len(prompts) > 0 /\ prompts[1].kind = "line"

(* The marks of an inner prompt lie above those of an outer one.           *)
MarksInOrder ==
    \A k \in 1 .. Len(prompts) :
       /\ prompts[k].mark \in 0 .. Len(trail)
       /\ prompts[k].top \in 0 .. top
       /\ \A j \in 1 .. k : prompts[j].mark <= prompts[k].mark /\ prompts[j].top <= prompts[k].top

(* A word of unification undoes nothing older than itself.                 *)
OwnMark ==
    outcome \in {"going", "yes", "no", "error"} =>
       /\ mark \in 0 .. Len(trail)
       /\ \A k \in 1 .. Len(prompts) : prompts[k].mark <= mark

StoreInv == Types /\ MarksInOrder /\ TrailRestores
IInv == StoreInv /\ OwnMark

------------------------------------------------------------------------------
LEMMA Appended ==
    ASSUME NEW S, NEW s \in Seq(S), NEW e
    PROVE  /\ Append(s, e) \in Seq(S \cup {e})
           /\ Len(s) \in Nat /\ Len(Append(s, e)) = Len(s) + 1
           /\ \A i \in 1 .. Len(s) : Append(s, e)[i] = s[i]
           /\ Append(s, e)[Len(s) + 1] = e
<1>1. s \in Seq(S \cup {e})
  OBVIOUS
<1>2. QED BY <1>1

LEMMA Prefixed ==
    ASSUME NEW S, NEW s \in Seq(S), NEW n \in 0 .. Len(s)
    PROVE  /\ Prefix(s, n) \in Seq(S)
           /\ Len(s) \in Nat /\ Len(Prefix(s, n)) = n
           /\ \A i \in 1 .. n : Prefix(s, n)[i] = s[i]
BY DEF Prefix

(* Undoing in two goes is undoing at once: an older mark is not disturbed  *)
(* by what is undone down to a newer one.                                  *)
LEMMA UndoStep ==
    ASSUME StoreInv, NEW m \in 0 .. Len(trail), UndoTo(m),
           NEW n \in 1 .. Len(prompts), prompts' = Prefix(prompts, n),
           \A k \in 1 .. n : prompts[k].mark <= m /\ prompts[k].top <= top',
           top' \in 0 .. MaxVars
    PROVE  StoreInv'
<1> USE SearchAssumption
<1>1. PICK S : trail \in Seq(S)
  BY DEF StoreInv, Types
<1>2. PICK P : prompts \in Seq(P)
  BY DEF StoreInv, Types
<1>3. /\ trail' \in Seq(S) /\ Len(trail') = m /\ Len(trail) \in Nat
      /\ \A i \in 1 .. m : trail'[i] = trail[i]
  BY <1>1, Prefixed DEF UndoTo, Prefix
<1>4. /\ prompts' \in Seq(P) /\ Len(prompts') = n /\ Len(prompts) \in Nat
      /\ \A k \in 1 .. n : prompts'[k] = prompts[k]
  BY <1>2, Prefixed
<1>5. Types'
  <2>1. store' = [v \in Vars |-> store'[v]]
    BY DEF UndoTo, UndoneTo
  <2>2. Len(prompts') > 0 /\ prompts'[1].kind = "line"
    BY <1>4 DEF StoreInv, Types
  <2>3. (\E T : trail' \in Seq(T)) /\ (\E T : prompts' \in Seq(T))
    BY <1>3, <1>4
  <2>4. QED BY <2>1, <2>2, <2>3 DEF Types
<1>6. MarksInOrder'
  <2>1. \A k \in 1 .. n :
          /\ prompts[k].mark \in 0 .. m
          /\ prompts[k].top \in 0 .. top'
          /\ \A j \in 1 .. k : prompts[j].mark <= prompts[k].mark /\ prompts[j].top <= prompts[k].top
    BY <1>3, <1>4 DEF StoreInv, MarksInOrder, Types
  <2>2. SUFFICES ASSUME NEW k \in 1 .. n
                 PROVE  /\ prompts'[k].mark \in 0 .. Len(trail')
                        /\ prompts'[k].top \in 0 .. top'
                        /\ \A j \in 1 .. k : /\ prompts'[j].mark <= prompts'[k].mark
                                            /\ prompts'[j].top <= prompts'[k].top
    BY <1>4 DEF MarksInOrder
  <2>3. \A j \in 1 .. k : j \in 1 .. n
    BY <1>4
  <2>4. QED BY <2>1, <2>3, <1>3, <1>4
<1>7. TrailRestores'
  <2>1. SUFFICES ASSUME NEW k \in 1 .. n, NEW v \in 1 .. prompts[k].top
                 PROVE  UndoneTo(prompts[k].mark)'[v] = prompts[k].snapshot[v]
    BY <1>4 DEF TrailRestores
  <2>2. /\ prompts[k].mark \in 0 .. m /\ prompts[k].top \in 0 .. MaxVars
        /\ UndoneTo(prompts[k].mark)[v] = prompts[k].snapshot[v]
    BY <1>3, <1>4 DEF StoreInv, MarksInOrder, Types, TrailRestores
  <2>3. v \in Vars
    BY <2>2 DEF Vars
  <2>4. (\E i \in prompts[k].mark + 1 .. Len(trail) : trail[i] = v)
          <=> \/ \E i \in prompts[k].mark + 1 .. Len(trail') : trail'[i] = v
              \/ \E i \in m + 1 .. Len(trail) : trail[i] = v
    <3>1. \A i \in prompts[k].mark + 1 .. Len(trail) :
            (i \in prompts[k].mark + 1 .. m /\ trail'[i] = trail[i]) \/ i \in m + 1 .. Len(trail)
      BY <1>3, <2>2
    <3>2. /\ \A i \in prompts[k].mark + 1 .. m : i \in prompts[k].mark + 1 .. Len(trail) /\ trail'[i] = trail[i]
          /\ \A i \in m + 1 .. Len(trail) : i \in prompts[k].mark + 1 .. Len(trail)
      BY <1>3, <2>2
    <3>3. QED BY <3>1, <3>2, <1>3
  <2>5. store'[v] = IF \E i \in m + 1 .. Len(trail) : trail[i] = v THEN Unbound ELSE store[v]
    BY <2>3 DEF UndoTo, UndoneTo
  <2>6. UndoneTo(prompts[k].mark)'[v] =
          IF \E i \in prompts[k].mark + 1 .. Len(trail') : trail'[i] = v THEN Unbound ELSE store'[v]
    BY <2>3, <1>4 DEF UndoneTo
  <2>7. UndoneTo(prompts[k].mark)[v] =
          IF \E i \in prompts[k].mark + 1 .. Len(trail) : trail[i] = v THEN Unbound ELSE store[v]
    BY <2>3 DEF UndoneTo
  <2>8. QED BY <2>2, <2>4, <2>5, <2>6, <2>7
<1>8. QED BY <1>5, <1>6, <1>7 DEF StoreInv

(* Prompts left, the store as it is.                                       *)
LEMMA DropStep ==
    ASSUME StoreInv, UNCHANGED <<store, trail, top>>,
           NEW n \in 1 .. Len(prompts), prompts' = Prefix(prompts, n)
    PROVE  StoreInv'
<1>1. PICK P : prompts \in Seq(P)
  BY DEF StoreInv, Types
<1>2. /\ prompts' \in Seq(P) /\ Len(prompts') = n /\ Len(prompts) \in Nat
      /\ \A k \in 1 .. n : k \in 1 .. Len(prompts) /\ prompts'[k] = prompts[k]
  BY <1>1, Prefixed
<1>3. Types'
  <2>1. Len(prompts') > 0 /\ prompts'[1].kind = "line"
    BY <1>2 DEF StoreInv, Types
  <2>2. \E T : prompts' \in Seq(T)
    BY <1>2
  <2>3. QED BY <2>1, <2>2 DEF StoreInv, Types
<1>4. MarksInOrder'
  <2>1. SUFFICES ASSUME NEW k \in 1 .. n
                 PROVE  /\ prompts'[k].mark \in 0 .. Len(trail')
                        /\ prompts'[k].top \in 0 .. top'
                        /\ \A j \in 1 .. k : /\ prompts'[j].mark <= prompts'[k].mark
                                            /\ prompts'[j].top <= prompts'[k].top
    BY <1>2 DEF MarksInOrder
  <2>2. \A j \in 1 .. k : j \in 1 .. n
    BY <1>2
  <2>3. QED BY <2>2, <1>2 DEF StoreInv, MarksInOrder
<1>5. TrailRestores'
  <2>1. \A x : UndoneTo(x)' = UndoneTo(x)
    BY DEF UndoneTo
  <2>2. QED BY <2>1, <1>2 DEF StoreInv, TrailRestores
<1>6. QED BY <1>3, <1>4, <1>5 DEF StoreInv

(* The mark and the store at this point, as amb, catch and a new line note *)
(* them above the first n prompts.                                         *)
LEMMA PushStep ==
    ASSUME StoreInv, UNCHANGED <<store, trail, top>>, NEW kind,
           NEW n \in 0 .. Len(prompts), prompts' = Append(Prefix(prompts, n), Prompt(kind)),
           n = 0 => kind = "line"
    PROVE  StoreInv'
<1>1. PICK P : prompts \in Seq(P)
  BY DEF StoreInv, Types
<1>2. PICK S : trail \in Seq(S)
  BY DEF StoreInv, Types
<1>3. /\ Prefix(prompts, n) \in Seq(P) /\ Len(Prefix(prompts, n)) = n /\ Len(prompts) \in Nat
      /\ \A k \in 1 .. n : k \in 1 .. Len(prompts) /\ Prefix(prompts, n)[k] = prompts[k]
  <2>1. /\ Prefix(prompts, n) \in Seq(P) /\ Len(Prefix(prompts, n)) = n /\ Len(prompts) \in Nat
        /\ \A k \in 1 .. n : Prefix(prompts, n)[k] = prompts[k]
    BY <1>1, Prefixed, Zenon
  <2>2. \A k \in 1 .. n : k \in 1 .. Len(prompts)
    BY <2>1
  <2>3. QED BY <2>1, <2>2
<1>4. /\ prompts' \in Seq(P \cup {Prompt(kind)}) /\ Len(prompts') = n + 1
      /\ \A k \in 1 .. n : prompts'[k] = prompts[k]
      /\ prompts'[n + 1] = Prompt(kind)
  BY <1>3, Appended
<1>5. Types'
  <2>1. ASSUME n = 0 PROVE prompts'[1].kind = "line"
    BY <2>1, <1>4 DEF Prompt
  <2>2. ASSUME n # 0 PROVE prompts'[1].kind = "line"
    BY <2>2, <1>3, <1>4 DEF StoreInv, Types
  <2>3. Len(prompts') > 0 /\ prompts'[1].kind = "line"
    BY <2>1, <2>2, <1>4
  <2>4. \E T : prompts' \in Seq(T)
    BY <1>4
  <2>5. QED BY <2>3, <2>4 DEF StoreInv, Types
<1>6. MarksInOrder'
  <2>1. SUFFICES ASSUME NEW k \in 1 .. n + 1
                 PROVE  /\ prompts'[k].mark \in 0 .. Len(trail)
                        /\ prompts'[k].top \in 0 .. top
                        /\ \A j \in 1 .. k : /\ prompts'[j].mark <= prompts'[k].mark
                                            /\ prompts'[j].top <= prompts'[k].top
    BY <1>3, <1>4 DEF MarksInOrder
  <2>2. \A j \in 1 .. n : prompts[j].mark \in 0 .. Len(trail) /\ prompts[j].top \in 0 .. top
    BY <1>3 DEF StoreInv, MarksInOrder
  <2>3. CASE k = n + 1
    <3>1. prompts'[k].mark = Len(trail) /\ prompts'[k].top = top /\ Len(trail) \in Nat /\ top \in Nat
      BY <2>3, <1>2, <1>4, SearchAssumption DEF Prompt, StoreInv, Types
    <3>2. \A j \in 1 .. k : j = k \/ (j \in 1 .. n /\ prompts'[j] = prompts[j])
      BY <2>3, <1>3, <1>4
    <3>3. \A j \in 1 .. k : prompts'[j].mark \in 0 .. Len(trail) /\ prompts'[j].top \in 0 .. top
      <4>1. TAKE j \in 1 .. k
      <4>2. CASE j = k
        BY <4>2, <3>1
      <4>3. CASE j # k
        <5>1. j \in 1 .. n /\ prompts'[j] = prompts[j]
          BY <4>3, <3>2
        <5>2. prompts[j].mark \in 0 .. Len(trail) /\ prompts[j].top \in 0 .. top
          BY <5>1, <2>2
        <5>3. QED BY <5>1, <5>2
      <4>4. QED BY <4>2, <4>3
    <3>4. prompts'[k].mark \in 0 .. Len(trail) /\ prompts'[k].top \in 0 .. top
      BY <3>1
    <3>5. \A j \in 1 .. k : prompts'[j].mark <= prompts'[k].mark /\ prompts'[j].top <= prompts'[k].top
      <4>1. TAKE j \in 1 .. k
      <4>2. \A a, b : b \in Nat /\ a \in 0 .. b => a <= b
        OBVIOUS
      <4>3. prompts'[j].mark \in 0 .. Len(trail) /\ prompts'[j].top \in 0 .. top
        BY <3>3
      <4>4. prompts'[j].mark <= Len(trail) /\ prompts'[j].top <= top
        BY <4>2, <4>3, <3>1, Zenon
      <4>5. QED BY <4>4, <3>1, Zenon
    <3>6. QED BY <3>4, <3>5
  <2>4. CASE k # n + 1
    <3>1. k \in 1 .. n /\ \A j \in 1 .. k : j \in 1 .. n
      BY <2>4, <1>3
    <3>2. QED BY <3>1, <1>3, <1>4 DEF StoreInv, MarksInOrder
  <2>5. QED BY <2>3, <2>4
<1>7. TrailRestores'
  <2>1. \A x : UndoneTo(x)' = UndoneTo(x)
    BY DEF UndoneTo
  <2>2. SUFFICES ASSUME NEW k \in 1 .. n + 1, NEW v \in 1 .. prompts'[k].top
                 PROVE  UndoneTo(prompts'[k].mark)[v] = prompts'[k].snapshot[v]
    BY <2>1, <1>4 DEF TrailRestores
  <2>3. CASE k = n + 1
    <3>1. prompts'[k] = [kind |-> kind, mark |-> Len(trail), top |-> top, snapshot |-> store]
      BY <2>3, <1>4 DEF Prompt
    <3>2. v \in Vars
      BY <3>1, SearchAssumption DEF StoreInv, Types, Vars
    <3>3. Len(trail) + 1 .. Len(trail) = {}
      BY <1>2
    <3>4. QED BY <3>1, <3>2, <3>3 DEF UndoneTo
  <2>4. CASE k # n + 1
    <3>1. k \in 1 .. n
      BY <2>4, <1>3
    <3>2. QED BY <3>1, <1>3, <1>4 DEF StoreInv, TrailRestores
  <2>5. QED BY <2>3, <2>4
<1>8. QED BY <1>5, <1>6, <1>7 DEF StoreInv

(* A variable that has no value yet gets one: the trail knows it.          *)
LEMMA BindStep ==
    ASSUME StoreInv, UNCHANGED <<top, prompts>>, NEW x, NEW t, Bind(x, t), store[x] = Unbound
    PROVE  StoreInv'
<1>1. PICK S : trail \in Seq(S)
  BY DEF StoreInv, Types
<1>2. /\ trail' \in Seq(S \cup {x}) /\ Len(trail) \in Nat /\ Len(trail') = Len(trail) + 1
      /\ \A i \in 1 .. Len(trail) : trail'[i] = trail[i]
      /\ trail'[Len(trail) + 1] = x
  BY <1>1, Appended DEF Bind
<1>3. Types'
  <2>1. \E T : trail' \in Seq(T)
    BY <1>2
  <2>2. store' = [v \in Vars |-> store'[v]]
    BY DEF StoreInv, Types, Bind
  <2>3. QED BY <2>1, <2>2 DEF StoreInv, Types
<1>4. MarksInOrder'
  BY <1>2 DEF StoreInv, MarksInOrder
<1>5. TrailRestores'
  <2>1. SUFFICES ASSUME NEW k \in 1 .. Len(prompts), NEW v \in 1 .. prompts[k].top
                 PROVE  UndoneTo(prompts[k].mark)'[v] = prompts[k].snapshot[v]
    BY DEF TrailRestores
  <2>2. /\ prompts[k].mark \in 0 .. Len(trail) /\ prompts[k].top \in 0 .. top /\ top \in 0 .. MaxVars
        /\ UndoneTo(prompts[k].mark)[v] = prompts[k].snapshot[v]
    BY DEF StoreInv, MarksInOrder, Types, TrailRestores
  <2>3. v \in Vars
    BY <2>2, SearchAssumption DEF Vars
  <2>4. (\E i \in prompts[k].mark + 1 .. Len(trail') : trail'[i] = v)
          <=> v = x \/ \E i \in prompts[k].mark + 1 .. Len(trail) : trail[i] = v
    <3>1. \A i \in prompts[k].mark + 1 .. Len(trail') :
            (i \in prompts[k].mark + 1 .. Len(trail) /\ trail'[i] = trail[i]) \/ trail'[i] = x
      <4>1. \A i \in prompts[k].mark + 1 .. Len(trail') :
              (i \in prompts[k].mark + 1 .. Len(trail) /\ i \in 1 .. Len(trail)) \/ i = Len(trail) + 1
        BY <1>2, <2>2
      <4>2. QED BY <4>1, <1>2
    <3>2. /\ \A i \in prompts[k].mark + 1 .. Len(trail) :
                i \in prompts[k].mark + 1 .. Len(trail') /\ trail'[i] = trail[i]
          /\ Len(trail) + 1 \in prompts[k].mark + 1 .. Len(trail')
      BY <1>2, <2>2
    <3>3. QED BY <3>1, <3>2, <1>2
  <2>5. v # x => store'[v] = store[v]
    BY <2>3 DEF Bind, StoreInv, Types
  <2>6. UndoneTo(prompts[k].mark)'[v] =
          IF \E i \in prompts[k].mark + 1 .. Len(trail') : trail'[i] = v THEN Unbound ELSE store'[v]
    BY <2>3 DEF UndoneTo
  <2>7. UndoneTo(prompts[k].mark)[v] =
          IF \E i \in prompts[k].mark + 1 .. Len(trail) : trail[i] = v THEN Unbound ELSE store[v]
    BY <2>3 DEF UndoneTo
  <2>8. QED BY <2>2, <2>4, <2>5, <2>6, <2>7
<1>6. QED BY <1>3, <1>4, <1>5 DEF StoreInv

(* A new variable lies above those any prompt remembers.                   *)
LEMMA NewVariableStep ==
    ASSUME StoreInv, NewVariable
    PROVE  StoreInv'
<1>1. /\ top \in 0 .. MaxVars /\ top' = top + 1 /\ top < MaxVars
      /\ UNCHANGED <<trail, prompts>>
      /\ store' = [store EXCEPT ![top + 1] = Unbound]
  BY DEF NewVariable, StoreInv, Types
<1>2. Types'
  <2>1. top' \in 0 .. MaxVars
    BY <1>1, SearchAssumption
  <2>2. store' = [v \in Vars |-> store'[v]]
    BY <1>1 DEF StoreInv, Types
  <2>3. QED BY <2>1, <2>2, <1>1 DEF StoreInv, Types
<1>3. MarksInOrder'
  BY <1>1, SearchAssumption DEF StoreInv, MarksInOrder
<1>4. TrailRestores'
  <2>1. SUFFICES ASSUME NEW k \in 1 .. Len(prompts), NEW v \in 1 .. prompts[k].top
                 PROVE  UndoneTo(prompts[k].mark)'[v] = prompts[k].snapshot[v]
    BY <1>1 DEF TrailRestores
  <2>2. prompts[k].top \in 0 .. top /\ UndoneTo(prompts[k].mark)[v] = prompts[k].snapshot[v]
    BY DEF StoreInv, MarksInOrder, TrailRestores
  <2>3. v \in Vars /\ v # top + 1
    BY <2>2, <1>1, SearchAssumption DEF Vars
  <2>4. store'[v] = store[v]
    BY <2>3, <1>1 DEF StoreInv, Types
  <2>5. QED BY <2>2, <2>3, <2>4, <1>1 DEF UndoneTo
<1>5. QED BY <1>2, <1>3, <1>4 DEF StoreInv

------------------------------------------------------------------------------
LEMMA Initially ==
    ASSUME Init
    PROVE  IInv
<1>1. /\ prompts = <<[kind |-> "line", mark |-> 0, top |-> 0, snapshot |-> store]>>
      /\ trail = <<>> /\ top = 0 /\ outcome = "idle"
  BY DEF Init, Prompt
<1>2. Types
  <2>1. trail \in Seq({}) /\ prompts \in Seq({prompts[1]})
    BY <1>1
  <2>2. store = [v \in Vars |-> store[v]]
    BY DEF Init
  <2>3. top \in 0 .. MaxVars /\ Len(prompts) > 0 /\ prompts[1].kind = "line"
    BY <1>1, SearchAssumption
  <2>4. (\E S : trail \in Seq(S)) /\ (\E S : prompts \in Seq(S))
    BY <2>1, Zenon
  <2>5. QED BY <2>2, <2>3, <2>4 DEF Types
<1>3. MarksInOrder /\ TrailRestores /\ OwnMark
  BY <1>1 DEF MarksInOrder, TrailRestores, OwnMark
<1>4. QED BY <1>2, <1>3 DEF IInv, StoreInv

LEMMA Undisturbed ==
    ASSUME StoreInv, UNCHANGED <<store, trail, top, prompts>>
    PROVE  StoreInv'
<1>1. \A x : UndoneTo(x)' = UndoneTo(x)
  BY DEF UndoneTo
<1>2. QED BY <1>1 DEF StoreInv, Types, MarksInOrder, TrailRestores

(* All the prompts kept: what a word of unification undoes is its own.     *)
LEMMA OwnUndone ==
    ASSUME IInv, outcome \in {"yes", "no", "error"}, UndoTo(mark), UNCHANGED <<top, prompts>>
    PROVE  StoreInv'
<1>1. PICK P : prompts \in Seq(P)
  BY DEF IInv, StoreInv, Types
<1>2. Prefix(prompts, Len(prompts)) = prompts /\ Len(prompts) \in 1 .. Len(prompts)
  BY <1>1 DEF IInv, StoreInv, Types, Prefix
<1>3. mark \in 0 .. Len(trail) /\ top' \in 0 .. MaxVars
  BY DEF IInv, OwnMark, StoreInv, Types
<1>4. \A k \in 1 .. Len(prompts) : prompts[k].mark <= mark /\ prompts[k].top <= top'
  <2>1. TAKE k \in 1 .. Len(prompts)
  <2>2. prompts[k].top \in 0 .. top /\ prompts[k].mark <= mark
    BY DEF IInv, OwnMark, StoreInv, MarksInOrder
  <2>3. prompts[k].top <= top
    BY <2>2, SearchAssumption DEF IInv, StoreInv, Types
  <2>4. QED BY <2>2, <2>3
<1>5. StoreInv
  BY DEF IInv
<1>6. QED BY <1>2, <1>3, <1>4, <1>5, UndoStep

(* An error at the top level: the line alone is left.                      *)
LEMMA BackToLine ==
    ASSUME StoreInv, UndoTo(prompts[1].mark), top' = prompts[1].top, prompts' = Prefix(prompts, 1)
    PROVE  StoreInv'
<1>1. Len(prompts) \in Nat \ {0} /\ 1 \in 1 .. Len(prompts)
  BY Prefixed DEF StoreInv, Types
<1>2. prompts[1].mark \in 0 .. Len(trail) /\ prompts[1].top \in 0 .. top
  BY <1>1 DEF StoreInv, MarksInOrder
<1>3. top' \in 0 .. MaxVars
  BY <1>2, SearchAssumption DEF StoreInv, Types
<1>4. \A k \in 1 .. 1 : prompts[k].mark <= prompts[1].mark /\ prompts[k].top <= top'
  BY <1>1 DEF StoreInv, MarksInOrder
<1>5. QED BY <1>1, <1>2, <1>3, <1>4, UndoStep

------------------------------------------------------------------------------
LEMMA UnifyKeeps ==
    ASSUME IInv, Unify
    PROVE  IInv'
<1>1. ASSUME outcome' \in {"going", "yes", "no", "error"},
             UNCHANGED <<store, trail, top, prompts, mark>>
      PROVE  IInv'
  BY <1>1, Undisturbed DEF IInv, OwnMark, Unify, NestedTooDeep, Deref, Variables, Resolved,
     Visiting, Arrays, Frames, Atoms, Unified
<1>2. outcome = "going"
  BY DEF Unify, NestedTooDeep, Deref, Variables, Resolved, Visiting, Arrays, Frames, Atoms, Unified
<1>3. CASE NestedTooDeep \/ Deref \/ Frames \/ Unified
  BY <1>1, <1>2, <1>3 DEF NestedTooDeep, Deref, Frames, Unified, Answers, GoesOn, NoChange
<1>4. CASE Arrays
  BY <1>1, <1>2, <1>4 DEF Arrays, WithRest, Answers, GoesOn, NoChange
<1>5. CASE Atoms
  BY <1>1, <1>2, <1>5 DEF Atoms, Answers, GoesOn, NoChange
<1>6. CASE Variables
  <2>1. CASE UNCHANGED <<store, trail>>
    BY <2>1, <1>1, <1>2, <1>6 DEF Variables, GoesOn, NoChange
  <2>2. ASSUME NEW x, NEW t, Bind(x, t), store[x] = Unbound
        PROVE  IInv'
    <3>1. UNCHANGED <<top, prompts, mark, outcome>>
      BY <1>6 DEF Variables, GoesOn, NoChange
    <3>2. StoreInv'
      BY <2>2, <3>1, BindStep DEF IInv
    <3>3. PICK S : trail \in Seq(S)
      BY DEF IInv, StoreInv, Types
    <3>4. Len(trail) \in Nat /\ Len(trail') = Len(trail) + 1
      BY <3>3, <2>2, Appended DEF Bind
    <3>5. OwnMark'
      BY <3>1, <3>4 DEF IInv, OwnMark
    <3>6. QED BY <3>2, <3>5 DEF IInv
  <2>3. CASE Left.tag = "var" /\ Bind(Left.id, Right)
    BY <2>2, <2>3, <1>6 DEF Variables, Resolved, Bound
  <2>4. CASE Right.tag = "var" /\ Bind(Right.id, Left)
    BY <2>2, <2>4, <1>6 DEF Variables, Resolved, Bound
  <2>5. QED BY <1>6, <2>1, <2>3, <2>4 DEF Variables
<1>7. QED BY <1>3, <1>4, <1>5, <1>6 DEF Unify

LEMMA WordsKeep ==
    ASSUME IInv, StartWord \/ EndMatches \/ EndUnify \/ EndOnError
    PROVE  IInv'
<1>1. CASE StartWord
  <2>1. StoreInv'
    BY <1>1, Undisturbed DEF IInv, StartWord
  <2>2. /\ mark' = Len(trail) /\ Len(trail) \in Nat
        /\ \A k \in 1 .. Len(prompts) : prompts[k].mark \in 0 .. Len(trail)
    BY <1>1, Prefixed DEF StartWord, IInv, StoreInv, Types, MarksInOrder
  <2>3. OwnMark'
    BY <2>2, <1>1 DEF OwnMark, StartWord
  <2>4. QED BY <2>1, <2>3 DEF IInv
<1>2. CASE EndMatches
  <2>1. StoreInv'
    BY <1>2, OwnUndone DEF EndMatches
  <2>2. QED BY <2>1, <1>2 DEF IInv, OwnMark, EndMatches, Idle
<1>3. CASE EndUnify
  BY <1>3, Undisturbed DEF IInv, OwnMark, EndUnify, Idle
<1>4. CASE EndOnError
  <2>1. StoreInv'
    BY <1>4, OwnUndone, Undisturbed DEF IInv, EndOnError
  <2>2. QED BY <2>1, <1>4 DEF IInv, OwnMark, EndOnError
<1>5. QED BY <1>1, <1>2, <1>3, <1>4

LEMMA ControlKeeps ==
    ASSUME IInv, Amb \/ Catch \/ BranchReturns \/ Backtrack \/ Raise \/ Throw \/ NextLine
    PROVE  IInv'
<1>1. StoreInv /\ Len(prompts) \in Nat \ {0} /\ prompts[1].kind = "line"
  BY Prefixed DEF IInv, StoreInv, Types
<1>2. OwnMark'
  BY DEF Amb, Catch, Push, BranchReturns, Backtrack, Raise, Throw, NextLine, Idle, OwnMark
<1>3. CASE Amb \/ Catch
  <2>1. PICK P : prompts \in Seq(P)
    BY DEF IInv, StoreInv, Types
  <2>2. Prefix(prompts, Len(prompts)) = prompts
    BY <2>1 DEF Prefix
  <2>3. Len(prompts) \in 0 .. Len(prompts) /\ Len(prompts) # 0
    BY <1>1
  <2>4. ASSUME NEW kind, Push(kind) PROVE StoreInv'
    BY <2>2, <2>3, <2>4, <1>1, PushStep DEF Push
  <2>5. QED BY <1>3, <2>4, <1>2 DEF Amb, Catch, IInv
<1>4. CASE BranchReturns
  <2>1. Len(prompts) - 1 \in 1 .. Len(prompts)
    BY <1>1, <1>4 DEF BranchReturns
  <2>2. StoreInv'
    BY <2>1, <1>1, <1>4, DropStep DEF BranchReturns
  <2>3. QED BY <2>2, <1>2 DEF IInv
<1>5. CASE Backtrack
  <2>1. ASSUME NEW k \in Choices, SecondBranch(k)
        PROVE  IInv'
    <3>1. k \in 1 .. Len(prompts) /\ prompts[k].kind = "choice"
      BY DEF Choices
    <3>2. k - 1 \in 1 .. Len(prompts) /\ k - 1 \in 1 .. k
      BY <3>1, <1>1
    <3>3. /\ prompts[k].mark \in 0 .. Len(trail) /\ prompts[k].top \in 0 .. top
          /\ \A j \in 1 .. k - 1 : prompts[j].mark <= prompts[k].mark /\ prompts[j].top <= prompts[k].top
      BY <3>1, <1>1 DEF StoreInv, MarksInOrder
    <3>4. prompts[k].top \in 0 .. MaxVars
      BY <3>3, SearchAssumption DEF IInv, StoreInv, Types
    <3>5. StoreInv'
      BY <2>1, <3>2, <3>3, <3>4, <1>1, UndoStep DEF SecondBranch
    <3>6. QED BY <3>5, <1>2 DEF IInv
  <2>2. CASE UNCHANGED <<store, top, trail, prompts>>
    BY <2>2, <1>1, <1>2, Undisturbed DEF IInv
  <2>3. QED BY <1>5, <2>1, <2>2 DEF Backtrack
<1>6. CASE Raise
  <2>1. CASE prompts' = Prefix(prompts, 1) /\ UndoTo(prompts[1].mark) /\ top' = prompts[1].top
    BY <2>1, <1>1, <1>2, BackToLine DEF IInv
  <2>2. ASSUME NEW k \in 1 .. Len(prompts), prompts[k].kind = "catch", prompts' = Prefix(prompts, k - 1),
               UNCHANGED <<store, top, trail>>
        PROVE  IInv'
    <3>1. k - 1 \in 1 .. Len(prompts)
      BY <2>2, <1>1
    <3>2. QED BY <3>1, <2>2, <1>1, <1>2, DropStep DEF IInv
  <2>3. QED BY <1>6, <2>1, <2>2 DEF Raise
<1>7. CASE Throw
  BY <1>7, <1>1, <1>2, Undisturbed DEF Throw, IInv
<1>8. CASE NextLine
  <2>1. PICK P : prompts \in Seq(P)
    BY DEF IInv, StoreInv, Types
  <2>2. prompts' = Append(Prefix(prompts, 0), Prompt("line"))
    BY <1>8, <2>1 DEF NextLine, Prefix
  <2>3. QED BY <2>2, <1>8, <1>1, <1>2, PushStep DEF NextLine, IInv
<1>9. QED BY <1>3, <1>4, <1>5, <1>6, <1>7, <1>8

LEMMA EveryStepKeeps ==
    ASSUME IInv, [Next]_vars
    PROVE  IInv'
<1>1. CASE Lvar \/ CopyKept
  <2>1. NewVariable /\ outcome' = "idle"
    BY <1>1 DEF Lvar, CopyKept, NewVariable
  <2>2. QED BY <2>1, NewVariableStep DEF IInv, OwnMark
<1>2. CASE UNCHANGED vars
  BY <1>2, Undisturbed DEF vars, IInv, OwnMark
<1>3. QED BY <1>1, <1>2, UnifyKeeps, WordsKeep, ControlKeeps DEF Next

(* Backtracking restores the store: a fail, or an error that reaches the   *)
(* top level, gives every variable there was at the choice (or when the    *)
(* line began) the value it had then, whatever was bound since and however *)
(* the choices are nested (bind_var and trail_undo_to, logic.c).           *)
THEOREM BacktrackingRestores == Spec => []TrailRestores
<1>1. Init => IInv
  BY Initially
<1>2. IInv /\ [Next]_vars => IInv'
  BY EveryStepKeeps
<1>3. IInv => TrailRestores
  BY DEF IInv, StoreInv
<1>4. QED BY <1>1, <1>2, <1>3, PTL DEF Spec

------------------------------------------------------------------------------
(* The pairs to visit are of terms, and so is the store.                   *)
Visits == [left : Terms, right : Terms, depth : Nat]
Pending(s, pairs) == \A i \in 1 .. Len(pairs) : Equal(s, pairs[i].left, pairs[i].right)

(* While unify_depth goes on, the assignments it has not excluded are what *)
(* satisfies the bindings and the pairs it has still to visit.             *)
SoFar ==
    outcome \in {"going", "yes", "no"} /\ Judged =>
       /\ agenda \in Seq(Visits)
       /\ outcome # "going" => agenda = <<>>
       /\ \A v \in Vars : store[v] \in Terms \cup {Unbound}
       /\ \A s \in Assignments :
            Satisfies(s, before) /\ Equal(s, goal[1], goal[2])
              <=> outcome # "no" /\ Satisfies(s, store) /\ Pending(s, agenda)

LEMMA TermKinds ==
    ASSUME NEW t \in Terms
    PROVE  /\ t # Unbound
           /\ \/ \E v \in Vars : t = Var(v)
              \/ t = Atom(t.id)
              \/ t = Array(t.items)
           /\ t.tag = "var" => t.id \in Vars /\ t = Var(t.id)
           /\ t.tag = "atom" => t = Atom(t.id)
           /\ t.tag = "array" => t = Array(t.items) /\ t.items \in Seq(Terms \cup {Rest(v) : v \in Vars})
           /\ t.tag \in {"var", "atom", "array"}
<1>1. PlainTerm(t)
  BY ValueAssumption
<1>2. CASE \E v \in Vars : t = Var(v)
  BY <1>2 DEF Var, Term, Unbound
<1>3. CASE t = Atom(t.id)
  <2>1. t.tag = "atom"
    BY <1>3 DEF Atom, Term
  <2>2. QED BY <1>3, <2>1 DEF Unbound, Term
<1>4. CASE /\ t = Array(t.items)
           /\ t.items \in Seq(Terms \cup {Rest(v) : v \in Vars})
  <2>1. t.tag = "array"
    BY <1>4 DEF Array, Term
  <2>2. QED BY <1>4, <2>1 DEF Unbound, Term
<1>5. QED BY <1>1, <1>2, <1>3, <1>4 DEF PlainTerm

LEMMA GroundKinds ==
    ASSUME NEW g \in Ground
    PROVE  /\ g # None
           /\ g.tag = "array" => g = Array(g.items) /\ g.items \in Seq(Ground)
<1>1. g = Atom(g.id) \/ (g = Array(g.items) /\ g.items \in Seq(Ground))
  BY ValueAssumption
<1>2. CASE g = Atom(g.id)
  <2>1. g.tag = "atom"
    BY <1>2 DEF Atom, Term
  <2>2. QED BY <2>1 DEF None, Unbound, Term
<1>3. CASE g = Array(g.items) /\ g.items \in Seq(Ground)
  <2>1. g.tag = "array"
    BY <1>3 DEF Array, Term
  <2>2. QED BY <1>3, <2>1 DEF None, Unbound, Term
<1>4. QED BY <1>1, <1>2, <1>3

LEMMA ValueOfVar ==
    ASSUME NEW s \in Assignments, NEW v \in Vars
    PROVE  Value(s, Var(v)) = s[v] /\ s[v] \in Ground /\ s[v] # None
<1>1. s[v] \in Ground
  BY DEF Assignments
<1>2. Var(v) \in Terms /\ Var(v).tag = "var" /\ Var(v).id = v
  BY ValueAssumption DEF Var, Term
<1>3. Value(s, Var(v)) = s[v]
  BY <1>2, ValueAssumption
<1>4. QED BY <1>1, <1>3, GroundKinds

LEMMA ValueOfAtom ==
    ASSUME NEW s \in Assignments, NEW t \in Terms, t.tag = "atom"
    PROVE  Value(s, t) = t /\ t # None
<1>1. Value(s, t) = t
  BY ValueAssumption
<1>2. QED BY <1>1, TermKinds DEF None

LEMMA ValueOfArray ==
    ASSUME NEW s \in Assignments, NEW t \in Terms, t.tag = "array"
    PROVE  Value(s, t) = ArrayValue(s, t)
BY ValueAssumption

(* The parts of an array that are not its rest are terms.                  *)
LEMMA Parts ==
    ASSUME NEW t \in Terms, t.tag = "array"
    PROVE  /\ Len(t.items) \in Nat
           /\ \A i \in 1 .. Len(t.items) - 1 : t.items[i] \in Terms
           /\ EndsInRest(t) => /\ Len(t.items) > 0
                               /\ \E v \in Vars : t.items[Len(t.items)] = Rest(v)
           /\ ~EndsInRest(t) => \A i \in 1 .. Len(t.items) : t.items[i] \in Terms
           /\ ~RestInside(t)
<1>1. t.items \in Seq(Terms \cup {Rest(v) : v \in Vars})
  BY TermKinds
<1>2. ~RestInside(t)
  <2>1. PlainTerm(t)
    BY ValueAssumption
  <2>2. ~(\E v \in Vars : t = Var(v))
    BY DEF Var, Term
  <2>3. t # Atom(t.id)
    BY DEF Atom, Term
  <2>4. QED BY <2>1, <2>2, <2>3 DEF PlainTerm
<1>3. \A i \in 1 .. Len(t.items) : t.items[i] \in Terms \/ \E v \in Vars : t.items[i] = Rest(v)
  BY <1>1
<1>4. \A v \in Vars : Rest(v).tag = "rest"
  BY DEF Rest, Term
<1>5. \A u \in Terms : u.tag # "rest"
  BY TermKinds
<1>6. /\ Len(t.items) \in Nat
      /\ t.items = <<>> <=> Len(t.items) = 0
  BY <1>1
<1>7. \A i \in 1 .. Len(t.items) - 1 : t.items[i] \in Terms
  BY <1>2, <1>3, <1>4, <1>6 DEF RestInside
<1>8. QED BY <1>2, <1>3, <1>4, <1>5, <1>6, <1>7 DEF EndsInRest

LEMMA Joined ==
    ASSUME NEW S, NEW T, NEW x \in Seq(S), NEW y \in Seq(T)
    PROVE  /\ x \o y \in Seq(S \cup T)
           /\ Len(x) \in Nat /\ Len(y) \in Nat /\ Len(x \o y) = Len(x) + Len(y)
           /\ \A i \in 1 .. Len(x) : (x \o y)[i] = x[i]
           /\ \A j \in 1 .. Len(y) : (x \o y)[Len(x) + j] = y[j]
<1>1. x \in Seq(S \cup T) /\ y \in Seq(S \cup T)
  OBVIOUS
<1>2. QED BY <1>1

LEMMA ArraysEqual ==
    ASSUME NEW x, NEW y, Array(x) = Array(y)
    PROVE  x = y
<1>1. Array(x).items = x /\ Array(y).items = y
  BY DEF Array, Term
<1>2. QED BY <1>1

(* What an array stands for, element by element.                           *)
LEMMA FlatValue ==
    ASSUME NEW s \in Assignments, NEW t \in Terms, t.tag = "array", ~EndsInRest(t)
    PROVE  IF \A i \in 1 .. Len(t.items) : Value(s, t.items[i]) # None
           THEN /\ Value(s, t) = Array([i \in 1 .. Len(t.items) |-> Value(s, t.items[i])])
                /\ Value(s, t) # None
           ELSE Value(s, t) = None
<1> DEFINE n == Len(t.items)
           parts == [i \in 1 .. n |-> Value(s, t.items[i])]
<1>1. n \in Nat
  BY Parts
<1>2. parts \in Seq({parts[i] : i \in 1 .. n})
  BY <1>1
<1>3. parts \o <<>> = parts
  BY <1>2
<1>4. Array(<<>>).tag = "array" /\ Array(<<>>).items = <<>> /\ Array(parts) # None
  BY DEF Array, Term, None, Unbound
<1>5. ArrayValue(s, t) = IF \E i \in 1 .. n : parts[i] = None THEN None ELSE Array(parts \o <<>>)
  BY <1>4 DEF ArrayValue
<1>6. QED BY <1>3, <1>4, <1>5, ValueOfArray

LEMMA RestValue ==
    ASSUME NEW s \in Assignments, NEW t \in Terms, t.tag = "array", EndsInRest(t),
           NEW n \in Nat, Len(t.items) = n + 1, NEW v \in Vars, t.items[n + 1] = Rest(v)
    PROVE  /\ s[v] \in Ground
           /\ IF s[v].tag = "array" /\ \A i \in 1 .. n : Value(s, t.items[i]) # None
              THEN /\ Value(s, t) = Array([i \in 1 .. n |-> Value(s, t.items[i])] \o s[v].items)
                   /\ Value(s, t) # None
              ELSE Value(s, t) = None
<1> DEFINE parts == [i \in 1 .. n |-> Value(s, t.items[i])]
<1>1. s[v] \in Ground
  BY ValueOfVar
<1>2. t.items[n + 1].id = v
  BY DEF Rest, Term
<1>3. ArrayValue(s, t) = IF s[v].tag # "array" \/ \E i \in 1 .. n : parts[i] = None THEN None
                         ELSE Array(parts \o s[v].items)
  BY <1>2 DEF ArrayValue
<1>4. Array(parts \o s[v].items) # None
  BY DEF Array, Term, None, Unbound
<1>5. QED BY <1>1, <1>3, <1>4, ValueOfArray

(* Equal arrays have equal parts.                                          *)
LEMMA FlatEqual ==
    ASSUME NEW s \in Assignments, NEW l \in Terms, NEW r \in Terms,
           l.tag = "array", r.tag = "array", ~EndsInRest(l), ~EndsInRest(r)
    PROVE  Equal(s, l, r) <=>
             /\ Len(l.items) = Len(r.items)
             /\ \A i \in 1 .. Len(l.items) : Equal(s, l.items[i], r.items[i])
<1> DEFINE ls == [i \in 1 .. Len(l.items) |-> Value(s, l.items[i])]
           rs == [i \in 1 .. Len(r.items) |-> Value(s, r.items[i])]
<1>1. Len(l.items) \in Nat /\ Len(r.items) \in Nat
  BY Parts
<1>2. Len(ls) = Len(l.items) /\ Len(rs) = Len(r.items)
  BY <1>1
<1>3. ASSUME Equal(s, l, r)
      PROVE  /\ Len(l.items) = Len(r.items)
             /\ \A i \in 1 .. Len(l.items) : Equal(s, l.items[i], r.items[i])
  <2>1. /\ \A i \in 1 .. Len(l.items) : Value(s, l.items[i]) # None
        /\ Value(s, l) = Array(ls)
    BY <1>3, FlatValue DEF Equal
  <2>2. Value(s, r) = Array(rs)
    BY <1>3, FlatValue DEF Equal
  <2>3. ls = rs
    BY <2>1, <2>2, <1>3, ArraysEqual DEF Equal
  <2>4. Len(l.items) = Len(r.items)
    BY <1>2, <2>3
  <2>5. \A i \in 1 .. Len(l.items) : ls[i] = Value(s, l.items[i]) /\ rs[i] = Value(s, r.items[i])
    BY <2>4
  <2>6. QED BY <2>1, <2>3, <2>4, <2>5 DEF Equal
<1>4. ASSUME Len(l.items) = Len(r.items),
             \A i \in 1 .. Len(l.items) : Equal(s, l.items[i], r.items[i])
      PROVE  Equal(s, l, r)
  <2>1. Value(s, l) = Array(ls) /\ Value(s, l) # None
    BY <1>4, FlatValue DEF Equal
  <2>2. Value(s, r) = Array(rs)
    <3>1. \A i \in 1 .. Len(r.items) : Value(s, r.items[i]) # None
      BY <1>4 DEF Equal
    <3>2. QED BY <3>1, FlatValue
  <2>3. ls = rs
    BY <1>4 DEF Equal
  <2>4. QED BY <2>1, <2>2, <2>3 DEF Equal
<1>5. QED BY <1>3, <1>4

LEMMA Suffixed ==
    ASSUME NEW S, NEW s \in Seq(S), NEW n \in 0 .. Len(s)
    PROVE  /\ Len(SubSeq(s, n + 1, Len(s))) = Len(s) - n
           /\ \A j \in 1 .. Len(s) - n : SubSeq(s, n + 1, Len(s))[j] = s[n + j]
OBVIOUS

(* What is left of an array after its first n parts.                       *)
LEMMA Slice ==
    ASSUME NEW t \in Terms, t.tag = "array", ~EndsInRest(t), NEW n \in 0 .. Len(t.items)
    PROVE  /\ Array(SubSeq(t.items, n + 1, Len(t.items))) \in Terms
           /\ Array(SubSeq(t.items, n + 1, Len(t.items))).tag = "array"
           /\ ~EndsInRest(Array(SubSeq(t.items, n + 1, Len(t.items))))
           /\ Array(SubSeq(t.items, n + 1, Len(t.items))).items = SubSeq(t.items, n + 1, Len(t.items))
           /\ Len(SubSeq(t.items, n + 1, Len(t.items))) = Len(t.items) - n
           /\ \A j \in 1 .. Len(t.items) - n : SubSeq(t.items, n + 1, Len(t.items))[j] = t.items[n + j]
<1> DEFINE slice == SubSeq(t.items, n + 1, Len(t.items))
<1>1. t.items \in Seq(Terms \cup {Rest(v) : v \in Vars})
  BY TermKinds
<1>2. /\ Len(t.items) \in Nat /\ Len(slice) = Len(t.items) - n
      /\ \A j \in 1 .. Len(t.items) - n : slice[j] = t.items[n + j]
  BY <1>1, Suffixed
<1>3. Array(slice).tag = "array" /\ Array(slice).items = slice
  BY DEF Array, Term
<1>4. Array(slice) \in Terms
  <2>1. PlainTerm(t)
    BY ValueAssumption
  <2>2. ~(\E v \in Vars : t = Var(v)) /\ t # Atom(t.id)
    BY DEF Var, Atom, Term
  <2>3. QED BY <2>1, <2>2 DEF PlainTerm
<1>5. ~EndsInRest(Array(slice))
  <2>1. ASSUME EndsInRest(Array(slice)) PROVE FALSE
    <3>1. Len(slice) > 0 /\ slice[Len(slice)].tag = "rest"
      BY <2>1, <1>3, <1>4, Parts DEF EndsInRest
    <3>2. /\ Len(slice) \in 1 .. Len(t.items) - n /\ n + Len(slice) = Len(t.items)
          /\ Len(t.items) \in 1 .. Len(t.items)
      BY <3>1, <1>2
    <3>3. t.items[Len(t.items)] \in Terms
      BY <3>2, Parts
    <3>4. slice[Len(slice)] = t.items[Len(t.items)]
      BY <3>2, <1>2
    <3>5. QED BY <3>1, <3>3, <3>4, TermKinds
  <2>2. QED BY <2>1
<1>6. QED BY <1>2, <1>3, <1>4, <1>5

LEMMA Listed ==
    ASSUME NEW S, NEW n \in Nat, NEW f, f = [i \in 1 .. n |-> f[i]], \A i \in 1 .. n : f[i] \in S
    PROVE  f \in Seq(S) /\ Len(f) = n
<1>1. f \in [1 .. n -> S]
  OBVIOUS
<1>2. QED BY <1>1

(* A sequence is another continued when it has its elements, then those of *)
(* what continues it.                                                      *)
LEMMA Continued ==
    ASSUME NEW S, NEW x \in Seq(S), NEW y \in Seq(S), NEW z \in Seq(S),
           Len(x) + Len(y) = Len(z),
           \A i \in 1 .. Len(x) : x[i] = z[i],
           \A j \in 1 .. Len(y) : y[j] = z[Len(x) + j]
    PROVE  x \o y = z
<1>1. /\ x \o y \in Seq(S)
      /\ Len(x) \in Nat /\ Len(y) \in Nat /\ Len(x \o y) = Len(x) + Len(y)
      /\ \A i \in 1 .. Len(x) : (x \o y)[i] = x[i]
      /\ \A j \in 1 .. Len(y) : (x \o y)[Len(x) + j] = y[j]
  OBVIOUS
<1>2. \A i \in 1 .. Len(z) : (x \o y)[i] = z[i]
  <2>1. TAKE i \in 1 .. Len(z)
  <2>2. i \in 1 .. Len(x) \/ (i - Len(x) \in 1 .. Len(y) /\ Len(x) + (i - Len(x)) = i)
    BY <1>1
  <2>3. QED BY <2>2, <1>1
<1>3. \A f, g \in Seq(S) :
         Len(f) = Len(g) /\ (\A i \in 1 .. Len(g) : f[i] = g[i]) => f = g
  OBVIOUS
<1>4. QED BY <1>1, <1>2, <1>3

(* An array that ends in a rest equals one that does not when their first  *)
(* parts are equal and the rest is what the other has left.                *)
LEMMA RestEqual ==
    ASSUME NEW s \in Assignments, NEW p \in Terms, NEW q \in Terms, p.tag = "array", q.tag = "array",
           EndsInRest(p), ~EndsInRest(q),
           NEW n \in Nat, Len(p.items) = n + 1, NEW v \in Vars, p.items[n + 1] = Rest(v)
    PROVE  Equal(s, p, q) <=>
             /\ n <= Len(q.items)
             /\ \A i \in 1 .. n : Equal(s, p.items[i], q.items[i])
             /\ Equal(s, Var(v), Array(SubSeq(q.items, n + 1, Len(q.items))))
<1> DEFINE m == Len(q.items)
           slice == SubSeq(q.items, n + 1, m)
           ps == [i \in 1 .. n |-> Value(s, p.items[i])]
           qs == [i \in 1 .. m |-> Value(s, q.items[i])]
           zs == [j \in 1 .. Len(slice) |-> Value(s, slice[j])]
           S == Ground \cup {Value(s, p.items[i]) : i \in 1 .. n} \cup {Value(s, q.items[i]) : i \in 1 .. m}
<1>1. n \in Nat /\ m \in Nat
  BY Parts
<1>2. /\ s[v] \in Ground /\ Value(s, Var(v)) = s[v] /\ s[v] # None
      /\ s[v].tag = "array" => s[v] = Array(s[v].items) /\ s[v].items \in Seq(Ground)
  BY ValueOfVar, GroundKinds
<1>3. /\ ps \in Seq(S)
      /\ Len(ps) = n /\ \A i \in 1 .. n : ps[i] = Value(s, p.items[i])
      /\ qs \in Seq(S)
      /\ Len(qs) = m /\ \A i \in 1 .. m : qs[i] = Value(s, q.items[i])
  <2>1. /\ ps = [i \in 1 .. n |-> ps[i]] /\ \A i \in 1 .. n : ps[i] = Value(s, p.items[i])
        /\ qs = [i \in 1 .. m |-> qs[i]] /\ \A i \in 1 .. m : qs[i] = Value(s, q.items[i])
    OBVIOUS
  <2>2. (\A i \in 1 .. n : ps[i] \in S) /\ (\A i \in 1 .. m : qs[i] \in S)
    OBVIOUS
  <2> HIDE DEF ps, qs, S
  <2>3. QED BY <2>1, <2>2, <1>1, Listed
<1>4. ASSUME n <= m
      PROVE  /\ zs \in Seq(S)
             /\ Len(zs) = m - n /\ \A j \in 1 .. m - n : zs[j] = Value(s, q.items[n + j])
             /\ IF \A j \in 1 .. m - n : Value(s, q.items[n + j]) # None
                THEN Value(s, Array(slice)) = Array(zs) /\ Array(zs) # None
                ELSE Value(s, Array(slice)) = None
  <2>1. /\ Array(slice) \in Terms /\ Array(slice).tag = "array" /\ ~EndsInRest(Array(slice))
        /\ Array(slice).items = slice
        /\ Len(slice) = m - n /\ \A j \in 1 .. m - n : slice[j] = q.items[n + j]
    <3>1. n \in 0 .. Len(q.items)
      BY <1>1, <1>4
    <3>2. QED BY <3>1, Slice, Zenon
  <2> HIDE DEF slice
  <2>2. IF \A j \in 1 .. Len(slice) : Value(s, slice[j]) # None
        THEN Value(s, Array(slice)) = Array(zs) /\ Value(s, Array(slice)) # None
        ELSE Value(s, Array(slice)) = None
    <3> DEFINE t == Array(slice)
    <3>1. t \in Terms /\ t.tag = "array" /\ ~EndsInRest(t) /\ t.items = slice
      BY <2>1
    <3> HIDE DEF t
    <3>2. IF \A i \in 1 .. Len(t.items) : Value(s, t.items[i]) # None
          THEN /\ Value(s, t) = Array([i \in 1 .. Len(t.items) |-> Value(s, t.items[i])])
               /\ Value(s, t) # None
          ELSE Value(s, t) = None
      BY <3>1, FlatValue
    <3>3. QED BY <3>1, <3>2 DEF t
  <2>3. zs = [j \in 1 .. m - n |-> zs[j]] /\ \A j \in 1 .. m - n : zs[j] = Value(s, q.items[n + j])
    BY <2>1
  <2>4. m - n \in Nat
    BY <1>1, <1>4
  <2>5. \A j \in 1 .. m - n : zs[j] \in S
    <3>1. \A j \in 1 .. m - n : n + j \in 1 .. m
      BY <1>1, <1>4
    <3>2. QED BY <3>1, <2>3
  <2> HIDE DEF zs, S
  <2>6. zs \in Seq(S) /\ Len(zs) = m - n
    <3>1. PICK k \in Nat : k = m - n
      BY <2>4
    <3>2. zs = [j \in 1 .. k |-> zs[j]] /\ \A j \in 1 .. k : zs[j] \in S
      BY <2>3, <2>5, <3>1
    <3>3. zs \in Seq(S) /\ Len(zs) = k
      BY <3>2, Listed
    <3>4. QED BY <3>1, <3>3
  <2>7. (\A j \in 1 .. Len(slice) : Value(s, slice[j]) # None)
          <=> \A j \in 1 .. m - n : Value(s, q.items[n + j]) # None
    BY <2>1
  <2>8. QED BY <2>2, <2>3, <2>6, <2>7
<1>5. IF s[v].tag = "array" /\ \A i \in 1 .. n : Value(s, p.items[i]) # None
      THEN Value(s, p) = Array(ps \o s[v].items) /\ Value(s, p) # None
      ELSE Value(s, p) = None
  BY RestValue
<1>6. IF \A i \in 1 .. m : Value(s, q.items[i]) # None
      THEN Value(s, q) = Array(qs) /\ Value(s, q) # None
      ELSE Value(s, q) = None
  BY FlatValue
<1> HIDE DEF m, slice, ps, qs, zs, S
<1>7. \A x, y : Array(x) = Array(y) => x = y
  BY ArraysEqual
<1>8. \A x : Array(x).tag = "array" /\ Array(x).items = x
  BY DEF Array, Term
<1>9. ASSUME Equal(s, p, q)
      PROVE  /\ n <= m
             /\ \A i \in 1 .. n : Equal(s, p.items[i], q.items[i])
             /\ Equal(s, Var(v), Array(slice))
  <2>1. /\ s[v].tag = "array" /\ \A i \in 1 .. n : Value(s, p.items[i]) # None
        /\ \A i \in 1 .. m : Value(s, q.items[i]) # None
        /\ ps \o s[v].items = qs
    BY <1>5, <1>6, <1>7, <1>9 DEF Equal
  <2>2. s[v] = Array(s[v].items) /\ s[v].items \in Seq(Ground) /\ Len(s[v].items) \in Nat
    BY <1>2, <2>1
  <2>3. /\ Len(ps) + Len(s[v].items) = Len(qs)
        /\ \A i \in 1 .. Len(ps) : ps[i] = qs[i]
        /\ \A j \in 1 .. Len(s[v].items) : s[v].items[j] = qs[Len(ps) + j]
    <3>1. ps \in Seq(S) /\ qs \in Seq(S) /\ s[v].items \in Seq(S)
      BY <1>3, <2>2 DEF S
    <3>2. /\ Len(ps \o s[v].items) = Len(ps) + Len(s[v].items)
          /\ \A i \in 1 .. Len(ps) : (ps \o s[v].items)[i] = ps[i]
          /\ \A j \in 1 .. Len(s[v].items) : (ps \o s[v].items)[Len(ps) + j] = s[v].items[j]
      BY <3>1, Joined
    <3>3. QED BY <2>1, <3>2
  <2>4. n <= m /\ Len(s[v].items) = m - n
    BY <2>2, <2>3, <1>1, <1>3
  <2>5. \A i \in 1 .. n : i \in 1 .. m /\ ps[i] = qs[i]
    BY <2>3, <2>4, <1>1, <1>3
  <2>6. \A i \in 1 .. n : Equal(s, p.items[i], q.items[i])
    BY <2>1, <2>5, <1>3 DEF Equal
  <2>7. \A j \in 1 .. m - n : n + j \in 1 .. m
    BY <2>4, <1>1
  <2>8. s[v].items = zs
    <3>1. \A j \in 1 .. m - n : s[v].items[j] = zs[j]
      <4>1. TAKE j \in 1 .. m - n
      <4>2. s[v].items[j] = qs[n + j]
        BY <2>3, <2>4, <1>3
      <4>3. qs[n + j] = Value(s, q.items[n + j])
        BY <2>7, <1>3
      <4>4. zs[j] = Value(s, q.items[n + j])
        BY <2>4, <1>4
      <4>5. QED BY <4>2, <4>3, <4>4
    <3>2. zs \in Seq(S)
      BY <2>4, <1>4
    <3>3. \A f, g \in Seq(S) :
             Len(f) = Len(g) /\ (\A i \in 1 .. Len(g) : f[i] = g[i]) => f = g
      OBVIOUS
    <3>4. s[v].items \in Seq(S) /\ zs \in Seq(S)
      BY <2>2, <3>2 DEF S
    <3>5. Len(zs) = m - n
      BY <2>4, <1>4
    <3>6. QED BY <3>1, <3>3, <3>4, <3>5, <2>4
  <2>9. Value(s, Array(slice)) = s[v]
    BY <2>1, <2>2, <2>4, <2>7, <2>8, <1>4
  <2>10. QED BY <2>4, <2>6, <2>9, <1>2 DEF Equal
<1>10. ASSUME n <= m, \A i \in 1 .. n : Equal(s, p.items[i], q.items[i]), Equal(s, Var(v), Array(slice))
      PROVE  Equal(s, p, q)
  <2>1. s[v] = Array(zs) /\ \A j \in 1 .. m - n : Value(s, q.items[n + j]) # None
    BY <1>2, <1>4, <1>10 DEF Equal
  <2>2. s[v].tag = "array" /\ s[v].items = zs
    BY <2>1, <1>8
  <2>3. Value(s, p) = Array(ps \o zs) /\ Value(s, p) # None
    BY <2>2, <1>5, <1>10 DEF Equal
  <2>4. \A i \in 1 .. m : i \in 1 .. n \/ (i - n \in 1 .. m - n /\ n + (i - n) = i)
    BY <1>1
  <2>5. \A i \in 1 .. m : Value(s, q.items[i]) # None
    BY <2>1, <2>4, <1>10 DEF Equal
  <2>6. \A j \in 1 .. m - n : n + j \in 1 .. m
    BY <1>1
  <2>7. Len(ps) + Len(zs) = Len(qs)
    BY <1>1, <1>3, <1>4, <1>10
  <2>8. \A i \in 1 .. Len(ps) : ps[i] = qs[i]
    <3>1. \A i \in 1 .. n : i \in 1 .. m
      BY <1>1, <1>10
    <3>2. QED BY <3>1, <1>3, <1>10 DEF Equal
  <2>9. \A j \in 1 .. Len(zs) : zs[j] = qs[Len(ps) + j]
    BY <2>6, <1>3, <1>4, <1>10
  <2>10. ps \o zs = qs
    <3>1. /\ ps \in Seq(S) /\ qs \in Seq(S)
          /\ zs \in Seq(S)
      BY <1>3, <1>4, <1>10
    <3>2. QED BY <2>7, <2>8, <2>9, <3>1, Continued
  <2>11. QED BY <2>3, <2>5, <2>10, <1>6 DEF Equal
<1>11. n <= m /\ (\A i \in 1 .. n : Equal(s, p.items[i], q.items[i])) /\ Equal(s, Var(v), Array(slice))
          <=> Equal(s, p, q)
  BY <1>9, <1>10
<1>12. QED BY <1>11 DEF m, slice

------------------------------------------------------------------------------
(* The pairs still to visit, one after the other.                          *)
LEMMA PendingHead ==
    ASSUME NEW s, NEW S, NEW pairs \in Seq(S), pairs # <<>>
    PROVE  /\ Tail(pairs) \in Seq(S)
           /\ Pending(s, pairs) <=> Equal(s, pairs[1].left, pairs[1].right) /\ Pending(s, Tail(pairs))
<1>1. /\ Len(pairs) \in Nat /\ Len(pairs) > 0 /\ Tail(pairs) \in Seq(S)
      /\ Len(Tail(pairs)) = Len(pairs) - 1
      /\ \A i \in 1 .. Len(pairs) - 1 : Tail(pairs)[i] = pairs[i + 1]
  OBVIOUS
<1>2. ASSUME Pending(s, pairs)
      PROVE  Equal(s, pairs[1].left, pairs[1].right) /\ Pending(s, Tail(pairs))
  <2>1. \A i \in 1 .. Len(pairs) - 1 : i + 1 \in 1 .. Len(pairs)
    BY <1>1
  <2>2. QED BY <2>1, <1>1, <1>2 DEF Pending
<1>3. ASSUME Equal(s, pairs[1].left, pairs[1].right), Pending(s, Tail(pairs))
      PROVE  Pending(s, pairs)
  <2>1. \A i \in 1 .. Len(pairs) : i = 1 \/ (i - 1 \in 1 .. Len(pairs) - 1 /\ (i - 1) + 1 = i)
    BY <1>1
  <2>2. SUFFICES ASSUME NEW i \in 1 .. Len(pairs)
                 PROVE  Equal(s, pairs[i].left, pairs[i].right)
    BY DEF Pending
  <2>3. CASE i = 1
    BY <2>3, <1>3
  <2>4. CASE i # 1
    <3>1. PICK j \in 1 .. Len(Tail(pairs)) : i = j + 1 /\ Tail(pairs)[j] = pairs[i]
      <4>1. i - 1 \in 1 .. Len(Tail(pairs)) /\ (i - 1) + 1 = i
        BY <2>1, <2>4, <1>1
      <4>2. Tail(pairs)[i - 1] = pairs[i]
        BY <4>1, <1>1
      <4>3. QED BY <4>1, <4>2
    <3>2. QED BY <3>1, <1>3 DEF Pending
  <2>5. QED BY <2>3, <2>4
<1>4. QED BY <1>1, <1>2, <1>3

LEMMA PendingBoth ==
    ASSUME NEW s, NEW S, NEW x \in Seq(S), NEW y \in Seq(S)
    PROVE  Pending(s, x \o y) <=> Pending(s, x) /\ Pending(s, y)
<1>1. /\ Len(x) \in Nat /\ Len(y) \in Nat /\ Len(x \o y) = Len(x) + Len(y)
      /\ \A i \in 1 .. Len(x) : (x \o y)[i] = x[i]
      /\ \A j \in 1 .. Len(y) : (x \o y)[Len(x) + j] = y[j]
  OBVIOUS
<1>2. ASSUME Pending(s, x \o y)
      PROVE  Pending(s, x) /\ Pending(s, y)
  <2>1. /\ \A i \in 1 .. Len(x) : i \in 1 .. Len(x \o y)
        /\ \A j \in 1 .. Len(y) : Len(x) + j \in 1 .. Len(x \o y)
    BY <1>1
  <2>2. Pending(s, x)
    BY <2>1, <1>1, <1>2 DEF Pending
  <2>3. Pending(s, y)
    BY <2>1, <1>1, <1>2 DEF Pending
  <2>4. QED BY <2>2, <2>3
<1>3. ASSUME Pending(s, x), Pending(s, y)
      PROVE  Pending(s, x \o y)
  <2>1. SUFFICES ASSUME NEW i \in 1 .. Len(x \o y)
                 PROVE  Equal(s, (x \o y)[i].left, (x \o y)[i].right)
    BY DEF Pending
  <2>2. CASE i \in 1 .. Len(x)
    BY <2>2, <1>1, <1>3 DEF Pending
  <2>3. CASE i \notin 1 .. Len(x)
    <3>1. PICK j \in 1 .. Len(y) : i = Len(x) + j
      <4>1. i - Len(x) \in 1 .. Len(y) /\ i = Len(x) + (i - Len(x))
        BY <2>3, <1>1
      <4>2. QED BY <4>1
    <3>2. (x \o y)[i] = y[j]
      BY <3>1, <1>1
    <3>3. QED BY <3>2, <1>3 DEF Pending
  <2>4. QED BY <2>2, <2>3
<1>4. QED BY <1>2, <1>3

(* A visit that replaces its pair by others, with what it binds, must mean *)
(* the same as the pair.                                                   *)
LEMMA VisitStep ==
    ASSUME SoFar, outcome = "going", Judged, agenda # <<>>, UNCHANGED <<outcome, history>>,
           NEW pairs \in Seq(Visits), agenda' = pairs \o Tail(agenda),
           \A v \in Vars : store'[v] \in Terms \cup {Unbound},
           \A s \in Assignments :
              Satisfies(s, store) /\ Equal(s, Left, Right) <=> Satisfies(s, store') /\ Pending(s, pairs)
    PROVE  SoFar'
<1>1. /\ agenda \in Seq(Visits)
      /\ \A s \in Assignments :
           Satisfies(s, before) /\ Equal(s, goal[1], goal[2]) <=> Satisfies(s, store) /\ Pending(s, agenda)
  BY DEF SoFar
<1>2. Tail(agenda) \in Seq(Visits)
  BY <1>1, PendingHead
<1>3. agenda' \in Seq(Visits)
  BY <1>2
<1>4. ASSUME NEW s \in Assignments
      PROVE  Satisfies(s, before) /\ Equal(s, goal[1], goal[2]) <=> Satisfies(s, store') /\ Pending(s, agenda')
  <2>1. Pending(s, agenda) <=> Equal(s, Left, Right) /\ Pending(s, Tail(agenda))
    BY <1>1, PendingHead DEF Left, Right, Visit
  <2>2. Pending(s, agenda') <=> Pending(s, pairs) /\ Pending(s, Tail(agenda))
    BY <1>2, PendingBoth
  <2>3. QED BY <2>1, <2>2, <1>1
<1>5. before' = before /\ goal' = goal /\ outcome' = "going"
  BY DEF history
<1>6. QED BY <1>3, <1>4, <1>5 DEF SoFar

(* A visit that answers no must mean that no assignment is left.           *)
LEMMA RefusalStep ==
    ASSUME SoFar, outcome = "going", Judged, agenda # <<>>, UNCHANGED <<store, history>>,
           outcome' = "no", agenda' = <<>>,
           \A s \in Assignments : ~(Satisfies(s, store) /\ Equal(s, Left, Right))
    PROVE  SoFar'
<1>1. /\ agenda \in Seq(Visits)
      /\ \A v \in Vars : store[v] \in Terms \cup {Unbound}
      /\ \A s \in Assignments :
           Satisfies(s, before) /\ Equal(s, goal[1], goal[2]) <=> Satisfies(s, store) /\ Pending(s, agenda)
  BY DEF SoFar
<1>2. \A s \in Assignments : Pending(s, agenda) => Equal(s, Left, Right)
  BY <1>1, PendingHead DEF Left, Right, Visit
<1>3. before' = before /\ goal' = goal
  BY DEF history
<1>4. QED BY <1>1, <1>2, <1>3 DEF SoFar

LEMMA StartSoFar ==
    ASSUME StartWord
    PROVE  SoFar'
<1>1. PICK g \in Goals : goal' = g /\ agenda' = <<Pair(g[1], g[2], 0)>>
  BY DEF StartWord
<1>2. outcome' = "going" /\ before' = store /\ store' = store
  BY DEF StartWord
<1>3. SUFFICES ASSUME Judged' PROVE SoFar'
  BY DEF SoFar
<1>4. /\ g[1] \in Terms /\ g[2] \in Terms
      /\ \A v \in Vars : store[v] \in Terms \cup {Unbound}
  BY <1>1, <1>2, <1>3 DEF Judged
<1>5. Pair(g[1], g[2], 0) \in Visits
  BY <1>4 DEF Pair, Visits
<1>6. agenda' \in Seq(Visits) /\ Len(agenda') = 1 /\ agenda'[1] = Pair(g[1], g[2], 0)
  BY <1>1, <1>5
<1>7. \A s : Pending(s, agenda') <=> Equal(s, g[1], g[2])
  BY <1>6 DEF Pending, Pair
<1>8. QED BY <1>1, <1>2, <1>4, <1>6, <1>7 DEF SoFar

LEMMA Replaced ==
    ASSUME NEW S, NEW pairs \in Seq(S), pairs # <<>>, NEW e \in S
    PROVE  [pairs EXCEPT ![1] = e] = <<e>> \o Tail(pairs)
<1>1. /\ Len(pairs) \in Nat /\ Len(pairs) > 0 /\ Tail(pairs) \in Seq(S)
      /\ Len(Tail(pairs)) = Len(pairs) - 1
      /\ \A i \in 1 .. Len(pairs) - 1 : Tail(pairs)[i] = pairs[i + 1]
  OBVIOUS
<1> DEFINE x == <<e>>
           z == [pairs EXCEPT ![1] = e]
<1>2. x \in Seq(S) /\ Len(x) = 1 /\ x[1] = e
  OBVIOUS
<1>3. z \in Seq(S) /\ Len(z) = Len(pairs) /\ z[1] = e /\ \A i \in 2 .. Len(pairs) : z[i] = pairs[i]
  BY <1>1
<1> HIDE DEF x, z
<1>4. x \o Tail(pairs) = z
  <2>1. Len(x) + Len(Tail(pairs)) = Len(z)
    BY <1>1, <1>2, <1>3
  <2>2. \A i \in 1 .. Len(x) : x[i] = z[i]
    BY <1>2, <1>3
  <2>3. \A j \in 1 .. Len(Tail(pairs)) : Tail(pairs)[j] = z[Len(x) + j]
    <3>1. \A j \in 1 .. Len(Tail(pairs)) : j \in 1 .. Len(pairs) - 1 /\ 1 + j \in 2 .. Len(pairs) /\ 1 + j = j + 1
      BY <1>1
    <3>2. QED BY <3>1, <1>1, <1>2, <1>3
  <2>4. QED BY <2>1, <2>2, <2>3, <1>1, <1>2, <1>3, Continued
<1>5. QED BY <1>4 DEF x, z

(* The pair visited is of terms.                                           *)
LEMMA Visited ==
    ASSUME SoFar, outcome = "going", Judged, agenda # <<>>
    PROVE  /\ Visit \in Visits /\ Left \in Terms /\ Right \in Terms /\ Visit.depth \in Nat
           /\ \A v \in Vars : store[v] \in Terms \cup {Unbound}
<1>1. agenda \in Seq(Visits) /\ \A v \in Vars : store[v] \in Terms \cup {Unbound}
  BY DEF SoFar
<1>2. agenda[1] \in Visits
  BY <1>1
<1>3. QED BY <1>1, <1>2 DEF Visit, Left, Right, Visits

LEMMA DerefSoFar ==
    ASSUME SoFar, Deref, Judged
    PROVE  SoFar'
<1>1. outcome = "going" /\ agenda # <<>> /\ UNCHANGED <<store, outcome, history>>
  BY DEF Deref, Visiting, NoChange
<1>2. /\ Visit \in Visits /\ Left \in Terms /\ Right \in Terms
      /\ agenda \in Seq(Visits) /\ \A v \in Vars : store[v] \in Terms \cup {Unbound}
  BY <1>1, Visited DEF SoFar
<1>3. ASSUME NEW t \in Terms
      PROVE  /\ Target(t) \in Terms
             /\ \A s \in Assignments : Satisfies(s, store) => Value(s, Target(t)) = Value(s, t)
  <2>1. CASE Bound(t)
    <3>1. t.id \in Vars /\ t = Var(t.id) /\ store[t.id] # Unbound /\ Target(t) = store[t.id]
      BY <2>1, TermKinds DEF Bound, Target
    <3>2. QED BY <3>1, <1>2 DEF Satisfies, Equal
  <2>2. CASE ~Bound(t)
    BY <2>2 DEF Target
  <2>3. QED BY <2>1, <2>2
<1> DEFINE e == [left |-> Target(Left), right |-> Target(Right), depth |-> Visit.depth]
<1>4. e \in Visits /\ e.left = Target(Left) /\ e.right = Target(Right)
  BY <1>2, <1>3 DEF Visits
<1>5. agenda' = [agenda EXCEPT ![1] = e]
  <2>1. agenda' = [agenda EXCEPT ![1] = [agenda[1] EXCEPT !.left = Target(Left), !.right = Target(Right)]]
    BY DEF Deref
  <2>2. [agenda[1] EXCEPT !.left = Target(Left), !.right = Target(Right)] = e
    <3> DEFINE z == [agenda[1] EXCEPT !.left = Target(Left), !.right = Target(Right)]
    <3>1. agenda[1] \in Visits /\ Visit.depth = agenda[1].depth
      BY <1>2 DEF Visit
    <3>2. z \in Visits /\ z.left = Target(Left) /\ z.right = Target(Right) /\ z.depth = Visit.depth
      BY <3>1, <1>2, <1>3 DEF Visits
    <3> HIDE DEF z
    <3>3. z = e
      BY <3>2 DEF Visits
    <3>4. QED BY <3>3 DEF z
  <2>3. QED BY <2>1, <2>2
<1> HIDE DEF e
<1>6. agenda' = <<e>> \o Tail(agenda)
  BY <1>1, <1>2, <1>4, <1>5, Replaced
<1>7. <<e>> \in Seq(Visits) /\ Len(<<e>>) = 1 /\ <<e>>[1] = e
  BY <1>4
<1>8. \A s \in Assignments : Satisfies(s, store) => (Pending(s, <<e>>) <=> Equal(s, Left, Right))
  <2>1. TAKE s \in Assignments
  <2>2. HAVE Satisfies(s, store)
  <2>3. Pending(s, <<e>>) <=> Equal(s, Target(Left), Target(Right))
    BY <1>4, <1>7 DEF Pending
  <2>4. Value(s, Target(Left)) = Value(s, Left) /\ Value(s, Target(Right)) = Value(s, Right)
    BY <1>2, <1>3, <2>2
  <2>5. QED BY <2>3, <2>4 DEF Equal
<1>9. QED BY <1>1, <1>2, <1>6, <1>7, <1>8, VisitStep

(* A variable without a value gets one: it must be equal to it from now.   *)
LEMMA BindSoFar ==
    ASSUME SoFar, Judged, outcome = "going", agenda # <<>>, UNCHANGED <<outcome, history>>,
           store = [v \in Vars |-> store[v]],
           NEW x \in Vars, NEW t \in Terms, store[x] = Unbound, store' = [store EXCEPT ![x] = t],
           {Left, Right} = {Var(x), t}, agenda' = <<>> \o Tail(agenda)
    PROVE  SoFar'
<1>1. \A v \in Vars : store[v] \in Terms \cup {Unbound}
  BY Visited
<1>2. store'[x] = t /\ \A v \in Vars \ {x} : store'[v] = store[v]
  OBVIOUS
<1>3. \A v \in Vars : store'[v] \in Terms \cup {Unbound}
  BY <1>1, <1>2
<1>4. t # Unbound
  BY TermKinds
<1>5. \A s \in Assignments :
         Satisfies(s, store) /\ Equal(s, Left, Right) <=> Satisfies(s, store') /\ Pending(s, <<>>)
  <2>1. TAKE s \in Assignments
  <2>2. Equal(s, Left, Right) <=> Equal(s, Var(x), t)
    BY DEF Equal
  <2>3. Pending(s, <<>>)
    BY DEF Pending
  <2>4. Satisfies(s, store') <=> Satisfies(s, store) /\ Equal(s, Var(x), t)
    BY <1>2, <1>4 DEF Satisfies
  <2>5. QED BY <2>2, <2>3, <2>4
<1>6. <<>> \in Seq(Visits)
  OBVIOUS
<1>7. QED BY <1>3, <1>5, <1>6, VisitStep

LEMMA VariablesSoFar ==
    ASSUME SoFar, Variables, Judged, store = [v \in Vars |-> store[v]]
    PROVE  SoFar'
<1>1. /\ outcome = "going" /\ agenda # <<>> /\ UNCHANGED <<outcome, history>>
      /\ agenda' = <<>> \o Tail(agenda)
      /\ ~Bound(Left) /\ ~Bound(Right)
  BY DEF Variables, Resolved, Visiting, NoChange, GoesOn
<1>2. Left \in Terms /\ Right \in Terms /\ \A v \in Vars : store[v] \in Terms \cup {Unbound}
  BY <1>1, Visited
<1>3. CASE Left.tag = "var" /\ Left = Right /\ UNCHANGED <<store, trail>>
  <2>1. \A s \in Assignments : Equal(s, Left, Right) /\ Pending(s, <<>>)
    <3>1. Left.id \in Vars /\ Left = Var(Left.id)
      BY <1>2, <1>3, TermKinds
    <3>2. \A s \in Assignments : Value(s, Left) # None
      BY <3>1, ValueOfVar
    <3>3. QED BY <3>2, <1>3 DEF Equal, Pending
  <2>2. <<>> \in Seq(Visits)
    OBVIOUS
  <2>3. QED BY <1>1, <1>2, <1>3, <2>1, <2>2, VisitStep
<1>4. CASE Left.tag = "var" /\ Bind(Left.id, Right)
  <2>1. Left.id \in Vars /\ Left = Var(Left.id) /\ store[Left.id] = Unbound
    BY <1>1, <1>2, <1>4, TermKinds DEF Bound
  <2>2. store' = [store EXCEPT ![Left.id] = Right]
    BY <1>4 DEF Bind
  <2>3. {Left, Right} = {Var(Left.id), Right}
    BY <2>1
  <2>4. QED BY <1>1, <1>2, <2>1, <2>2, <2>3, BindSoFar
<1>5. CASE Right.tag = "var" /\ Bind(Right.id, Left)
  <2>1. Right.id \in Vars /\ Right = Var(Right.id) /\ store[Right.id] = Unbound
    BY <1>1, <1>2, <1>5, TermKinds DEF Bound
  <2>2. store' = [store EXCEPT ![Right.id] = Left]
    BY <1>5 DEF Bind
  <2>3. {Left, Right} = {Var(Right.id), Left}
    BY <2>1
  <2>4. QED BY <1>1, <1>2, <2>1, <2>2, <2>3, BindSoFar
<1>6. Unbound \notin {Left, Right}
  BY <1>2, TermKinds
<1>7. QED BY <1>3, <1>4, <1>5, <1>6 DEF Variables

LEMMA AtomsSoFar ==
    ASSUME SoFar, Atoms, Judged
    PROVE  SoFar'
<1>1. /\ outcome = "going" /\ agenda # <<>> /\ UNCHANGED <<store, history>>
      /\ {Left.tag, Right.tag} \cap {"var", "unbound"} = {}
      /\ {Left.tag, Right.tag} \notin {{"array"}, {"frame"}}
  BY DEF Atoms, Resolved, Visiting, NoChange, GoesOn, Answers
<1>2. Left \in Terms /\ Right \in Terms /\ \A v \in Vars : store[v] \in Terms \cup {Unbound}
  BY <1>1, Visited
<1>3. Left.tag \in {"atom", "array"} /\ Right.tag \in {"atom", "array"}
  BY <1>1, <1>2, TermKinds
<1>4. CASE Left = Right
  <2>1. Left.tag = "atom"
    BY <1>1, <1>3, <1>4
  <2>2. \A s \in Assignments : Equal(s, Left, Right) /\ Pending(s, <<>>)
    <3>1. \A s \in Assignments : Value(s, Left) # None
      BY <2>1, <1>2, ValueOfAtom
    <3>2. QED BY <3>1, <1>4 DEF Equal, Pending
  <2>3. agenda' = <<>> \o Tail(agenda) /\ outcome' = outcome
    BY <1>4 DEF Atoms, GoesOn
  <2>4. <<>> \in Seq(Visits)
    OBVIOUS
  <2>5. QED BY <1>1, <1>2, <2>2, <2>3, <2>4, VisitStep
<1>5. CASE Left # Right
  <2>1. agenda' = <<>> /\ outcome' = "no"
    BY <1>5 DEF Atoms, Answers
  <2>2. ASSUME NEW s \in Assignments, Equal(s, Left, Right)
        PROVE  FALSE
    <3>1. ASSUME NEW t \in Terms, t.tag = "array", Value(s, t) # None
          PROVE  Value(s, t).tag = "array"
      <4>1. \E x : Value(s, t) = Array(x)
        BY <3>1, ValueOfArray DEF ArrayValue
      <4>2. QED BY <4>1 DEF Array, Term
    <3>2. \A t \in Terms : t.tag = "atom" => Value(s, t) = t
      BY ValueOfAtom
    <3>3. CASE Left.tag = "atom" /\ Right.tag = "atom"
      BY <3>2, <3>3, <1>2, <1>5, <2>2 DEF Equal
    <3>4. CASE Left.tag = "atom" /\ Right.tag = "array"
      BY <3>1, <3>2, <3>4, <1>2, <2>2 DEF Equal
    <3>5. CASE Left.tag = "array" /\ Right.tag = "atom"
      BY <3>1, <3>2, <3>5, <1>2, <2>2 DEF Equal
    <3>6. CASE Left.tag = "array" /\ Right.tag = "array"
      BY <3>6, <1>1
    <3>7. QED BY <3>3, <3>4, <3>5, <3>6, <1>3
  <2>3. QED BY <1>1, <2>1, <2>2, RefusalStep
<1>6. QED BY <1>4, <1>5

(* The pairs an array visit adds are of terms, and mean that the parts are *)
(* equal.                                                                  *)
LEMMA PairedUp ==
    ASSUME NEW n \in Nat, NEW ls, NEW rs, Len(ls) = n, Visit.depth \in Nat,
           \A i \in 1 .. n : ls[i] \in Terms /\ rs[i] \in Terms
    PROVE  /\ PairUp(ls, rs) \in Seq(Visits)
           /\ \A s : Pending(s, PairUp(ls, rs)) <=> \A i \in 1 .. n : Equal(s, ls[i], rs[i])
<1> DEFINE pairs == PairUp(ls, rs)
<1>1. pairs = [i \in 1 .. n |-> pairs[i]] /\ \A i \in 1 .. n : pairs[i] = Pair(ls[i], rs[i], Visit.depth + 1)
  BY DEF PairUp
<1>2. \A i \in 1 .. n : pairs[i] \in Visits /\ pairs[i].left = ls[i] /\ pairs[i].right = rs[i]
  BY <1>1 DEF Pair, Visits
<1> HIDE DEF pairs
<1>3. pairs \in Seq(Visits) /\ Len(pairs) = n
  BY <1>1, <1>2, Listed
<1>4. \A s : Pending(s, pairs) <=> \A i \in 1 .. n : Equal(s, ls[i], rs[i])
  BY <1>2, <1>3 DEF Pending
<1>5. QED BY <1>3, <1>4 DEF pairs

LEMMA RestSoFar ==
    ASSUME SoFar, Judged, outcome = "going", agenda # <<>>, UNCHANGED history,
           NEW p \in Terms, NEW q \in Terms, p.tag = "array", q.tag = "array",
           EndsInRest(p), ~EndsInRest(q), {Left, Right} = {p, q}, WithRest(p, q)
    PROVE  SoFar'
<1> DEFINE n == Len(p.items) - 1
           m == Len(q.items)
           slice == SubSeq(q.items, n + 1, m)
<1>1. /\ Visit.depth \in Nat /\ \A v \in Vars : store[v] \in Terms \cup {Unbound}
      /\ UNCHANGED store
  BY Visited DEF WithRest, Answers
<1>2. /\ n \in Nat /\ Len(p.items) = n + 1 /\ m \in Nat
      /\ \A i \in 1 .. n : p.items[i] \in Terms
      /\ \A i \in 1 .. m : q.items[i] \in Terms
  BY Parts
<1>3. PICK v \in Vars : p.items[n + 1] = Rest(v)
  BY <1>2, Parts
<1>4. p.items[n + 1].id = v /\ v # 0
  BY <1>3 DEF Rest, Term, Vars
<1>5. \A s \in Assignments :
         Equal(s, Left, Right) <=> /\ n <= m
                                   /\ \A i \in 1 .. n : Equal(s, p.items[i], q.items[i])
                                   /\ Equal(s, Var(v), Array(slice))
  <2>1. TAKE s \in Assignments
  <2>2. Equal(s, Left, Right) <=> Equal(s, p, q)
    BY DEF Equal
  <2>3. QED BY <2>2, <1>2, <1>3, RestEqual
<1>6. CASE m < n
  <2>1. outcome' = "no" /\ agenda' = <<>>
    BY <1>6, <1>2 DEF WithRest, Answers
  <2>2. ~(n <= m)
    BY <1>6, <1>2
  <2>3. QED BY <2>1, <2>2, <1>1, <1>5, RefusalStep
<1>7. CASE n <= m
  <2> DEFINE ps == PairUp(Prefix(p.items, n), Prefix(q.items, n))
             e == Pair(Var(v), Array(slice), Visit.depth + 1)
  <2>1. outcome' = outcome /\ agenda' = RestPairs(p, q) \o Tail(agenda)
    <3>1. ~(Len(q.items) < Len(p.items) - 1)
      BY <1>7, <1>2
    <3>2. QED BY <3>1 DEF WithRest, GoesOn
  <2>2. RestPairs(p, q) = ps \o <<e>>
    BY <1>4 DEF RestPairs
  <2>3. /\ ps \in Seq(Visits)
        /\ \A s : Pending(s, ps) <=> \A i \in 1 .. n : Equal(s, p.items[i], q.items[i])
    <3>1. /\ p.items \in Seq(Terms \cup {Rest(w) : w \in Vars})
          /\ q.items \in Seq(Terms \cup {Rest(w) : w \in Vars})
      BY TermKinds
    <3>2. n \in 0 .. Len(p.items) /\ n \in 0 .. Len(q.items)
      BY <1>2, <1>7
    <3>3. /\ Len(Prefix(p.items, n)) = n
          /\ \A i \in 1 .. n : Prefix(p.items, n)[i] = p.items[i]
          /\ \A i \in 1 .. n : Prefix(q.items, n)[i] = q.items[i]
      <4> DEFINE T == Terms \cup {Rest(w) : w \in Vars}
      <4>1. p.items \in Seq(T) /\ q.items \in Seq(T)
        BY <3>1
      <4> HIDE DEF n, T
      <4>2. QED BY <4>1, <3>2, Prefixed
    <3>4. \A i \in 1 .. n : i \in 1 .. m
      BY <1>2, <1>7
    <3>5. \A i \in 1 .. n : Prefix(p.items, n)[i] \in Terms /\ Prefix(q.items, n)[i] \in Terms
      BY <3>3, <3>4, <1>2
    <3>6. n \in Nat /\ Visit.depth \in Nat
      BY <1>1, <1>2
    <3> HIDE DEF n
    <3> DEFINE ls == Prefix(p.items, n)
               rs == Prefix(q.items, n)
    <3>7. /\ Len(ls) = n /\ \A i \in 1 .. n : ls[i] \in Terms /\ rs[i] \in Terms
          /\ \A i \in 1 .. n : ls[i] = p.items[i] /\ rs[i] = q.items[i]
      BY <3>3, <3>5
    <3>8. ps = PairUp(ls, rs)
      OBVIOUS
    <3> HIDE DEF ps, ls, rs
    <3>9. /\ PairUp(ls, rs) \in Seq(Visits)
          /\ \A s : Pending(s, PairUp(ls, rs)) <=> \A i \in 1 .. n : Equal(s, ls[i], rs[i])
      BY <3>6, <3>7, PairedUp
    <3>10. QED BY <3>7, <3>8, <3>9
  <2>4. e \in Visits /\ e.left = Var(v) /\ e.right = Array(slice)
    <3>1. n \in 0 .. Len(q.items)
      BY <1>2, <1>7
    <3>2. Array(slice) \in Terms
      <4> HIDE DEF n
      <4>1. QED BY <3>1, Slice
    <3>3. Var(v) \in Terms
      BY ValueAssumption
    <3>4. QED BY <3>2, <3>3, <1>1 DEF Pair, Visits
  <2> HIDE DEF n, m, slice, ps, e
  <2>5. <<e>> \in Seq(Visits) /\ \A s : Pending(s, <<e>>) <=> Equal(s, Var(v), Array(slice))
    <3>1. <<e>> \in Seq(Visits) /\ Len(<<e>>) = 1 /\ <<e>>[1] = e
      BY <2>4
    <3>2. QED BY <3>1, <2>4 DEF Pending
  <2>6. ps \o <<e>> \in Seq(Visits)
    BY <2>3, <2>5
  <2>7. \A s \in Assignments : Equal(s, Left, Right) <=> Pending(s, ps \o <<e>>)
    BY <1>5, <1>7, <2>3, <2>5, PendingBoth
  <2>8. QED BY <2>1, <2>2, <2>6, <2>7, <1>1, VisitStep
<1>8. QED BY <1>2, <1>6, <1>7

LEMMA ArraysSoFar ==
    ASSUME SoFar, Arrays, Judged
    PROVE  SoFar'
<1>1. /\ outcome = "going" /\ agenda # <<>> /\ UNCHANGED history
      /\ Left.tag = "array" /\ Right.tag = "array"
  BY DEF Arrays, Resolved, Visiting, NoChange
<1>2. Left \in Terms /\ Right \in Terms /\ Visit.depth \in Nat
  BY <1>1, Visited
<1>3. CASE Malformed /\ Answers("error")
  BY <1>3 DEF Answers, SoFar
<1>4. CASE ~Malformed /\ EndsInRest(Left) /\ WithRest(Left, Right)
  BY <1>1, <1>2, <1>4, RestSoFar DEF Malformed
<1>5. CASE ~Malformed /\ EndsInRest(Right) /\ WithRest(Right, Left)
  <2>1. ~EndsInRest(Left)
    BY <1>5 DEF Malformed
  <2>2. {Left, Right} = {Right, Left}
    OBVIOUS
  <2>3. QED BY <2>1, <2>2, <1>1, <1>2, <1>5, RestSoFar
<1>6. CASE ~EndsInRest(Left) /\ ~EndsInRest(Right) /\ ~Malformed
  <2>1. \A s \in Assignments :
           Equal(s, Left, Right) <=> /\ Len(Left.items) = Len(Right.items)
                                     /\ \A i \in 1 .. Len(Left.items) : Equal(s, Left.items[i], Right.items[i])
    BY <1>1, <1>2, <1>6, FlatEqual
  <2>2. CASE Len(Left.items) = Len(Right.items)
    <3>1. agenda' = PairUp(Left.items, Right.items) \o Tail(agenda) /\ outcome' = outcome /\ UNCHANGED store
      BY <2>2, <1>6 DEF Arrays, GoesOn
    <3>2. /\ Len(Left.items) \in Nat
          /\ \A i \in 1 .. Len(Left.items) : Left.items[i] \in Terms /\ Right.items[i] \in Terms
      BY <2>2, <1>1, <1>2, <1>6, Parts
    <3>3. /\ PairUp(Left.items, Right.items) \in Seq(Visits)
          /\ \A s : Pending(s, PairUp(Left.items, Right.items))
                      <=> \A i \in 1 .. Len(Left.items) : Equal(s, Left.items[i], Right.items[i])
      BY <3>2, <1>2, PairedUp
    <3>4. \A v \in Vars : store'[v] \in Terms \cup {Unbound}
      BY <3>1, <1>1, Visited
    <3>5. QED BY <3>1, <3>3, <3>4, <2>1, <2>2, <1>1, VisitStep
  <2>3. CASE Len(Left.items) # Len(Right.items)
    <3>1. agenda' = <<>> /\ outcome' = "no" /\ UNCHANGED store
      BY <2>3, <1>6 DEF Arrays, Answers
    <3>2. QED BY <3>1, <2>1, <2>3, <1>1, RefusalStep
  <2>4. QED BY <2>2, <2>3
<1>7. QED BY <1>3, <1>4, <1>5, <1>6 DEF Arrays

LEMMA UnifySoFar ==
    ASSUME SoFar, Unify, store = [v \in Vars |-> store[v]]
    PROVE  SoFar'
<1>1. outcome = "going" /\ UNCHANGED history
  BY DEF Unify, NestedTooDeep, Deref, Variables, Resolved, Visiting, Arrays, Frames, Atoms, Unified, NoChange
<1>2. SUFFICES ASSUME Judged PROVE SoFar'
  BY <1>1 DEF SoFar, Judged, history
<1>3. CASE NestedTooDeep
  BY <1>3 DEF NestedTooDeep, Answers, SoFar
<1>4. CASE Frames
  <2>1. agenda # <<>> /\ Left.tag = "frame"
    BY <1>4 DEF Frames, Resolved, Visiting
  <2>2. Left \in Terms
    BY <2>1, <1>1, <1>2, Visited
  <2>3. QED BY <2>1, <2>2, TermKinds
<1>5. CASE Unified
  <2>1. /\ outcome' = "yes" /\ agenda' = <<>> /\ agenda = <<>> /\ UNCHANGED <<store, goal, before>>
    BY <1>1, <1>5 DEF Unified, history
  <2>2. QED BY <2>1, <1>1, <1>2 DEF SoFar
<1>6. QED BY <1>2, <1>3, <1>4, <1>5, DerefSoFar, VariablesSoFar, ArraysSoFar, AtomsSoFar DEF Unify

(* Unification answers for equality: once it has answered yes, an          *)
(* assignment of values satisfies the store exactly when it satisfied the  *)
(* store before and makes the two terms equal; it answers no only when     *)
(* none does (unify_depth, logic.c).  For any terms, without wildcards and *)
(* frames, that it does not find malformed or nested too deep.             *)
THEOREM UnificationIsEquality == Spec => []UnifyMeansEqual
<1>1. Init => IInv /\ SoFar
  <2>1. Init => SoFar
    BY DEF Init, SoFar
  <2>2. QED BY <2>1, Initially
<1>2. IInv /\ SoFar /\ [Next]_vars => IInv' /\ SoFar'
  <2>1. SUFFICES ASSUME IInv, SoFar, [Next]_vars PROVE SoFar'
    BY EveryStepKeeps
  <2>2. store = [v \in Vars |-> store[v]]
    BY <2>1 DEF IInv, StoreInv, Types
  <2>3. CASE Unify
    BY <2>1, <2>2, <2>3, UnifySoFar
  <2>4. CASE StartWord
    BY <2>4, StartSoFar
  <2>5. CASE UNCHANGED <<store, agenda, outcome, history>>
    BY <2>1, <2>5 DEF SoFar, Judged, history
  <2>6. CASE outcome' \in {"idle", "error", "raised"}
    BY <2>6 DEF SoFar
  <2>7. QED BY <2>1, <2>3, <2>4, <2>5, <2>6 DEF Next, vars, Lvar, CopyKept, NewVariable, EndMatches,
          EndUnify, EndOnError, Amb, Catch, Push, BranchReturns, Backtrack, Raise, Throw, NextLine, Idle
<1>3. SoFar => UnifyMeansEqual
  BY DEF SoFar, UnifyMeansEqual, Pending
<1>4. QED BY <1>1, <1>2, <1>3, PTL DEF Spec
==============================================================================
