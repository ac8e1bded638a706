-------------------------------- MODULE Search --------------------------------
(***************************************************************************)
(* Logic variables, unification and backtracking (logic.c, and what core.c *)
(* does with the binding store when an error reaches the top level).       *)
(* unify_depth is written as the agenda of the pairs its recursion has     *)
(* still to visit, first to last: a step is one visit.  Control is that of *)
(* module Prompts, reduced to what the store sees: which amb, catch or     *)
(* line of input is in progress, and which of them is left.                *)
(*                                                                         *)
(* A term is a record; an atom stands for every value compared by val_cmp. *)
(***************************************************************************)
EXTENDS Naturals, Sequences

CONSTANTS
    MaxVars,    \* bound: logic variables at once
    MaxDepth,   \* MAX_NESTING_DEPTH
    MaxWords,   \* bound: unifications the program asks for
    MaxPrompts, \* bound: prompts at once, the line included
    Goals,      \* the pairs of terms the program gives to the words of unification
    Terms,      \* the terms that stand for values: see PlainTerm
    Ground,     \* values: terms without variables
    Value(_, _) \* what a term stands for when the variables stand for values

ASSUME SearchAssumption == MaxVars \in Nat

Vars == 1 .. MaxVars

Term(tag, id, keys, items) == [tag |-> tag, id |-> id, keys |-> keys, items |-> items]
Unbound == Term("unbound", 0, <<>>, <<>>)       \* also the wildcard _
Atom(a) == Term("atom", a, <<>>, <<>>)
Var(v) == Term("var", v, <<>>, <<>>)
Rest(v) == Term("rest", v, <<>>, <<>>)          \* 0: the wildcard
Array(items) == Term("array", 0, <<>>, items)
Frame(keys, items) == Term("frame", 0, keys, items)

VARIABLES
    store,      \* lvar_stack, what lies above lvar_top included
    top,        \* lvar_top
    trail,      \* bind_trail
    prompts,    \* the line and the ambs and catches in progress, innermost last
    held,       \* variables in an object or a global, which no backtracking restores
    words,      \* unifications asked for
    mark,       \* trail_mark of the word of unification in progress
    agenda,     \* the pairs unify_depth has still to visit
    outcome,    \* "idle", "going", "yes", "no", "error", "raised"
    goal, before \* history: the pair the word was given, and the store then

control == <<held, words>>
history == <<goal, before>>
vars == <<store, top, trail, prompts, control, mark, agenda, outcome, history>>

Prompt(kind) == [kind |-> kind, mark |-> Len(trail), top |-> top, snapshot |-> store]

Init ==
    /\ store = [v \in Vars |-> Unbound]
    /\ top = 0 /\ trail = <<>> /\ held = {} /\ words = 0
    /\ prompts = <<Prompt("line")>>
    /\ mark = 0 /\ agenda = <<>> /\ outcome = "idle"
    /\ goal = <<Unbound, Unbound>> /\ before = store      \* none

------------------------------------------------------------------------------
(* The binding store: bind_var, trail_undo_to.                             *)
BindUntrailedAlias(v, term) ==
    /\ store' = [store EXCEPT ![v] = term]
    /\ trail' = IF term.tag = "var" THEN trail ELSE Append(trail, v)
Bind(v, term) ==
    /\ store' = [store EXCEPT ![v] = term]
    /\ trail' = Append(trail, v)

UndoneTo(m) ==
    [v \in Vars |-> IF \E i \in m + 1 .. Len(trail) : trail[i] = v THEN Unbound ELSE store[v]]
UndoTo(m) == store' = UndoneTo(m) /\ trail' = SubSeq(trail, 1, m)

(* lvar, and copy of an unbound variable into an array the program keeps,  *)
(* as solutions does with its answers.                                     *)
NewVariable ==
    /\ outcome = "idle" /\ top < MaxVars
    /\ top' = top + 1
    /\ store' = [store EXCEPT ![top + 1] = Unbound]
    /\ UNCHANGED <<trail, prompts, words, mark, agenda, outcome, history>>
Lvar == NewVariable /\ held' = held
CopyKept ==
    /\ \E v \in 1 .. top : store[v] = Unbound
    /\ NewVariable
    /\ held' = held \cup {top + 1}

------------------------------------------------------------------------------
(* unify_depth.                                                            *)
Visit == agenda[1]
Left == Visit.left
Right == Visit.right
Pair(l, r, depth) == [left |-> l, right |-> r, depth |-> depth]
PairUpFlat(ls, rs) == [i \in 1 .. Len(ls) |-> Pair(ls[i], rs[i], Visit.depth)]
PairUp(ls, rs) == [i \in 1 .. Len(ls) |-> Pair(ls[i], rs[i], Visit.depth + 1)]

Bound(t) == t.tag = "var" /\ store[t.id] # Unbound
Target(t) == IF Bound(t) THEN store[t.id] ELSE t
Visiting == outcome = "going" /\ agenda # <<>>
TooDeep == Visit.depth > MaxDepth
Resolved == Visiting /\ ~TooDeep /\ ~Bound(Left) /\ ~Bound(Right)
Answers(answer) == outcome' = answer /\ agenda' = <<>> /\ UNCHANGED <<store, trail>>
GoesOn(pairs) == agenda' = pairs \o Tail(agenda) /\ outcome' = outcome
NoChange == UNCHANGED <<top, prompts, control, mark, history>>

NestedTooDeep ==
    /\ Visiting /\ TooDeep
    /\ Answers("error")
    /\ NoChange

Deref ==
    /\ Visiting /\ ~TooDeep
    /\ Bound(Left) \/ Bound(Right)
    /\ agenda' = [agenda EXCEPT ![1].left = Target(Left), ![1].right = Target(Right)]
    /\ UNCHANGED <<store, trail, outcome>>
    /\ NoChange

Variables ==
    /\ Resolved
    /\ \/ /\ Left.tag = "var" /\ Left = Right
          /\ UNCHANGED <<store, trail>>
       \/ Left.tag = "var" /\ Left # Right /\ Bind(Left.id, Right)
       \/ Left.tag # "var" /\ Right.tag = "var" /\ Bind(Right.id, Left)
       \/ /\ Left.tag # "var" /\ Right.tag # "var" /\ Unbound \in {Left, Right}
          /\ UNCHANGED <<store, trail>>
    /\ GoesOn(<<>>)
    /\ NoChange

(* An array pattern may end in a rest, which takes what is left.           *)
EndsInRest(t) == t.items # <<>> /\ t.items[Len(t.items)].tag = "rest"
RestInside(t) == \E i \in 1 .. Len(t.items) - 1 : t.items[i].tag = "rest"
Malformed == RestInside(Left) \/ RestInside(Right) \/ (EndsInRest(Left) /\ EndsInRest(Right))

Prefix(s, n) == SubSeq(s, 1, n)
RestPairsShort(pattern, subject) ==
    LET n == Len(pattern.items) - 1
        marker == pattern.items[n + 1]
    IN  PairUp(Prefix(pattern.items, n), Prefix(subject.items, n))
        \o (IF marker.id = 0 THEN <<>>
            ELSE <<Pair(Var(marker.id), Array(SubSeq(subject.items, n + 2, Len(subject.items))), Visit.depth + 1)>>)
RestPairs(pattern, subject) ==
    LET n == Len(pattern.items) - 1
        marker == pattern.items[n + 1]
    IN  PairUp(Prefix(pattern.items, n), Prefix(subject.items, n))
        \o (IF marker.id = 0 THEN <<>>
            ELSE <<Pair(Var(marker.id), Array(SubSeq(subject.items, n + 1, Len(subject.items))), Visit.depth + 1)>>)
WithRest(pattern, subject) ==
    IF Len(subject.items) < Len(pattern.items) - 1 THEN Answers("no")
    ELSE GoesOn(RestPairs(pattern, subject)) /\ UNCHANGED <<store, trail>>

Arrays ==
    /\ Resolved /\ Left.tag = "array" /\ Right.tag = "array"
    /\ \/ Malformed /\ Answers("error")
       \/ ~Malformed /\ EndsInRest(Left) /\ WithRest(Left, Right)
       \/ ~Malformed /\ EndsInRest(Right) /\ WithRest(Right, Left)
       \/ /\ ~Malformed /\ ~EndsInRest(Left) /\ ~EndsInRest(Right)
          /\ IF Len(Left.items) = Len(Right.items)
             THEN GoesOn(PairUp(Left.items, Right.items)) /\ UNCHANGED <<store, trail>>
             ELSE Answers("no")
    /\ NoChange

(* Frames: the keys of both, in their order.                               *)
Field(t, key) == t.items[CHOOSE i \in 1 .. Len(t.keys) : t.keys[i] = key]
SharedKeys == SelectSeq(Left.keys, LAMBDA key : \E i \in 1 .. Len(Right.keys) : Right.keys[i] = key)
Frames ==
    /\ Resolved /\ Left.tag = "frame" /\ Right.tag = "frame"
    /\ GoesOn(PairUp([i \in 1 .. Len(SharedKeys) |-> Field(Left, SharedKeys[i])],
                     [i \in 1 .. Len(SharedKeys) |-> Field(Right, SharedKeys[i])]))
    /\ UNCHANGED <<store, trail>>
    /\ NoChange

Atoms ==
    /\ Resolved
    /\ {Left.tag, Right.tag} \cap {"var", "unbound"} = {}
    /\ {Left.tag, Right.tag} \notin {{"array"}, {"frame"}}
    /\ IF Left = Right THEN GoesOn(<<>>) /\ UNCHANGED <<store, trail>> ELSE Answers("no")
    /\ NoChange

Unified ==
    /\ outcome = "going" /\ agenda = <<>>
    /\ outcome' = "yes"
    /\ UNCHANGED <<store, trail, agenda>>
    /\ NoChange

Unify == NestedTooDeep \/ Deref \/ Variables \/ Arrays \/ Frames \/ Atoms \/ Unified

------------------------------------------------------------------------------
(* The words: unify, matches?, unify?.  Which of them it is matters only   *)
(* once unify_depth has answered.                                          *)
Idle == outcome' = "idle" /\ mark' = 0 /\ goal' = <<Unbound, Unbound>> /\ before' = [v \in Vars |-> Unbound]

VarsIn(t) ==
    {x.id : x \in {y \in {t} \cup {t.items[i] : i \in 1 .. Len(t.items)} : y.tag \in {"var", "rest"}}} \ {0}
Usable(t) == VarsIn(t) \subseteq 1 .. top \cup held

StartWord ==
    /\ outcome = "idle"
    /\ words < MaxWords /\ words' = words + 1
    /\ \E g \in Goals :
         /\ Usable(g[1]) /\ Usable(g[2])
         /\ goal' = g
         /\ agenda' = <<Pair(g[1], g[2], 0)>>
    /\ before' = store /\ mark' = Len(trail)
    /\ outcome' = "going"
    /\ UNCHANGED <<store, top, trail, prompts, held>>

(* unify keeps its bindings, also when it raises an error.  unify? undoes  *)
(* them when it has not succeeded, matches? always; an error is raised     *)
(* after that.                                                             *)
EndUnify ==
    /\ outcome = "yes" /\ Idle
    /\ UNCHANGED <<store, top, trail, prompts, control, agenda>>
EndMatches ==
    /\ outcome \in {"yes", "no"} /\ Idle
    /\ UndoTo(mark)
    /\ UNCHANGED <<top, prompts, control, agenda>>
EndOnError ==
    /\ outcome = "error" /\ outcome' = "raised"
    /\ UndoTo(mark) \/ UNCHANGED <<store, trail>>
    /\ UNCHANGED <<top, prompts, control, mark, agenda, history>>

------------------------------------------------------------------------------
(* amb and fail.  A choice lasts until its first branch returns.           *)
Push(kind) ==
    /\ outcome = "idle" /\ Len(prompts) < MaxPrompts
    /\ prompts' = Append(prompts, Prompt(kind))
    /\ UNCHANGED <<store, top, trail, control, mark, agenda, outcome, history>>
Amb == Push("choice")
Catch == Push("catch")
BranchReturns ==
    /\ outcome = "idle" /\ Len(prompts) > 1
    /\ prompts' = Prefix(prompts, Len(prompts) - 1)
    /\ UNCHANGED <<store, top, trail, control, mark, agenda, outcome, history>>

Choices == {k \in 1 .. Len(prompts) : prompts[k].kind = "choice"}
Innermost(k) == \A j \in Choices : j <= k

SecondBranch(k) ==
    /\ prompts' = Prefix(prompts, k - 1)
    /\ UndoTo(prompts[k].mark)
    /\ top' = prompts[k].top

(* fail, and unify when it finds no match: to the innermost choice, or an  *)
(* error when there is none.                                               *)
Backtrack ==
    /\ outcome \in {"idle", "no"}
    /\ \/ (\E k \in Choices : Innermost(k) /\ SecondBranch(k)) /\ Idle
       \/ /\ Choices = {} /\ outcome' = "raised"
          /\ UNCHANGED <<store, top, trail, prompts, mark, history>>
    /\ UNCHANGED <<control, agenda>>

(* An error is caught, or reaches the top level, which restores the store  *)
(* to what it was when the line began.  A catch may be passed by           *)
(* (module Prompts), and the store is left alone on the way.               *)
Raise ==
    /\ outcome = "raised" /\ Idle
    /\ \/ /\ \E k \in 1 .. Len(prompts) :
               prompts[k].kind = "catch" /\ prompts' = Prefix(prompts, k - 1)
          /\ UNCHANGED <<store, top, trail>>
       \/ prompts' = Prefix(prompts, 1) /\ UndoTo(prompts[1].mark) /\ top' = prompts[1].top
    /\ UNCHANGED <<control, agenda>>
Throw ==
    /\ outcome = "idle"
    /\ outcome' = "raised"
    /\ UNCHANGED <<store, top, trail, prompts, control, mark, agenda, history>>

NextLine ==
    /\ outcome = "idle" /\ Len(prompts) = 1
    /\ prompts' = <<Prompt("line")>>
    /\ UNCHANGED <<store, top, trail, control, mark, agenda, outcome, history>>

Next ==
    \/ Lvar \/ CopyKept
    \/ Unify \/ StartWord \/ EndMatches \/ EndUnify \/ EndOnError
    \/ Amb \/ Catch \/ BranchReturns \/ Backtrack \/ Raise \/ Throw \/ NextLine

Spec == Init /\ [][Next]_vars /\ WF_vars(Unify)

------------------------------------------------------------------------------
(* What unification is for.  A term without wildcards and frames stands    *)
(* for a value once its variables do: an atom for itself, an array for the *)
(* array of what its parts stand for, followed by the elements of its      *)
(* rest, and for none when its rest is assigned an atom.                   *)
PlainTerm(t) ==
    \/ \E v \in Vars : t = Var(v)
    \/ t = Atom(t.id)
    \/ /\ t = Array(t.items) /\ ~RestInside(t)
       /\ t.items \in Seq(Terms \cup {Rest(v) : v \in Vars})
       /\ ~EndsInRest(t) =>
            \A n \in 0 .. Len(t.items) : Array(SubSeq(t.items, n + 1, Len(t.items))) \in Terms

None == Unbound
Assignments == [Vars -> Ground]
ArrayValue(s, t) ==
    LET n == IF EndsInRest(t) THEN Len(t.items) - 1 ELSE Len(t.items)
        parts == [i \in 1 .. n |-> Value(s, t.items[i])]
        rest == IF EndsInRest(t) THEN s[t.items[n + 1].id] ELSE Array(<<>>)
    IN  IF rest.tag # "array" \/ \E i \in 1 .. n : parts[i] = None THEN None
        ELSE Array(parts \o rest.items)

ASSUME ValueAssumption ==
    /\ \A v \in Vars : Var(v) \in Terms
    /\ \A t \in Terms : PlainTerm(t)
    /\ \A g \in Ground : g = Atom(g.id) \/ (g = Array(g.items) /\ g.items \in Seq(Ground))
    /\ \A s \in Assignments : \A t \in Terms :
         Value(s, t) = IF t.tag = "var" THEN s[t.id]
                       ELSE IF t.tag = "atom" THEN t
                       ELSE ArrayValue(s, t)

Equal(s, l, r) == Value(s, l) = Value(s, r) /\ Value(s, l) # None
Satisfies(s, st) == \A v \in Vars : st[v] # Unbound => Equal(s, Var(v), st[v])
Judged == goal[1] \in Terms /\ goal[2] \in Terms /\ \A v \in Vars : before[v] \in Terms \cup {Unbound}

(* unify answers yes when some assignment of values to its variables makes *)
(* the two terms equal, and leaves exactly those assignments; it answers   *)
(* no when there is none.                                                  *)
UnifyMeansEqual ==
    outcome \in {"yes", "no"} /\ Judged =>
       \A s \in Assignments :
          Satisfies(s, before) /\ Equal(s, goal[1], goal[2]) <=> outcome = "yes" /\ Satisfies(s, store)

(* Undoing the trail to the mark of an amb, or of the line, gives back     *)
(* every variable there was then as it was then: through nested choices,   *)
(* words that undo their own bindings, errors that were caught, and        *)
(* variables whose handles have been given out again.                      *)
TrailRestores ==
    \A k \in 1 .. Len(prompts) : \A v \in 1 .. prompts[k].top :
       UndoneTo(prompts[k].mark)[v] = prompts[k].snapshot[v]

(* Every unification ends, on cyclic terms too.                            *)
UnifyEnds == outcome = "going" ~> outcome # "going"

(* A variable that lvar or copy makes is not one the program holds.        *)
NewIsNew == [][top' > top => top' \notin held]_vars
==============================================================================
