------------------------------- MODULE Rooting -------------------------------
(***************************************************************************)
(* One primitive at work against the collector.  The collector runs inside *)
(* an allocation when a table is full (object_alloc_slot, object_new_pair) *)
(* and inside any quotation (the dispatch loop), and it sees the data      *)
(* stack and gc_roots but not the C locals of a handler.  The handler is   *)
(* one of Words, written in the steps of RootSteps.                        *)
(***************************************************************************)
EXTENDS RootSteps, Integers, FiniteSets

CONSTANTS
    Words,          \* the primitives: name -> [takes, leaves, body]
    MaxHandle,      \* bound: handles in use at once, garbage included
    MaxRounds,      \* bound: rounds of a loop of a handler
    FullAt          \* whether the table may be full when an allocation comes: a set of booleans

ASSUME RootingAssumption ==
    /\ MaxHandle \in Nat
    /\ \A w \in DOMAIN Words : Words[w].takes \in Nat /\ 2 * Words[w].takes + 1 <= MaxHandle

VARIABLES
    word,           \* the primitive that runs
    todo,           \* its C frames, innermost first: [fn, code]
    stack,          \* the data stack, bottom first; 0 stands for a value that is no object
    roots,          \* gc_roots[0 .. n_gc_roots-1]
    reg,            \* the C locals of the handler that hold values
    heap,           \* allocated handle -> the handles its object holds
    unwritten,      \* handles of arrays whose slots are not yet written
    err             \* interp->error_flag

vars == <<word, todo, stack, roots, reg, heap, unwritten, err>>

Freed == -1         \* a register whose object was collected
Missing == -2       \* the handle -1 of an object there was no room for
NoObject == {0, Missing}    \* what the collector passes over
Parked == 1         \* the value the caller keeps below the operands

Handles == 1 .. MaxHandle
Elements(seq) == {seq[i] : i \in 1 .. Len(seq)}

(* mark_roots and mark_value: what is reached from a set of handles.       *)
ReachShallow(from) == from \cap DOMAIN heap
Reach(from) ==
    LET grow[n \in 0 .. MaxHandle] ==
          IF n = 0 THEN from \cap DOMAIN heap
          ELSE LET g == grow[n - 1] IN g \cup ((UNION {heap[h] : h \in g}) \cap DOMAIN heap)
    IN  grow[MaxHandle]

Live(stk) == Reach(Elements(stk) \cup Elements(roots))

(* The caller keeps a value on the stack and among its roots.  The         *)
(* operands lie above it; each is an object that holds one more (an array  *)
(* and an element, a frame and a value, a curried token and its binding).  *)
Init ==
    /\ word \in DOMAIN Words
    /\ LET n == Words[word].takes IN
       /\ stack = [i \in 1 .. n + 1 |-> IF i = 1 THEN Parked ELSE 2 * (i - 1)]
       /\ heap = [h \in 1 .. 2 * n + 1 |-> IF h % 2 = 0 THEN {h + 1} ELSE {}]
    /\ todo = <<[fn |-> TRUE, code |-> Words[word].body]>>
    /\ roots = <<Parked>>
    /\ reg = [r \in {} |-> 0]
    /\ unwritten = {}
    /\ err = FALSE

------------------------------------------------------------------------------
Done == todo = <<>>
Head1 == todo[1].code[1]
Op == IF Done THEN "done" ELSE Head1.op
Top(d) == stack[Len(stack) - d]

(* Frames whose code is used up return to the frame below.                 *)
Trim(frames) ==
    IF \A i \in 1 .. Len(frames) : frames[i].code = <<>> THEN <<>>
    ELSE SubSeq(frames, CHOOSE i \in 1 .. Len(frames) :
                          /\ frames[i].code # <<>>
                          /\ \A j \in 1 .. i - 1 : frames[j].code = <<>>, Len(frames))

Rest == [todo EXCEPT ![1].code = Tail(@)]
Next1 == todo' = Trim(Rest)
Insert(body) == todo' = Trim([todo EXCEPT ![1].code = body \o Tail(@)])

(* Leave the innermost frame that is a function, or a loop.                *)
LeaveTo(fn) ==
    LET depth == CHOOSE i \in 1 .. Len(todo) :
                   /\ todo[i].fn = fn
                   /\ \A j \in 1 .. i - 1 : todo[j].fn # fn
    IN  todo' = Trim(SubSeq(todo, depth + 1, Len(todo)))

SetReg(r, v) == reg' = [x \in DOMAIN reg \cup {r} |-> IF x = r THEN v ELSE reg[x]]

StackStep ==
    /\ \/ /\ Op = "pop"
          /\ SetReg(Head1.reg, Top(0))
          /\ stack' = SubSeq(stack, 1, Len(stack) - 1)
       \/ /\ Op = "peek"
          /\ SetReg(Head1.reg, Top(Head1.arg))
          /\ stack' = stack
       \/ /\ Op = "drop"
          /\ stack' = SubSeq(stack, 1, Len(stack) - Head1.arg)
          /\ reg' = reg
       \/ /\ Op = "push"
          /\ stack' = Append(stack, reg[Head1.reg])
          /\ reg' = reg
       \/ /\ Op = "plain"
          /\ stack' = Append(stack, 0)
          /\ reg' = reg
    /\ Next1
    /\ UNCHANGED <<word, roots, heap, unwritten, err>>

RootStep ==
    /\ \/ Op = "root" /\ roots' = Append(roots, reg[Head1.reg])
       \/ Op = "unroot" /\ roots' = SubSeq(roots, 1, Len(roots) - 1)
       \/ Op = "setroot" /\ roots' = [roots EXCEPT ![Len(roots)] = reg[Head1.reg]]
    /\ Next1
    /\ UNCHANGED <<word, stack, reg, heap, unwritten, err>>

(* gc(): objects not reached are freed; a register that named one is stale *)
(* from then on, whoever is given the handle next.                         *)
Swept(live) == [h \in live |-> heap[h]]
AfterSweep(live, regs) ==
    [r \in DOMAIN regs |-> IF regs[r] \in Handles \ live THEN Freed ELSE regs[r]]

Fresh(hp) == CHOOSE h \in Handles \ DOMAIN hp :
               \A g \in Handles \ DOMAIN hp : h <= g

(* An allocation: with or without a collection, or refused.                *)
Allocate ==
    /\ Op \in {"new", "newquiet"}
    /\ Next1
    /\ UNCHANGED <<word, stack, roots>>
    /\ \E full \in (IF Op = "newquiet" THEN {FALSE} ELSE FullAt) :
         LET live == IF full THEN Live(stack) ELSE DOMAIN heap
             hp == Swept(live)
             h == Fresh(hp)
             kept == AfterSweep(live, reg)
         IN  \/ /\ Handles # live
                /\ heap' = [g \in live \cup {h} |-> IF g = h THEN {} ELSE hp[g]]
                /\ reg' = [x \in DOMAIN reg \cup {Head1.reg} |->
                             IF x = Head1.reg THEN h ELSE kept[x]]
                /\ unwritten' = (unwritten \cap live) \cup (IF Head1.arg THEN {h} ELSE {})
                /\ err' = err
             \/ /\ heap' = hp
                /\ reg' = [x \in DOMAIN reg \cup {Head1.reg} |->
                             IF x = Head1.reg THEN Missing ELSE kept[x]]
                /\ unwritten' = unwritten \cap live
                /\ err' = TRUE

(* val_cmp of two values that hold no others.  Exact quantities of         *)
(* different units are rooted while one is converted, which allocates.     *)
Comparison ==
    /\ Op = "compare"
    /\ Next1
    /\ \E live \in {DOMAIN heap} \cup
                   (IF {reg[Head1.reg], reg[Head1.arg]} \subseteq Handles
                    THEN {Live(stack) \cup Reach({reg[Head1.reg], reg[Head1.arg]})} ELSE {}) :
         /\ heap' = Swept(live)
         /\ reg' = AfterSweep(live, reg)
         /\ unwritten' = unwritten \cap live
    /\ err' \in {err, TRUE}
    /\ UNCHANGED <<word, stack, roots>>

(* A part of an object: something it holds, or no object.                  *)
DataStep ==
    /\ \/ /\ Op = "part"
          /\ \E p \in {0} \cup (IF reg[Head1.arg] \in DOMAIN heap THEN heap[reg[Head1.arg]] ELSE {}) :
               SetReg(Head1.reg, p)
          /\ UNCHANGED <<heap, unwritten>>
       \/ /\ Op = "copy"
          /\ SetReg(Head1.reg, reg[Head1.arg])
          /\ UNCHANGED <<heap, unwritten>>
       \/ /\ Op = "nothing"
          /\ SetReg(Head1.reg, 0)
          /\ UNCHANGED <<heap, unwritten>>
       \/ /\ Op = "toproot"
          /\ SetReg(Head1.reg, roots[Len(roots)])
          /\ UNCHANGED <<heap, unwritten>>
       \/ /\ Op = "store"
          /\ heap' = [h \in DOMAIN heap |->
                        IF h = reg[Head1.arg] THEN heap[h] \cup ({reg[Head1.reg]} \ NoObject) ELSE heap[h]]
          /\ UNCHANGED <<reg, unwritten>>
       \/ Op = "use" /\ UNCHANGED <<reg, heap, unwritten>>
       \/ /\ Op = "written"
          /\ unwritten' = unwritten \ {reg[Head1.reg]}
          /\ UNCHANGED <<reg, heap>>
    /\ Next1
    /\ UNCHANGED <<word, stack, roots, err>>

Control ==
    /\ \/ Op = "fail" /\ Next1 /\ err' = TRUE
       \/ Op = "ret" /\ LeaveTo(TRUE) /\ err' = err
       \/ Op = "break" /\ LeaveTo(FALSE) /\ err' = err
       \/ Op = "choice" /\ err' = err /\ \E i \in 1 .. Len(Head1.arg) : Insert(Head1.arg[i])
       \/ Op = "onerror" /\ err' = err /\ Insert(IF err THEN Head1.arg ELSE <<>>)
       \/ /\ Op = "sub"
          /\ err' = err
          /\ todo' = Trim(<<[fn |-> TRUE, code |-> Head1.arg]>> \o Rest)
       \/ /\ Op = "loop"
          /\ err' = err
          /\ \E n \in 0 .. MaxRounds :
               todo' = Trim(<<[fn |-> FALSE,
                               code |-> IF n = 0 THEN <<>>
                                        ELSE IF n = 1 THEN Head1.arg
                                        ELSE Head1.arg \o Head1.arg]>> \o Rest)
    /\ UNCHANGED <<word, stack, roots, reg, heap, unwritten>>

Taken == Head1.arg.takes + (IF reg[Head1.reg] # 0 /\ ~Head1.arg.bound THEN 1 ELSE 0)

(* A callable runs: it takes its operands, may collect at any point after  *)
(* that, and leaves fresh objects, or fails.                               *)
RunCallable ==
    /\ Op = "call"
    /\ Next1
    /\ UNCHANGED <<word, roots>>
    /\ LET left == SubSeq(stack, 1, Len(stack) - Taken)
       IN  \E full \in FullAt :
             LET live == IF full THEN Live(left) ELSE DOMAIN heap
                 hp == Swept(live)
                 h == Fresh(hp)
             IN  /\ reg' = AfterSweep(live, reg)
                 /\ unwritten' = unwritten \cap live
                 /\ \/ /\ err' = TRUE
                       /\ heap' = hp
                       /\ stack' = left
                    \/ /\ Head1.arg.leaves = 0
                       /\ heap' = hp
                       /\ stack' = left
                       /\ err' = err
                    \/ /\ Head1.arg.leaves = 1
                       /\ Handles # live
                       /\ heap' = [g \in live \cup {h} |-> IF g = h THEN {} ELSE hp[g]]
                       /\ stack' = Append(left, h)
                       /\ err' = err

Finished == Done /\ UNCHANGED vars

Next ==
    \/ StackStep \/ RootStep \/ Allocate \/ Comparison \/ DataStep
    \/ Control \/ RunCallable \/ Finished

Spec == Init /\ [][Next]_vars

------------------------------------------------------------------------------
(* The heap is closed: what the stack, the roots, a register that is not   *)
(* stale, or an allocated object holds is allocated.                       *)
TypeOK ==
    /\ stack \in Seq(DOMAIN heap \cup NoObject)
    /\ roots \in Seq(DOMAIN heap \cup NoObject)
    /\ \A r \in DOMAIN reg : reg[r] \in DOMAIN heap \cup NoObject \cup {Freed}
    /\ DOMAIN heap \subseteq Handles
    /\ \A h \in DOMAIN heap : heap[h] \subseteq DOMAIN heap
    /\ unwritten \subseteq DOMAIN heap
    /\ err \in BOOLEAN

(* The registers the next step reads, and those whose object it reads.     *)
Operands ==
    IF Op \in {"push", "root", "setroot", "use", "written", "call"} THEN {Head1.reg}
    ELSE IF Op \in {"part", "copy"} THEN {Head1.arg}
    ELSE IF Op \in {"store", "compare"} THEN {Head1.reg, Head1.arg}
    ELSE {}

Opened ==
    IF Op \in {"use", "written", "call"} THEN {Head1.reg}
    ELSE IF Op \in {"part", "store"} THEN {Head1.arg}
    ELSE IF Op = "compare" THEN {Head1.reg, Head1.arg}
    ELSE {}

(* The stack and the roots go as deep as the next step reaches; what it    *)
(* takes off lies above what they held before the operands of the          *)
(* primitive.                                                              *)
OwnOperands ==
    /\ Op = "pop" => Len(stack) > 1
    /\ Op = "peek" => Head1.arg \in 0 .. Len(stack) - 1
    /\ Op = "drop" => Head1.arg \in 0 .. Len(stack) - 1
    /\ Op = "call" => Taken \in 0 .. Len(stack) - 1
    /\ Op \in {"unroot", "setroot", "toproot"} => Len(roots) > 1

(* No handler uses a value whose object has been collected since the       *)
(* handler took it off the stack (a stale C local), nor opens an object    *)
(* whose allocation failed, nor uses a value it was not given.             *)
LiveOperands ==
    /\ OwnOperands
    /\ \A r \in Operands : r \in DOMAIN reg /\ reg[r] # Freed
    /\ \A r \in Opened : reg[r] # Missing

(* The collector never walks an array whose slots were not written: when a *)
(* step may collect, no unwritten array is reached from a root; nor does   *)
(* one remain at the end.                                                  *)
NothingUnwrittenMarked ==
    Op \in {"new", "compare", "call", "done"} => Live(stack) \cap unwritten = {}

(* gc_roots has MAX_GC_ROOTS entries and nothing unwinds it after an       *)
(* error: every way out of a handler takes off what the handler put on,    *)
(* and nothing that its caller did.                                        *)
RootsBalanced == Done => roots = <<Parked>>

(* A handler that ends without an error leaves what its documented effect  *)
(* says, on top of values of the caller it has not touched.                *)
EffectKept ==
    Done /\ ~err => /\ Len(stack) - 1 \in Words[word].leaves
                    /\ stack[1] = Parked
==============================================================================
