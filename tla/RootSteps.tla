------------------------------ MODULE RootSteps ------------------------------
(***************************************************************************)
(* The vocabulary in which the handlers of the primitives are written      *)
(* down: a handler is a sequence of steps, each of which is what one line, *)
(* macro or helper call of the C source does to the values it holds.  A    *)
(* register is a C local that holds a value (or a pointer to the object    *)
(* the value names); it is not a root of the collector.                    *)
(***************************************************************************)
EXTENDS Naturals, Sequences

Step(op, reg, arg) == <<[op |-> op, reg |-> reg, arg |-> arg]>>

(* The data stack: pop into a register, read the value d below the top,    *)
(* set interp->dsp back by n, push a register, push a value that is no     *)
(* object (a number, a boolean, a symbol).                                 *)
Pop(r) == Step("pop", r, 0)
Peek(r, d) == Step("peek", r, d)
Drop(n) == Step("drop", "", n)
Push(r) == Step("push", r, 0)
PushPlain == Step("plain", "", 0)

(* interp->gc_roots.                                                       *)
Root(r) == Step("root", r, 0)
Unroot == Step("unroot", "", 0)
SetRoot(r) == Step("setroot", r, 0)
TopRoot(r) == Step("toproot", r, 0)

(* Allocation.  A vector is an array of n slots that object_new_array does *)
(* not clear: it is unwritten until the handler has written every slot.    *)
(* The macros return from the handler when the allocation failed (New);    *)
(* AllocUnchecked is one whose outcome the source does not look at.        *)
Alloc(r) == Step("new", r, FALSE)
AllocUnchecked(r) == Alloc(r)
AllocVector(r) == Step("new", r, TRUE)
AllocQuiet(r) == Step("newquiet", r, FALSE)     \* while interp->gc_disabled is set
Written(r) == Step("written", r, 0)

(* What a register holds: a part of another register's object, another     *)
(* register, no object; storing a value in an object; reading an object's  *)
(* contents without keeping a part of it.                                  *)
Part(r, c) == Step("part", r, c)
Copy(r, s) == Step("copy", r, s)
Nothing(r) == Step("nothing", r, 0)
Store(r, c) == Step("store", r, c)
Use(r) == Step("use", r, 0)

(* Control: fail() and return, a test of interp->error_flag, alternatives  *)
(* that depend on data the model leaves out, loops, helpers of their own.  *)
Fail == Step("fail", "", 0)
Ret == Step("ret", "", 0)
Break == Step("break", "", 0)
Choice(bodies) == Step("choice", "", bodies)
Either(a, b) == Choice(<<a, b>>)
OnError(body) == Step("onerror", "", body)
Loop(body) == Step("loop", "", body)
Sub(body) == Step("sub", "", body)

Maybe(body) == Either(body, <<>>)
Reject == Fail \o Ret
Check == Maybe(Reject)
ErrRet == OnError(Ret)
ErrBreak == OnError(Break)
New(r) == Alloc(r) \o ErrRet
NewVector(r) == AllocVector(r) \o ErrRet

(* val_cmp of two values, or of two collections, whose elements it compares *)
(* one after the other until a pair differs: the elements are rooted while *)
(* they are converted, the collections are not.                            *)
CompareOne(a, b) == Step("compare", a, b)
Compare(a, b) ==
    Either(CompareOne(a, b),
           Part("left_element", a) \o Part("right_element", b) \o CompareOne("left_element", "right_element")
             \o Maybe(Use(a) \o Use(b)))

(* The operands replaced by a result, as writing chain_sp[-n] and leaving  *)
(* n - 1 fewer does.                                                       *)
Leave(n, r) == Drop(n) \o Push(r)
LeavePlain(n) == Drop(n) \o PushPlain
PopTyped(r) == Pop(r) \o Check
PeekTyped(r, d) == Peek(r, d) \o Check

(* Elements of one object copied into another.                             *)
CopyParts(from, to) == Loop(Part("item", from) \o Store("item", to)) \o Written(to)

(* A callable in register r run on the n values on top of the stack,       *)
(* leaving m: with the bindings of a curried token pushed for it, or       *)
(* without them.                                                           *)
Call(r, n, m) == Step("call", r, [takes |-> n, leaves |-> m, bound |-> TRUE])
CallBare(r, n, m) == Step("call", r, [takes |-> n, leaves |-> m, bound |-> FALSE])
CallOpen(r) == Root(r)
CallClose == Unroot

(* A primitive: the values it takes, how many it may leave, its handler.   *)
Prim(takes, leaves, body) == [takes |-> takes, leaves |-> leaves, body |-> body]
==============================================================================
