---------------------------- MODULE PromptsProofs ----------------------------
(***************************************************************************)
(* The promises of the return stack for orderly programs of any length:    *)
(* those that call, use locals, leave early, reset, catch, ensure, throw,  *)
(* fail, backtrack and run combinators in combinations that Orderly allows.*)
(* ProgramInv says what lies on the stack entry by entry and where each    *)
(* run loop goes back to.  Every end of an activation and every unwinding  *)
(* comes down to the pop of one return (Returns), every call to a few      *)
(* entries put on top (Pushes), and every run loop starts and ends at a    *)
(* depth where the code that called it can go on (LoopStarts, Leaves,      *)
(* LoopGoesOn); RunsKeep carries the nest of loops through all of them.    *)
(***************************************************************************)
EXTENDS Prompts, WellFoundedInduction, TLAPS

----------------------------------------------------------------------------
(* Numbers and stacks.                                                      *)

LEMMA LeastNumber ==
  ASSUME NEW T \in SUBSET Nat, T # {}
  PROVE  \E x \in T : \A y \in T : x <= y
<1>1. \E R : IsWellFoundedOn(R, Nat) /\ \A x, y \in Nat : <<y, x>> \in R <=> y < x
  <2>1. \A x, y \in Nat : <<y, x>> \in OpToRel(<, Nat) <=> y < x
    BY DEF OpToRel
  <2> QED BY <2>1, NatLessThanWellFounded
<1>2. PICK R : IsWellFoundedOn(R, Nat) /\ \A x, y \in Nat : <<y, x>> \in R <=> y < x
  BY <1>1
<1>3. PICK x \in T : \A y \in T : <<y, x>> \notin R
  BY <1>2, WFMin
<1>4. \A y \in T : ~(y < x)
  BY <1>2, <1>3
<1> QED BY <1>4

LEMMA MaxIs ==
  ASSUME NEW n \in Nat, NEW S \in SUBSET (0 .. n), S # {}
  PROVE  Max(S) \in S /\ \A x \in S : x <= Max(S)
<1> DEFINE T == {m \in Nat : \A x \in S : x <= m}
<1>1. n \in T
  OBVIOUS
<1>2. PICK m \in T : \A y \in T : m <= y
  BY <1>1, LeastNumber
<1>3. m \in S
  <2> SUFFICES ASSUME m \notin S PROVE FALSE
    OBVIOUS
  <2>1. PICK y \in S : TRUE
    OBVIOUS
  <2>2. m - 1 \in T
    BY <1>2, <2>1
  <2> QED BY <1>2, <2>2
<1>4. \E x \in S : \A y \in S : x >= y
  BY <1>2, <1>3
<1> QED BY <1>4 DEF Max

LEMMA PrefixIs ==
  ASSUME NEW s \in Seq(Entries), NEW n \in 0 .. Len(s)
  PROVE  /\ Prefix(s, n) \in Seq(Entries) /\ Len(Prefix(s, n)) = n
         /\ \A i \in 1 .. n : Prefix(s, n)[i] = s[i]
BY DEF Prefix

LEMMA PrefixOfPrefix ==
  ASSUME NEW s \in Seq(Entries), NEW n \in 0 .. Len(s), NEW m \in 0 .. n
  PROVE  Prefix(Prefix(s, n), m) = Prefix(s, m)
BY DEF Prefix

\* What is said of the first n entries depends on nothing else.
LEMMA AgreeInnermost ==
  ASSUME NEW s, NEW t, NEW n \in Nat, \A i \in 1 .. n : s[i] = t[i],
         NEW b, NEW k \in 0 .. n, Innermost(s, b, k)
  PROVE  Innermost(t, b, k)
BY DEF Innermost

LEMMA AgreeRuns ==
  ASSUME NEW s, NEW t, NEW n \in Nat, \A i \in 1 .. n : s[i] = t[i],
         NEW at, NEW k \in 1 .. n, RunsOn(s, at, k)
  PROVE  RunsOn(t, at, k)
<1>1. \A b : Innermost(s, b, k) => Innermost(t, b, k)
  BY AgreeInnermost
<1>2. \A b \in 1 .. k - 1 : s[b + 1] = t[b + 1]
  OBVIOUS
<1>3. k > 1 => s[k - 1] = t[k - 1]
  OBVIOUS
<1> QED BY <1>1, <1>2, <1>3 DEF RunsOn

LEMMA AgreeSupported ==
  ASSUME NEW s, NEW t, NEW n \in Nat, \A i \in 1 .. n : s[i] = t[i],
         NEW i \in 1 .. n, Supported(s, i)
  PROVE  Supported(t, i)
<1>2. \A b : Innermost(s, b, i - 1) => Innermost(t, b, i - 1)
  BY AgreeInnermost
<1>3. s[i] = t[i] /\ (i > 1 => s[i - 1] = t[i - 1]) /\ (i > 2 => s[i - 2] = t[i - 2])
  OBVIOUS
<1> QED BY <1>2, <1>3 DEF Supported

\* The stack is cut back to n entries.
LEMMA CutBack ==
  ASSUME NEW s, NEW f \in Nat, WellFormed(s, f), NEW n \in 0 .. Len(s),
         n > 0 => s[n].k # "header" /\ n \notin EnsureReturns(s)
  PROVE  WellFormed(Prefix(s, n), f)
<1> DEFINE t == Prefix(s, n)
<1>1. s \in Seq(Entries)
  BY DEF WellFormed
<1>2. t \in Seq(Entries) /\ Len(t) = n /\ \A i \in 1 .. n : t[i] = s[i]
  BY <1>1, PrefixIs
<1> HIDE DEF t
<1>3. ASSUME NEW i \in 1 .. n PROVE Supported(t, i)
  <2>1. Supported(s, i) /\ n \in Nat /\ \A k \in 1 .. n : s[k] = t[k]
    BY <1>1, <1>2, <1>3 DEF WellFormed
  <2> QED BY <1>3, <2>1, AgreeSupported
<1>4. ASSUME NEW i \in 1 .. n PROVE Followed(t, i)
  <2>1. Followed(s, i)
    BY <1>1, <1>4 DEF WellFormed
  <2>2. i \in EnsureReturns(t) => i \in EnsureReturns(s)
    BY <1>1, <1>2 DEF EnsureReturns
  <2>3. i = n \/ t[i + 1] = s[i + 1]
    BY <1>1, <1>2
  <2> QED BY <1>1, <1>2, <2>1, <2>2, <2>3 DEF Followed
<1>5. Numbered(t, f)
  <2>1. Numbered(s, f)
    BY DEF WellFormed
  <2>2. \A i \in 1 .. Len(t) : i \in 1 .. Len(s) /\ t[i] = s[i]
    BY <1>1, <1>2
  <2>3. \A i \in 1 .. Len(t) : \A j \in i + 1 .. Len(t) : j \in i + 1 .. Len(s) /\ t[j] = s[j]
    BY <1>1, <1>2
  <2> QED BY <2>1, <2>2, <2>3 DEF Numbered
<1>6. WellFormed(t, f)
  BY <1>2, <1>3, <1>4, <1>5 DEF WellFormed
<1> QED BY <1>6 DEF t

\* Entries are put on a stack that has more below them.
LEMMA Grows ==
  ASSUME NEW s, NEW f \in Nat, WellFormed(s, f), NEW t \in Seq(Entries), Len(s) <= Len(t),
         \A i \in 1 .. Len(s) : t[i] = s[i]
  PROVE  \A i \in 1 .. Len(s) : Supported(t, i) /\ Followed(t, i)
<1>1. s \in Seq(Entries) /\ Len(s) \in Nat
  BY DEF WellFormed
<1> SUFFICES ASSUME NEW i \in 1 .. Len(s) PROVE Supported(t, i) /\ Followed(t, i)
  OBVIOUS
<1>2. Supported(t, i)
  BY <1>1, AgreeSupported DEF WellFormed
<1>3. Followed(s, i)
  BY DEF WellFormed
<1>4. i \in EnsureReturns(t) => i \in EnsureReturns(s)
  BY <1>1 DEF EnsureReturns
<1>5. i < Len(s) => t[i + 1] = s[i + 1]
  BY <1>1
<1> QED BY <1>1, <1>2, <1>3, <1>4, <1>5 DEF Followed

----------------------------------------------------------------------------
(* What the operations find on a well-formed stack.                         *)

LEMMA PromptIndexIs ==
  ASSUME rs \in Seq(Entries), NEW kinds
  PROVE  LET m == PromptIndex(kinds)
         IN  /\ m \in 0 .. Len(rs)
             /\ m # 0 => rs[m].k = "mark" /\ rs[m].kind \in kinds
             /\ \A i \in m + 1 .. Len(rs) : ~(rs[i].k = "mark" /\ rs[i].kind \in kinds)
<1> DEFINE S == {0} \cup {i \in DOMAIN rs : rs[i].k = "mark" /\ rs[i].kind \in kinds}
<1>1. S \in SUBSET (0 .. Len(rs)) /\ S # {} /\ Len(rs) \in Nat /\ DOMAIN rs = 1 .. Len(rs)
  OBVIOUS
<1>2. Max(S) \in S /\ \A x \in S : x <= Max(S)
  <2> HIDE DEF S
  <2> QED BY <1>1, MaxIs
<1>3. PromptIndex(kinds) = Max(S)
  BY DEF PromptIndex
<1>4. ASSUME NEW i \in Max(S) + 1 .. Len(rs), rs[i].k = "mark", rs[i].kind \in kinds PROVE FALSE
  <2>1. Max(S) \in 0 .. Len(rs)
    BY <1>1, <1>2
  <2>2. i \in S /\ i > Max(S)
    BY <1>1, <1>4, <2>1
  <2> QED BY <1>2, <2>1, <2>2
<1>5. Max(S) # 0 => rs[Max(S)].k = "mark" /\ rs[Max(S)].kind \in kinds
  BY <1>2
<1>6. Max(S) \in 0 .. Len(rs)
  BY <1>1, <1>2
<1> HIDE DEF S
<1> QED BY <1>3, <1>4, <1>5, <1>6

\* unwind_locals_scopes leaves a stack alone that does not end in locals.
LEMMA NoLocalsOnTop ==
  ASSUME NEW s \in Seq(Entries), s # <<>>, s[Len(s)].k = "ret", Floor \in Nat, NEW b \in 0 .. Len(s),
         b # 0 /\ b < Len(s) => s[b + 1].k = "local"
  PROVE  WithoutLocals(s, b) = [rs |-> s, base |-> b]
<1>1. ~(b > Floor /\ Len(s) = b + 1)
  OBVIOUS
<1> QED BY <1>1 DEF WithoutLocals

\* The innermost header is followed by the frame's local.
LEMMA FrameHasLocal ==
  ASSUME NEW s, NEW f, WellFormed(s, f), NEW n \in 1 .. Len(s), NEW b, Innermost(s, b, n), b # 0
  PROVE  b \in 1 .. n /\ s[b].k = "header" /\ b < Len(s) /\ s[b + 1].k = "local"
BY DEF WellFormed, Followed, Innermost

\* One frame on top: it is dropped, and there is none directly below it.
LEMMA LocalsOnTop ==
  ASSUME NEW s, NEW f, WellFormed(s, f), Floor \in Nat, Floor < Len(s) - 1,
         s # <<>>, s[Len(s)].k = "local"
  PROVE  /\ Len(s) > 2 /\ s[Len(s) - 1].k = "header" /\ s[Len(s) - 2].k = "ret"
         /\ s[Len(s) - 2].of = s[Len(s)].act
         /\ Innermost(s, s[Len(s) - 1].saved, Len(s) - 2)
         /\ WithoutLocals(s, Len(s) - 1) = [rs |-> Prefix(s, Len(s) - 2), base |-> s[Len(s) - 1].saved]
<1> DEFINE n == Len(s)
           G(g) == g = [c \in 1 .. n |->
                          LET saved == SavedBase(s, c)
                          IN  IF saved > Floor /\ saved + 1 = c - 1 THEN g[saved]
                              ELSE [rs |-> Prefix(s, c - 1), base |-> saved]]
           h == [c \in 1 .. n |-> [rs |-> Prefix(s, c - 1), base |-> SavedBase(s, c)]]
<1>1. s \in Seq(Entries) /\ n \in Nat /\ n > 0
  BY DEF WellFormed
<1>2. Supported(s, n)
  BY <1>1 DEF WellFormed
<1>3. n > 2 /\ s[n - 1].k = "header" /\ s[n - 2].of = s[n].act
  BY <1>2 DEF Supported
<1>4. Supported(s, n - 1)
  BY <1>1, <1>3 DEF WellFormed
<1>5. s[n - 2].k = "ret" /\ Innermost(s, s[n - 1].saved, n - 2)
  BY <1>1, <1>3, <1>4 DEF Supported
<1>6. SavedBase(s, n - 1) = s[n - 1].saved
  BY <1>3 DEF SavedBase
<1>7. WithoutLocals(s, n - 1) = (CHOOSE g : G(g))[n - 1]
  BY <1>1, <1>3 DEF WithoutLocals
<1>8. \A c \in 1 .. n : LET saved == SavedBase(s, c) IN ~(saved > Floor /\ saved + 1 = c - 1)
  <2> SUFFICES ASSUME NEW c \in 1 .. n, SavedBase(s, c) > Floor, SavedBase(s, c) + 1 = c - 1 PROVE FALSE
    OBVIOUS
  <2>1. s[c].k = "header" /\ SavedBase(s, c) = s[c].saved
    BY DEF SavedBase
  <2>2. Supported(s, c)
    BY DEF WellFormed
  <2>3. c > 1 /\ s[c - 1].k = "ret" /\ Innermost(s, s[c].saved, c - 1)
    BY <2>1, <2>2 DEF Supported
  <2>4. c - 1 \in 1 .. Len(s) /\ s[c].saved # 0 /\ s[c].saved + 1 = c - 1
    BY <1>1, <2>1, <2>3
  <2>5. s[s[c].saved + 1].k = "local"
    BY <2>3, <2>4, FrameHasLocal
  <2> QED BY <2>3, <2>4, <2>5
<1>9. G(h)
  BY <1>8
<1>10. G(CHOOSE g : G(g))
  <2> HIDE DEF G, h
  <2> QED BY <1>9
<1>11. (CHOOSE g : G(g))[n - 1] = [rs |-> Prefix(s, n - 2), base |-> s[n - 1].saved]
  <2> DEFINE g == CHOOSE g : G(g)
  <2>1. g = [c \in 1 .. n |-> LET saved == SavedBase(s, c)
                              IN  IF saved > Floor /\ saved + 1 = c - 1 THEN g[saved]
                                  ELSE [rs |-> Prefix(s, c - 1), base |-> saved]]
    BY <1>10
  <2> HIDE DEF g
  <2>2. n - 1 \in 1 .. n /\ (n - 1) - 1 = n - 2
    BY <1>1, <1>3
  <2>3. g[n - 1] = [rs |-> Prefix(s, n - 2), base |-> SavedBase(s, n - 1)]
    BY <1>8, <2>1, <2>2
  <2> QED BY <1>6, <2>3 DEF g
<1> HIDE DEF G, h
<1> QED BY <1>1, <1>3, <1>5, <1>7, <1>11

\* Marks on top of a return or a local are dropped with Unmarked.
LEMMA UnmarkedIs ==
  ASSUME NEW s \in Seq(Entries), NEW n \in 1 .. Len(s), s[n].k # "mark",
         \A i \in n + 1 .. Len(s) : s[i].k = "mark"
  PROVE  Unmarked(s) = Prefix(s, n)
<1> DEFINE S == {0} \cup {i \in DOMAIN s : s[i].k # "mark"}
<1>1. S \in SUBSET (0 .. Len(s)) /\ S # {} /\ Len(s) \in Nat
  OBVIOUS
<1>2. n \in S /\ \A x \in S : x <= n
  <2>1. \A x \in DOMAIN s : x \in 1 .. Len(s)
    OBVIOUS
  <2>2. \A x \in DOMAIN s : x > n => s[x].k = "mark"
    BY <2>1
  <2> QED BY <2>1, <2>2
<1>3. Max(S) \in S /\ \A x \in S : x <= Max(S)
  <2> HIDE DEF S
  <2> QED BY <1>1, MaxIs
<1>4. Max(S) = n
  <2>1. Max(S) \in 0 .. Len(s)
    BY <1>1, <1>3
  <2> HIDE DEF S
  <2> QED BY <1>2, <1>3, <2>1
<1> QED BY <1>4 DEF Unmarked

LEMMA InnermostIsOne ==
  ASSUME NEW s, NEW n \in Nat, NEW b, NEW c, Innermost(s, b, n), Innermost(s, c, n)
  PROVE  b = c
BY DEF Innermost

\* restore_local_base_below finds the innermost frame below a prompt.
LEMMA BaseBelowIs ==
  ASSUME NEW f, WellFormed(rs, f), Innermost(rs, base, Len(rs)), NEW m \in 1 .. Len(rs)
  PROVE  Innermost(rs, BaseBelow(m), m - 1)
<1> DEFINE n == Len(rs)
           G(g) == g = [b \in 0 .. n |-> IF b < m THEN b ELSE g[SavedBase(rs, b)]]
           H == {b \in 0 .. m - 1 : Innermost(rs, b, m - 1)}
<1>1. rs \in Seq(Entries) /\ n \in Nat
  BY DEF WellFormed
<1>2. PICK c : Innermost(rs, c, m - 1)
  <2> DEFINE S == {0} \cup {i \in 1 .. m - 1 : rs[i].k = "header"}
  <2>1. S \in SUBSET (0 .. m - 1) /\ S # {} /\ m - 1 \in Nat
    BY <1>1
  <2>2. Max(S) \in S /\ \A x \in S : x <= Max(S)
    <3> HIDE DEF S
    <3> QED BY <2>1, MaxIs
  <2>3. Innermost(rs, Max(S), m - 1)
    <3>1. Max(S) \in 0 .. m - 1
      BY <2>1, <2>2
    <3>2. Max(S) # 0 => rs[Max(S)].k = "header"
      BY <2>2
    <3>3. \A i \in Max(S) + 1 .. m - 1 : rs[i].k # "header"
      BY <1>1, <2>2, <3>1
    <3> HIDE DEF S
    <3> QED BY <3>1, <3>2, <3>3 DEF Innermost
  <2> QED BY <2>3
<1>3. c \in 0 .. m - 1
  BY <1>2 DEF Innermost
<1>4. ASSUME NEW b \in m .. n, rs[b].k = "header"
      PROVE  /\ SavedBase(rs, b) \in 0 .. b - 1
             /\ Innermost(rs, SavedBase(rs, b), b - 1)
             /\ SavedBase(rs, b) < m => SavedBase(rs, b) = c
             /\ SavedBase(rs, b) >= m => rs[SavedBase(rs, b)].k = "header"
  <2>1. SavedBase(rs, b) = rs[b].saved
    BY <1>4 DEF SavedBase
  <2>2. Supported(rs, b)
    BY <1>1 DEF WellFormed
  <2>3. b > 1 /\ Innermost(rs, SavedBase(rs, b), b - 1)
    BY <1>4, <2>1, <2>2 DEF Supported
  <2>4. SavedBase(rs, b) < m => SavedBase(rs, b) = c
    <3> SUFFICES ASSUME SavedBase(rs, b) < m PROVE SavedBase(rs, b) = c
      OBVIOUS
    <3>1. m - 1 \in Nat /\ SavedBase(rs, b) \in 0 .. m - 1
      BY <1>1, <2>3 DEF Innermost
    <3>2. Innermost(rs, SavedBase(rs, b), m - 1)
      BY <1>1, <2>3, <3>1 DEF Innermost
    <3> QED BY <1>2, <3>1, <3>2, InnermostIsOne
  <2> QED BY <1>1, <2>3, <2>4 DEF Innermost
<1>5. \A b \in m .. n : rs[b].k # "header" => SavedBase(rs, b) = 0
  BY DEF SavedBase
<1> DEFINE h == [b \in 0 .. n |-> IF b < m THEN b ELSE IF rs[b].k = "header" THEN c ELSE 0]
<1>6. G(h)
  <2> SUFFICES ASSUME NEW b \in 0 .. n PROVE h[b] = IF b < m THEN b ELSE h[SavedBase(rs, b)]
    OBVIOUS
  <2>1. CASE b < m
    BY <2>1
  <2>2. CASE b >= m /\ rs[b].k = "header"
    BY <1>1, <1>4, <2>2
  <2>3. CASE b >= m /\ rs[b].k # "header"
    BY <1>1, <1>5, <2>3
  <2> QED BY <1>1, <2>1, <2>2, <2>3
<1> DEFINE g == CHOOSE g : G(g)
<1>7. G(g)
  <2> HIDE DEF G, h
  <2> QED BY <1>6
<1>8. \A b \in 0 .. n : g[b] = IF b < m THEN b ELSE g[SavedBase(rs, b)]
  <2> HIDE DEF g
  <2> QED BY <1>7
<1>9. BaseBelow(m) = g[base]
  BY DEF BaseBelow
<1> HIDE DEF g, G, h
<1>10. \A b \in m .. n : rs[b].k = "header" => g[b] = c
  <2> DEFINE T == {b \in m .. n : rs[b].k = "header" /\ g[b] # c}
  <2> SUFFICES ASSUME T # {} PROVE FALSE
    OBVIOUS
  <2>1. T \in SUBSET Nat
    BY <1>1
  <2>2. PICK b \in T : \A y \in T : b <= y
    <3> HIDE DEF T
    <3> QED BY <2>1, LeastNumber
  <2>3. b \in m .. n /\ rs[b].k = "header" /\ g[b] # c /\ g[b] = g[SavedBase(rs, b)]
    BY <1>1, <1>8, <2>2
  <2>4. SavedBase(rs, b) \in 0 .. b - 1
    BY <1>4, <2>3
  <2>5. CASE SavedBase(rs, b) < m
    <3>1. SavedBase(rs, b) = c
      BY <1>4, <2>3, <2>5
    <3>2. SavedBase(rs, b) \in 0 .. n
      BY <1>1, <2>3, <2>4
    <3>3. g[SavedBase(rs, b)] = SavedBase(rs, b)
      BY <1>8, <2>5, <3>2
    <3> QED BY <2>3, <3>1, <3>3
  <2>6. CASE SavedBase(rs, b) >= m
    <3>1. SavedBase(rs, b) \in T
      BY <1>1, <1>4, <2>3, <2>4, <2>6
    <3> QED BY <1>1, <2>2, <2>4, <3>1
  <2> QED BY <1>1, <2>4, <2>5, <2>6
<1>11. CASE base < m
  <2>1. BaseBelow(m) = base
    BY <1>1, <1>8, <1>9, <1>11 DEF Innermost
  <2>2. Innermost(rs, base, m - 1)
    BY <1>1, <1>11 DEF Innermost
  <2> QED BY <2>1, <2>2
<1>12. CASE base >= m
  <2>1. base \in m .. n /\ rs[base].k = "header"
    BY <1>1, <1>12 DEF Innermost
  <2>2. BaseBelow(m) = c
    BY <1>9, <1>10, <2>1
  <2> QED BY <1>2, <2>2
<1>13. base \in Int
  BY <1>1 DEF Innermost
<1> QED BY <1>11, <1>12, <1>13

----------------------------------------------------------------------------
(* The end of an activation.                                                *)

\* p_exit pops the marks of the activation and its return.
LEMMA ExitPops ==
  ASSUME NEW s \in Seq(Entries), NEW j \in 1 .. Len(s), s[j].k = "ret", Floor \in Nat, Floor < j,
         \A i \in j + 1 .. Len(s) : s[i].k = "mark",
         NEW b \in 0 .. j, b # 0 /\ b < j => s[b + 1].k = "local",
         NEW act, Exit(s, b, act)
  PROVE  rs' = Prefix(s, j - 1) /\ base' = b /\ GoTo(s[j], act)
<1>1. Unmarked(s) = Prefix(s, j)
  BY UnmarkedIs
<1> DEFINE t == Prefix(s, j)
<1>2. t \in Seq(Entries) /\ Len(t) = j /\ t # <<>> /\ \A i \in 1 .. j : t[i] = s[i]
  BY PrefixIs
<1>3. WithoutLocals(t, b) = [rs |-> t, base |-> b]
  <2> HIDE DEF t
  <2> QED BY <1>2, NoLocalsOnTop
<1>4. Prefix(t, j - 1) = Prefix(s, j - 1)
  BY PrefixOfPrefix
<1>5. Last(t) = s[j]
  BY <1>2 DEF Last
<1> HIDE DEF t
<1> QED BY <1>1, <1>2, <1>3, <1>4, <1>5 DEF Exit, t

\* p_exit in the middle of a word with locals drops them first.
LEMMA ExitDropsLocals ==
  ASSUME NEW s, NEW f, WellFormed(s, f), Floor \in Nat, Floor < Len(s) - 2,
         s # <<>>, s[Len(s)].k = "local",
         NEW act, Exit(s, Len(s) - 1, act)
  PROVE  /\ rs' = Prefix(s, Len(s) - 3) /\ base' = s[Len(s) - 1].saved /\ GoTo(s[Len(s) - 2], act)
<1> DEFINE n == Len(s)
           t == Prefix(s, n - 2)
<1>1. s \in Seq(Entries) /\ n \in Nat
  BY DEF WellFormed
<1>2. n > 2 /\ WithoutLocals(s, n - 1) = [rs |-> t, base |-> s[n - 1].saved]
  BY LocalsOnTop
<1>3. Unmarked(s) = s
  <2>1. Unmarked(s) = Prefix(s, n)
    BY <1>1, <1>2, UnmarkedIs
  <2> QED BY <1>1, <2>1 DEF Prefix
<1>4. Len(t) = n - 2 /\ Last(t) = s[n - 2] /\ Prefix(t, n - 3) = Prefix(s, n - 3)
  <2>1. n - 2 \in 0 .. Len(s) /\ n - 3 \in 0 .. n - 2 /\ n - 2 \in 1 .. n - 2
    BY <1>1, <1>2
  <2>2. Len(t) = n - 2 /\ t[n - 2] = s[n - 2]
    BY <1>1, <2>1, PrefixIs
  <2>3. Prefix(t, n - 3) = Prefix(s, n - 3)
    BY <1>1, <2>1, PrefixOfPrefix
  <2> QED BY <2>2, <2>3 DEF Last
<1> HIDE DEF t
<1> QED BY <1>1, <1>2, <1>3, <1>4 DEF Exit


----------------------------------------------------------------------------
(* Run loops.                                                               *)

\* The same loop, but for what it counts and whether it has been left.
Same(q, r) ==
  q.op = r.op /\ q.floor = r.floor /\ q.at = r.at /\ q.id = r.id /\ q.body = r.body /\ q.pc = r.pc

LEMMA LoopIs ==
  ASSUME RunsInv, NEW k \in 1 .. Len(runs)
  PROVE  /\ runs[k] \in Loops /\ runs[k].floor \in Nat /\ runs[k].at \in Nat /\ runs[k].id \in Nat
         /\ runs[k].body \in Nat /\ runs[k].pc \in Places /\ runs[k].base \in Nat
         /\ Bottom(runs[k]) \in Nat /\ Len(runs) \in Nat /\ Len(runs) > 0
         /\ k > 1 /\ runs[k].op \in Bodies => Bottom(runs[k]) = runs[k].floor
         /\ k > 1 /\ runs[k].op \notin Bodies => /\ Bottom(runs[k]) = runs[k].at
                                                 /\ runs[k].floor \in {runs[k].at, runs[k].at + 1}
<1>1. runs \in Seq(Loops) /\ Len(runs) \in Nat
  BY DEF RunsInv
<1>2. runs[k] \in Loops /\ Len(runs) > 0
  BY <1>1
<1>3. /\ runs[k].floor \in Nat /\ runs[k].at \in Nat /\ runs[k].id \in Nat
      /\ runs[k].body \in Nat /\ runs[k].pc \in Places /\ runs[k].base \in Nat
      /\ runs[k].op \in {"top", "amb1", "amb2"} \cup Bodies
  BY <1>2 DEF Loops
<1>4. k > 1 => Nests(rs, runs[k - 1], runs[k])
  BY <1>1 DEF RunsInv
<1>5. k > 1 /\ runs[k].op \notin Bodies => runs[k].floor \in {runs[k].at, runs[k].at + 1}
  BY <1>3, <1>4 DEF Nests
<1> QED BY <1>1, <1>2, <1>3, <1>5 DEF Bottom

\* Floors rise from each loop to those it encloses.
LEMMA FloorsRise ==
  ASSUME RunsInv, NEW k \in 2 .. Len(runs), NEW j \in 1 .. k - 1
  PROVE  /\ runs[j].floor <= Bottom(runs[k]) /\ Bottom(runs[k]) <= runs[k].floor
         /\ runs[j].op \notin Bodies => runs[j].floor < Bottom(runs[k])
<1> DEFINE n == Len(runs)
           F(x) == runs[x].floor
           B(x) == Bottom(runs[x])
<1>1. n \in Nat /\ n > 0 /\ \A x \in 1 .. n : F(x) \in Nat /\ B(x) \in Nat
  BY LoopIs
<1>2. \A x \in 2 .. n : F(x - 1) <= B(x) /\ B(x) <= F(x) /\ (runs[x - 1].op \notin Bodies => F(x - 1) < B(x))
  <2> SUFFICES ASSUME NEW x \in 2 .. n
               PROVE  F(x - 1) <= B(x) /\ B(x) <= F(x) /\ (runs[x - 1].op \notin Bodies => F(x - 1) < B(x))
    OBVIOUS
  <2>1. Nests(rs, runs[x - 1], runs[x])
    BY DEF RunsInv
  <2>2. IF runs[x - 1].op \in Bodies THEN F(x - 1) <= B(x) ELSE F(x - 1) < B(x)
    BY <2>1 DEF Nests
  <2>3. x \in 1 .. n /\ x - 1 \in 1 .. n /\ x > 1
    BY <1>1
  <2>4. B(x) <= F(x)
    <3>1. /\ runs[x].op \in Bodies => B(x) = F(x)
          /\ runs[x].op \notin Bodies => B(x) = runs[x].at /\ F(x) \in {runs[x].at, runs[x].at + 1}
          /\ runs[x].at \in Nat
      BY <2>3, LoopIs
    <3> HIDE DEF B, F
    <3>2. CASE runs[x].op \in Bodies
      BY <1>1, <2>3, <3>1, <3>2
    <3>3. CASE runs[x].op \notin Bodies
      BY <3>1, <3>3
    <3> QED BY <3>2, <3>3
  <2>5. F(x - 1) \in Nat /\ B(x) \in Nat
    BY <1>1, <2>3
  <2> HIDE DEF F, B
  <2> QED BY <2>2, <2>4, <2>5
<1> HIDE DEF F, B
<1> DEFINE T == {x \in 2 .. n : \E y \in 1 .. x - 1 :
                    ~(F(y) <= B(x) /\ (runs[y].op \notin Bodies => F(y) < B(x)))}
<1>3. T = {}
  <2> SUFFICES ASSUME T # {} PROVE FALSE
    OBVIOUS
  <2>1. T \in SUBSET Nat
    BY <1>1
  <2>2. PICK x \in T : \A y \in T : x <= y
    <3> HIDE DEF T
    <3> QED BY <2>1, LeastNumber
  <2>3. x \in 2 .. n
    OBVIOUS
  <2>4. PICK y \in 1 .. x - 1 : ~(F(y) <= B(x) /\ (runs[y].op \notin Bodies => F(y) < B(x)))
    OBVIOUS
  <2>5. y # x - 1
    BY <1>2, <2>3, <2>4
  <2>10. x \in Nat /\ y \in Nat /\ n \in Nat /\ 1 <= y /\ y <= x - 1 /\ 2 <= x /\ x <= n
    BY <1>1, <2>3, <2>4
  <2>11. x - 1 \in 2 .. n /\ y \in 1 .. (x - 1) - 1 /\ x - 1 \in 1 .. n /\ y \in 1 .. n /\ x \in 1 .. n
    BY <2>5, <2>10
  <2>12. x - 1 \notin T
    <3> HIDE DEF T
    <3> QED BY <2>2, <2>10
  <2>6. x - 1 \in 2 .. n /\ y \in 1 .. (x - 1) - 1 /\ x - 1 \notin T
    BY <2>11, <2>12
  <2>7. F(y) <= B(x - 1) /\ (runs[y].op \notin Bodies => F(y) < B(x - 1))
    BY <2>6
  <2>8. B(x - 1) <= F(x - 1) /\ F(x - 1) <= B(x)
    BY <1>2, <2>3, <2>6
  <2>9. F(y) \in Nat /\ B(x - 1) \in Nat /\ F(x - 1) \in Nat /\ B(x) \in Nat
    BY <1>1, <2>11
  <2> HIDE DEF T
  <2> QED BY <2>4, <2>7, <2>8, <2>9
<1>4. F(j) <= B(k) /\ (runs[j].op \notin Bodies => F(j) < B(k))
  <2>1. k \in 2 .. n /\ k \notin T
    BY <1>3
  <2> QED BY <2>1
<1> QED BY <1>2, <1>4 DEF F, B

\* The innermost loop.
LEMMA TopIs ==
  ASSUME RunsInv
  PROVE  /\ Len(runs) \in Nat /\ Len(runs) > 0 /\ Len(runs) \in 1 .. Len(runs) /\ 1 \in 1 .. Len(runs)
         /\ Top = runs[Len(runs)] /\ Floor = Top.floor /\ Floor \in Nat /\ Top \in Loops
         /\ \A k \in 1 .. Len(runs) - 1 : /\ runs[k].floor <= Bottom(Top) /\ Bottom(Top) <= Floor
                                          /\ runs[k].op \notin Bodies => runs[k].floor < Bottom(Top)
         /\ Len(runs) > 1 => Floor > 0 /\ Bottom(Top) > 0 /\ Bottom(Top) \in Nat
         /\ Len(runs) = 1 => Floor = 0 /\ Top = Outermost
<1>1. runs \in Seq(Loops) /\ runs # <<>> /\ runs[1] = Outermost
  BY DEF RunsInv
<1>2. Len(runs) \in Nat /\ Len(runs) > 0 /\ Len(runs) \in 1 .. Len(runs) /\ 1 \in 1 .. Len(runs)
  BY <1>1
<1>3. Top = runs[Len(runs)] /\ Floor = Top.floor
  BY DEF Top, Floor
<1>4. Floor \in Nat /\ Top \in Loops /\ Bottom(Top) \in Nat
  BY <1>2, <1>3, LoopIs
<1>5. ASSUME NEW k \in 1 .. Len(runs) - 1
      PROVE  /\ runs[k].floor <= Bottom(Top) /\ Bottom(Top) <= Floor
             /\ runs[k].op \notin Bodies => runs[k].floor < Bottom(Top)
  BY <1>2, <1>3, FloorsRise
<1>6. Outermost.floor = 0 /\ Outermost.op \notin Bodies
  BY DEF Outermost, Bodies
<1>7. Len(runs) > 1 => Floor > 0 /\ Bottom(Top) > 0
  <2> SUFFICES ASSUME Len(runs) > 1 PROVE Floor > 0 /\ Bottom(Top) > 0
    OBVIOUS
  <2>1. 1 \in 1 .. Len(runs) - 1
    BY <1>2
  <2>2. 0 < Bottom(Top) /\ Bottom(Top) <= Floor
    BY <1>1, <1>5, <1>6, <2>1
  <2> QED BY <1>4, <2>2
<1> QED BY <1>1, <1>2, <1>3, <1>4, <1>5, <1>6, <1>7
----------------------------------------------------------------------------
(* A stack and its run loops change together.                               *)

\* What may run in a loop depends on the entries up to there only.
LEMMA AgreeRunsIn ==
  ASSUME NEW s, NEW t, NEW n \in Nat, \A i \in 1 .. n : s[i] = t[i],
         NEW q, NEW r, Same(q, r), NEW at, NEW k \in 1 .. n, RunsIn(s, q, at, k)
  PROVE  RunsIn(t, r, at, k)
<1>1. RunsOn(s, at, k) => RunsOn(t, at, k)
  BY AgreeRuns
<1>2. q.op = r.op /\ q.floor = r.floor /\ q.body = r.body
  BY DEF Same
<1> QED BY <1>1, <1>2 DEF RunsIn

\* The stacks s and t agree on their first c entries, and t ends there or
\* goes on above the floor of loop r.
LEMMA NestsKeep ==
  ASSUME NEW s \in Seq(Entries), NEW t \in Seq(Entries), NEW q \in Loops, NEW r \in Loops,
         NEW qq, NEW rr, Same(q, qq), Same(r, rr), Nests(s, q, r), Bottom(r) > 0,
         NEW c \in Nat, c <= Len(s), c <= Len(t), \A i \in 1 .. c : s[i] = t[i],
         \/ Len(t) = c
         \/ r.floor <= c /\ (r.floor = c => t[c + 1].k = "ret" \/ (r.op \in Bodies /\ IsChoice(t, c + 1)))
  PROVE  Nests(t, qq, rr)
<1>1. /\ qq.op = q.op /\ qq.floor = q.floor /\ rr.op = r.op /\ rr.floor = r.floor /\ rr.at = r.at
      /\ rr.id = r.id /\ rr.pc = r.pc /\ Bottom(rr) = Bottom(r)
  BY DEF Same, Bottom
<1>2. /\ r.floor \in Nat /\ r.at \in Nat /\ q.floor \in Nat /\ Len(s) \in Nat /\ Len(t) \in Nat
      /\ r.op \in {"top", "amb1", "amb2"} \cup Bodies
  <2>1. \A x \in Loops : x.floor \in Nat /\ x.at \in Nat /\ x.op \in {"top", "amb1", "amb2"} \cup Bodies
    BY DEF Loops
  <2>2. Len(s) \in Nat /\ Len(t) \in Nat
    OBVIOUS
  <2> QED BY <2>1, <2>2
<1>3. /\ r.op # "top" /\ r.pc.code \in {"plain", "locals"}
      /\ r.op = "amb1" => r.floor = r.at + 1 /\ (r.floor <= Len(s) => IsChoice(s, r.floor))
      /\ r.op = "amb2" => r.floor = r.at
      /\ IF q.op \in Bodies THEN q.floor <= Bottom(r) ELSE q.floor < Bottom(r)
      /\ Bottom(r) <= Len(s) => RunsIn(s, q, r.pc, Bottom(r))
      /\ r.op = "amb1" => \A i \in 1 .. Len(s) : i < r.floor /\ s[i].k = "mark" => s[i].id # r.id
      /\ r.op \in Bodies /\ r.floor <= Len(s) => s[r.floor].k # "mark"
      /\ r.floor < Len(s) => s[r.floor + 1].k = "ret" \/ (r.op \in Bodies /\ IsChoice(s, r.floor + 1))
  BY DEF Nests
<1>4. Bottom(r) \in Nat /\ Bottom(r) <= r.floor
  BY <1>2, <1>3 DEF Bottom
<1>5. r.floor <= Len(t) => r.floor <= c
  BY <1>2
<1>6. Bottom(r) <= Len(t) => Bottom(r) <= c
  BY <1>2, <1>4
<1>8. Bottom(r) <= Len(t) => RunsIn(t, qq, r.pc, Bottom(r))
  <2> SUFFICES ASSUME Bottom(r) <= Len(t) PROVE RunsIn(t, qq, r.pc, Bottom(r))
    OBVIOUS
  <2>1. RunsIn(s, q, r.pc, Bottom(r))
    BY <1>2, <1>3, <1>4, <1>6
  <2>2. Bottom(r) \in 1 .. c
    BY <1>4, <1>6
  <2> QED BY <2>1, <2>2, AgreeRunsIn
<1>9. r.op = "amb1" => r.floor > 0
  BY <1>2, <1>3
<1>10. r.op = "amb1" /\ r.floor <= Len(t) => IsChoice(t, r.floor)
  <2> SUFFICES ASSUME r.op = "amb1", r.floor <= Len(t) PROVE IsChoice(t, r.floor)
    OBVIOUS
  <2>1. r.floor \in 1 .. c /\ IsChoice(s, r.floor)
    BY <1>2, <1>3, <1>5, <1>9
  <2> QED BY <2>1 DEF IsChoice
<1>11. r.op = "amb1" => \A i \in 1 .. Len(t) : i < r.floor /\ t[i].k = "mark" => t[i].id # r.id
  <2> SUFFICES ASSUME r.op = "amb1", NEW i \in 1 .. Len(t), i < r.floor, t[i].k = "mark" PROVE t[i].id # r.id
    OBVIOUS
  <2>1. i \in 1 .. c
    BY <1>2
  <2>2. i \in 1 .. Len(s) /\ s[i] = t[i]
    BY <1>2, <2>1
  <2> QED BY <1>3, <2>2
<1>12. r.op \in Bodies /\ r.floor <= Len(t) => t[r.floor].k # "mark"
  <2> SUFFICES ASSUME r.op \in Bodies, r.floor <= Len(t) PROVE t[r.floor].k # "mark"
    OBVIOUS
  <2>1. r.floor <= c /\ r.floor <= Len(s) /\ s[r.floor].k # "mark"
    BY <1>2, <1>3, <1>5
  <2> QED BY <1>2, <1>4, <2>1
<1>13. r.floor < Len(t) => t[r.floor + 1].k = "ret" \/ (r.op \in Bodies /\ IsChoice(t, r.floor + 1))
  <2> SUFFICES ASSUME r.floor < Len(t)
               PROVE  t[r.floor + 1].k = "ret" \/ (r.op \in Bodies /\ IsChoice(t, r.floor + 1))
    OBVIOUS
  <2>1. CASE r.floor = c
    BY <1>2, <2>1
  <2>2. CASE r.floor < c
    <3>1. r.floor + 1 \in 1 .. c /\ r.floor < Len(s)
      BY <1>2, <2>2
    <3> QED BY <1>3, <3>1 DEF IsChoice
  <2> QED BY <1>2, <1>5, <2>1, <2>2
<1> QED BY <1>1, <1>3, <1>8, <1>10, <1>11, <1>12, <1>13 DEF Nests

\* The loops rr and qq are the same up to loop h, and the others are not what
\* entry i is about.
LEMMA LeadsSame ==
  ASSUME NEW s, NEW t, NEW i \in Nat \ {0}, \A k \in 1 .. i : s[k] = t[k],
         NEW rr \in Seq(Loops), NEW qq \in Seq(Loops), NEW h \in 1 .. Len(rr), h <= Len(qq),
         \A k \in 1 .. h : Same(rr[k], qq[k]),
         \A k \in h + 1 .. Len(rr) : rr[k].floor # i - 1 /\ ~(rr[k].op = "amb1" /\ rr[k].floor = i),
         \A k \in h + 1 .. Len(qq) : qq[k].floor # i - 1,
         Leads(s, rr, i)
  PROVE  Leads(t, qq, i)
<1>1. /\ Len(rr) \in Nat /\ Len(qq) \in Nat /\ h \in Nat /\ s[i] = t[i]
      /\ \A k \in 2 .. h : k \in 2 .. Len(rr) /\ k \in 2 .. Len(qq)
      /\ \A k \in 2 .. Len(rr) : k \in 2 .. h \/ k \in h + 1 .. Len(rr)
      /\ \A k \in 2 .. Len(qq) : k \in 2 .. h \/ k \in h + 1 .. Len(qq)
  OBVIOUS
<1>2. \A k \in 2 .. h : /\ rr[k].op = qq[k].op /\ rr[k].floor = qq[k].floor /\ rr[k].id = qq[k].id
                        /\ rr[k].body = qq[k].body
  BY <1>1 DEF Same
<1>3. \A k \in 2 .. Len(rr) : rr[k].floor = i - 1 => k \in 2 .. h
  BY <1>1
<1>4. \A k \in 2 .. Len(qq) : qq[k].floor = i - 1 => k \in 2 .. h
  BY <1>1
<1>5. t[i].k = "ret" /\ i = 1 => t[i] = Ret(Stop, 1)
  BY <1>1 DEF Leads
<1>6. t[i].k = "ret" /\ i # 1 /\ (\A k \in 2 .. Len(qq) : qq[k].floor # i - 1) => RunsOn(t, t[i].to, i - 1)
  <2> SUFFICES ASSUME t[i].k = "ret", i # 1, \A k \in 2 .. Len(qq) : qq[k].floor # i - 1
               PROVE  RunsOn(t, t[i].to, i - 1)
    OBVIOUS
  <2>1. \A k \in 2 .. Len(rr) : rr[k].floor # i - 1
    BY <1>1, <1>2, <1>3
  <2>2. RunsOn(s, s[i].to, i - 1)
    BY <1>1, <2>1 DEF Leads
  <2> DEFINE p == i - 1
             at == s[i].to
  <2>3. p \in Nat /\ p \in 1 .. p /\ (\A k \in 1 .. p : s[k] = t[k])
    OBVIOUS
  <2> HIDE DEF p, at
  <2>4. RunsOn(s, at, p) => RunsOn(t, at, p)
    BY <2>3, AgreeRuns
  <2> QED BY <1>1, <2>2, <2>4 DEF p, at
<1>7. t[i].k = "ret" => \A k \in 2 .. Len(qq) :
        qq[k].floor = i - 1 /\ (\A j \in k + 1 .. Len(qq) : qq[j].floor # i - 1) =>
          IF qq[k].op \in Bodies THEN t[i].to = At("plain", qq[k].body, 0) ELSE t[i] = Ret(Stop, qq[k].body)
  <2> SUFFICES ASSUME t[i].k = "ret", NEW k \in 2 .. Len(qq), qq[k].floor = i - 1,
                      \A j \in k + 1 .. Len(qq) : qq[j].floor # i - 1
               PROVE  IF qq[k].op \in Bodies THEN t[i].to = At("plain", qq[k].body, 0)
                      ELSE t[i] = Ret(Stop, qq[k].body)
    OBVIOUS
  <2>1. k \in 2 .. h /\ k \in 2 .. Len(rr)
    BY <1>1, <1>4
  <2>2. rr[k].floor = i - 1
    BY <1>2, <2>1
  <2>3. ASSUME NEW j \in k + 1 .. Len(rr) PROVE rr[j].floor # i - 1
    <3>1. j \in 2 .. Len(rr)
      BY <1>1, <2>1
    <3>2. CASE j \in 2 .. h
      <4>1. j \in k + 1 .. Len(qq)
        BY <1>1, <3>2
      <4> QED BY <1>2, <3>2, <4>1
    <3>3. CASE j \in h + 1 .. Len(rr)
      BY <3>3
    <3> QED BY <1>1, <3>1, <3>2, <3>3
  <2>4. IF rr[k].op \in Bodies THEN s[i].to = At("plain", rr[k].body, 0) ELSE s[i] = Ret(Stop, rr[k].body)
    BY <1>1, <2>1, <2>2, <2>3 DEF Leads
  <2> QED BY <1>1, <1>2, <2>1, <2>4
<1>8. t[i].k = "mark" /\ t[i].kind = "choice" =>
        \E k \in 2 .. Len(qq) : qq[k].op = "amb1" /\ qq[k].floor = i /\ qq[k].id = t[i].id
  <2> SUFFICES ASSUME t[i].k = "mark", t[i].kind = "choice"
               PROVE  \E k \in 2 .. Len(qq) : qq[k].op = "amb1" /\ qq[k].floor = i /\ qq[k].id = t[i].id
    OBVIOUS
  <2>1. PICK k \in 2 .. Len(rr) : rr[k].op = "amb1" /\ rr[k].floor = i /\ rr[k].id = s[i].id
    BY <1>1 DEF Leads
  <2>2. k \in 2 .. h
    BY <1>1, <2>1
  <2> QED BY <1>1, <1>2, <2>1, <2>2
<1> QED BY <1>5, <1>6, <1>7, <1>8 DEF Leads

\* An entry that lies directly on no loop's floor.
LEMMA LeadsOn ==
  ASSUME NEW t, NEW rr, NEW i \in Nat, i > 1, \A k \in 2 .. Len(rr) : rr[k].floor # i - 1,
         ~IsChoice(t, i), t[i].k = "ret" => RunsOn(t, t[i].to, i - 1)
  PROVE  Leads(t, rr, i)
BY DEF Leads, IsChoice

\* A return into loop Len(rr), the innermost, at its floor or above.
LEMMA LeadsBack ==
  ASSUME NEW t, NEW rr \in Seq(Loops), rr # <<>>, NEW n \in Nat, n > 0, t[n + 1].k = "ret",
         NEW l, l = Len(rr), \A k \in 1 .. l : rr[k].floor <= rr[l].floor, rr[l].floor \in Nat,
         \A k \in 1 .. l : rr[k].floor \in Nat,
         l = 1 => rr[l].op \notin Bodies, NEW at, at = t[n + 1].to, RunsIn(t, rr[l], at, n)
  PROVE  Leads(t, rr, n + 1)
<1>1. l \in Nat /\ l > 0 /\ l \in 1 .. l /\ n + 1 # 1 /\ (n + 1) - 1 = n
  OBVIOUS
<1>2. CASE rr[l].op \in Bodies /\ n = rr[l].floor
  <2>1. at = At("plain", rr[l].body, 0)
    BY <1>2 DEF RunsIn
  <2>2. l \in 2 .. Len(rr)
    <3>1. l # 1
      BY <1>2
    <3> QED BY <1>1, <3>1
  <2>3. \A k \in 2 .. Len(rr) : (\A j \in k + 1 .. Len(rr) : rr[j].floor # n) => k = l
    <3> SUFFICES ASSUME NEW k \in 2 .. l, \A j \in k + 1 .. l : rr[j].floor # n, k # l PROVE FALSE
      OBVIOUS
    <3>1. l \in k + 1 .. l
      BY <1>1
    <3> QED BY <1>2, <3>1
  <2>4. ~(\A k \in 2 .. Len(rr) : rr[k].floor # (n + 1) - 1)
    BY <1>1, <1>2, <2>2
  <2>5. ASSUME NEW k \in 2 .. Len(rr), \A j \in k + 1 .. Len(rr) : rr[j].floor # (n + 1) - 1
        PROVE  IF rr[k].op \in Bodies THEN t[n + 1].to = At("plain", rr[k].body, 0)
               ELSE t[n + 1] = Ret(Stop, rr[k].body)
    <3>1. k = l
      BY <1>1, <2>3, <2>5
    <3> QED BY <1>2, <2>1, <3>1
  <2> QED BY <1>1, <2>4, <2>5 DEF Leads
<1>3. CASE ~(rr[l].op \in Bodies /\ n = rr[l].floor)
  <2>1. n > rr[l].floor /\ RunsOn(t, at, n)
    BY <1>3 DEF RunsIn
  <2>2. \A k \in 2 .. Len(rr) : rr[k].floor # n
    BY <1>1, <2>1
  <2>3. RunsOn(t, t[n + 1].to, (n + 1) - 1)
    BY <1>1, <2>1
  <2>4. ~IsChoice(t, n + 1) /\ n + 1 \in Nat /\ n + 1 > 1 /\ \A k \in 2 .. Len(rr) : rr[k].floor # (n + 1) - 1
    BY <1>1, <2>2 DEF IsChoice
  <2> QED BY <2>3, <2>4, LeadsOn
<1> QED BY <1>2, <1>3

\* The stack changes above its first c entries, and the loops above loop h.
LEMMA RunsKeep ==
  ASSUME RunsInv, rs \in Seq(Entries), rs' \in Seq(Entries), runs' \in Seq(Loops),
         NEW h \in 1 .. Len(runs), h <= Len(runs'), \A k \in 1 .. h : Same(runs[k], runs'[k]),
         runs'[1] = Outermost,
         NEW c \in Nat, c <= Len(rs), c <= Len(rs'), \A i \in 1 .. c : rs[i] = rs'[i],
         \/ Len(rs') = c
         \/ \A k \in 2 .. h :
              /\ runs[k].floor <= c
              /\ runs[k].floor = c => rs'[c + 1].k = "ret" \/ (runs[k].op \in Bodies /\ IsChoice(rs', c + 1)),
         \A k \in h + 1 .. Len(runs') : Nests(rs', runs'[k - 1], runs'[k]),
         \A i \in 1 .. c : mode' \notin {"failed", "over"} \/ i <= Floor' \/ i <= CatchIndex' =>
           /\ Leads(rs, runs, i)
           /\ \A k \in h + 1 .. Len(runs) :
                runs[k].floor # i - 1 /\ ~(runs[k].op = "amb1" /\ runs[k].floor = i)
           /\ \A k \in h + 1 .. Len(runs') : runs'[k].floor # i - 1,
         \A i \in c + 1 .. Len(rs') : Leads(rs', runs', i)
  PROVE  RunsInv'
<1>1. /\ runs \in Seq(Loops) /\ Len(runs) \in Nat /\ Len(runs') \in Nat /\ h \in Nat /\ Len(rs') \in Nat
      /\ runs' # <<>>
  BY DEF RunsInv
<1>2. ASSUME NEW k \in 2 .. Len(runs') PROVE Nests(rs', runs'[k - 1], runs'[k])
  <2>1. CASE k \in h + 1 .. Len(runs')
    BY <2>1
  <2>2. CASE k \in 2 .. h
    <3>1. k \in 2 .. Len(runs) /\ k \in 1 .. h /\ k - 1 \in 1 .. h /\ k - 1 \in 1 .. Len(runs)
          /\ k \in 1 .. Len(runs)
      BY <1>1, <2>2
    <3>2. Nests(rs, runs[k - 1], runs[k]) /\ Same(runs[k], runs'[k]) /\ Same(runs[k - 1], runs'[k - 1])
      BY <3>1 DEF RunsInv
    <3>3. runs[k] \in Loops /\ runs[k - 1] \in Loops
      BY <1>1, <3>1
    <3>4. Bottom(runs[k]) > 0
      <4>1. runs[1].op \notin Bodies /\ runs[1].floor = 0 /\ 1 \in 1 .. k - 1
        BY <3>1 DEF RunsInv, Outermost, Bodies
      <4> QED BY <3>1, <4>1, FloorsRise
    <3>5. \/ Len(rs') = c
          \/ /\ runs[k].floor <= c
             /\ runs[k].floor = c => rs'[c + 1].k = "ret" \/ (runs[k].op \in Bodies /\ IsChoice(rs', c + 1))
      BY <2>2
    <3> QED BY <3>2, <3>3, <3>4, <3>5, NestsKeep
  <2> QED BY <1>1, <2>1, <2>2
<1>3. ASSUME NEW i \in 1 .. Len(rs'), mode' \notin {"failed", "over"} \/ i <= Floor' \/ i <= CatchIndex'
      PROVE  Leads(rs', runs', i)
  <2>1. CASE i \in c + 1 .. Len(rs')
    BY <2>1
  <2>2. CASE i \in 1 .. c
    <3>1. i \in Nat \ {0} /\ \A k \in 1 .. i : rs[k] = rs'[k]
      BY <2>2
    <3>2. /\ Leads(rs, runs, i)
          /\ \A k \in h + 1 .. Len(runs) :
               runs[k].floor # i - 1 /\ ~(runs[k].op = "amb1" /\ runs[k].floor = i)
          /\ \A k \in h + 1 .. Len(runs') : runs'[k].floor # i - 1
      BY <1>3, <2>2
    <3> QED BY <1>1, <3>1, <3>2, LeadsSame
  <2> QED BY <1>1, <2>1, <2>2
<1> QED BY <1>1, <1>2, <1>3 DEF RunsInv

\* A chain of operations that returns to the run loop leaves the loop the same.
LEMMA LoopingIs ==
  ASSUME NEW rr \in Seq(Loops), rr # <<>>, rr[1] = Outermost
  PROVE  /\ Looping(rr) \in Seq(Loops) /\ Len(Looping(rr)) = Len(rr) /\ Looping(rr) # <<>>
         /\ Looping(rr)[1] = Outermost
         /\ \A k \in 1 .. Len(rr) : Same(rr[k], Looping(rr)[k])
<1> DEFINE l == Len(rr)
           qq == [rr EXCEPT ![l].looped = TRUE]
<1>1. l \in Nat /\ l > 0 /\ l \in 1 .. l /\ DOMAIN rr = 1 .. l
  OBVIOUS
<1>2. \A k \in 1 .. l : rr[k] \in Loops
  OBVIOUS
<1>3. [rr[l] EXCEPT !.looped = TRUE] \in Loops
  BY <1>1, <1>2 DEF Loops
<1>4. Looping(rr) = qq
  BY DEF Looping
<1>5. qq = [k \in 1 .. l |-> IF k = l THEN [rr[l] EXCEPT !.looped = TRUE] ELSE rr[k]]
  BY <1>1
<1>6. \A k \in 1 .. l : qq[k] = IF k = l THEN [rr[l] EXCEPT !.looped = TRUE] ELSE rr[k]
  BY <1>1
<1>7. \A k \in 1 .. l : qq[k] \in Loops
  BY <1>2, <1>3, <1>6
<1>8. qq \in Seq(Loops) /\ Len(qq) = l /\ qq # <<>>
  <2> HIDE DEF l, qq
  <2>1. qq = [k \in 1 .. l |-> qq[k]] /\ \A k \in 1 .. l : qq[k] \in Loops
    BY <1>5, <1>7
  <2> QED BY <1>1, <2>1
<1>9. \A k \in 1 .. l : Same(rr[k], qq[k])
  <2> SUFFICES ASSUME NEW k \in 1 .. l PROVE Same(rr[k], qq[k])
    OBVIOUS
  <2>1. rr[l] \in Loops
    BY <1>1, <1>2
  <2>2. LET r == [rr[l] EXCEPT !.looped = TRUE]
        IN  /\ r.op = rr[l].op /\ r.floor = rr[l].floor /\ r.at = rr[l].at /\ r.id = rr[l].id
            /\ r.body = rr[l].body /\ r.pc = rr[l].pc
    BY <2>1 DEF Loops
  <2> QED BY <1>6, <2>2 DEF Same
<1>10. qq[1] = Outermost
  <2>1. CASE l = 1
    <3> DEFINE r == Outermost
    <3>2. r \in [op : {"top"}, floor : {0}, looped : {TRUE}, at : {0}, id : {0}, body : {1},
                 left : {0}, pc : {Stop}, base : {0}]
      BY DEF Outermost
    <3> HIDE DEF r
    <3>3. [r EXCEPT !.looped = TRUE] = r
      BY <3>2
    <3>1. [Outermost EXCEPT !.looped = TRUE] = Outermost
      BY <3>3 DEF r
    <3> QED BY <1>6, <2>1, <3>1
  <2>2. CASE l # 1
    <3>1. qq[1] = rr[1]
      BY <1>1, <1>6, <2>2
    <3> QED BY <3>1
  <2> QED BY <2>1, <2>2
<1> HIDE DEF qq
<1> QED BY <1>4, <1>8, <1>9, <1>10

LEMMA SameSelf ==
  ASSUME NEW r PROVE Same(r, r)
BY DEF Same

\* The stack is cut back, or stays, and so do the loops.
LEMMA OpsKeep ==
  ASSUME OpsInv, rs \in Seq(Entries), runs \in Seq(Loops), runs' \in Seq(Loops), rs' \in Seq(Entries),
         ops' = ops,
         Len(runs') <= Len(runs), \A k \in 1 .. Len(runs') : Same(runs[k], runs'[k]),
         Len(rs') <= Len(rs), \A i \in 1 .. Len(rs') : rs[i] = rs'[i],
         side' # <<>> => "ensure" \in ops,
         mode' = "failed" => mode = "failed" \/ ops \cap {"fault", "fail"} # {} \/ CatchIndex = 0
  PROVE  OpsInv'
<1>1. Len(runs) \in Nat /\ Len(runs') \in Nat /\ Len(rs) \in Nat /\ Len(rs') \in Nat
  OBVIOUS
<1>2. \A k \in 2 .. Len(runs') : k \in 2 .. Len(runs) /\ runs'[k].op = runs[k].op
      /\ runs'[k].floor = runs[k].floor
  BY <1>1 DEF Same
<1>3. \A i \in 1 .. Len(rs') : i \in 1 .. Len(rs) /\ rs'[i] = rs[i]
  BY <1>1
<1>4. \A k \in 2 .. Len(runs') : (IF runs'[k].op \in Bodies THEN runs'[k].op ELSE "amb") \in ops'
  BY <1>2 DEF OpsInv
<1>5. \A i \in 1 .. Len(rs') : rs'[i].k = "mark" /\ rs'[i].kind = "exception" => "reset" \in ops'
  BY <1>3 DEF OpsInv
<1>6. ops' \cap {"fault", "fail"} # {} \/ mode' = "failed" =>
        \A i \in 1 .. Len(rs'), k \in 2 .. Len(runs') : IsCatch(rs', i) => i <= runs'[k].floor
  <2> SUFFICES ASSUME ops \cap {"fault", "fail"} # {} \/ mode' = "failed",
                      NEW i \in 1 .. Len(rs'), NEW k \in 2 .. Len(runs'), IsCatch(rs', i)
               PROVE  i <= runs'[k].floor
    OBVIOUS
  <2>1. i \in 1 .. Len(rs) /\ k \in 2 .. Len(runs) /\ IsCatch(rs, i)
    BY <1>2, <1>3 DEF IsCatch
  <2>2. CASE CatchIndex = 0
    <3>1. PromptIndex({"catch"}) = 0
      BY <2>2 DEF CatchIndex
    <3>2. i \in 0 + 1 .. Len(rs)
      BY <2>1
    <3> QED BY <2>1, <3>1, <3>2, PromptIndexIs DEF IsCatch
  <2>3. CASE CatchIndex # 0
    <3>1. i <= runs[k].floor
      BY <2>1, <2>3 DEF OpsInv
    <3> QED BY <1>2, <3>1
  <2> QED BY <2>2, <2>3
<1> QED BY <1>4, <1>5, <1>6 DEF OpsInv

LEMMA Facts ==
  ASSUME ProgramInv
  PROVE  /\ rs \in Seq(Entries) /\ Len(rs) \in Nat /\ WellFormed(rs, fresh) /\ fresh \in Nat /\ fresh > 0
         /\ Innermost(rs, base, Len(rs)) /\ base \in 0 .. Len(rs)
         /\ runs \in Seq(Loops) /\ runs # <<>> /\ runs[1] = Outermost /\ Len(runs) \in Nat /\ Len(runs) > 0
         /\ RunsInv /\ OpsInv /\ ControlInv /\ SideInv /\ pc \in Places /\ side \in Seq(Nat)
         /\ nOps \in 0 .. MaxOps /\ astray = "no" /\ ~lost
         /\ \A k \in 1 .. Len(runs) : Same(runs[k], runs[k])
<1>1. runs \in Seq(Loops) /\ runs # <<>> /\ runs[1] = Outermost
  BY DEF ProgramInv, RunsInv
<1>2. Len(runs) \in Nat /\ Len(runs) > 0
  BY <1>1
<1>3. rs \in Seq(Entries)
  BY DEF ProgramInv, WellFormed
<1>4. base \in 0 .. Len(rs)
  BY DEF ProgramInv, Innermost
<1>5. fresh \in Nat /\ fresh > 0 /\ nOps \in 0 .. MaxOps /\ pc \in Places
  BY DEF ProgramInv
<1>6. \A k \in 1 .. Len(runs) : Same(runs[k], runs[k])
  BY DEF Same
<1>7. /\ WellFormed(rs, fresh) /\ Innermost(rs, base, Len(rs))
      /\ RunsInv /\ OpsInv /\ ControlInv /\ SideInv
  BY DEF ProgramInv
<1>8. astray = "no" /\ ~lost
  BY <1>7 DEF ControlInv
<1>9. side \in Seq(Nat)
  BY <1>7 DEF SideInv
<1> QED BY <1>1, <1>2, <1>3, <1>4, <1>5, <1>6, <1>7, <1>8, <1>9

\* While it runs or unwinds, every entry leads where it should.
LEMMA AllLead ==
  ASSUME ProgramInv, mode \notin {"failed", "over"}, NEW i \in 1 .. Len(rs)
  PROVE  Leads(rs, runs, i)
BY DEF ProgramInv, RunsInv

LEMMA ChoiceBelow ==
  ASSUME RunsInv, NEW i, IsChoice(rs, i), Leads(rs, runs, i)
  PROVE  \E k \in 2 .. Len(runs) : /\ runs[k].op = "amb1" /\ runs[k].floor = i /\ runs[k].id = rs[i].id
                                   /\ i <= Floor /\ (i = Floor => k = Len(runs))
<1>1. PICK k \in 2 .. Len(runs) : runs[k].op = "amb1" /\ runs[k].floor = i /\ runs[k].id = rs[i].id
  BY DEF IsChoice, Leads
<1>2. Len(runs) \in Nat /\ Floor = runs[Len(runs)].floor /\ Floor \in Nat
  BY TopIs
<1>3. k \in 1 .. Len(runs) - 1 => runs[k].floor < Floor
  <2> SUFFICES ASSUME k \in 1 .. Len(runs) - 1 PROVE runs[k].floor < Floor
    OBVIOUS
  <2>1. runs[k].op \notin Bodies
    BY <1>1 DEF Bodies
  <2>2. runs[k].floor < Bottom(Top) /\ Bottom(Top) <= Floor
    BY <2>1, TopIs
  <2>3. runs[k].floor \in Nat /\ Bottom(Top) \in Nat
    <3>1. k \in 1 .. Len(runs) /\ Len(runs) > 1
      BY <1>2
    <3> QED BY <3>1, LoopIs, TopIs
  <2> QED BY <1>2, <2>2, <2>3
<1>4. k = Len(runs) \/ k \in 1 .. Len(runs) - 1
  BY <1>2
<1>5. runs[k].floor \in Nat
  BY <1>2, LoopIs
<1>6. i <= Floor /\ (i = Floor => k = Len(runs))
  BY <1>1, <1>2, <1>3, <1>4, <1>5
<1> QED BY <1>1, <1>6

\* Above its floor, a loop first comes upon a return.
LEMMA AboveFloor ==
  ASSUME ProgramInv, mode \notin {"failed", "over"}, Floor < Len(rs)
  PROVE  Floor + 1 \in 1 .. Len(rs) /\ rs[Floor + 1].k = "ret"
<1>1. RunsInv /\ rs \in Seq(Entries) /\ Len(rs) \in Nat /\ WellFormed(rs, fresh) /\ Floor \in Nat
  BY Facts, TopIs
<1>2. Floor + 1 \in 1 .. Len(rs)
  BY <1>1
<1>3. ~IsChoice(rs, Floor + 1)
  <2> SUFFICES ASSUME IsChoice(rs, Floor + 1) PROVE FALSE
    OBVIOUS
  <2>1. Leads(rs, runs, Floor + 1)
    BY <1>2, AllLead
  <2>2. Floor + 1 <= Floor
    BY <1>1, <2>1, ChoiceBelow
  <2> QED BY <1>1, <2>2
<1>4. CASE Len(runs) > 1
  <2>1. Nests(rs, runs[Len(runs) - 1], Top) /\ Floor = Top.floor
    <3>1. Len(runs) \in 2 .. Len(runs)
      BY <1>1, <1>4, TopIs
    <3> QED BY <1>1, <3>1, TopIs DEF RunsInv
  <2> QED BY <1>2, <1>3, <2>1 DEF Nests
<1>5. CASE Len(runs) = 1
  <2>1. Floor = 0
    BY <1>1, <1>5, TopIs
  <2>2. Supported(rs, 1) /\ rs[1] \in Entries /\ ~IsChoice(rs, 1)
    BY <1>1, <1>2, <1>3, <2>1 DEF WellFormed
  <2>3. rs[1].k = "ret"
    BY <2>2 DEF Supported, Entries, Depth, IsChoice
  <2> QED BY <1>2, <2>1, <2>3
<1>6. Len(runs) = 1 \/ Len(runs) > 1
  <2>1. Len(runs) \in Nat /\ Len(runs) > 0
    BY Facts
  <2> QED BY <2>1
<1> QED BY <1>4, <1>5, <1>6

\* Control returns to what set the loop off, or to the caller.
LEMMA Returns ==
  ASSUME ProgramInv, mode \notin {"failed", "over"}, NEW j \in 1 .. Len(rs), rs[j].k = "ret", Floor < j,
         \A i \in j + 1 .. Len(rs) : i \notin EnsureReturns(rs),
         NEW b, Innermost(rs, b, j), base' = b, rs' = Prefix(rs, j - 1), GoTo(rs[j], rs[j].of),
         ops' = ops, runs' = runs, fresh' = fresh, nOps' \in 0 .. MaxOps, astray' = astray,
         side' \in Seq(Nat), Increasing(side'), side' # <<>> => "ensure" \in ops,
         {side'[i] : i \in 1 .. Len(side')} = {rs[i].to.act : i \in EnsureReturns(rs)}
  PROVE  ProgramInv'
<1>1. /\ WellFormed(rs, fresh) /\ rs \in Seq(Entries) /\ fresh \in Nat /\ Len(rs) \in Nat /\ RunsInv /\ OpsInv
      /\ runs \in Seq(Loops) /\ runs[1] = Outermost /\ Len(runs) \in 1 .. Len(runs) /\ Len(runs) \in Nat
      /\ \A k \in 1 .. Len(runs) : Same(runs[k], runs[k])
  BY Facts
<1>2. /\ rs' \in Seq(Entries) /\ Len(rs') = j - 1 /\ \A i \in 1 .. j - 1 : rs[i] = rs'[i]
      /\ rs' = <<>> <=> j = 1
  <2>1. j - 1 \in 0 .. Len(rs)
    BY <1>1
  <2>2. rs' \in Seq(Entries) /\ Len(rs') = j - 1 /\ \A i \in 1 .. j - 1 : rs'[i] = rs[i]
    BY <1>1, <2>1, PrefixIs
  <2> QED BY <2>2
<1>3. Leads(rs, runs, j)
  BY AllLead
<1>4. rs[j] \in [k : {"ret"}, to : Places, of : Nat]
  BY <1>1 DEF Entries, Depth
<1>5. Floor \in Nat /\ Floor = Top.floor /\ \A k \in 1 .. Len(runs) : runs[k].floor <= Floor
      /\ runs[k].floor \in Nat
  <2>1. \A k \in 1 .. Len(runs) - 1 : runs[k].floor <= Bottom(Top) /\ Bottom(Top) <= Floor
    BY <1>1, TopIs
  <2>2. \A k \in 1 .. Len(runs) : runs[k].floor \in Nat /\ Bottom(runs[k]) \in Nat
    BY <1>1, LoopIs
  <2>3. Floor \in Nat /\ Floor = Top.floor /\ Top = runs[Len(runs)]
    BY <1>1, TopIs
  <2>4. ASSUME NEW k \in 1 .. Len(runs) PROVE runs[k].floor <= Floor
    <3>1. CASE k = Len(runs)
      BY <2>3, <3>1
    <3>2. CASE k \in 1 .. Len(runs) - 1
      <4>1. runs[k].floor <= Bottom(Top) /\ Bottom(Top) <= Floor
        BY <2>1, <3>2
      <4>2. runs[k].floor \in Nat /\ Floor \in Nat /\ Bottom(Top) \in Nat
        BY <1>1, <2>2, <2>3
      <4> QED BY <4>1, <4>2
    <3> QED BY <1>1, <3>1, <3>2
  <2> QED BY <2>2, <2>3, <2>4
<1>6. \/ mode' = "stopped" /\ pc' = pc /\ ~lost' /\ j - 1 = Floor /\ rs[j].to = Stop
      \/ mode' = "running" /\ pc' = rs[j].to /\ ~lost' /\ j > 1 /\ RunsIn(rs, Top, pc', j - 1)
  <2>1. ~lost
    BY Facts
  <2>2. Stop.code = "stop"
    BY DEF Stop, At
  <2>3. CASE j = 1
    <3>1. rs[j] = Ret(Stop, 1)
      BY <1>3, <2>3 DEF Leads
    <3>2. rs[j].to = Stop
      BY <3>1 DEF Ret
    <3>3. mode' = "stopped" /\ pc' = pc /\ ~lost'
      BY <2>1, <2>2, <3>2 DEF GoTo
    <3>4. j - 1 = Floor
      BY <1>5, <2>3
    <3> QED BY <3>2, <3>3, <3>4
  <2>4. CASE j # 1 /\ Floor = j - 1
    <3>1. Len(runs) > 1 /\ Len(runs) \in 2 .. Len(runs)
      <4>1. Len(runs) # 1
        BY <1>1, <2>4, TopIs
      <4> DEFINE l == Len(runs)
      <4>2. l \in Nat /\ l > 0 /\ l # 1
        BY <4>1, Facts
      <4> HIDE DEF l
      <4>3. l > 1 /\ l \in 2 .. l
        BY <4>2
      <4> QED BY <4>3 DEF l
    <3>2. Top = runs[Len(runs)]
      BY DEF Top
    <3>3. IF Top.op \in Bodies THEN rs[j].to = At("plain", Top.body, 0) ELSE rs[j] = Ret(Stop, Top.body)
      <4>1. \A i \in Len(runs) + 1 .. Len(runs) : runs[i].floor # j - 1
        BY <1>1
      <4>2. runs[Len(runs)].floor = j - 1
        BY <1>5, <2>4, <3>2
      <4> QED BY <1>3, <3>1, <3>2, <4>1, <4>2 DEF Leads
    <3>4. CASE Top.op \in Bodies
      <4>1. rs[j].to = At("plain", Top.body, 0) /\ rs[j].to.code # "stop"
        BY <3>3, <3>4 DEF At
      <4>2. mode' = "running" /\ pc' = rs[j].to /\ ~lost'
        BY <2>1, <4>1 DEF GoTo
      <4>3. RunsIn(rs, Top, pc', j - 1)
        BY <1>5, <2>4, <3>4, <4>1, <4>2 DEF RunsIn
      <4> QED BY <2>4, <4>2, <4>3
    <3>5. CASE Top.op \notin Bodies
      <4>1. rs[j].to = Stop
        BY <3>3, <3>5 DEF Ret
      <4> QED BY <2>1, <2>2, <2>4, <4>1 DEF GoTo
    <3> QED BY <3>4, <3>5
  <2>5. CASE j # 1 /\ Floor # j - 1
    <3>1. j - 1 > Floor /\ \A k \in 2 .. Len(runs) : runs[k].floor # j - 1
      BY <1>1, <1>5, <2>5
    <3>2. RunsOn(rs, rs[j].to, j - 1)
      BY <1>3, <2>5, <3>1 DEF Leads
    <3>3. rs[j].to.code # "stop"
      BY <3>2 DEF RunsOn
    <3>4. mode' = "running" /\ pc' = rs[j].to /\ ~lost'
      BY <2>1, <3>3 DEF GoTo
    <3>5. RunsIn(rs, Top, pc', j - 1)
      BY <1>5, <3>1, <3>2, <3>4 DEF RunsIn
    <3> QED BY <2>5, <3>4, <3>5
  <2> QED BY <2>3, <2>4, <2>5
<1>7. WellFormed(rs', fresh)
  <2>1. j - 1 > 0 => rs[j - 1].k # "header" /\ j - 1 \notin EnsureReturns(rs)
    <3> SUFFICES ASSUME j - 1 > 0 PROVE rs[j - 1].k # "header" /\ j - 1 \notin EnsureReturns(rs)
      OBVIOUS
    <3>1. Followed(rs, j - 1) /\ (j - 1) + 1 = j
      BY <1>1 DEF WellFormed
    <3> QED BY <3>1 DEF Followed
  <2>2. j - 1 \in 0 .. Len(rs)
    BY <1>1
  <2> QED BY <1>1, <2>1, <2>2, CutBack
<1> DEFINE p == j - 1
<1>15. p \in Nat /\ p <= Len(rs) /\ p <= Len(rs') /\ Len(rs') = p /\ p \in 0 .. p /\ (p > 0 => p \in 1 .. p)
  BY <1>1, <1>2
<1>16. \A i \in 1 .. p : rs[i] = rs'[i]
  BY <1>2
<1>8. Innermost(rs', base', j - 1)
  <2>1. Innermost(rs, b, j - 1)
    BY <1>1 DEF Innermost
  <2>2. Innermost(rs, b, p) => Innermost(rs', b, p)
    <3>1. p \in Nat /\ p \in 0 .. p
      BY <1>15
    <3> HIDE DEF p
    <3> SUFFICES ASSUME Innermost(rs, b, p) PROVE Innermost(rs', b, p)
      OBVIOUS
    <3> QED BY <1>16, <3>1, AgreeInnermost
  <2> QED BY <2>1, <2>2
<1>9. RunsInv'
  <2>1. \A i \in 1 .. p : Leads(rs, runs, i)
    BY <1>1, AllLead
  <2>2. \A k \in Len(runs) + 1 .. Len(runs) : FALSE
    BY <1>1
  <2> HIDE DEF p
  <2>3. \A i \in p + 1 .. Len(rs') : FALSE
    BY <1>15
  <2>4. Len(runs') = Len(runs) /\ runs' \in Seq(Loops)
    BY <1>1
  <2>5. /\ rs \in Seq(Entries) /\ rs' \in Seq(Entries) /\ p \in Nat /\ p <= Len(rs) /\ p <= Len(rs')
        /\ Len(rs') = p
    BY <1>1, <1>2, <1>15
  <2>6. /\ RunsInv /\ Len(runs) \in 1 .. Len(runs) /\ Len(runs) <= Len(runs') /\ runs'[1] = Outermost
        /\ \A k \in 1 .. Len(runs) : Same(runs[k], runs'[k])
    BY <1>1, <2>4
  <2>7. /\ \A k \in Len(runs) + 1 .. Len(runs') : Nests(rs', runs'[k - 1], runs'[k])
        /\ \A i \in p + 1 .. Len(rs') : Leads(rs', runs', i)
    BY <2>2, <2>3, <2>4
  <2>8. \A i \in 1 .. p : mode' \notin {"failed", "over"} \/ i <= Floor' \/ i <= CatchIndex' =>
           /\ Leads(rs, runs, i)
           /\ \A k \in Len(runs) + 1 .. Len(runs) :
                runs[k].floor # i - 1 /\ ~(runs[k].op = "amb1" /\ runs[k].floor = i)
           /\ \A k \in Len(runs) + 1 .. Len(runs') : runs'[k].floor # i - 1
    BY <2>1, <2>2, <2>4
  <2> QED BY <1>16, <2>4, <2>5, <2>6, <2>7, <2>8, RunsKeep
<1>10. OpsInv'
  BY <1>1, <1>2, <1>6, OpsKeep
<1>11. ControlInv'
  <2>1. astray = "no"
    BY Facts
  <2>2. Top' = Top /\ Floor' = Floor
    BY DEF Top, Floor
  <2>3. CASE mode' = "stopped"
    BY <1>2, <1>6, <2>1, <2>2, <2>3 DEF ControlInv
  <2>4. CASE mode' = "running"
    <3>1. RunsIn(rs', Top, pc', j - 1)
      <4>1. p > 0 /\ RunsIn(rs, Top, pc', p)
        BY <1>6, <2>4
      <4>2. RunsIn(rs', Top, pc', p)
        <5> HIDE DEF p
        <5>1. p \in Nat /\ p \in 1 .. p /\ Same(Top, Top)
          BY <1>15, <4>1, SameSelf
        <5> QED BY <1>16, <4>1, <5>1, AgreeRunsIn
      <4> QED BY <4>2
    <3> QED BY <1>2, <1>6, <2>1, <2>2, <2>4, <3>1 DEF ControlInv
  <2> QED BY <1>6, <2>3, <2>4
<1>12. SideInv'
  <2>1. pc'.code = rs[j].to.code \/ mode' # "running"
    BY <1>6
  <2>2. mode' # "running" => rs[j].to.code # "ensure"
    BY <1>6 DEF Stop, At
  <2> DEFINE E == {rs'[i].to.act : i \in EnsureReturns(rs')}
  <2>3. EnsureReturns(rs) = EnsureReturns(rs') \cup (IF rs[j].to.code = "ensure" THEN {j} ELSE {})
    <3>1. \A i \in EnsureReturns(rs) : i < j \/ (i = j /\ rs[j].to.code = "ensure")
      BY <1>1 DEF EnsureReturns
    <3>2. \A i \in 1 .. j - 1 : i \in EnsureReturns(rs) <=> i \in EnsureReturns(rs')
      <4>1. \A i \in 1 .. p : i \in 1 .. Len(rs) /\ i \in 1 .. Len(rs') /\ rs'[i] = rs[i]
        <5> HIDE DEF p
        <5> QED BY <1>1, <1>15, <1>16
      <4> HIDE DEF p
      <4>2. \A i \in 1 .. p : i \in EnsureReturns(rs) <=> i \in EnsureReturns(rs')
        BY <4>1 DEF EnsureReturns
      <4> QED BY <4>2 DEF p
    <3>3. EnsureReturns(rs') \subseteq 1 .. j - 1 /\ EnsureReturns(rs) \subseteq 1 .. Len(rs)
      BY <1>2 DEF EnsureReturns
    <3>4. j \in EnsureReturns(rs) <=> rs[j].to.code = "ensure"
      BY DEF EnsureReturns
    <3>5. \A i \in EnsureReturns(rs) : i \in 1 .. j - 1 \/ i = j
      BY <1>1, <3>1, <3>3
    <3> QED BY <3>2, <3>3, <3>4, <3>5
  <2>4. \A i \in EnsureReturns(rs') : rs'[i] = rs[i]
    BY <1>2 DEF EnsureReturns
  <2>5. {rs[i].to.act : i \in EnsureReturns(rs)} = E
            \cup (IF rs[j].to.code = "ensure" THEN {rs[j].to.act} ELSE {})
    BY <2>3, <2>4
  <2>6. (IF mode' = "running" /\ pc'.code = "ensure" THEN {pc'.act} ELSE {}) =
           (IF rs[j].to.code = "ensure" THEN {rs[j].to.act} ELSE {})
    BY <1>6, <2>2
  <2> HIDE DEF E
  <2>7. {side'[i] : i \in 1 .. Len(side')} =
           E \cup (IF mode' = "running" /\ pc'.code = "ensure" THEN {pc'.act} ELSE {})
    BY <2>5, <2>6
  <2> QED BY <2>7 DEF SideInv, E
<1>13. pc' \in Places
  BY <1>4, <1>6, Facts
<1>14. fresh' \in Nat \ {0} /\ mode' \in {"running", "stopped", "unwinding", "failed", "over"}
  BY <1>6 DEF ProgramInv
<1> QED BY <1>2, <1>7, <1>8, <1>9, <1>10, <1>11, <1>12, <1>13, <1>14 DEF ProgramInv

----------------------------------------------------------------------------
(* What runs.                                                               *)

LEMMA Nested ==
  ASSUME ProgramInv, Len(runs) > 1
  PROVE  /\ Len(runs) - 1 \in 1 .. Len(runs) /\ Nests(rs, runs[Len(runs) - 1], Top)
         /\ runs[Len(runs) - 1] \in Loops /\ Top \in Loops /\ Top.op # "top"
<1>1. Len(runs) \in Nat /\ runs \in Seq(Loops) /\ RunsInv
  BY Facts
<1> DEFINE l == Len(runs)
<1>2. l \in Nat /\ l > 1
  BY <1>1
<1> HIDE DEF l
<1>3. l \in 2 .. l /\ l - 1 \in 1 .. l /\ l \in 1 .. l
  BY <1>2
<1>4. Nests(rs, runs[l - 1], runs[l])
  BY <1>1, <1>3 DEF RunsInv, l
<1>5. runs[l - 1] \in Loops /\ runs[l] \in Loops
  BY <1>1, <1>3 DEF l
<1> QED BY <1>3, <1>4, <1>5 DEF l, Top, Nests

LEMMA Running ==
  ASSUME ProgramInv, mode = "running"
  PROVE  /\ Len(rs) > 0 /\ Floor <= Len(rs) /\ RunsIn(rs, Top, pc, Len(rs)) /\ Floor \in Nat
         /\ pc.code \in Codes /\ pc.act \in Nat /\ pc.env \in Nat
         /\ Len(rs) > Floor => RunsOn(rs, pc, Len(rs))
         /\ Len(rs) = Floor => /\ Len(runs) > 1 /\ Top.op \in Bodies /\ rs[Len(rs)].k # "mark"
                               /\ pc = At("plain", Top.body, 0)
         /\ ~IsCatch(rs, Len(rs)) /\ ~IsChoice(rs, Len(rs))
<1>1. rs # <<>> /\ RunsIn(rs, Top, pc, Len(rs)) /\ Floor = Top.floor /\ Floor \in Nat
  BY Facts, TopIs DEF ControlInv
<1>2. Len(rs) \in Nat /\ rs \in Seq(Entries) /\ Len(rs) > 0
  BY <1>1, Facts
<1>3. (Len(rs) > Floor /\ RunsOn(rs, pc, Len(rs)))
        \/ (Len(rs) = Floor /\ Top.op \in Bodies /\ pc = At("plain", Top.body, 0))
  BY <1>1, <1>2 DEF RunsIn
<1>4. ASSUME Len(rs) = Floor PROVE Len(runs) > 1 /\ Top.op \in Bodies /\ rs[Len(rs)].k # "mark"
  <2>1. Top.op \in Bodies
    BY <1>2, <1>3, <1>4
  <2>2. Len(runs) # 1
    BY <1>2, <1>4, Facts, TopIs
  <2>3. Len(runs) > 1
    <3> DEFINE l == Len(runs)
    <3>1. l \in Nat /\ l > 0 /\ l # 1
      BY <2>2, Facts
    <3> HIDE DEF l
    <3>2. l > 1
      BY <3>1
    <3> QED BY <3>2 DEF l
  <2>4. Nests(rs, runs[Len(runs) - 1], Top)
    BY <2>3, Nested
  <2>5. Floor <= Len(rs)
    BY <1>2, <1>4
  <2> QED BY <1>1, <1>4, <2>1, <2>3, <2>4, <2>5 DEF Nests
<1>5. pc \in Places
  BY Facts
<1>6. ~IsCatch(rs, Len(rs)) /\ ~IsChoice(rs, Len(rs))
  <2>1. CASE Len(rs) > Floor /\ RunsOn(rs, pc, Len(rs))
    BY <2>1 DEF RunsOn, IsCatch, IsChoice
  <2>2. CASE Len(rs) = Floor
    BY <1>4, <2>2 DEF IsCatch, IsChoice
  <2> QED BY <1>3, <2>1, <2>2
<1> QED BY <1>1, <1>2, <1>3, <1>4, <1>5, <1>6 DEF Places

\* The body of a combinator ends: the C function that runs it has the next word.
LEMMA StopsKeep ==
  ASSUME ProgramInv, mode = "running", Len(rs) = Floor, mode' = "stopped",
         UNCHANGED <<ops, rs, base, runs, pc, fresh, astray, side>>, ~lost', nOps' \in 0 .. MaxOps
  PROVE  ProgramInv'
<1>1. pc.code = "plain"
  BY Running DEF At
<1>2. RunsInv'
  BY Facts DEF RunsInv
<1>3. OpsInv'
  BY Facts DEF OpsInv
<1>4. ControlInv'
  BY Facts DEF ControlInv, Floor, Top
<1>5. SideInv'
  <2>1. {rs'[i].to.act : i \in EnsureReturns(rs')} = {rs[i].to.act : i \in EnsureReturns(rs)}
    OBVIOUS
  <2>2. side \in Seq(Nat) /\ Increasing(side)
        /\ {side[i] : i \in 1 .. Len(side)} = {rs[i].to.act : i \in EnsureReturns(rs)}
    BY <1>1, Facts DEF SideInv
  <2> QED BY <2>1, <2>2 DEF SideInv
<1>6. (WellFormed(rs, fresh) /\ Innermost(rs, base, Len(rs)))'
  BY Facts
<1> QED BY <1>2, <1>3, <1>4, <1>5, <1>6 DEF ProgramInv

\* p_exit at the floor of a combinator stops its loop and takes nothing.
LEMMA ExitStops ==
  ASSUME ProgramInv, mode = "running", Len(rs) = Floor, Exit(rs, base, pc.act)
  PROVE  rs' = rs /\ base' = base /\ mode' = "stopped" /\ pc' = pc /\ ~lost'
<1> DEFINE n == Len(rs)
<1>1. /\ rs \in Seq(Entries) /\ n \in Nat /\ n > 0 /\ rs[n].k # "mark" /\ pc = At("plain", Top.body, 0)
      /\ base \in 0 .. n
  BY Running, Facts
<1>2. Unmarked(rs) = rs
  <2>1. \A i \in n + 1 .. Len(rs) : rs[i].k = "mark"
    BY <1>1
  <2>2. Unmarked(rs) = Prefix(rs, n)
    BY <1>1, <2>1, UnmarkedIs
  <2> QED BY <1>1, <2>2 DEF Prefix
<1>3. WithoutLocals(rs, base) = [rs |-> rs, base |-> base]
  <2>1. ~(base > Floor /\ Len(rs) = base + 1)
    BY <1>1
  <2> QED BY <2>1 DEF WithoutLocals
<1>4. Len(rs) <= Floor
  BY <1>1
<1>5. ~lost /\ pc.act = Top.body
  BY <1>1, Facts DEF At
<1>6. /\ base' = base /\ rs' = rs /\ mode' = "stopped" /\ pc' = pc
      /\ lost' = (lost \/ pc.act # Top.body)
  BY <1>2, <1>3, <1>4 DEF Exit
<1> QED BY <1>5, <1>6

----------------------------------------------------------------------------
(* Operations that put entries on the stack.                                *)

LEMMA Concatenated ==
  ASSUME NEW s \in Seq(Entries), NEW t \in Seq(Entries)
  PROVE  /\ s \o t \in Seq(Entries) /\ Len(s \o t) = Len(s) + Len(t)
         /\ \A i \in 1 .. Len(s) : (s \o t)[i] = s[i]
         /\ \A i \in 1 .. Len(t) : (s \o t)[Len(s) + i] = t[i]
OBVIOUS

\* The entries of t above n others are numbered from f on and below g.
Grown(t, n, f, g) ==
  \A i \in n + 1 .. Len(t) :
    /\ Supported(t, i) /\ Followed(t, i)
    /\ t[i].k = "ret" =>
         /\ f <= t[i].of /\ t[i].of < g
         /\ \A j \in i + 1 .. Len(t) : t[j].k = "ret" => t[i].of < t[j].of
    /\ t[i].k = "mark" => t[i].id < g /\ t[i].uid = t[i].id

LEMMA GrowsWell ==
  ASSUME NEW s, NEW f \in Nat, f > 0, WellFormed(s, f), NEW t \in Seq(Entries), Len(s) <= Len(t),
         NEW n \in Nat, n = Len(s), \A i \in 1 .. n : t[i] = s[i], NEW g \in Nat, f <= g,
         Grown(t, n, f, g)
  PROVE  WellFormed(t, g)
<1> USE DEF Grown
<1>1. s \in Seq(Entries)
  BY DEF WellFormed
<1>2. \A i \in 1 .. n : Supported(t, i) /\ Followed(t, i)
  BY Grows
<1>3. \A i \in 1 .. Len(t) : Supported(t, i) /\ Followed(t, i)
  BY <1>2
<1>0. \A j \in 1 .. Len(t) : /\ t[j].k = "ret" => t[j].of \in Nat
                             /\ t[j].k = "mark" => t[j].id \in Nat
  <2> SUFFICES ASSUME NEW j \in 1 .. Len(t)
               PROVE  (t[j].k = "ret" => t[j].of \in Nat) /\ (t[j].k = "mark" => t[j].id \in Nat)
    OBVIOUS
  <2>1. t[j] \in Entries
    OBVIOUS
  <2> QED BY <2>1 DEF Entries, Depth
<1>4. ASSUME NEW i \in 1 .. Len(t), t[i].k = "ret"
      PROVE  /\ 0 < t[i].of /\ t[i].of < g
             /\ \A j \in i + 1 .. Len(t) : t[j].k = "ret" => t[i].of < t[j].of
  <2>1. CASE i \in n + 1 .. Len(t)
    BY <1>0, <1>4, <2>1
  <2>2. CASE i \in 1 .. n
    <3>1. t[i] = s[i] /\ 0 < s[i].of /\ s[i].of < f
          /\ \A j \in i + 1 .. n : s[j].k = "ret" => s[i].of < s[j].of
      BY <1>1, <1>4, <2>2 DEF WellFormed, Numbered
    <3>2. s[i].of \in Nat
      BY <1>0, <1>4, <3>1
    <3>3. ASSUME NEW j \in i + 1 .. Len(t), t[j].k = "ret" PROVE t[i].of < t[j].of
      <4>1. CASE j \in i + 1 .. n
        BY <2>2, <3>1, <3>3, <4>1
      <4>2. CASE j \in n + 1 .. Len(t)
        <5>1. t[j].of \in Nat /\ f <= t[j].of
          BY <1>0, <3>3, <4>2
        <5> QED BY <1>1, <3>1, <3>2, <5>1
      <4> QED BY <2>2, <3>3, <4>1, <4>2
    <3> QED BY <1>1, <3>1, <3>2, <3>3
  <2> QED BY <2>1, <2>2
<1>5. ASSUME NEW i \in 1 .. Len(t), t[i].k = "mark" PROVE t[i].id < g /\ t[i].uid = t[i].id
  <2>1. CASE i \in n + 1 .. Len(t)
    BY <1>5, <2>1
  <2>2. CASE i \in 1 .. n
    <3>1. t[i] = s[i] /\ s[i].id < f /\ s[i].uid = s[i].id
      BY <1>1, <1>5, <2>2 DEF WellFormed, Numbered
    <3> QED BY <1>0, <1>5, <3>1
  <2> QED BY <2>1, <2>2
<1>6. Numbered(t, g)
  BY <1>4, <1>5 DEF Numbered
<1> QED BY <1>3, <1>6 DEF WellFormed

LEMMA FloorsBelow ==
  ASSUME ProgramInv
  PROVE  /\ Floor \in Nat /\ Floor = Top.floor /\ Top = runs[Len(runs)] /\ Len(runs) \in 1 .. Len(runs)
         /\ \A k \in 1 .. Len(runs) : runs[k].floor \in Nat /\ runs[k].floor <= Floor
         /\ \A k \in 1 .. Len(runs) - 1 : runs[k].floor = Floor =>
              runs[k].op \in Bodies /\ Bottom(Top) = Floor
         /\ Len(runs) = 1 => Top = Outermost
<1>1. /\ RunsInv /\ Len(runs) \in Nat /\ Len(runs) > 0 /\ Len(runs) \in 1 .. Len(runs)
      /\ Floor \in Nat /\ Floor = Top.floor /\ Top = runs[Len(runs)] /\ (Len(runs) = 1 => Top = Outermost)
  BY Facts, TopIs
<1>2. \A k \in 1 .. Len(runs) : runs[k].floor \in Nat /\ Bottom(runs[k]) \in Nat
  BY <1>1, LoopIs
<1>3. ASSUME NEW k \in 1 .. Len(runs) - 1
      PROVE  runs[k].floor <= Floor /\ (runs[k].floor = Floor => runs[k].op \in Bodies /\ Bottom(Top) = Floor)
  <2>1. /\ runs[k].floor <= Bottom(Top) /\ Bottom(Top) <= Floor
        /\ runs[k].op \notin Bodies => runs[k].floor < Bottom(Top)
    BY <1>1, TopIs
  <2>2. k \in 1 .. Len(runs)
    BY <1>1
  <2>3. runs[k].floor \in Nat /\ Bottom(Top) \in Nat
    BY <1>1, <1>2, <2>2
  <2> QED BY <1>1, <2>1, <2>3
<1>4. \A k \in 1 .. Len(runs) : runs[k].floor <= Floor
  <2>1. \A k \in 1 .. Len(runs) : k = Len(runs) \/ k \in 1 .. Len(runs) - 1
    BY <1>1
  <2> QED BY <1>1, <1>3, <2>1
<1> QED BY <1>1, <1>2, <1>3, <1>4

\* The entries that an operation puts on n others.
Pushed(n) ==
  \A i \in n + 1 .. Len(rs') :
    /\ Supported(rs', i) /\ Followed(rs', i) /\ ~IsChoice(rs', i)
    /\ rs'[i].k = "ret" =>
         /\ fresh <= rs'[i].of /\ rs'[i].of < fresh'
         /\ \A j \in i + 1 .. Len(rs') : rs'[j].k = "ret" => rs'[i].of < rs'[j].of
         /\ IF i = n + 1 THEN rs'[i].to = pc ELSE RunsOn(rs', rs'[i].to, i - 1)
    /\ rs'[i].k = "mark" => rs'[i].id < fresh' /\ rs'[i].uid = rs'[i].id
    /\ rs'[i].k = "mark" /\ rs'[i].kind = "exception" => "reset" \in ops
    /\ IsCatch(rs', i) => Len(runs) = 1 \/ ops \cap {"catch", "ensure"} # {}

LEMMA Pushes ==
  ASSUME ProgramInv, Orderly(ops), InProgram, NEW n \in Nat, n = Len(rs),
         rs' \in Seq(Entries), n < Len(rs'), \A i \in 1 .. n : rs'[i] = rs[i],
         fresh' \in Nat, fresh <= fresh',
         Pushed(n),
         n = Floor => rs'[n + 1].k = "ret",
         Innermost(rs', base', Len(rs')), RunsOn(rs', pc', Len(rs')), pc' \in Places,
         mode' = "running", nOps' \in 0 .. MaxOps, SideInv', side' # <<>> => "ensure" \in ops,
         UNCHANGED <<ops, runs, astray, lost>>
  PROVE  ProgramInv'
<1> USE DEF Pushed
<1>1. /\ WellFormed(rs, fresh) /\ fresh \in Nat /\ fresh > 0 /\ rs \in Seq(Entries) /\ RunsInv /\ OpsInv
      /\ runs \in Seq(Loops) /\ Len(runs) \in Nat /\ Len(runs) > 0 /\ runs # <<>> /\ runs[1] = Outermost
      /\ \A k \in 1 .. Len(runs) : Same(runs[k], runs[k])
  BY Facts
<1>2. mode = "running" /\ n > 0 /\ Floor <= n /\ RunsIn(rs, Top, pc, n)
  BY Running DEF InProgram
<1>3. WellFormed(rs', fresh')
  <2> DEFINE t == rs'
             g == fresh'
  <2>1. Grown(t, n, fresh, g)
    BY DEF Grown
  <2>2. /\ t \in Seq(Entries) /\ Len(rs) <= Len(t) /\ n = Len(rs) /\ (\A i \in 1 .. n : t[i] = rs[i])
        /\ g \in Nat /\ fresh <= g
    BY <1>1
  <2> HIDE DEF t, g, Pushed
  <2>3. WellFormed(t, g)
    BY <1>1, <2>1, <2>2, GrowsWell
  <2> QED BY <2>3 DEF t, g
<1>4. /\ Floor \in Nat /\ Floor = Top.floor /\ Top = runs[Len(runs)] /\ Len(runs) \in 1 .. Len(runs)
      /\ \A k \in 1 .. Len(runs) : runs[k].floor \in Nat /\ runs[k].floor <= Floor
      /\ Len(runs) = 1 => Top = Outermost
  BY FloorsBelow
<1>5. RunsIn(rs', Top, pc, n)
  <2>1. n \in 1 .. n /\ \A i \in 1 .. n : rs[i] = rs'[i]
    BY <1>2
  <2> QED BY <1>2, <2>1, SameSelf, AgreeRunsIn
<1>6. ASSUME NEW i \in n + 1 .. Len(rs') PROVE Leads(rs', runs, i)
  <2>1. CASE i = n + 1 /\ rs'[i].k = "ret"
    <3> DEFINE l == Len(runs)
    <3>1. /\ runs[l].floor \in Nat /\ l = Len(runs) /\ RunsIn(rs', runs[l], pc, n) /\ rs'[n + 1].to = pc
          /\ rs'[n + 1].k = "ret" /\ runs # <<>>
          /\ \A k \in 1 .. l : runs[k].floor <= runs[l].floor /\ runs[k].floor \in Nat
      BY <1>1, <1>4, <1>5, <2>1
    <3>2. l = 1 => runs[l].op \notin Bodies
      BY <1>4 DEF Outermost, Bodies
    <3> HIDE DEF l
    <3>3. Leads(rs', runs, n + 1)
      BY <1>1, <1>2, <3>1, <3>2, LeadsBack
    <3> QED BY <2>1, <3>3
  <2>2. CASE ~(i = n + 1 /\ rs'[i].k = "ret")
    <3>1. i - 1 > Floor
      <4>1. CASE i = n + 1
        BY <1>2, <1>4, <2>2, <4>1
      <4>2. CASE i > n + 1
        BY <1>2, <1>4, <4>2
      <4> QED BY <4>1, <4>2
    <3>2. i \in Nat /\ i > 1 /\ \A k \in 2 .. Len(runs) : runs[k].floor # i - 1
      <4>1. \A k \in 2 .. Len(runs) : k \in 1 .. Len(runs)
        BY <1>1
      <4>2. i - 1 \in Nat /\ i > 1
        BY <1>2
      <4> QED BY <1>4, <3>1, <4>1, <4>2
    <3>3. rs'[i].k = "ret" => RunsOn(rs', rs'[i].to, i - 1)
      BY <2>2
    <3>4. ~IsChoice(rs', i)
      OBVIOUS
    <3> QED BY <3>2, <3>3, <3>4, LeadsOn
  <2> QED BY <2>1, <2>2
<1>7. RunsInv'
  <2>1. \A i \in 1 .. n : Leads(rs, runs, i)
    BY <1>2, AllLead
  <2>2. \A k \in Len(runs) + 1 .. Len(runs) : FALSE
    BY <1>1
  <2>3. Len(runs') = Len(runs) /\ runs' \in Seq(Loops) /\ runs'[1] = Outermost
        /\ \A k \in 1 .. Len(runs) : Same(runs[k], runs'[k])
    BY <1>1
  <2>4. /\ rs \in Seq(Entries) /\ rs' \in Seq(Entries) /\ n \in Nat /\ n <= Len(rs) /\ n <= Len(rs')
        /\ \A i \in 1 .. n : rs[i] = rs'[i]
    BY <1>1
  <2>5. \A k \in 2 .. Len(runs) : runs[k].floor <= n /\ (runs[k].floor = n => rs'[n + 1].k = "ret")
    <3> SUFFICES ASSUME NEW k \in 2 .. Len(runs)
                 PROVE  runs[k].floor <= n /\ (runs[k].floor = n => rs'[n + 1].k = "ret")
      OBVIOUS
    <3>1. runs[k].floor \in Nat /\ runs[k].floor <= Floor /\ Floor <= n
      BY <1>1, <1>2, <1>4
    <3>2. CASE runs[k].floor = n
      <4>1. n = Floor
        BY <1>4, <3>1, <3>2
      <4> QED BY <3>1, <3>2, <4>1
    <3>3. CASE runs[k].floor # n
      BY <1>4, <3>1, <3>3
    <3> QED BY <3>2, <3>3
  <2>6. \A k \in Len(runs) + 1 .. Len(runs') : Nests(rs', runs'[k - 1], runs'[k])
    BY <2>2, <2>3
  <2>7. \A i \in n + 1 .. Len(rs') : Leads(rs', runs', i)
    BY <1>6
  <2>8. \A i \in 1 .. n : mode' \notin {"failed", "over"} \/ i <= Floor' \/ i <= CatchIndex' =>
           /\ Leads(rs, runs, i)
           /\ \A k \in Len(runs) + 1 .. Len(runs) :
                runs[k].floor # i - 1 /\ ~(runs[k].op = "amb1" /\ runs[k].floor = i)
           /\ \A k \in Len(runs) + 1 .. Len(runs') : runs'[k].floor # i - 1
    BY <2>1, <2>2, <2>3
  <2>9. Len(runs) \in 1 .. Len(runs) /\ Len(runs) <= Len(runs')
    BY <1>1, <1>4, <2>3
  <2> QED BY <1>1, <2>3, <2>4, <2>5, <2>6, <2>7, <2>8, <2>9, RunsKeep
<1>8. OpsInv'
  <2>1. \A i \in 1 .. Len(rs') : i \in 1 .. n \/ i \in n + 1 .. Len(rs')
    OBVIOUS
  <2>2. \A i \in 1 .. Len(rs') : rs'[i].k = "mark" /\ rs'[i].kind = "exception" => "reset" \in ops
    BY <2>1 DEF OpsInv, ProgramInv
  <2>3. ASSUME ops \cap {"fault", "fail"} # {}, NEW i \in 1 .. Len(rs'), NEW k \in 2 .. Len(runs),
               IsCatch(rs', i)
        PROVE  i <= runs[k].floor
    <3>1. CASE i \in 1 .. n
      BY <1>1, <2>3, <3>1 DEF OpsInv, IsCatch
    <3>2. CASE i \in n + 1 .. Len(rs')
      <4>1. Len(runs) # 1
        BY <1>1
      <4>2. ops \cap {"catch", "ensure"} # {}
        BY <2>3, <3>2, <4>1
      <4>3. (IF runs[k].op \in Bodies THEN runs[k].op ELSE "amb") \in ops
        BY <1>1 DEF OpsInv
      <4>4. ops \cap {"amb", "each", "times"} # {}
        BY <4>3 DEF Bodies
      <4> QED BY <2>3, <4>2, <4>4 DEF Orderly
    <3> QED BY <2>1, <3>1, <3>2
  <2>4. \A k \in 2 .. Len(runs) : (IF runs[k].op \in Bodies THEN runs[k].op ELSE "amb") \in ops
    BY <1>1 DEF OpsInv
  <2> QED BY <2>2, <2>3, <2>4 DEF OpsInv
<1>9. ControlInv'
  <2>1. rs' # <<>> /\ Len(rs') > Floor
    BY <1>2, <1>4
  <2>2. RunsIn(rs', Top, pc', Len(rs'))
    BY <1>4, <2>1 DEF RunsIn
  <2>3. Top' = Top /\ astray' = "no" /\ ~lost'
    BY Facts DEF Top
  <2> QED BY <2>1, <2>2, <2>3 DEF ControlInv
<1>10. fresh' \in Nat \ {0} /\ mode' \in {"running", "stopped", "unwinding", "failed", "over"}
  BY <1>1
<1> QED BY <1>3, <1>7, <1>8, <1>9, <1>10 DEF ProgramInv

\* The ensures in progress, when no other is entered.
LEMMA SideStays ==
  ASSUME ProgramInv, InProgram, NEW n \in Nat, n = Len(rs),
         rs' \in Seq(Entries), n < Len(rs'), \A i \in 1 .. n : rs'[i] = rs[i],
         \A i \in n + 1 .. Len(rs') : i \notin EnsureReturns(rs'),
         pc'.code # "ensure", side' = side
  PROVE  SideInv' /\ (side' # <<>> => "ensure" \in ops)
<1>1. EnsureReturns(rs') = EnsureReturns(rs)
  BY DEF EnsureReturns
<1>2. \A i \in EnsureReturns(rs) : rs'[i] = rs[i]
  BY DEF EnsureReturns
<1>3. {rs[i].to.act : i \in EnsureReturns(rs)} = {rs'[i].to.act : i \in EnsureReturns(rs')}
  BY <1>1, <1>2
<1>4. /\ side \in Seq(Nat) /\ Increasing(side)
      /\ {side[i] : i \in 1 .. Len(side)} = {rs[i].to.act : i \in EnsureReturns(rs)}
  BY DEF SideInv, ProgramInv, InProgram
<1>5. (IF mode' = "running" /\ pc'.code = "ensure" THEN {pc'.act} ELSE {}) = {}
  OBVIOUS
<1>6. SideInv'
  BY <1>3, <1>4, <1>5 DEF SideInv, Increasing
<1> QED BY <1>6, Facts DEF OpsInv

LEMMA StaysBelow ==
  ASSUME ProgramInv, NEW t, NEW n, n = Len(rs), \A i \in 1 .. n : t[i] = rs[i]
  PROVE  Innermost(t, base, n)
<1>1. n \in Nat /\ n \in 0 .. n /\ Innermost(rs, base, n)
  BY Facts
<1>2. \A i \in 1 .. n : rs[i] = t[i]
  OBVIOUS
<1> QED BY <1>1, <1>2, AgreeInnermost

\* A quotation reads the locals of the code it is in.
LEMMA EnvStays ==
  ASSUME ProgramInv, mode = "running", NEW n, n = Len(rs), NEW t, \A i \in 1 .. n : t[i] = rs[i],
         NEW m \in Nat, n <= m, \A i \in n + 1 .. m : t[i].k # "header", pc.env # 0
  PROVE  \E b \in 1 .. m - 1 : Innermost(t, b, m) /\ t[b + 1] = Local(pc.env)
<1>1. n \in Nat /\ RunsOn(rs, pc, n)
  BY Facts, Running DEF At
<1>2. PICK b \in 1 .. n - 1 : Innermost(rs, b, n) /\ rs[b + 1] = Local(pc.env)
  BY <1>1 DEF RunsOn
<1>3. Innermost(t, b, m)
  BY <1>1, <1>2 DEF Innermost
<1>4. b \in 1 .. m - 1 /\ t[b + 1] = rs[b + 1]
  BY <1>1, <1>2
<1> QED BY <1>2, <1>3, <1>4

LEMMA CallKeeps ==
  ASSUME ProgramInv, Orderly(ops), Call
  PROVE  ProgramInv'
<1> DEFINE n == Len(rs)
<1>1. /\ InProgram /\ mode = "running" /\ nOps' \in 0 .. MaxOps
      /\ rs' = Append(rs, Ret(pc, fresh)) /\ pc' = At("plain", fresh, 0) /\ fresh' = fresh + 1
      /\ UNCHANGED <<ops, base, runs, mode, side, astray, lost>>
  BY PromptsAssumption DEF Call, Operation, Numbering, InProgram, historyVars, ProgramInv
<1>2. rs \in Seq(Entries) /\ n \in Nat /\ fresh \in Nat /\ fresh > 0 /\ pc \in Places
  BY Facts
<1>3. Ret(pc, fresh) \in Entries
  BY <1>2 DEF Ret, Entries
<1>4. /\ rs' \in Seq(Entries) /\ Len(rs') = n + 1 /\ rs'[n + 1] = Ret(pc, fresh)
      /\ \A i \in 1 .. n : rs'[i] = rs[i]
  BY <1>1, <1>2, <1>3
<1>5. /\ rs'[n + 1].k = "ret" /\ rs'[n + 1].to = pc /\ rs'[n + 1].of = fresh
      /\ rs'[n + 1].to.code # "ensure"
  BY <1>1, <1>4 DEF Ret, InProgram
<1>6. Innermost(rs', base, n)
  BY <1>4, StaysBelow
<1>12. n = Len(rs)
  OBVIOUS
<1> HIDE DEF n
<1>7. Supported(rs', n + 1) /\ Followed(rs', n + 1) /\ n + 1 \notin EnsureReturns(rs')
  BY <1>5 DEF Supported, Followed, EnsureReturns
<1>8. ~IsChoice(rs', n + 1) /\ ~IsCatch(rs', n + 1)
  BY <1>5 DEF IsChoice, IsCatch
<1>9. Innermost(rs', base', Len(rs'))
  <2>1. base' = base /\ rs'[n + 1].k # "header" /\ n \in Nat /\ Innermost(rs', base, n)
    BY <1>1, <1>2, <1>5, <1>6
  <2> QED BY <1>4, <2>1 DEF Innermost
<1>10. pc' \in Places /\ pc'.env = 0 /\ pc'.code = "plain" /\ pc'.act = fresh
  BY <1>1, <1>2 DEF Places, At, Codes
<1>11. RunsOn(rs', pc', Len(rs'))
  BY <1>4, <1>5, <1>10 DEF RunsOn
<1>13. \A i \in n + 1 .. Len(rs') : i = n + 1
  BY <1>2, <1>4
<1>14. SideInv' /\ (side' # <<>> => "ensure" \in ops)
  <2>1. n < Len(rs') /\ pc'.code # "ensure" /\ side' = side
    BY <1>1, <1>2, <1>4, <1>10
  <2>2. \A i \in n + 1 .. Len(rs') : i \notin EnsureReturns(rs')
    BY <1>7, <1>13
  <2> QED BY <1>1, <1>2, <1>4, <1>12, <2>1, <2>2, SideStays
<1>15. mode' = "running" /\ fresh' \in Nat /\ fresh <= fresh' /\ n < Len(rs')
  BY <1>1, <1>2, <1>4
<1>16. Pushed(n)
  <2>1. \A j \in (n + 1) + 1 .. Len(rs') : FALSE
    BY <1>2, <1>4
  <2>2. fresh <= fresh /\ fresh < fresh'
    BY <1>1, <1>2
  <2> QED BY <1>5, <1>7, <1>8, <1>13, <2>1, <2>2 DEF Pushed
<1> QED BY <1>1, <1>2, <1>4, <1>5, <1>9, <1>10, <1>11, <1>12, <1>14, <1>15, <1>16, Pushes

LEMMA CallWithLocalsKeeps ==
  ASSUME ProgramInv, Orderly(ops), CallWithLocals
  PROVE  ProgramInv'
<1> DEFINE n == Len(rs)
<1>1. /\ InProgram /\ mode = "running" /\ nOps' \in 0 .. MaxOps
      /\ rs' = rs \o <<Ret(pc, fresh), Header(base), Local(fresh)>> /\ base' = n + 2
      /\ pc' = At("locals", fresh, fresh) /\ fresh' = fresh + 1
      /\ UNCHANGED <<ops, runs, mode, side, astray, lost>>
  BY PromptsAssumption DEF CallWithLocals, Operation, Numbering, InProgram, historyVars, ProgramInv
<1>2. rs \in Seq(Entries) /\ n \in Nat /\ fresh \in Nat /\ fresh > 0 /\ pc \in Places /\ base \in 0 .. n
  BY Facts
<1>3. /\ Ret(pc, fresh) \in Entries /\ Header(base) \in Entries /\ Local(fresh) \in Entries
      /\ Header(base).k = "header" /\ Header(base).saved = base
      /\ Local(fresh).k = "local" /\ Local(fresh).act = fresh
  BY <1>2 DEF Ret, Header, Local, Entries
<1>4. /\ rs' \in Seq(Entries) /\ Len(rs') = n + 3 /\ rs'[n + 1] = Ret(pc, fresh)
      /\ rs'[n + 2] = Header(base) /\ rs'[n + 3] = Local(fresh)
      /\ \A i \in 1 .. n : rs'[i] = rs[i]
  <2> HIDE DEF n
  <2>1. n = Len(rs)
    BY DEF n
  <2> QED BY <1>1, <1>2, <1>3, <2>1
<1>5. /\ rs'[n + 1].k = "ret" /\ rs'[n + 1].to = pc /\ rs'[n + 1].of = fresh
      /\ rs'[n + 1].to.code # "ensure"
  BY <1>1, <1>4 DEF Ret, InProgram
<1>6. Innermost(rs', base, n)
  BY <1>4, StaysBelow
<1>15. n = Len(rs) /\ base' = n + 2
  BY <1>1
<1> HIDE DEF n
<1>7. Innermost(rs', base, n + 1)
  BY <1>2, <1>5, <1>6 DEF Innermost
<1>8. Supported(rs', n + 1) /\ Supported(rs', n + 2) /\ Supported(rs', n + 3)
  <2>1. Supported(rs', n + 1)
    BY <1>5 DEF Supported
  <2>2. Supported(rs', n + 2)
    <3>1. (n + 2) - 1 = n + 1 /\ n + 2 > 1
      BY <1>2
    <3> QED BY <1>3, <1>4, <1>5, <1>7, <3>1 DEF Supported
  <2>3. Supported(rs', n + 3)
    <3>1. (n + 3) - 1 = n + 2 /\ (n + 3) - 2 = n + 1 /\ n + 3 > 2
      BY <1>2
    <3> QED BY <1>3, <1>4, <1>5, <3>1 DEF Supported
  <2> QED BY <2>1, <2>2, <2>3
<1>16. \A i \in n + 1 .. Len(rs') : i = n + 1 \/ i = n + 2 \/ i = n + 3
  BY <1>2, <1>4
<1>9. \A i \in n + 1 .. Len(rs') : i \notin EnsureReturns(rs') /\ ~IsChoice(rs', i) /\ ~IsCatch(rs', i)
  BY <1>3, <1>4, <1>5, <1>16 DEF EnsureReturns, IsChoice, IsCatch
<1>10. Followed(rs', n + 1) /\ Followed(rs', n + 2) /\ Followed(rs', n + 3)
  <2>1. n + 2 < Len(rs') /\ (n + 2) + 1 = n + 3 /\ n + 1 \in n + 1 .. Len(rs') /\ n + 2 \in n + 1 .. Len(rs')
        /\ n + 3 \in n + 1 .. Len(rs')
    BY <1>2, <1>4
  <2> QED BY <1>3, <1>4, <1>5, <1>9, <2>1 DEF Followed
<1>11. Innermost(rs', base', Len(rs'))
  BY <1>2, <1>3, <1>4, <1>15 DEF Innermost
<1>12. pc' \in Places /\ pc'.env = fresh /\ pc'.code = "locals" /\ pc'.act = fresh
  BY <1>1, <1>2 DEF Places, At, Codes
<1>13. RunsOn(rs', pc', Len(rs'))
  <2>2. Innermost(rs', n + 2, n + 3) /\ rs'[n + 3] = Local(pc'.env)
    BY <1>4, <1>11, <1>12, <1>15
  <2>3. n + 2 \in 1 .. (n + 3) - 1 /\ (n + 2) + 1 = n + 3
    BY <1>2
  <2>4. \E b \in 1 .. (n + 3) - 1 : Innermost(rs', b, n + 3) /\ rs'[b + 1] = Local(pc'.env)
    BY <2>2, <2>3
  <2> QED BY <1>3, <1>4, <1>12, <2>4 DEF RunsOn
<1>14. SideInv' /\ (side' # <<>> => "ensure" \in ops)
  <2>1. n < Len(rs') /\ pc'.code # "ensure" /\ side' = side
    BY <1>1, <1>2, <1>4, <1>12
  <2> QED BY <1>1, <1>2, <1>4, <1>9, <1>15, <2>1, SideStays
<1>17. mode' = "running" /\ fresh' \in Nat /\ fresh <= fresh' /\ n < Len(rs')
  BY <1>1, <1>2, <1>4
<1>18. Pushed(n)
  <2>1. \A i \in n + 1 .. Len(rs') : rs'[i].k # "mark" /\ (rs'[i].k = "ret" => i = n + 1)
    BY <1>3, <1>4, <1>5, <1>16
  <2>2. fresh <= fresh /\ fresh < fresh' /\ n + 1 \in Nat
    BY <1>1, <1>2
  <2>3. \A j \in (n + 1) + 1 .. Len(rs') : rs'[j].k # "ret"
    BY <1>2, <2>1
  <2>4. \A i \in n + 1 .. Len(rs') : Supported(rs', i) /\ Followed(rs', i)
    BY <1>8, <1>10, <1>16
  <2> QED BY <1>5, <1>9, <2>1, <2>2, <2>3, <2>4 DEF Pushed
<1> QED BY <1>1, <1>2, <1>4, <1>5, <1>11, <1>12, <1>13, <1>14, <1>15, <1>17, <1>18, Pushes

LEMMA ResetKeeps ==
  ASSUME ProgramInv, Orderly(ops), Reset
  PROVE  ProgramInv'
<1> DEFINE n == Len(rs)
           mark == Mark("exception", fresh, fresh, pc.act)
<1>1. /\ InProgram /\ mode = "running" /\ nOps' \in 0 .. MaxOps /\ "reset" \in ops
      /\ pc.env = 0 /\ rs[n].k # "mark" /\ rs' = Append(rs, mark) /\ fresh' = fresh + 1
      /\ UNCHANGED <<ops, base, pc, runs, mode, side, astray, lost>>
  <2>1. "resetAnywhere" \notin ops
    BY DEF Orderly
  <2> QED BY <2>1, PromptsAssumption
          DEF Reset, Operation, Numbering, InProgram, historyVars, ProgramInv, Last
<1>2. rs \in Seq(Entries) /\ n \in Nat /\ fresh \in Nat /\ fresh > 0 /\ pc \in Places /\ WellFormed(rs, fresh)
  BY Facts
<1>17. pc.code \in {"plain", "locals"} /\ pc.act \in Nat /\ n > 0
  BY <1>1, Running DEF InProgram
<1>3. /\ mark \in Entries /\ mark.k = "mark" /\ mark.kind = "exception" /\ mark.of = pc.act
      /\ mark.id = fresh /\ mark.uid = fresh
  BY <1>2, <1>17 DEF Mark, Entries
<1>4. rs' \in Seq(Entries) /\ Len(rs') = n + 1 /\ rs'[n + 1] = mark /\ \A i \in 1 .. n : rs'[i] = rs[i]
  <2> HIDE DEF n, mark
  <2>1. n = Len(rs)
    BY DEF n
  <2> QED BY <1>1, <1>2, <1>3, <2>1
<1>5. Innermost(rs', base, n)
  BY <1>4, StaysBelow
<1>12. n = Len(rs)
  OBVIOUS
<1>18. n # Floor /\ RunsOn(rs, pc, n)
  <2>1. ASSUME n = Floor PROVE FALSE
    <3>1. Len(runs) > 1 /\ Top.op \in Bodies
      BY <1>1, <2>1, Running
    <3>2. Top.op \in ops
      <4> DEFINE l == Len(runs)
      <4>1. l \in Nat /\ l > 1 /\ OpsInv
        BY <3>1, Facts
      <4>2. Top = runs[l]
        BY DEF Top
      <4> HIDE DEF l
      <4>3. l \in 2 .. l
        BY <4>1
      <4> QED BY <3>1, <4>1, <4>2, <4>3 DEF OpsInv, l
    <3> QED BY <1>1, <3>1, <3>2 DEF Orderly
  <2>2. n > Floor
    BY <1>1, <1>2, <2>1, Running
  <2> QED BY <1>1, <2>1, <2>2, Running
<1> HIDE DEF n, mark
<1>6. rs[n].k = "ret" /\ rs[n].of = pc.act /\ pc.code = "plain"
  <2>1. n \in 1 .. n /\ n \in 1 .. Len(rs)
    BY <1>2, <1>12, <1>17
  <2>2. rs[n].k = "local" => rs[n].act # 0
    <3> SUFFICES ASSUME rs[n].k = "local" PROVE rs[n].act # 0
      OBVIOUS
    <3>0. n > 2 /\ rs[n - 1].k = "header" /\ rs[n - 2].of = rs[n].act /\ n - 1 \in 1 .. Len(rs)
      BY <1>2, <1>12, <2>1 DEF WellFormed, Supported
    <3>1. Supported(rs, n - 1)
      BY <1>2, <3>0 DEF WellFormed
    <3>2. rs[n - 2].k = "ret" /\ n - 2 \in 1 .. Len(rs)
      BY <1>2, <1>12, <3>0, <3>1 DEF Supported
    <3> QED BY <1>2, <3>0, <3>2 DEF WellFormed, Numbered
  <2> QED BY <1>1, <1>17, <1>18, <2>2 DEF RunsOn
<1>7. Supported(rs', n + 1) /\ Followed(rs', n + 1) /\ n + 1 \notin EnsureReturns(rs')
  <2>1. n \in 1 .. n /\ (n + 1) - 1 = n /\ n + 1 > 1
    BY <1>2, <1>17
  <2>2. rs'[n].k = "ret" /\ rs'[n].of = pc.act
    BY <1>4, <1>6, <2>1
  <2> QED BY <1>3, <1>4, <2>1, <2>2 DEF Supported, Followed, EnsureReturns
<1>8. Innermost(rs', base', Len(rs'))
  BY <1>1, <1>2, <1>3, <1>4, <1>5 DEF Innermost
<1>9. RunsOn(rs', pc', Len(rs'))
  BY <1>1, <1>3, <1>4, <1>6 DEF RunsOn
<1>13. \A i \in n + 1 .. Len(rs') : i = n + 1
  BY <1>2, <1>4
<1>10. SideInv' /\ (side' # <<>> => "ensure" \in ops)
  <2>1. n < Len(rs') /\ pc'.code # "ensure" /\ side' = side
    BY <1>1, <1>2, <1>4, <1>6
  <2>2. \A i \in n + 1 .. Len(rs') : i \notin EnsureReturns(rs')
    BY <1>7, <1>13
  <2> QED BY <1>1, <1>2, <1>4, <1>12, <2>1, <2>2, SideStays
<1>11. mode' = "running" /\ fresh' \in Nat /\ fresh <= fresh' /\ fresh < fresh' /\ n < Len(rs')
       /\ pc' \in Places
  BY <1>1, <1>2, <1>4
<1>14. Pushed(n)
  <2>1. ~IsChoice(rs', n + 1) /\ ~IsCatch(rs', n + 1)
    BY <1>3, <1>4 DEF IsChoice, IsCatch
  <2> QED BY <1>1, <1>3, <1>4, <1>7, <1>11, <1>13, <2>1 DEF Pushed
<1> QED BY <1>1, <1>2, <1>4, <1>8, <1>9, <1>10, <1>11, <1>12, <1>14, <1>18, Pushes

\* The stack t ends in what catch put on n entries, for its caller.
CatchIsOn(t, n, caller, c, q) ==
  /\ Len(t) = n + 4 /\ t[n + 1] = Ret(caller, c) /\ t[n + 2] = Mark("catch", c, c, c)
  /\ t[n + 3] = Depth /\ t[n + 4] = Ret(At("catch", c, 0), q)

LEMMA CatchEntriesOn ==
  ASSUME NEW t, NEW n \in Nat, NEW caller, NEW c, NEW q, CatchIsOn(t, n, caller, c, q)
  PROVE  /\ \A i \in n + 1 .. n + 4 : Supported(t, i) /\ Followed(t, i) /\ ~IsChoice(t, i)
         /\ \A i \in n + 1 .. n + 4 : t[i].k # "header"
         /\ \A i \in n + 1 .. n + 4 : t[i].k = "ret" =>
              (i = n + 1 /\ t[i].of = c) \/ (i = n + 4 /\ t[i].of = q /\ RunsOn(t, t[i].to, i - 1))
         /\ \A i \in n + 1 .. n + 4 : t[i].k = "mark" => t[i].kind = "catch" /\ t[i].id = c /\ t[i].uid = c
         /\ \A i \in n + 2 .. n + 4 : i \notin EnsureReturns(t)
         /\ t[n + 1].k = "ret" /\ t[n + 1].to = caller /\ t[n + 4].k = "ret" /\ t[n + 4].of = q
<1>1. /\ t[n + 1].k = "ret" /\ t[n + 1].to = caller /\ t[n + 1].of = c
      /\ t[n + 2].k = "mark" /\ t[n + 2].kind = "catch" /\ t[n + 2].of = c /\ t[n + 3].k = "depth"
      /\ t[n + 2].id = c /\ t[n + 2].uid = c
      /\ t[n + 4].k = "ret" /\ t[n + 4].of = q /\ t[n + 4].to = At("catch", c, 0)
      /\ t[n + 4].to.code = "catch" /\ t[n + 4].to.env = 0 /\ t[n + 4].to.act = c
  BY DEF CatchIsOn, Ret, Mark, Depth, At
<1>2. /\ (n + 1) - 1 = n /\ (n + 2) - 1 = n + 1 /\ (n + 3) - 1 = n + 2 /\ (n + 4) - 1 = n + 3
      /\ n + 2 > 1 /\ n + 3 > 1 /\ n + 4 > 1
      /\ \A i \in n + 1 .. n + 4 : i = n + 1 \/ i = n + 2 \/ i = n + 3 \/ i = n + 4
  OBVIOUS
<1>3. Supported(t, n + 1)
  BY <1>1, <1>2 DEF Supported
<1>4. Supported(t, n + 2)
  BY <1>1, <1>2 DEF Supported
<1>5. Supported(t, n + 3)
  BY <1>1, <1>2 DEF Supported
<1>6. RunsOn(t, t[n + 4].to, n + 3)
  BY <1>1, <1>2 DEF RunsOn
<1>7. Supported(t, n + 4)
  BY <1>1, <1>2 DEF Supported
<1>8. n + 2 \notin EnsureReturns(t) /\ n + 3 \notin EnsureReturns(t) /\ n + 4 \notin EnsureReturns(t)
  BY <1>1 DEF EnsureReturns
<1>9. Followed(t, n + 1) /\ Followed(t, n + 2) /\ Followed(t, n + 3) /\ Followed(t, n + 4)
  <2>1. Followed(t, n + 1)
    <3>1. n + 1 < Len(t) /\ (n + 1) + 1 = n + 2
      BY DEF CatchIsOn
    <3> QED BY <1>1, <3>1 DEF Followed
  <2>2. Len(t) = n + 4
    BY DEF CatchIsOn
  <2> QED BY <1>1, <1>8, <2>1, <2>2 DEF Followed
<1>10. ASSUME NEW i \in n + 1 .. n + 4
       PROVE  /\ Supported(t, i) /\ Followed(t, i) /\ t[i].k # "header" /\ ~IsChoice(t, i)
              /\ t[i].k = "ret" =>
                   (i = n + 1 /\ t[i].of = c) \/ (i = n + 4 /\ t[i].of = q /\ RunsOn(t, t[i].to, i - 1))
              /\ t[i].k = "mark" => t[i].kind = "catch" /\ t[i].id = c /\ t[i].uid = c
              /\ i # n + 1 => i \notin EnsureReturns(t)
  <2>1. CASE i = n + 1 BY <1>1, <1>3, <1>9, <2>1 DEF IsChoice
  <2>2. CASE i = n + 2 BY <1>1, <1>4, <1>8, <1>9, <2>2 DEF IsChoice
  <2>3. CASE i = n + 3 BY <1>1, <1>5, <1>8, <1>9, <2>3 DEF IsChoice
  <2>4. CASE i = n + 4 BY <1>1, <1>2, <1>6, <1>7, <1>8, <1>9, <2>4 DEF IsChoice
  <2> QED BY <1>2, <2>1, <2>2, <2>3, <2>4
<1> QED BY <1>1, <1>10

LEMMA CatchEntriesAre ==
  ASSUME NEW caller \in Places, NEW c \in Nat, NEW q \in Nat
  PROVE  /\ CatchEntries(caller, c, q) \in Seq(Entries) /\ Len(CatchEntries(caller, c, q)) = 4
         /\ CatchEntries(caller, c, q)[1] = Ret(caller, c)
         /\ CatchEntries(caller, c, q)[2] = Mark("catch", c, c, c)
         /\ CatchEntries(caller, c, q)[3] = Depth
         /\ CatchEntries(caller, c, q)[4] = Ret(At("catch", c, 0), q)
<1>1. Ret(caller, c) \in Entries
  BY DEF Ret, Entries
<1>2. Mark("catch", c, c, c) \in Entries
  BY DEF Mark, Entries
<1>3. Depth \in Entries
  BY DEF Entries
<1>4. Ret(At("catch", c, 0), q) \in Entries
  BY DEF Ret, At, Places, Codes, Entries
<1> QED BY <1>1, <1>2, <1>3, <1>4 DEF CatchEntries

LEMMA CatchKeeps ==
  ASSUME ProgramInv, Orderly(ops), Catch
  PROVE  ProgramInv'
<1> DEFINE n == Len(rs)
           top == CatchEntries(pc, fresh, fresh + 1)
<1>1. /\ InProgram /\ mode = "running" /\ nOps' \in 0 .. MaxOps
      /\ rs' = rs \o top /\ pc' = At("plain", fresh + 1, pc.env) /\ fresh' = fresh + 2
      /\ UNCHANGED <<ops, base, runs, mode, side, astray, lost>>
      /\ Len(runs) = 1 \/ "catch" \in ops
  BY PromptsAssumption DEF Catch, Operation, Numbering, InProgram, historyVars, ProgramInv
<1>2. /\ rs \in Seq(Entries) /\ n \in Nat /\ fresh \in Nat /\ pc.env \in Nat /\ pc \in Places
  BY <1>1, Facts, Running
<1>3. /\ top \in Seq(Entries) /\ Len(top) = 4 /\ top[1] = Ret(pc, fresh) /\ top[3] = Depth
      /\ top[2] = Mark("catch", fresh, fresh, fresh) /\ top[4] = Ret(At("catch", fresh, 0), fresh + 1)
  BY <1>2, CatchEntriesAre
<1> HIDE DEF top
<1>4. /\ rs' \in Seq(Entries) /\ Len(rs') = n + 4 /\ \A i \in 1 .. n : rs'[i] = rs[i]
      /\ rs'[n + 1] = top[1] /\ rs'[n + 2] = top[2] /\ rs'[n + 3] = top[3] /\ rs'[n + 4] = top[4]
  <2> HIDE DEF n
  <2>1. n = Len(rs) /\ n \in Nat /\ rs \in Seq(Entries) /\ top \in Seq(Entries) /\ Len(top) = 4
    BY <1>2, <1>3 DEF n
  <2>2. /\ rs \o top \in Seq(Entries) /\ Len(rs \o top) = n + Len(top)
        /\ \A i \in 1 .. n : (rs \o top)[i] = rs[i]
        /\ \A i \in 1 .. Len(top) : (rs \o top)[n + i] = top[i]
    BY <2>1, Concatenated
  <2>3. rs' = rs \o top
    BY <1>1
  <2> QED BY <2>1, <2>2, <2>3
<1>5. Innermost(rs', base, n)
  BY <1>4, StaysBelow
<1>11. n = Len(rs)
  OBVIOUS
<1> HIDE DEF n
<1>6. /\ \A i \in n + 1 .. n + 4 : Supported(rs', i) /\ Followed(rs', i) /\ ~IsChoice(rs', i)
      /\ \A i \in n + 1 .. n + 4 : rs'[i].k # "header"
      /\ \A i \in n + 1 .. n + 4 : rs'[i].k = "ret" =>
           \/ i = n + 1 /\ rs'[i].of = fresh
           \/ i = n + 4 /\ rs'[i].of = fresh + 1 /\ RunsOn(rs', rs'[i].to, i - 1)
      /\ \A i \in n + 1 .. n + 4 :
           rs'[i].k = "mark" => rs'[i].kind = "catch" /\ rs'[i].id = fresh /\ rs'[i].uid = fresh
      /\ \A i \in n + 2 .. n + 4 : i \notin EnsureReturns(rs')
      /\ rs'[n + 1].k = "ret" /\ rs'[n + 1].to = pc /\ rs'[n + 4].k = "ret" /\ rs'[n + 4].of = fresh + 1
  <2> DEFINE t == rs'
             q == fresh + 1
  <2>1. CatchIsOn(t, n, pc, fresh, q)
    BY <1>3, <1>4 DEF CatchIsOn
  <2>2. n \in Nat
    BY <1>2, <1>11
  <2> HIDE DEF t, q
  <2>3. /\ \A i \in n + 1 .. n + 4 : Supported(t, i) /\ Followed(t, i) /\ ~IsChoice(t, i)
        /\ \A i \in n + 1 .. n + 4 : t[i].k # "header"
        /\ \A i \in n + 1 .. n + 4 : t[i].k = "ret" =>
             (i = n + 1 /\ t[i].of = fresh) \/ (i = n + 4 /\ t[i].of = q /\ RunsOn(t, t[i].to, i - 1))
        /\ \A i \in n + 1 .. n + 4 :
             t[i].k = "mark" => t[i].kind = "catch" /\ t[i].id = fresh /\ t[i].uid = fresh
        /\ \A i \in n + 2 .. n + 4 : i \notin EnsureReturns(t)
        /\ t[n + 1].k = "ret" /\ t[n + 1].to = pc /\ t[n + 4].k = "ret" /\ t[n + 4].of = q
    BY <2>1, <2>2, CatchEntriesOn
  <2> QED BY <2>3 DEF t, q
<1>7. \A i \in n + 1 .. n + 4 : i \notin EnsureReturns(rs')
  <2>1. n + 1 \notin EnsureReturns(rs')
    BY <1>1, <1>6 DEF EnsureReturns, InProgram
  <2> QED BY <1>2, <1>6, <2>1
<1>8. Innermost(rs', base', n + 4)
  <2>1. base' = base
    BY <1>1
  <2> QED BY <1>2, <1>5, <1>6, <2>1 DEF Innermost
<1>9. pc' \in Places /\ pc'.env = pc.env /\ pc'.code = "plain" /\ pc'.act = fresh + 1
  BY <1>1, <1>2 DEF Places, At, Codes
<1>10. RunsOn(rs', pc', n + 4)
  <2> DEFINE m == n + 4
  <2>1. m \in Nat /\ n <= m /\ \A i \in n + 1 .. m : rs'[i].k # "header"
    BY <1>2, <1>6
  <2> HIDE DEF m
  <2>2. pc.env # 0 => \E b \in 1 .. m - 1 : Innermost(rs', b, m) /\ rs'[b + 1] = Local(pc.env)
    <3> SUFFICES ASSUME pc.env # 0
                 PROVE  \E b \in 1 .. m - 1 : Innermost(rs', b, m) /\ rs'[b + 1] = Local(pc.env)
      OBVIOUS
    <3>1. ProgramInv /\ mode = "running" /\ n = Len(rs)
      BY <1>1, <1>11 DEF InProgram
    <3>2. \A i \in 1 .. n : rs'[i] = rs[i]
      BY <1>4
    <3> QED BY <2>1, <3>1, <3>2, EnvStays
  <2>3. rs'[m].k = "ret" /\ rs'[m].of = fresh + 1
    BY <1>6 DEF m
  <2>4. RunsOn(rs', pc', m)
    BY <1>9, <2>2, <2>3 DEF RunsOn
  <2> QED BY <2>4 DEF m
<1>12. SideInv' /\ (side' # <<>> => "ensure" \in ops)
  <2>1. pc'.code # "ensure" /\ side' = side /\ n < Len(rs')
    BY <1>1, <1>2, <1>4, <1>9
  <2> QED BY <1>1, <1>2, <1>4, <1>7, <1>11, <2>1, SideStays
<1>13. Pushed(n)
  <2>1. fresh' = fresh + 2 /\ Len(rs') = n + 4 /\ n \in Nat /\ fresh \in Nat
    BY <1>1, <1>2, <1>4
  <2>2. \A i \in n + 1 .. n + 4 :
           rs'[i].k = "ret" => /\ fresh <= rs'[i].of /\ rs'[i].of < fresh'
                               /\ \A j \in i + 1 .. n + 4 : rs'[j].k = "ret" => rs'[i].of < rs'[j].of
    BY <1>6, <2>1
  <2>3. \A i \in n + 1 .. n + 4 :
           /\ rs'[i].k = "mark" => rs'[i].id < fresh' /\ rs'[i].uid = rs'[i].id /\ rs'[i].kind # "exception"
           /\ rs'[i].k = "ret" => IF i = n + 1 THEN rs'[i].to = pc ELSE RunsOn(rs', rs'[i].to, i - 1)
    BY <1>6, <2>1
  <2>4. Len(runs) = 1 \/ ops \cap {"catch", "ensure"} # {}
    BY <1>1
  <2> QED BY <1>6, <2>1, <2>2, <2>3, <2>4 DEF Pushed
<1>14. /\ UNCHANGED <<ops, runs, astray, lost>> /\ InProgram /\ nOps' \in 0 .. MaxOps
       /\ n < Len(rs') /\ mode' = "running" /\ fresh' \in Nat /\ fresh <= fresh'
  BY <1>1, <1>2, <1>4
<1> QED BY <1>2, <1>4, <1>6, <1>8, <1>9, <1>10, <1>11, <1>12, <1>13, <1>14, Pushes

\* The activation of an ensure in progress has a smaller number than the next.
LEMMA EnsureActs ==
  ASSUME ProgramInv, mode \notin {"failed", "over"}, NEW i \in EnsureReturns(rs)
  PROVE  /\ i \in 2 .. Len(rs) /\ rs[i - 1].k = "ret" /\ rs[i].to.act = rs[i - 1].of
         /\ rs[i].to.act \in Nat /\ rs[i].to.act < fresh
<1>1. /\ i \in 1 .. Len(rs) /\ rs[i].k = "ret" /\ rs[i].to.code = "ensure" /\ rs \in Seq(Entries)
      /\ Len(rs) \in Nat /\ WellFormed(rs, fresh)
  BY Facts DEF EnsureReturns
<1>2. Leads(rs, runs, i)
  BY <1>1, AllLead
<1>3. i # 1
  BY <1>1, <1>2 DEF Leads, Ret, Stop, At
<1>4. \A k \in 2 .. Len(runs) : runs[k].floor # i - 1
  <2> DEFINE S == {k \in 2 .. Len(runs) : runs[k].floor = i - 1}
             l == Len(runs)
  <2> SUFFICES ASSUME S # {} PROVE FALSE
    OBVIOUS
  <2>1. S \in SUBSET (0 .. l) /\ l \in Nat
    <3>1. l \in Nat
      BY Facts
    <3> QED BY <3>1
  <2>2. Max(S) \in S /\ \A x \in S : x <= Max(S)
    <3> HIDE DEF S, l
    <3> QED BY <2>1, MaxIs
  <2>3. PICK k \in S : \A x \in S : x <= k
    BY <2>2
  <2>4. k \in 2 .. l /\ runs[k].floor = i - 1
    OBVIOUS
  <2>5. ASSUME NEW j \in k + 1 .. l PROVE runs[j].floor # i - 1
    <3>1. j \in 2 .. l /\ ~(j <= k)
      BY <2>1, <2>4
    <3> QED BY <2>3, <3>1
  <2>6. IF runs[k].op \in Bodies
        THEN rs[i].to = At("plain", runs[k].body, 0)
        ELSE rs[i] = Ret(Stop, runs[k].body)
    BY <1>1, <1>2, <2>4, <2>5 DEF Leads
  <2> QED BY <1>1, <2>6 DEF Ret, Stop, At
<1>5. RunsOn(rs, rs[i].to, i - 1)
  BY <1>1, <1>2, <1>3, <1>4 DEF Leads
<1>6. rs[i - 1].k = "ret" /\ rs[i].to.act = rs[i - 1].of
  BY <1>1, <1>5 DEF RunsOn
<1>7. i - 1 \in 1 .. Len(rs)
  BY <1>1, <1>3
<1>8. rs[i - 1] \in Entries
  BY <1>1, <1>7
<1>9. rs[i - 1].of \in Nat
  BY <1>6, <1>8 DEF Entries, Depth
<1>10. rs[i - 1].of < fresh
  BY <1>1, <1>6, <1>7 DEF WellFormed, Numbered
<1> QED BY <1>1, <1>3, <1>6, <1>9, <1>10

\* The cleanups on the side stack are of ensures entered before now.
LEMMA SideBelow ==
  ASSUME ProgramInv, InProgram
  PROVE  \A i \in 1 .. Len(side) : side[i] \in Nat /\ side[i] < fresh
<1> SUFFICES ASSUME NEW i \in 1 .. Len(side) PROVE side[i] \in Nat /\ side[i] < fresh
  OBVIOUS
<1>1. side[i] \in {rs[k].to.act : k \in EnsureReturns(rs)}
  BY DEF ProgramInv, SideInv, InProgram
<1>2. PICK k \in EnsureReturns(rs) : side[i] = rs[k].to.act
  BY <1>1
<1>3. mode \notin {"failed", "over"}
  BY DEF InProgram
<1> QED BY <1>2, <1>3, EnsureActs


LEMMA EnsureKeeps ==
  ASSUME ProgramInv, Orderly(ops), Ensure
  PROVE  ProgramInv'
<1> DEFINE n == Len(rs)
           ens == At("ensure", fresh, 0)
           one == Append(rs, Ret(pc, fresh))
           top == CatchEntries(ens, fresh + 1, fresh + 2)
<1>1. /\ InProgram /\ mode = "running" /\ nOps' \in 0 .. MaxOps /\ rs' = one \o top
      /\ pc' = At("plain", fresh + 2, pc.env) /\ fresh' = fresh + 3 /\ side' = Append(side, fresh)
      /\ UNCHANGED <<ops, base, runs, mode, astray, lost>> /\ "ensure" \in ops
  BY PromptsAssumption DEF Ensure, Operation, Numbering, InProgram, historyVars, ProgramInv
<1>2. /\ rs \in Seq(Entries) /\ n \in Nat /\ fresh \in Nat /\ pc.env \in Nat /\ pc \in Places
      /\ side \in Seq(Nat)
  BY <1>1, Facts, Running
<1>3. ens \in Places /\ ens.code = "ensure" /\ ens.act = fresh /\ ens.env = 0
  BY <1>2 DEF At, Places, Codes
<1>4. /\ one \in Seq(Entries) /\ Len(one) = n + 1 /\ one[n + 1] = Ret(pc, fresh)
      /\ \A i \in 1 .. n : one[i] = rs[i]
  <2>1. Ret(pc, fresh) \in Entries
    BY <1>2 DEF Ret, Entries
  <2> QED BY <1>2, <2>1
<1> HIDE DEF ens
<1>5. /\ top \in Seq(Entries) /\ Len(top) = 4 /\ top[1] = Ret(ens, fresh + 1) /\ top[3] = Depth
      /\ top[2] = Mark("catch", fresh + 1, fresh + 1, fresh + 1)
      /\ top[4] = Ret(At("catch", fresh + 1, 0), fresh + 2)
  <2>1. fresh + 1 \in Nat /\ fresh + 2 \in Nat
    BY <1>2
  <2> QED BY <1>3, <2>1, CatchEntriesAre
<1> HIDE DEF top, one
<1>6. /\ rs' \in Seq(Entries) /\ Len(rs') = n + 5 /\ \A i \in 1 .. n : rs'[i] = rs[i]
      /\ rs'[n + 1] = Ret(pc, fresh)
      /\ rs'[n + 2] = top[1] /\ rs'[n + 3] = top[2] /\ rs'[n + 4] = top[3] /\ rs'[n + 5] = top[4]
  <2> HIDE DEF n
  <2>1. /\ one \o top \in Seq(Entries) /\ Len(one \o top) = Len(one) + Len(top)
        /\ \A i \in 1 .. Len(one) : (one \o top)[i] = one[i]
        /\ \A i \in 1 .. Len(top) : (one \o top)[Len(one) + i] = top[i]
    BY <1>4, <1>5, Concatenated
  <2>2. rs' = one \o top
    BY <1>1
  <2>3. /\ rs' \in Seq(Entries) /\ Len(rs') = n + 5 /\ \A i \in 1 .. n + 1 : rs'[i] = one[i]
        /\ \A i \in 1 .. 4 : rs'[(n + 1) + i] = top[i]
    <3>1. Len(one) = n + 1 /\ Len(top) = 4 /\ n \in Nat
      BY <1>2, <1>4, <1>5
    <3> QED BY <2>1, <2>2, <3>1
  <2>4. /\ (n + 1) + 1 = n + 2 /\ (n + 1) + 2 = n + 3 /\ (n + 1) + 3 = n + 4 /\ (n + 1) + 4 = n + 5
        /\ n + 1 \in 1 .. n + 1 /\ \A i \in 1 .. n : i \in 1 .. n + 1
    BY <1>2
  <2>5. /\ rs'[(n + 1) + 1] = top[1] /\ rs'[(n + 1) + 2] = top[2]
        /\ rs'[(n + 1) + 3] = top[3] /\ rs'[(n + 1) + 4] = top[4]
    BY <2>3
  <2>6. rs'[n + 1] = Ret(pc, fresh) /\ \A i \in 1 .. n : rs'[i] = rs[i]
    BY <1>4, <2>3, <2>4
  <2> QED BY <2>3, <2>4, <2>5, <2>6
<1>7. Innermost(rs', base, n)
  BY <1>6, StaysBelow
<1>18. n = Len(rs)
  OBVIOUS
<1> HIDE DEF n
<1>8. /\ rs'[n + 1].k = "ret" /\ rs'[n + 1].to = pc /\ rs'[n + 1].of = fresh
      /\ n + 1 \notin EnsureReturns(rs') /\ Supported(rs', n + 1) /\ Followed(rs', n + 1)
  <2>1. rs'[n + 1].k = "ret" /\ rs'[n + 1].to = pc /\ rs'[n + 1].of = fresh
    BY <1>6 DEF Ret
  <2>2. n + 1 \notin EnsureReturns(rs')
    BY <1>1, <2>1 DEF EnsureReturns, InProgram
  <2>3. Supported(rs', n + 1)
    BY <2>1 DEF Supported
  <2> QED BY <2>1, <2>2, <2>3 DEF Followed
<1>9. /\ \A i \in n + 2 .. n + 5 : Supported(rs', i) /\ Followed(rs', i) /\ ~IsChoice(rs', i)
      /\ \A i \in n + 2 .. n + 5 : rs'[i].k # "header"
      /\ \A i \in n + 2 .. n + 5 : rs'[i].k = "ret" =>
           \/ i = n + 2 /\ rs'[i].of = fresh + 1 /\ RunsOn(rs', rs'[i].to, i - 1)
           \/ i = n + 5 /\ rs'[i].of = fresh + 2 /\ RunsOn(rs', rs'[i].to, i - 1)
      /\ \A i \in n + 2 .. n + 5 :
           rs'[i].k = "mark" => rs'[i].kind = "catch" /\ rs'[i].id = fresh + 1 /\ rs'[i].uid = fresh + 1
      /\ \A i \in n + 3 .. n + 5 : i \notin EnsureReturns(rs')
      /\ rs'[n + 2].k = "ret" /\ rs'[n + 2].to = ens /\ rs'[n + 5].k = "ret" /\ rs'[n + 5].of = fresh + 2
  <2> DEFINE m == n + 1
             t == rs'
             c == fresh + 1
             q == fresh + 2
  <2>1. CatchIsOn(t, m, ens, c, q)
    <3>1. m + 1 = n + 2 /\ m + 2 = n + 3 /\ m + 3 = n + 4 /\ m + 4 = n + 5
      BY <1>2, <1>18
    <3> QED BY <1>5, <1>6, <3>1 DEF CatchIsOn
  <2>2. m \in Nat /\ (m + 1) - 1 = m /\ m + 1 = n + 2 /\ m + 2 = n + 3 /\ m + 4 = n + 5
    BY <1>2, <1>18
  <2>3. RunsOn(t, ens, m)
    BY <1>3, <1>8 DEF RunsOn
  <2> HIDE DEF m, t, c, q
  <2>4. /\ \A i \in m + 1 .. m + 4 : Supported(t, i) /\ Followed(t, i) /\ ~IsChoice(t, i)
        /\ \A i \in m + 1 .. m + 4 : t[i].k # "header"
        /\ \A i \in m + 1 .. m + 4 : t[i].k = "ret" =>
             (i = m + 1 /\ t[i].of = c) \/ (i = m + 4 /\ t[i].of = q /\ RunsOn(t, t[i].to, i - 1))
        /\ \A i \in m + 1 .. m + 4 : t[i].k = "mark" => t[i].kind = "catch" /\ t[i].id = c /\ t[i].uid = c
        /\ \A i \in m + 2 .. m + 4 : i \notin EnsureReturns(t)
        /\ t[m + 1].k = "ret" /\ t[m + 1].to = ens /\ t[m + 4].k = "ret" /\ t[m + 4].of = q
    BY <2>1, <2>2, CatchEntriesOn
  <2>5. \A i \in m + 1 .. m + 4 : t[i].k = "ret" =>
           \/ i = m + 1 /\ t[i].of = c /\ RunsOn(t, t[i].to, i - 1)
           \/ i = m + 4 /\ t[i].of = q /\ RunsOn(t, t[i].to, i - 1)
    BY <2>2, <2>3, <2>4
  <2> QED BY <2>2, <2>4, <2>5 DEF t, c, q
<1>10. \A i \in n + 1 .. n + 5 :
         rs'[i].k # "header" /\ Supported(rs', i) /\ Followed(rs', i) /\ ~IsChoice(rs', i)
  <2>1. rs'[n + 1].k # "header" /\ ~IsChoice(rs', n + 1)
    BY <1>8 DEF IsChoice
  <2> QED BY <1>2, <1>8, <1>9, <1>18, <2>1
<1>11. Innermost(rs', base', n + 5)
  <2>1. base' = base
    BY <1>1
  <2> QED BY <1>2, <1>7, <1>10, <1>18, <2>1 DEF Innermost
<1>12. pc' \in Places /\ pc'.env = pc.env /\ pc'.code = "plain" /\ pc'.act = fresh + 2
  BY <1>1, <1>2 DEF Places, At, Codes
<1>13. RunsOn(rs', pc', n + 5)
  <2> DEFINE m == n + 5
  <2>1. m \in Nat /\ n <= m /\ \A i \in n + 1 .. m : rs'[i].k # "header"
    BY <1>2, <1>10, <1>18
  <2> HIDE DEF m
  <2>2. pc.env # 0 => \E b \in 1 .. m - 1 : Innermost(rs', b, m) /\ rs'[b + 1] = Local(pc.env)
    <3> SUFFICES ASSUME pc.env # 0
                 PROVE  \E b \in 1 .. m - 1 : Innermost(rs', b, m) /\ rs'[b + 1] = Local(pc.env)
      OBVIOUS
    <3>1. ProgramInv /\ mode = "running" /\ n = Len(rs)
      BY <1>1, <1>18 DEF InProgram
    <3>2. \A i \in 1 .. n : rs'[i] = rs[i]
      BY <1>6
    <3> QED BY <2>1, <3>1, <3>2, EnvStays
  <2>3. rs'[m].k = "ret" /\ rs'[m].of = fresh + 2
    BY <1>9 DEF m
  <2>4. RunsOn(rs', pc', m)
    BY <1>12, <2>2, <2>3 DEF RunsOn
  <2> QED BY <2>4 DEF m
<1>14. n = Len(rs) /\ n < Len(rs') /\ mode' = "running" /\ fresh' \in Nat /\ fresh <= fresh'
  BY <1>1, <1>2, <1>6, <1>18
<1>15. SideInv'
  <2>1. EnsureReturns(rs') = EnsureReturns(rs) \cup {n + 2}
    <3>1. \A i \in 1 .. n : i \in EnsureReturns(rs') <=> i \in EnsureReturns(rs)
      <4>1. n = Len(rs) /\ n \in Nat /\ Len(rs') = n + 5 /\ \A i \in 1 .. n : rs'[i] = rs[i]
        BY <1>2, <1>6, <1>14
      <4> QED BY <4>1 DEF EnsureReturns
    <3>2. n + 2 \in EnsureReturns(rs')
      <4>1. n + 2 \in 1 .. Len(rs')
        BY <1>2, <1>6
      <4>2. rs'[n + 2].k = "ret" /\ rs'[n + 2].to.code = "ensure"
        BY <1>3, <1>9
      <4> QED BY <4>1, <4>2 DEF EnsureReturns
    <3>3. EnsureReturns(rs) \subseteq 1 .. n /\ EnsureReturns(rs') \subseteq 1 .. n + 5
      BY <1>6, <1>14 DEF EnsureReturns
    <3>4. ASSUME NEW i \in n + 1 .. n + 5, i \in EnsureReturns(rs') PROVE i = n + 2
      <4>1. i # n + 1 /\ ~(i \in n + 3 .. n + 5)
        BY <1>8, <1>9, <3>4
      <4> QED BY <1>2, <4>1
    <3>5. \A i \in 1 .. n + 5 : i \in 1 .. n \/ i \in n + 1 .. n + 5
      BY <1>2
    <3> QED BY <3>1, <3>2, <3>3, <3>4, <3>5
  <2>2. rs'[n + 2].to.act = fresh
    BY <1>3, <1>9
  <2>3. \A i \in EnsureReturns(rs) : rs'[i] = rs[i]
    BY <1>6, <1>14 DEF EnsureReturns
  <2>4. {rs'[i].to.act : i \in EnsureReturns(rs')} = {rs[i].to.act : i \in EnsureReturns(rs)} \cup {fresh}
    BY <2>1, <2>2, <2>3
  <2>5. {side[i] : i \in 1 .. Len(side)} = {rs[i].to.act : i \in EnsureReturns(rs)} /\ Increasing(side)
    BY <1>1 DEF ProgramInv, SideInv, InProgram
  <2>6. /\ side' \in Seq(Nat) /\ Len(side') = Len(side) + 1 /\ side'[Len(side) + 1] = fresh
        /\ \A i \in 1 .. Len(side) : side'[i] = side[i]
    BY <1>1, <1>2
  <2>7. {side'[i] : i \in 1 .. Len(side')} = {side[i] : i \in 1 .. Len(side)} \cup {fresh}
    <3>1. Len(side) \in Nat
      BY <1>2
    <3>2. 1 .. Len(side') = (1 .. Len(side)) \cup {Len(side) + 1}
      BY <2>6, <3>1
    <3> DEFINE d == Len(side)
    <3>3. \A i \in 1 .. d : side'[i] = side[i]
      BY <2>6
    <3>4. side'[d + 1] = fresh /\ 1 .. Len(side') = (1 .. d) \cup {d + 1}
      BY <2>6, <3>2
    <3> HIDE DEF d
    <3>5. {side'[i] : i \in (1 .. d) \cup {d + 1}} = {side[i] : i \in 1 .. d} \cup {fresh}
      BY <3>3, <3>4
    <3> QED BY <3>4, <3>5 DEF d
  <2>8. Increasing(side')
    <3>1. \A i \in 1 .. Len(side) : side[i] \in Nat /\ side[i] < fresh
      BY <1>1, SideBelow
    <3>2. Len(side) \in Nat
      BY <1>2
    <3>3. ASSUME NEW i \in 1 .. Len(side'), NEW j \in 1 .. Len(side'), i < j PROVE side'[i] < side'[j]
      <4>1. i \in 1 .. Len(side) /\ side'[i] = side[i]
        BY <2>6, <3>2, <3>3
      <4>2. CASE j \in 1 .. Len(side)
        BY <2>5, <2>6, <3>3, <4>1, <4>2 DEF Increasing
      <4>3. CASE j = Len(side) + 1
        BY <2>6, <3>1, <4>1, <4>3
      <4> QED BY <2>6, <3>2, <4>2, <4>3
    <3> QED BY <3>3 DEF Increasing
  <2>9. (IF mode' = "running" /\ pc'.code = "ensure" THEN {pc'.act} ELSE {}) = {}
    BY <1>12
  <2> QED BY <2>4, <2>5, <2>6, <2>7, <2>8, <2>9 DEF SideInv, Increasing
<1>16. Pushed(n)
  <2>1. fresh' = fresh + 3 /\ Len(rs') = n + 5 /\ n \in Nat /\ fresh \in Nat
    BY <1>1, <1>2, <1>6, <1>18
  <2>2. \A i \in n + 1 .. n + 5 : rs'[i].k = "ret" =>
          \/ i = n + 1 /\ rs'[i].of = fresh
          \/ i = n + 2 /\ rs'[i].of = fresh + 1
          \/ i = n + 5 /\ rs'[i].of = fresh + 2
    BY <1>8, <1>9, <2>1
  <2>3. \A i \in n + 1 .. n + 5 :
           rs'[i].k = "ret" => /\ fresh <= rs'[i].of /\ rs'[i].of < fresh'
                               /\ \A j \in i + 1 .. n + 5 : rs'[j].k = "ret" => rs'[i].of < rs'[j].of
    <3> SUFFICES ASSUME NEW i \in n + 1 .. n + 5, rs'[i].k = "ret"
                 PROVE  /\ fresh <= rs'[i].of /\ rs'[i].of < fresh'
                        /\ \A j \in i + 1 .. n + 5 : rs'[j].k = "ret" => rs'[i].of < rs'[j].of
      OBVIOUS
    <3>1. \/ i = n + 1 /\ rs'[i].of = fresh
          \/ i = n + 2 /\ rs'[i].of = fresh + 1
          \/ i = n + 5 /\ rs'[i].of = fresh + 2
      BY <2>2
    <3>2. fresh <= rs'[i].of /\ rs'[i].of < fresh'
      BY <2>1, <3>1
    <3>3. ASSUME NEW j \in i + 1 .. n + 5, rs'[j].k = "ret" PROVE rs'[i].of < rs'[j].of
      <4>1. j \in n + 1 .. n + 5 /\ i < j /\ j # n + 1 /\ i # n + 5
        BY <2>1
      <4>2. (j = n + 2 /\ rs'[j].of = fresh + 1) \/ (j = n + 5 /\ rs'[j].of = fresh + 2)
        BY <2>2, <3>3, <4>1
      <4> QED BY <2>1, <3>1, <4>1, <4>2
    <3> QED BY <3>2, <3>3
  <2>4. \A i \in n + 1 .. n + 5 :
           /\ rs'[i].k = "mark" => rs'[i].id < fresh' /\ rs'[i].uid = rs'[i].id /\ rs'[i].kind # "exception"
           /\ rs'[i].k = "ret" => IF i = n + 1 THEN rs'[i].to = pc ELSE RunsOn(rs', rs'[i].to, i - 1)
    BY <1>8, <1>9, <2>1
  <2>5. ops \cap {"catch", "ensure"} # {}
    BY <1>1
  <2> QED BY <1>10, <2>1, <2>3, <2>4, <2>5 DEF Pushed
<1>17. UNCHANGED <<ops, runs, astray, lost>> /\ InProgram /\ nOps' \in 0 .. MaxOps /\ n \in Nat
       /\ (side' # <<>> => "ensure" \in ops) /\ rs'[n + 1].k = "ret"
  BY <1>1, <1>2, <1>8, <1>18
<1>19. Innermost(rs', base', Len(rs')) /\ RunsOn(rs', pc', Len(rs')) /\ rs' \in Seq(Entries)
       /\ \A i \in 1 .. n : rs'[i] = rs[i]
  BY <1>6, <1>11, <1>13
<1> QED BY <1>12, <1>14, <1>15, <1>16, <1>17, <1>19, Pushes
----------------------------------------------------------------------------
(* Operations that end an activation.                                       *)

\* A word with locals: its frame is the top of the stack.
LEMMA LocalsFrame ==
  ASSUME ProgramInv, mode = "running", pc.code = "locals", NEW n, n = Len(rs)
  PROVE  /\ n \in Nat /\ n > 2 /\ rs[n].k = "local" /\ rs[n - 1].k = "header" /\ rs[n - 2].k = "ret"
         /\ rs[n - 2].of = pc.act /\ Innermost(rs, rs[n - 1].saved, n - 2) /\ base = n - 1
         /\ rs[n - 1].saved \in 0 .. n - 2
         /\ \A i \in n - 1 .. n : i \notin EnsureReturns(rs)
         /\ Floor \in Nat /\ Floor < n - 2
<1>1. /\ rs \in Seq(Entries) /\ n \in Nat /\ n > 0 /\ RunsOn(rs, pc, n) /\ WellFormed(rs, fresh)
      /\ Innermost(rs, base, n) /\ Floor \in Nat /\ Floor < n
  <2>1. pc.code # "plain"
    OBVIOUS
  <2>2. Floor # n
    BY <2>1, Running DEF At
  <2> QED BY <2>2, Facts, Running
<1>2. rs[n].k = "local" /\ pc.act = rs[n].act
  BY <1>1 DEF RunsOn
<1>3. n \in 1 .. Len(rs) /\ Supported(rs, n)
  BY <1>1 DEF WellFormed
<1>4. n > 2 /\ rs[n - 1].k = "header" /\ rs[n - 2].of = pc.act
  BY <1>2, <1>3 DEF Supported
<1>5. n - 1 \in 1 .. Len(rs) /\ (n - 1) - 1 = n - 2
  BY <1>1, <1>4
<1>6. Supported(rs, n - 1)
  BY <1>1, <1>5 DEF WellFormed
<1>7. rs[n - 2].k = "ret" /\ Innermost(rs, rs[n - 1].saved, n - 2)
  BY <1>4, <1>5, <1>6 DEF Supported
<1>8. base = n - 1
  BY <1>1, <1>2, <1>4 DEF Innermost
<1>9. rs[n - 1].saved \in 0 .. n - 2
  BY <1>7 DEF Innermost
<1>10. \A i \in n - 1 .. n : i \notin EnsureReturns(rs)
  BY <1>1, <1>2, <1>4 DEF EnsureReturns
<1>11. Floor < n - 2
  <2>1. rs[Floor + 1].k = "ret"
    BY <1>1, AboveFloor
  <2>2. Floor + 1 # n /\ Floor + 1 # n - 1
    BY <1>2, <1>4, <2>1
  <2> QED BY <1>1, <1>4, <2>2
<1> QED BY <1>1, <1>2, <1>4, <1>7, <1>8, <1>9, <1>10, <1>11

\* No ensure has come to its cleanup.
LEMMA SideUnlessEnsure ==
  ASSUME ProgramInv, mode = "running" => pc.code # "ensure"
  PROVE  /\ side \in Seq(Nat) /\ Increasing(side)
         /\ {side[i] : i \in 1 .. Len(side)} = {rs[i].to.act : i \in EnsureReturns(rs)}
         /\ side # <<>> => "ensure" \in ops
BY DEF ProgramInv, SideInv, OpsInv

LEMMA SideKept ==
  ASSUME side' = side, side \in Seq(Nat), Increasing(side),
         {side[i] : i \in 1 .. Len(side)} = {rs[i].to.act : i \in EnsureReturns(rs)},
         {rs'[i].to.act : i \in EnsureReturns(rs')} = {rs[i].to.act : i \in EnsureReturns(rs)},
         (IF mode' = "running" /\ pc'.code = "ensure" THEN {pc'.act} ELSE {}) = {}
  PROVE  SideInv'
BY DEF SideInv

\* ;, with or without locals.
LEMMA EndBodyKeeps ==
  ASSUME ProgramInv, EndBody
  PROVE  ProgramInv'
<1> DEFINE n == Len(rs)
<1>1. /\ mode = "running" /\ pc.code \in {"plain", "locals"} /\ nOps' \in 0 .. MaxOps
      /\ ops' = ops /\ fresh' = fresh /\ runs' = runs /\ astray' = astray /\ side' = side
  BY DEF EndBody, InProgram, ProgramInv
<1>2. /\ rs \in Seq(Entries) /\ n \in Nat /\ n > 0 /\ WellFormed(rs, fresh)
      /\ Innermost(rs, base, n) /\ n \in 1 .. n
  BY <1>1, Facts, Running
<1>3. Floor \in Nat /\ Floor <= n /\ (n > Floor => RunsOn(rs, pc, n)) /\ mode \notin {"failed", "over"}
  BY <1>1, Running
<1>4. /\ side' \in Seq(Nat) /\ Increasing(side')
      /\ {side'[i] : i \in 1 .. Len(side')} = {rs[i].to.act : i \in EnsureReturns(rs)}
      /\ (side' # <<>> => "ensure" \in ops)
  BY <1>1, SideUnlessEnsure
<1>5. CASE pc.code = "locals"
  <2> DEFINE s == Prefix(rs, n - 2)
             b == rs[n - 1].saved
  <2>1. /\ n > 2 /\ rs[n - 1].k = "header" /\ rs[n - 2].k = "ret" /\ rs[n - 2].of = pc.act
        /\ Innermost(rs, b, n - 2) /\ b \in 0 .. n - 2
        /\ \A i \in n - 1 .. n : i \notin EnsureReturns(rs)
        /\ Floor < n - 2
    BY <1>1, <1>5, LocalsFrame
  <2>2. Exit(s, b, pc.act)
    <3>1. (n - 1) - 1 = n - 2
      BY <1>2
    <3>2. Exit(Prefix(rs, (n - 1) - 1), SavedBase(rs, n - 1), pc.act)
      BY <1>5 DEF EndBody
    <3> QED BY <2>1, <3>1, <3>2 DEF SavedBase
  <2>3. n - 2 \in 0 .. Len(rs) /\ n - 2 \in 1 .. n - 2
    BY <1>2, <2>1
  <2>4. s \in Seq(Entries) /\ Len(s) = n - 2 /\ \A i \in 1 .. n - 2 : s[i] = rs[i]
    BY <1>2, <2>3, PrefixIs
  <2>5. b # 0 /\ b < n - 2 => s[b + 1].k = "local"
    <3> SUFFICES ASSUME b # 0, b < n - 2 PROVE s[b + 1].k = "local"
      OBVIOUS
    <3>1. n - 2 \in 1 .. Len(rs)
      BY <1>2, <2>1
    <3>2. rs[b + 1].k = "local"
      BY <1>2, <2>1, <3>1, FrameHasLocal
    <3>3. b + 1 \in 1 .. n - 2
      BY <1>2, <2>1
    <3> QED BY <2>4, <3>2, <3>3
  <2> HIDE DEF s, b
  <2>6. rs' = Prefix(s, (n - 2) - 1) /\ base' = b /\ GoTo(s[n - 2], pc.act)
    <3>1. n - 2 \in 1 .. Len(s) /\ s[n - 2].k = "ret" /\ b \in 0 .. n - 2
      BY <2>1, <2>3, <2>4
    <3>2. \A i \in (n - 2) + 1 .. Len(s) : s[i].k = "mark"
      BY <1>2, <2>1, <2>4
    <3> QED BY <1>3, <2>1, <2>2, <2>4, <2>5, <3>1, <3>2, ExitPops
  <2>7. Prefix(s, (n - 2) - 1) = Prefix(rs, (n - 2) - 1)
    <3>1. (n - 2) - 1 \in 0 .. n - 2
      BY <1>2, <2>1
    <3> QED BY <1>2, <2>3, <3>1, PrefixOfPrefix DEF s
  <2>8. GoTo(rs[n - 2], rs[n - 2].of)
    BY <2>1, <2>3, <2>4, <2>6
  <2>9. \A i \in (n - 2) + 1 .. Len(rs) : i \notin EnsureReturns(rs)
    BY <1>2, <2>1
  <2>10. n - 2 \in 1 .. Len(rs)
    BY <1>2, <2>1
  <2> QED BY <1>1, <1>3, <1>4, <2>1, <2>6, <2>7, <2>8, <2>9, <2>10, Returns
<1>7. CASE pc.code = "plain" /\ n = Floor
  <2>1. Exit(rs, base, pc.act)
    BY <1>7 DEF EndBody
  <2>2. rs' = rs /\ base' = base /\ mode' = "stopped" /\ pc' = pc /\ ~lost'
    BY <1>1, <1>7, <2>1, ExitStops
  <2> QED BY <1>1, <1>7, <2>2, StopsKeep
<1>6. CASE pc.code = "plain" /\ n # Floor
  <2>1. Exit(rs, base, pc.act)
    BY <1>6 DEF EndBody
  <2>8. RunsOn(rs, pc, n) /\ Floor < n
    BY <1>2, <1>3, <1>6
  <2>9. Floor + 1 <= n /\ rs[Floor + 1].k = "ret"
    BY <1>2, <1>3, <2>8, AboveFloor
  <2>2. \E j \in 1 .. n : /\ rs[j].k = "ret" /\ rs[j].of = pc.act /\ j >= n - 1 /\ Floor < j
                          /\ \A i \in j + 1 .. n : rs[i].k = "mark"
    <3>1. CASE rs[n].k = "ret" /\ pc.act = rs[n].of
      BY <1>2, <2>8, <3>1
    <3>2. CASE rs[n].k = "mark" /\ rs[n].kind = "exception" /\ pc.act = rs[n].of
      <4>1. Supported(rs, n)
        BY <1>2 DEF WellFormed
      <4>2. n > 1 /\ rs[n - 1].k = "ret" /\ rs[n - 1].of = pc.act
        BY <3>2, <4>1 DEF Supported
      <4>3. n - 1 \in 1 .. n /\ \A i \in (n - 1) + 1 .. n : rs[i].k = "mark"
        BY <1>2, <3>2, <4>2
      <4>4. Floor < n - 1
        <5>1. Floor + 1 # n
          BY <2>9, <3>2
        <5> QED BY <1>2, <1>3, <2>9, <5>1
      <4> QED BY <1>2, <4>2, <4>3, <4>4
    <3> QED BY <1>6, <2>8, <3>1, <3>2 DEF RunsOn
  <2>3. PICK j \in 1 .. n : /\ rs[j].k = "ret" /\ rs[j].of = pc.act /\ j >= n - 1 /\ Floor < j
                            /\ \A i \in j + 1 .. n : rs[i].k = "mark"
    BY <2>2
  <2>4. Innermost(rs, base, j) /\ base \in 0 .. j
    <3>1. base \in 0 .. n /\ (base # 0 => rs[base].k = "header")
      BY <1>2 DEF Innermost
    <3>2. base <= j
      BY <1>2, <2>3, <3>1
    <3> QED BY <1>2, <2>3, <3>1, <3>2 DEF Innermost
  <2>5. base # 0 /\ base < j => rs[base + 1].k = "local"
    BY <1>2, <2>3, <2>4, FrameHasLocal
  <2>6. rs' = Prefix(rs, j - 1) /\ base' = base /\ GoTo(rs[j], pc.act)
    BY <1>2, <1>3, <2>1, <2>3, <2>4, <2>5, ExitPops
  <2>7. \A i \in j + 1 .. Len(rs) : i \notin EnsureReturns(rs)
    BY <2>3 DEF EnsureReturns
  <2> QED BY <1>1, <1>3, <1>4, <2>3, <2>4, <2>6, <2>7, Returns
<1> QED BY <1>1, <1>5, <1>6, <1>7

LEMMA EarlyExitKeeps ==
  ASSUME ProgramInv, EarlyExit
  PROVE  ProgramInv'
<1> DEFINE n == Len(rs)
<1>1. /\ mode = "running" /\ pc.code = "locals" /\ nOps' \in 0 .. MaxOps
      /\ ops' = ops /\ fresh' = fresh /\ runs' = runs /\ astray' = astray /\ side' = side
  BY PromptsAssumption DEF EarlyExit, Operation, InProgram, ProgramInv
<1>2. /\ n \in Nat /\ n > 2 /\ rs[n].k = "local" /\ rs[n - 2].k = "ret"
      /\ rs[n - 2].of = pc.act /\ Innermost(rs, rs[n - 1].saved, n - 2) /\ base = n - 1
      /\ \A i \in n - 1 .. n : i \notin EnsureReturns(rs)
      /\ Floor \in Nat /\ Floor < n - 2
  BY <1>1, LocalsFrame
<1>3. WellFormed(rs, fresh) /\ rs # <<>> /\ mode \notin {"failed", "over"}
  BY <1>1, <1>2, Facts
<1>4. Exit(rs, n - 1, pc.act)
  BY <1>2 DEF EarlyExit
<1>5. rs' = Prefix(rs, n - 3) /\ base' = rs[n - 1].saved /\ GoTo(rs[n - 2], pc.act)
  BY <1>2, <1>3, <1>4, ExitDropsLocals
<1>6. /\ side' \in Seq(Nat) /\ Increasing(side')
      /\ {side'[i] : i \in 1 .. Len(side')} = {rs[i].to.act : i \in EnsureReturns(rs)}
      /\ (side' # <<>> => "ensure" \in ops)
  BY <1>1, SideUnlessEnsure
<1>7. n - 2 \in 1 .. Len(rs) /\ n - 3 = (n - 2) - 1
      /\ \A i \in (n - 2) + 1 .. Len(rs) : i \notin EnsureReturns(rs)
  BY <1>2
<1> QED BY <1>1, <1>2, <1>5, <1>6, <1>7, Returns

LEMMA CatchEndKeeps ==
  ASSUME ProgramInv, CatchEnd
  PROVE  ProgramInv'
<1> DEFINE n == Len(rs)
           s == Prefix(rs, n - 2)
<1>1. /\ mode = "running" /\ pc.code = "catch" /\ nOps' \in 0 .. MaxOps
      /\ ops' = ops /\ fresh' = fresh /\ runs' = runs /\ astray' = astray /\ side' = side
      /\ Exit(s, base, pc.act)
  BY DEF CatchEnd, ProgramInv
<1>2. /\ rs \in Seq(Entries) /\ n \in Nat /\ n > 0 /\ RunsOn(rs, pc, n) /\ WellFormed(rs, fresh)
      /\ Innermost(rs, base, n) /\ n \in 1 .. n /\ Floor \in Nat /\ Floor < n
  <2>1. pc.code # "plain"
    BY <1>1
  <2>2. Floor # n
    BY <1>1, <2>1, Running DEF At
  <2> QED BY <1>1, <2>2, Facts, Running
<1>4. /\ rs[n].k = "depth" /\ n > 1 /\ rs[n - 1].k = "mark" /\ rs[n - 1].kind = "catch"
      /\ pc.act = rs[n - 1].of
  <2>1. rs[n].k = "depth" /\ n > 1 /\ pc.act = rs[n - 1].of
    BY <1>1, <1>2 DEF RunsOn
  <2>2. Supported(rs, n)
    BY <1>2 DEF WellFormed
  <2> QED BY <2>1, <2>2 DEF Supported
<1>5. n > 2 /\ rs[n - 2].k = "ret" /\ rs[n - 2].of = pc.act
  <2>1. n - 1 \in 1 .. Len(rs) /\ (n - 1) - 1 = n - 2
    BY <1>2, <1>4
  <2>2. Supported(rs, n - 1)
    BY <1>2, <2>1 DEF WellFormed
  <2>3. n - 1 > 1 /\ rs[n - 2].k = "ret" /\ rs[n - 2].of = pc.act
    BY <1>4, <2>1, <2>2 DEF Supported
  <2> QED BY <1>2, <2>3
<1>3. Floor < n - 2 /\ mode \notin {"failed", "over"}
  <2>1. rs[Floor + 1].k = "ret"
    BY <1>1, <1>2, AboveFloor
  <2>2. Floor + 1 # n /\ Floor + 1 # n - 1
    BY <1>4, <2>1
  <2> QED BY <1>1, <1>2, <1>5, <2>2
<1>6. n - 2 \in 0 .. Len(rs) /\ n - 2 \in 1 .. Len(rs) /\ n - 2 \in 1 .. n - 2
  BY <1>2, <1>5
<1>7. s \in Seq(Entries) /\ Len(s) = n - 2 /\ \A i \in 1 .. n - 2 : s[i] = rs[i]
  BY <1>2, <1>6, PrefixIs
<1>8. Innermost(rs, base, n - 2) /\ base \in 0 .. n - 2
  <2>1. base \in 0 .. n /\ (base # 0 => rs[base].k = "header") /\ \A i \in base + 1 .. n : rs[i].k # "header"
    BY <1>2 DEF Innermost
  <2>2. base # n /\ base # n - 1
    BY <1>2, <1>4, <1>5, <2>1
  <2> QED BY <1>2, <1>5, <2>1, <2>2 DEF Innermost
<1>9. base # 0 /\ base < n - 2 => s[base + 1].k = "local"
  <2> SUFFICES ASSUME base # 0, base < n - 2 PROVE s[base + 1].k = "local"
    OBVIOUS
  <2>1. rs[base + 1].k = "local"
    BY <1>2, <1>6, <1>8, FrameHasLocal
  <2>2. base + 1 \in 1 .. n - 2
    BY <1>2, <1>8
  <2> QED BY <1>7, <2>1, <2>2
<1> HIDE DEF s
<1>10. rs' = Prefix(s, (n - 2) - 1) /\ base' = base /\ GoTo(s[n - 2], pc.act)
  <2>1. n - 2 \in 1 .. Len(s) /\ s[n - 2].k = "ret"
    BY <1>5, <1>6, <1>7
  <2>2. \A i \in (n - 2) + 1 .. Len(s) : s[i].k = "mark"
    BY <1>2, <1>7
  <2> QED BY <1>1, <1>2, <1>3, <1>7, <1>8, <1>9, <2>1, <2>2, ExitPops
<1>11. Prefix(s, (n - 2) - 1) = Prefix(rs, (n - 2) - 1)
  <2>1. (n - 2) - 1 \in 0 .. n - 2
    BY <1>2, <1>5
  <2> QED BY <1>2, <1>6, <2>1, PrefixOfPrefix DEF s
<1>12. GoTo(rs[n - 2], rs[n - 2].of)
  BY <1>5, <1>6, <1>7, <1>10
<1>13. \A i \in (n - 2) + 1 .. Len(rs) : i \notin EnsureReturns(rs)
  <2>1. \A i \in (n - 2) + 1 .. Len(rs) : i = n - 1 \/ i = n
    BY <1>2
  <2> QED BY <1>4, <2>1 DEF EnsureReturns
<1>14. /\ side' \in Seq(Nat) /\ Increasing(side')
       /\ {side'[i] : i \in 1 .. Len(side')} = {rs[i].to.act : i \in EnsureReturns(rs)}
       /\ (side' # <<>> => "ensure" \in ops)
  BY <1>1, SideUnlessEnsure
<1> QED BY <1>1, <1>3, <1>5, <1>6, <1>8, <1>10, <1>11, <1>12, <1>13, <1>14, Returns

----------------------------------------------------------------------------
(* Throwing, catching, and the cleanup in between.                          *)

\* No prompt for errors and throws lies above m: every ensure is below.
LEMMA EnsuresBelow ==
  ASSUME NEW s, NEW f, WellFormed(s, f), NEW m \in 0 .. Len(s),
         \A i \in m + 1 .. Len(s) : ~(s[i].k = "mark" /\ s[i].kind = "catch")
  PROVE  \A i \in EnsureReturns(s) : i < m
<1> SUFFICES ASSUME NEW i \in EnsureReturns(s) PROVE i < m
  OBVIOUS
<1>1. i \in 1 .. Len(s) /\ s \in Seq(Entries) /\ Len(s) \in Nat
  BY DEF EnsureReturns, WellFormed
<1>2. Followed(s, i)
  BY <1>1 DEF WellFormed
<1>3. i < Len(s) /\ s[i + 1].k = "mark" /\ s[i + 1].kind = "catch"
  BY <1>2 DEF Followed
<1>4. ~(i + 1 \in m + 1 .. Len(s))
  BY <1>3
<1> QED BY <1>1, <1>3, <1>4

LEMMA InnermostUnder ==
  ASSUME NEW s, NEW n \in Nat, n > 0, NEW b, Innermost(s, b, n - 1), s[n].k # "header"
  PROVE  Innermost(s, b, n)
BY DEF Innermost

\* The stack is cut back to a prompt that no ensure lies above.
LEMMA UnwindsKeep ==
  ASSUME ProgramInv, NEW m \in 1 .. Len(rs), rs[m].k = "mark", \A i \in EnsureReturns(rs) : i < m,
         \A i \in 1 .. m : Leads(rs, runs, i), \A k \in 2 .. Len(runs) : LetsThrough(runs[k]),
         NEW cause, UnwindTo(m, cause), ops' = ops, fresh' = fresh, pc' = pc, nOps' \in 0 .. MaxOps,
         astray' = "no", ~lost', side' \in Seq(Nat), Increasing(side'), side' # <<>> => "ensure" \in ops,
         {side'[i] : i \in 1 .. Len(side')} = {rs[i].to.act : i \in EnsureReturns(rs)}
  PROVE  ProgramInv'
<1>1. /\ WellFormed(rs, fresh) /\ rs \in Seq(Entries) /\ fresh \in Nat \ {0} /\ Len(rs) \in Nat
      /\ pc \in Places
      /\ RunsInv /\ OpsInv /\ runs \in Seq(Loops) /\ runs # <<>> /\ runs[1] = Outermost /\ Len(runs) \in Nat
      /\ Len(runs) > 0
  BY Facts
<1>2. /\ target' = rs[m].id /\ rs' = Prefix(rs, m) /\ base' = BaseBelow(m) /\ mode' = "unwinding"
      /\ runs' = Looping(runs) /\ aim'.uid = rs[m].uid
  BY DEF UnwindTo
<1>3. /\ rs' \in Seq(Entries) /\ Len(rs') = m /\ \A i \in 1 .. m : rs'[i] = rs[i]
  <2>1. m \in 0 .. Len(rs)
    BY <1>1
  <2> QED BY <1>1, <1>2, <2>1, PrefixIs
<1>4. WellFormed(rs', fresh)
  <2>1. m \in 0 .. Len(rs) /\ rs[m].k # "header" /\ m \notin EnsureReturns(rs)
    BY <1>1 DEF EnsureReturns
  <2> QED BY <1>1, <1>2, <2>1, CutBack
<1>5. Innermost(rs', base', m)
  <2>1. Innermost(rs, base, Len(rs))
    BY Facts
  <2>2. Innermost(rs, base', m - 1)
    BY <1>1, <1>2, <2>1, BaseBelowIs
  <2>3. m \in Nat /\ m > 0 /\ m - 1 \in 0 .. m /\ \A i \in 1 .. m : rs[i] = rs'[i]
    BY <1>1, <1>3
  <2>4. Innermost(rs', base', m - 1)
    BY <2>2, <2>3, AgreeInnermost
  <2>5. rs'[m].k # "header"
    BY <1>3, <2>3
  <2> QED BY <2>3, <2>4, <2>5, InnermostUnder
<1>6. /\ runs' \in Seq(Loops) /\ Len(runs') = Len(runs) /\ runs'[1] = Outermost
      /\ \A k \in 1 .. Len(runs) : Same(runs[k], runs'[k])
  BY <1>1, <1>2, LoopingIs
<1>7. ControlInv'
  <2>1. rs' # <<>> /\ rs'[Len(rs')] = rs[m]
    BY <1>1, <1>3
  <2>2. \A k \in 2 .. Len(runs') : LetsThrough(runs[k])'
    <3> SUFFICES ASSUME NEW k \in 2 .. Len(runs') PROVE LetsThrough(runs[k])'
      OBVIOUS
    <3>1. k \in 2 .. Len(runs) /\ k \in 1 .. Len(runs)
      BY <1>1, <1>6
    <3> QED BY <1>6, <3>1 DEF Same, LetsThrough
  <2> QED BY <1>2, <2>1, <2>2 DEF ControlInv
<1>8. EnsureReturns(rs') = EnsureReturns(rs)
  <2>3. \A i \in 1 .. m : i \in EnsureReturns(rs') <=> i \in EnsureReturns(rs)
    BY <1>1, <1>3 DEF EnsureReturns
  <2>4. EnsureReturns(rs') \subseteq 1 .. m /\ EnsureReturns(rs) \subseteq 1 .. Len(rs)
    BY <1>3 DEF EnsureReturns
  <2>5. \A i \in EnsureReturns(rs) : i \in 1 .. m
    BY <1>1, <2>4
  <2> QED BY <2>3, <2>4, <2>5
<1>9. \A i \in EnsureReturns(rs) : rs'[i] = rs[i]
  BY <1>3, <1>8 DEF EnsureReturns
<1>10. {rs'[i].to.act : i \in EnsureReturns(rs')} = {rs[i].to.act : i \in EnsureReturns(rs)}
  BY <1>8, <1>9
<1>11. SideInv'
  <2>1. (IF mode' = "running" /\ pc'.code = "ensure" THEN {pc'.act} ELSE {}) = {}
    BY <1>2
  <2> QED BY <1>10, <2>1 DEF SideInv
<1>12. OpsInv'
  <2>1. mode' # "failed"
    BY <1>2
  <2>2. Len(rs') <= Len(rs) /\ \A i \in 1 .. Len(rs') : rs[i] = rs'[i]
    BY <1>1, <1>3
  <2>3. Len(runs') <= Len(runs) /\ \A k \in 1 .. Len(runs') : Same(runs[k], runs'[k])
    BY <1>1, <1>6
  <2> QED BY <1>1, <1>3, <1>6, <2>1, <2>2, <2>3, OpsKeep
<1>13. RunsInv'
  <2> DEFINE h == Len(runs)
  <2>1. /\ h \in 1 .. Len(runs) /\ h <= Len(runs') /\ h = Len(runs') /\ h \in Nat
        /\ \A k \in 1 .. h : Same(runs[k], runs'[k]) /\ h = Len(runs)
    BY <1>1, <1>6
  <2>2. /\ m \in Nat /\ m <= Len(rs) /\ m <= Len(rs') /\ \A i \in 1 .. m : rs[i] = rs'[i]
    BY <1>1, <1>3
  <2> HIDE DEF h
  <2>3. (h + 1 .. Len(runs)) = {} /\ (h + 1 .. Len(runs')) = {} /\ (m + 1 .. Len(rs')) = {}
    BY <1>3, <2>1, <2>2
  <2>4. Len(rs') = m
    BY <1>3
  <2>5. \A k \in h + 1 .. Len(runs') : Nests(rs', runs'[k - 1], runs'[k])
    BY <2>3
  <2>6. \A i \in m + 1 .. Len(rs') : Leads(rs', runs', i)
    BY <2>3
  <2>7. \A i \in 1 .. m : mode' \notin {"failed", "over"} \/ i <= Floor' \/ i <= CatchIndex' =>
          /\ Leads(rs, runs, i)
          /\ \A k \in h + 1 .. Len(runs) :
               runs[k].floor # i - 1 /\ ~(runs[k].op = "amb1" /\ runs[k].floor = i)
          /\ \A k \in h + 1 .. Len(runs') : runs'[k].floor # i - 1
    BY <2>3
  <2> QED BY <1>1, <1>3, <1>6, <2>1, <2>2, <2>4, <2>5, <2>6, <2>7, RunsKeep
<1>14. pc' \in Places /\ fresh' \in Nat \ {0} /\ WellFormed(rs', fresh') /\ Innermost(rs', base', Len(rs'))
       /\ mode' \in {"running", "stopped", "unwinding", "failed", "over"}
  BY <1>1, <1>2, <1>3, <1>4, <1>5
<1> QED BY <1>7, <1>11, <1>12, <1>13, <1>14 DEF ProgramInv

\* An error leaves the stack alone.
LEMMA FailKeeps ==
  ASSUME ProgramInv, mode = "running", Fail, ops \cap {"fault", "fail"} # {} \/ CatchIndex = 0,
         fresh' = fresh, pc' = pc, nOps' \in 0 .. MaxOps,
         UNCHANGED <<ops, rs, base, runs>>, astray' = "no", ~lost',
         side' \in Seq(Nat), Increasing(side'), side' # <<>> => "ensure" \in ops,
         {side'[i] : i \in 1 .. Len(side')} = {rs[i].to.act : i \in EnsureReturns(rs)}
  PROVE  ProgramInv'
<1>1. mode' = "failed" /\ aim'.uid = CatchUid /\ CatchUid' = CatchUid
  BY DEF Fail, CatchUid, CatchIndex, PromptIndex
<1>2. /\ rs \in Seq(Entries) /\ runs \in Seq(Loops) /\ Len(rs) \in Nat /\ Len(runs) \in Nat /\ Len(rs) > 0
      /\ Floor <= Len(rs) /\ Floor \in Nat /\ ~IsCatch(rs, Len(rs)) /\ (Len(rs) = Floor => Top.op \in Bodies)
      /\ RunsInv /\ OpsInv /\ \A k \in 1 .. Len(runs) : Same(runs[k], runs[k])
  BY Facts, Running
<1>3. /\ Top' = Top /\ Floor' = Floor
  BY DEF Top, Floor
<1>4. ControlInv'
  <2>1. IF Top.op \in Bodies THEN Floor <= Len(rs) ELSE Floor < Len(rs)
    BY <1>2
  <2> QED BY <1>1, <1>2, <1>3, <2>1 DEF ControlInv
<1>5. (WellFormed(rs, fresh) /\ Innermost(rs, base, Len(rs)))'
  BY DEF ProgramInv
<1>6. {rs'[i].to.act : i \in EnsureReturns(rs')} = {rs[i].to.act : i \in EnsureReturns(rs)}
  BY DEF EnsureReturns
<1>7. SideInv'
  <2>1. (IF mode' = "running" /\ pc'.code = "ensure" THEN {pc'.act} ELSE {}) = {}
    BY <1>1
  <2> QED BY <1>6, <2>1 DEF SideInv
<1>8. OpsInv'
  <2>1. Len(rs') <= Len(rs) /\ \A i \in 1 .. Len(rs') : rs[i] = rs'[i]
    BY <1>2
  <2>2. Len(runs') <= Len(runs) /\ \A k \in 1 .. Len(runs') : Same(runs[k], runs'[k])
    BY <1>2
  <2>3. rs' \in Seq(Entries) /\ runs' \in Seq(Loops) /\ ops' = ops
    BY <1>2
  <2> QED BY <1>2, <2>1, <2>2, <2>3, OpsKeep
<1>9. RunsInv'
  <2>1. \A i \in 1 .. Len(rs) : Leads(rs, runs, i)
    BY AllLead
  <2>2. \A i \in 1 .. Len(rs') : Leads(rs', runs', i)
    BY <2>1
  <2>3. \A k \in 2 .. Len(runs') : Nests(rs', runs'[k - 1], runs'[k])
    BY <1>2 DEF RunsInv
  <2>4. runs' \in Seq(Loops) /\ runs' # <<>> /\ runs'[1] = Outermost
    BY <1>2 DEF RunsInv
  <2> QED BY <2>2, <2>3, <2>4 DEF RunsInv
<1>10. pc' \in Places /\ fresh' \in Nat \ {0}
       /\ mode' \in {"running", "stopped", "unwinding", "failed", "over"}
  BY <1>1 DEF ProgramInv
<1> QED BY <1>4, <1>5, <1>7, <1>8, <1>9, <1>10 DEF ProgramInv

LEMMA RaiseKeeps ==
  ASSUME ProgramInv, Orderly(ops), ops \cap Raises # {}, mode = "running", NEW cause, Raise(cause),
         ops' = ops, fresh' = fresh, pc' = pc, nOps' \in 0 .. MaxOps, astray' = "no", ~lost',
         side' \in Seq(Nat), Increasing(side'), side' # <<>> => "ensure" \in ops,
         {side'[i] : i \in 1 .. Len(side')} = {rs[i].to.act : i \in EnsureReturns(rs)}
  PROVE  ProgramInv'
<1> DEFINE m == PromptIndex({"exception", "catch"})
<1>1. rs \in Seq(Entries) /\ WellFormed(rs, fresh) /\ Len(rs) \in Nat
  BY Facts
<1>2. /\ m \in 0 .. Len(rs) /\ (m # 0 => rs[m].k = "mark")
      /\ \A i \in m + 1 .. Len(rs) : ~(rs[i].k = "mark" /\ rs[i].kind \in {"exception", "catch"})
  BY <1>1, PromptIndexIs
<1>3. CASE m = 0
  <2>1. Fail /\ UNCHANGED <<rs, base, runs>>
    BY <1>3 DEF Raise
  <2>2. CatchIndex = 0
    <3>1. /\ CatchIndex \in 0 .. Len(rs)
          /\ CatchIndex # 0 => rs[CatchIndex].k = "mark" /\ rs[CatchIndex].kind \in {"catch"}
      BY <1>1, PromptIndexIs DEF CatchIndex
    <3>2. CatchIndex # 0 => CatchIndex \in 1 .. Len(rs)
      BY <1>1, <3>1
    <3> QED BY <1>2, <1>3, <3>1, <3>2
  <2>3. UNCHANGED <<ops, rs, base, runs>>
    BY <2>1
  <2> QED BY <2>1, <2>2, <2>3, FailKeeps
<1>4. CASE m # 0
  <2>1. UnwindTo(m, cause)
    BY <1>4 DEF Raise
  <2>2. m \in 1 .. Len(rs) /\ \A i \in m + 1 .. Len(rs) : ~(rs[i].k = "mark" /\ rs[i].kind = "catch")
    BY <1>2, <1>4
  <2> HIDE DEF m
  <2>3. \A i \in EnsureReturns(rs) : i < m
    BY <1>1, <1>2, <2>2, EnsuresBelow
  <2>4. \A i \in 1 .. m : Leads(rs, runs, i)
    <3> SUFFICES ASSUME NEW i \in 1 .. m PROVE Leads(rs, runs, i)
      OBVIOUS
    <3>1. i \in 1 .. Len(rs) /\ mode \notin {"failed", "over"}
      BY <1>1, <2>2
    <3> QED BY <3>1, AllLead
  <2>5. \A k \in 2 .. Len(runs) : LetsThrough(runs[k])
    <3>1. "each" \notin ops /\ ~({"times", "fault"} \subseteq ops)
      BY DEF Orderly
    <3> QED BY <3>1 DEF ProgramInv, OpsInv, Bodies, LetsThrough
  <2> QED BY <1>2, <1>4, <2>1, <2>2, <2>3, <2>4, <2>5, UnwindsKeep
<1> QED BY <1>3, <1>4

LEMMA ThrowKeeps ==
  ASSUME ProgramInv, Orderly(ops), Throw
  PROVE  ProgramInv'
<1>1. /\ mode = "running" /\ pc.code # "ensure" /\ Raise("raise") /\ fresh' = fresh /\ pc' = pc
      /\ nOps' \in 0 .. MaxOps /\ side' = side /\ ops' = ops /\ "throw" \in ops
  BY PromptsAssumption DEF Throw, Operation, InProgram, ProgramInv
<1>2. /\ side' \in Seq(Nat) /\ Increasing(side') /\ (side' # <<>> => "ensure" \in ops)
      /\ {side'[i] : i \in 1 .. Len(side')} = {rs[i].to.act : i \in EnsureReturns(rs)}
  BY <1>1, SideUnlessEnsure
<1>3. ops \cap Raises # {}
  BY <1>1 DEF Raises
<1>4. astray' = "no" /\ ~lost'
  BY DEF Throw, ProgramInv, ControlInv
<1> QED BY <1>1, <1>2, <1>3, <1>4, RaiseKeeps

LEMMA FaultKeeps ==
  ASSUME ProgramInv, Orderly(ops), Fault
  PROVE  ProgramInv'
<1>1. /\ mode = "running" /\ pc.code # "ensure" /\ Fail /\ fresh' = fresh /\ pc' = pc
      /\ nOps' \in 0 .. MaxOps /\ UNCHANGED <<ops, rs, base, runs>> /\ side' = side /\ "fault" \in ops
  BY PromptsAssumption DEF Fault, Operation, InProgram, ProgramInv, stackVars
<1>2. /\ side' \in Seq(Nat) /\ Increasing(side') /\ (side' # <<>> => "ensure" \in ops)
      /\ {side'[i] : i \in 1 .. Len(side')} = {rs[i].to.act : i \in EnsureReturns(rs)}
  BY <1>1, SideUnlessEnsure
<1>3. ops \cap {"fault", "fail"} # {}
  BY <1>1
<1>4. astray' = "no" /\ ~lost'
  BY DEF Fault, ProgramInv, ControlInv
<1> QED BY <1>1, <1>2, <1>3, <1>4, FailKeeps

LEMMA WithoutLast ==
  ASSUME NEW s \in Seq(Nat), s # <<>>
  PROVE  /\ Prefix(s, Len(s) - 1) \in Seq(Nat) /\ Len(Prefix(s, Len(s) - 1)) = Len(s) - 1
         /\ \A i \in 1 .. Len(s) - 1 : Prefix(s, Len(s) - 1)[i] = s[i]
<1> DEFINE n == Len(s) - 1
<1>1. n \in Nat /\ n <= Len(s) /\ n \in 0 .. Len(s)
  OBVIOUS
<1> HIDE DEF n
<1>2. /\ SubSeq(s, 1, n) \in Seq(Nat) /\ Len(SubSeq(s, 1, n)) = n
      /\ \A i \in 1 .. n : SubSeq(s, 1, n)[i] = s[i]
  BY <1>1
<1> QED BY <1>2 DEF n, Prefix

\* The cleanup of the ensure that has come to its end is the last of the side
\* stack, because the ensures around it have smaller numbers.
LEMMA CleanupIsLast ==
  ASSUME ProgramInv, mode = "running", pc.code = "ensure",
         side' = Prefix(side, Len(side) - 1), side # <<>>
  PROVE  /\ side' \in Seq(Nat) /\ Increasing(side')
         /\ {side'[i] : i \in 1 .. Len(side')} = {rs[i].to.act : i \in EnsureReturns(rs)}
         /\ rs[Len(rs)].k = "ret" /\ rs[Len(rs)].of = pc.act /\ Len(rs) \in 1 .. Len(rs)
         /\ Floor \in Nat /\ Floor < Len(rs)
<1> DEFINE n == Len(rs)
           d == Len(side)
           A == {rs[i].to.act : i \in EnsureReturns(rs)}
<1>1. /\ rs \in Seq(Entries) /\ n \in Nat /\ n > 0 /\ RunsOn(rs, pc, n) /\ WellFormed(rs, fresh)
      /\ fresh \in Nat /\ side \in Seq(Nat) /\ d \in Nat /\ d > 0 /\ n \in 1 .. n
      /\ Floor \in Nat /\ Floor < n
  <2>1. pc.code # "plain"
    OBVIOUS
  <2>2. Floor # n
    BY <2>1, Running DEF At
  <2>3. rs \in Seq(Entries) /\ n \in Nat /\ n > 0 /\ Floor <= n /\ Floor \in Nat /\ WellFormed(rs, fresh)
    BY Facts, Running
  <2>4. n > Floor
    BY <2>2, <2>3
  <2>5. RunsOn(rs, pc, n)
    BY <2>4, Running
  <2>6. fresh \in Nat /\ side \in Seq(Nat)
    BY Facts
  <2>7. d \in Nat /\ d > 0
    BY <2>6
  <2> QED BY <2>3, <2>4, <2>5, <2>6, <2>7
<1>2. rs[n].k = "ret" /\ rs[n].of = pc.act
  BY <1>1 DEF RunsOn
<1>3. Increasing(side) /\ {side[i] : i \in 1 .. d} = A \cup {pc.act}
  BY DEF ProgramInv, SideInv
<1>4. \A a \in A : a \in Nat /\ a < pc.act
  <2> SUFFICES ASSUME NEW i \in EnsureReturns(rs) PROVE rs[i].to.act \in Nat /\ rs[i].to.act < pc.act
    OBVIOUS
  <2>1. i \in 2 .. n /\ rs[i - 1].k = "ret" /\ rs[i].to.act = rs[i - 1].of /\ rs[i].to.act \in Nat
    BY <1>1, EnsureActs
  <2>2. i - 1 \in 1 .. n /\ n \in (i - 1) + 1 .. n
    <3>1. i \in 2 .. n /\ n \in Nat
      BY <1>1, <2>1
    <3> HIDE DEF n
    <3> QED BY <3>1
  <2>3. rs[i - 1].of < rs[n].of
    BY <1>1, <1>2, <2>1, <2>2 DEF WellFormed, Numbered
  <2> QED BY <1>2, <2>1, <2>3
<1>5. /\ side' \in Seq(Nat) /\ Len(side') = d - 1 /\ \A i \in 1 .. d - 1 : side'[i] = side[i]
  BY <1>1, WithoutLast
<1>6. \A i \in 1 .. d : side[i] \in Nat
  BY <1>1
<1>7. side[d] = pc.act
  <2>1. PICK p \in 1 .. d : side[p] = pc.act
    BY <1>3
  <2>2. side[d] \in A \cup {pc.act}
    <3>1. d \in 1 .. d
      BY <1>1
    <3> HIDE DEF A, d
    <3> QED BY <1>3, <3>1
  <2>3. p < d => side[p] < side[d]
    BY <1>1, <1>3, <2>1 DEF Increasing
  <2>4. side[d] \in A => side[d] < pc.act
    BY <1>4
  <2>5. p = d \/ p < d
    BY <1>1, <2>1
  <2>6. side[d] \in Nat /\ side[p] \in Nat
    BY <1>1, <1>6, <2>1
  <2> HIDE DEF d, A
  <2>7. CASE p = d
    BY <2>1, <2>7
  <2>8. CASE p < d
    BY <2>1, <2>2, <2>3, <2>4, <2>6, <2>8
  <2> QED BY <2>5, <2>7, <2>8
<1>8. Increasing(side')
  <2> SUFFICES ASSUME NEW i \in 1 .. Len(side'), NEW j \in 1 .. Len(side'), i < j
               PROVE  side'[i] < side'[j]
    BY DEF Increasing
  <2>1. i \in 1 .. d /\ j \in 1 .. d /\ side'[i] = side[i] /\ side'[j] = side[j]
    <3>1. d \in Nat /\ Len(side') = d - 1
      BY <1>1, <1>5
    <3>2. i \in 1 .. d - 1 /\ j \in 1 .. d - 1
      BY <3>1
    <3> HIDE DEF d
    <3> QED BY <1>5, <3>1, <3>2
  <2> QED BY <1>3, <2>1 DEF Increasing
<1>9. {side'[i] : i \in 1 .. Len(side')} = A
  <2>1. \A i \in 1 .. d - 1 : side[i] \in A
    <3> SUFFICES ASSUME NEW i \in 1 .. d - 1 PROVE side[i] \in A
      OBVIOUS
    <3>1. i \in 1 .. d /\ d \in 1 .. d /\ i < d
      BY <1>1
    <3>2. side[i] < side[d]
      BY <1>3, <3>1 DEF Increasing
    <3>3. side[i] # pc.act
      BY <1>6, <1>7, <3>1, <3>2
    <3>4. side[i] \in A \cup {pc.act}
      BY <1>3, <3>1
    <3> QED BY <3>3, <3>4
  <2>2. \A a \in A : \E i \in 1 .. d - 1 : side[i] = a
    <3> SUFFICES ASSUME NEW a \in A PROVE \E i \in 1 .. d - 1 : side[i] = a
      OBVIOUS
    <3>1. PICK i \in 1 .. d : side[i] = a
      BY <1>3
    <3>2. a \in Nat /\ a < pc.act
      BY <1>4
    <3>3. i # d
      BY <1>6, <1>7, <3>1, <3>2
    <3>4. i \in 1 .. d - 1
      BY <1>1, <3>1, <3>3
    <3> QED BY <3>1, <3>4
  <2> HIDE DEF A, d
  <2>3. {side[i] : i \in 1 .. d - 1} = A
    BY <2>1, <2>2
  <2> QED BY <1>5, <2>3
<1> QED BY <1>1, <1>2, <1>5, <1>8, <1>9

LEMMA EnsureEndKeeps ==
  ASSUME ProgramInv, Orderly(ops), EnsureEnd
  PROVE  ProgramInv'
<1> DEFINE n == Len(rs)
<1>1. /\ mode = "running" /\ pc.code = "ensure" /\ nOps' \in 0 .. MaxOps /\ ops' = ops
      /\ fresh' = fresh /\ astray' = astray /\ side' = Prefix(side, Len(side) - 1) /\ side # <<>>
  BY DEF EnsureEnd, ProgramInv
<1>2. /\ side' \in Seq(Nat) /\ Increasing(side') /\ "ensure" \in ops
      /\ {side'[i] : i \in 1 .. Len(side')} = {rs[i].to.act : i \in EnsureReturns(rs)}
      /\ rs[n].k = "ret" /\ rs[n].of = pc.act /\ n \in 1 .. n /\ Floor \in Nat /\ Floor < n
  BY <1>1, CleanupIsLast DEF ProgramInv, OpsInv
<1>3. CASE thrown
  <2>1. Raise("raise") /\ pc' = pc
    BY <1>3 DEF EnsureEnd
  <2>2. astray' = "no" /\ ~lost'
    BY <1>3 DEF EnsureEnd, ProgramInv, ControlInv
  <2>3. ops \cap Raises # {}
    BY <1>2 DEF Raises
  <2> QED BY <1>1, <1>2, <2>1, <2>2, <2>3, RaiseKeeps
<1>4. CASE ~thrown
  <2>1. Exit(rs, base, pc.act) /\ runs' = runs
    BY <1>4 DEF EnsureEnd
  <2>2. rs \in Seq(Entries) /\ n \in Nat /\ WellFormed(rs, fresh) /\ Innermost(rs, base, n)
    BY Facts
  <2>3. base \in 0 .. n
    BY <2>2 DEF Innermost
  <2>4. base # 0 /\ base < n => rs[base + 1].k = "local"
    BY <1>2, <2>2, FrameHasLocal
  <2>5. \A i \in n + 1 .. Len(rs) : rs[i].k = "mark" /\ i \notin EnsureReturns(rs)
    BY <2>2
  <2>6. rs' = Prefix(rs, n - 1) /\ base' = base /\ GoTo(rs[n], pc.act)
    BY <1>2, <2>1, <2>2, <2>3, <2>4, <2>5, ExitPops
  <2>7. mode \notin {"failed", "over"} /\ (side' # <<>> => "ensure" \in ops)
    BY <1>1, <1>2
  <2> QED BY <1>1, <1>2, <2>1, <2>2, <2>5, <2>6, <2>7, Returns
<1> QED BY <1>3, <1>4

LEMMA CatchInterpreterErrorKeeps ==
  ASSUME ProgramInv, Orderly(ops), CatchInterpreterError
  PROVE  ProgramInv'
<1> DEFINE m == CatchIndex
<1>1. /\ mode = "failed" /\ m > Floor /\ Delivered(rs[m].uid) /\ UnwindTo(m, aim.cause)
      /\ nOps' \in 0 .. MaxOps /\ pc' = pc /\ fresh' = fresh /\ side' = side /\ ops' = ops
  BY DEF CatchInterpreterError, Catchable, ProgramInv, CatchIndex
<1>2. /\ rs \in Seq(Entries) /\ Len(rs) \in Nat /\ WellFormed(rs, fresh) /\ RunsInv /\ OpsInv
      /\ Len(runs) \in Nat
      /\ Floor \in Nat
  BY Facts, TopIs
<1>3. /\ m \in 0 .. Len(rs) /\ (m # 0 => rs[m].k = "mark" /\ rs[m].kind \in {"catch"})
      /\ \A i \in m + 1 .. Len(rs) : ~(rs[i].k = "mark" /\ rs[i].kind \in {"catch"})
  BY <1>2, PromptIndexIs DEF CatchIndex
<1>4. m # 0 /\ m \in 1 .. Len(rs)
  BY <1>1, <1>2, <1>3
<1>5. aim.uid = rs[m].uid
  BY <1>1, <1>4 DEF ProgramInv, ControlInv, CatchUid
<1>6. astray' = "no" /\ ~lost'
  BY <1>1, <1>5 DEF CatchInterpreterError, Delivered, ProgramInv, ControlInv
<1>7. /\ side' \in Seq(Nat) /\ Increasing(side') /\ (side' # <<>> => "ensure" \in ops)
      /\ {side'[i] : i \in 1 .. Len(side')} = {rs[i].to.act : i \in EnsureReturns(rs)}
  BY <1>1, SideUnlessEnsure
<1>8. \A i \in m + 1 .. Len(rs) : ~(rs[i].k = "mark" /\ rs[i].kind = "catch")
  BY <1>3
<1>9. Len(runs) = 1
  <2> DEFINE l == Len(runs)
  <2> SUFFICES ASSUME l # 1 PROVE FALSE
    OBVIOUS
  <2>1. l \in 2 .. l
    <3>1. l \in Nat /\ l > 0
      BY Facts
    <3> HIDE DEF l
    <3> QED BY <3>1
  <2>2. IsCatch(rs, m)
    BY <1>3, <1>4 DEF IsCatch
  <2>3. m <= runs[l].floor
    BY <1>1, <1>2, <1>4, <2>1, <2>2 DEF OpsInv
  <2>4. Floor = runs[l].floor
    BY DEF Floor, Top
  <2> HIDE DEF l, m
  <2> QED BY <1>1, <1>2, <1>3, <2>3, <2>4
<1>10. \A i \in 1 .. m : Leads(rs, runs, i)
  <2> SUFFICES ASSUME NEW i \in 1 .. m PROVE Leads(rs, runs, i)
    OBVIOUS
  <2>1. i \in 1 .. Len(rs) /\ i <= CatchIndex
    BY <1>3
  <2> QED BY <1>2, <2>1 DEF RunsInv
<1> HIDE DEF m
<1>11. \A i \in EnsureReturns(rs) : i < m
  BY <1>2, <1>3, <1>8, EnsuresBelow
<1>12. \A k \in 2 .. Len(runs) : LetsThrough(runs[k])
  BY <1>9
<1>13. rs[m].k = "mark"
  BY <1>3, <1>4
<1> QED BY <1>1, <1>4, <1>6, <1>7, <1>10, <1>11, <1>12, <1>13, UnwindsKeep

\* The prompt lies on top when the loop looks for it, and the return of the
\* word that set it below.
LEMMA UnwindKeeps ==
  ASSUME ProgramInv, Orderly(ops), Unwind
  PROVE  ProgramInv'
<1> DEFINE n == Len(rs)
           s == Prefix(rs, n - 1)
<1>1. /\ mode = "unwinding" /\ nOps' \in 0 .. MaxOps /\ runs' = runs /\ fresh' = fresh /\ side' = side
      /\ ops' = ops /\ Len(rs) > Floor
  BY DEF Unwind, ProgramInv
<1>2. /\ rs \in Seq(Entries) /\ n \in Nat /\ n > 0 /\ n \in 1 .. n /\ WellFormed(rs, fresh)
      /\ Innermost(rs, base, n) /\ Last(rs) = rs[n] /\ RunsInv
      /\ rs[n].k = "mark" /\ rs[n].id = target /\ rs[n].uid = aim.uid
  <2>1. rs \in Seq(Entries) /\ n \in Nat /\ WellFormed(rs, fresh) /\ Innermost(rs, base, n) /\ RunsInv
    BY Facts
  <2>2. rs # <<>> /\ rs[n].k = "mark" /\ rs[n].id = target /\ rs[n].uid = aim.uid
    BY <1>1 DEF ProgramInv, ControlInv
  <2>3. n > 0 /\ n \in 1 .. n
    BY <2>1, <2>2
  <2> QED BY <2>1, <2>2, <2>3 DEF Last
<1>15. Floor \in Nat /\ Floor < n /\ rs[Floor + 1].k = "ret" /\ ~IsChoice(rs, n)
  <2>1. Floor \in Nat
    BY <1>2, TopIs
  <2>2. Floor < n
    BY <1>1
  <2>3. rs[Floor + 1].k = "ret"
    BY <1>1, <2>2, AboveFloor
  <2>4. Leads(rs, runs, n)
    BY <1>1, <1>2, AllLead
  <2>5. IsChoice(rs, n) => n <= Floor
    BY <1>2, <2>4, ChoiceBelow
  <2> QED BY <1>2, <2>1, <2>2, <2>3, <2>5
<1>3. n > 1 /\ rs[n - 1].k = "ret" /\ rs[n - 1].of = rs[n].of
  <2>1. Supported(rs, n)
    BY <1>2 DEF WellFormed
  <2> QED BY <1>2, <1>15, <2>1 DEF Supported, IsChoice
<1>16. Floor < n - 1 /\ mode \notin {"failed", "over"}
  <2>1. Floor + 1 # n
    BY <1>2, <1>15
  <2> QED BY <1>1, <1>2, <1>15, <2>1
<1>4. n - 1 \in 0 .. Len(rs) /\ n - 1 \in 1 .. n - 1 /\ n - 1 \in 1 .. Len(rs)
  BY <1>2, <1>3
<1>5. s \in Seq(Entries) /\ Len(s) = n - 1 /\ \A i \in 1 .. n - 1 : s[i] = rs[i]
  BY <1>2, <1>4, PrefixIs
<1>6. Innermost(rs, base, n - 1) /\ base \in 0 .. n - 1
  BY <1>2 DEF Innermost
<1>7. WithoutLocals(s, base) = [rs |-> s, base |-> base]
  <2>1. base # 0 /\ base < n - 1 => s[base + 1].k = "local"
    <3> SUFFICES ASSUME base # 0, base < n - 1 PROVE s[base + 1].k = "local"
      OBVIOUS
    <3>1. rs[base + 1].k = "local"
      BY <1>2, <1>4, <1>6, FrameHasLocal
    <3>2. base + 1 \in 1 .. n - 1
      BY <1>2, <1>6
    <3> QED BY <1>5, <3>1, <3>2
  <2>2. s # <<>> /\ s[Len(s)].k = "ret" /\ base \in 0 .. Len(s) /\ Floor \in Nat
    BY <1>3, <1>4, <1>5, <1>6, <1>15
  <2>3. base # 0 /\ base < Len(s) => s[base + 1].k = "local"
    BY <1>5, <2>1
  <2> HIDE DEF s
  <2> QED BY <1>5, <2>2, <2>3, NoLocalsOnTop
<1>8. /\ Delivered(rs[n].uid) /\ base' = base /\ rs' = Prefix(s, Len(s) - 1) /\ GoTo(Last(s), rs[n].of)
  <2>1. /\ Delivered(rs[n].uid) /\ base' = WithoutLocals(s, base).base
        /\ rs' = Prefix(WithoutLocals(s, base).rs, Len(WithoutLocals(s, base).rs) - 1)
        /\ GoTo(Last(WithoutLocals(s, base).rs), rs[n].of)
    BY <1>2 DEF Unwind
  <2> HIDE DEF s
  <2> QED BY <1>7, <2>1
<1>9. astray' = astray
  BY <1>2, <1>8 DEF Delivered
<1>10. Last(s) = rs[n - 1]
  BY <1>4, <1>5 DEF Last
<1>11. rs' = Prefix(rs, (n - 1) - 1)
  <2>1. (n - 1) - 1 \in 0 .. n - 1
    BY <1>2, <1>3
  <2>2. Prefix(s, (n - 1) - 1) = Prefix(rs, (n - 1) - 1)
    BY <1>2, <1>4, <2>1, PrefixOfPrefix
  <2> QED BY <1>5, <1>8, <2>2
<1>12. GoTo(rs[n - 1], rs[n - 1].of)
  BY <1>3, <1>8, <1>10
<1>13. \A i \in (n - 1) + 1 .. Len(rs) : i \notin EnsureReturns(rs)
  BY <1>2 DEF EnsureReturns
<1>14. /\ side' \in Seq(Nat) /\ Increasing(side')
       /\ {side'[i] : i \in 1 .. Len(side')} = {rs[i].to.act : i \in EnsureReturns(rs)}
       /\ (side' # <<>> => "ensure" \in ops)
  BY <1>1, SideUnlessEnsure
<1> DEFINE j == n - 1
<1>17. /\ j \in 1 .. Len(rs) /\ rs[j].k = "ret" /\ Floor < j /\ Innermost(rs, base, j)
       /\ \A i \in j + 1 .. Len(rs) : i \notin EnsureReturns(rs)
       /\ rs' = Prefix(rs, j - 1) /\ GoTo(rs[j], rs[j].of) /\ base' = base
  BY <1>3, <1>4, <1>6, <1>8, <1>11, <1>12, <1>13, <1>16
<1> HIDE DEF s, j
<1> QED BY <1>1, <1>9, <1>14, <1>16, <1>17, Returns

\* An error that ends the program had no catch around it.
LEMMA FinishKeeps ==
  ASSUME ProgramInv, Orderly(ops), Finish
  PROVE  ProgramInv'
<1> DEFINE m == CatchIndex
<1>1. /\ mode = "stopped" \/ (mode = "failed" /\ ~Catchable)
      /\ mode' = "over" /\ UNCHANGED <<ops, rs, base, runs, pc, side, fresh, nOps, lost, aim>>
      /\ Len(runs) = 1
  BY DEF Finish, stackVars
<1>2. /\ rs \in Seq(Entries) /\ Len(rs) \in Nat /\ Floor = 0 /\ Top.looped /\ RunsInv /\ OpsInv
      /\ runs \in Seq(Loops) /\ runs # <<>> /\ runs[1] = Outermost
      /\ \A k \in 1 .. Len(runs) : Same(runs[k], runs[k])
  BY <1>1, Facts, TopIs DEF Outermost
<1>3. /\ m \in 0 .. Len(rs) /\ (m # 0 => rs[m].k = "mark" /\ rs[m].kind \in {"catch"})
  BY <1>2, PromptIndexIs DEF CatchIndex
<1>4. mode = "failed" => aim.uid = 0
  <2> SUFFICES ASSUME mode = "failed" PROVE aim.uid = 0
    OBVIOUS
  <2>1. ~(m > 0 /\ m < Len(rs))
    BY <1>1, <1>2 DEF Catchable, CatchIndex
  <2>2. m = 0 \/ m = Len(rs)
    BY <1>2, <1>3, <2>1
  <2>3. m # 0 => m # Len(rs)
    <3> SUFFICES ASSUME m # 0, m = Len(rs) PROVE FALSE
      OBVIOUS
    <3>1. rs # <<>>
      BY <1>2
    <3>2. IsCatch(rs, Len(rs))
      BY <1>3 DEF IsCatch
    <3> QED BY <3>1, <3>2 DEF ProgramInv, ControlInv
  <2>4. m = 0
    BY <2>2, <2>3
  <2> QED BY <2>4 DEF ProgramInv, ControlInv, CatchUid
<1>5. astray' = "no" /\ ~lost'
  BY <1>1, <1>4 DEF Finish, ProgramInv, ControlInv
<1>6. ControlInv'
  BY <1>1, <1>5 DEF ControlInv
<1>7. (WellFormed(rs, fresh) /\ Innermost(rs, base, Len(rs)))'
  BY <1>1 DEF ProgramInv
<1>8. /\ side' \in Seq(Nat) /\ Increasing(side') /\ (side' # <<>> => "ensure" \in ops)
      /\ {side'[i] : i \in 1 .. Len(side')} = {rs[i].to.act : i \in EnsureReturns(rs)}
  BY <1>1, SideUnlessEnsure
<1>9. SideInv'
  <2>2. {rs'[i].to.act : i \in EnsureReturns(rs')} = {rs[i].to.act : i \in EnsureReturns(rs)}
    BY <1>1 DEF EnsureReturns
  <2>3. (IF mode' = "running" /\ pc'.code = "ensure" THEN {pc'.act} ELSE {}) = {}
    BY <1>1
  <2> QED BY <1>8, <2>2, <2>3 DEF SideInv
<1>10. OpsInv'
  <2>1. Len(rs') <= Len(rs) /\ \A i \in 1 .. Len(rs') : rs[i] = rs'[i]
    BY <1>1, <1>2
  <2>2. Len(runs') <= Len(runs) /\ \A k \in 1 .. Len(runs') : Same(runs[k], runs'[k])
    BY <1>1, <1>2
  <2>3. rs' \in Seq(Entries) /\ runs' \in Seq(Loops) /\ ops' = ops /\ mode' # "failed"
    BY <1>1, <1>2
  <2> QED BY <1>2, <1>8, <2>1, <2>2, <2>3, OpsKeep
<1>11. RunsInv'
  <2>1. CatchIndex' = CatchIndex /\ Floor' = Floor
    BY <1>1 DEF CatchIndex, PromptIndex, Floor, Top
  <2>2. \A i \in 1 .. Len(rs) : i <= Floor \/ i <= CatchIndex => Leads(rs, runs, i)
    BY <1>2 DEF RunsInv
  <2>3. \A i \in 1 .. Len(rs') : i <= Floor' \/ i <= CatchIndex' => Leads(rs', runs', i)
    BY <1>1, <2>1, <2>2
  <2>4. \A k \in 2 .. Len(runs') : Nests(rs', runs'[k - 1], runs'[k])
    BY <1>1
  <2>5. runs' \in Seq(Loops) /\ runs' # <<>> /\ runs'[1] = Outermost
    BY <1>1, <1>2
  <2> QED BY <1>1, <2>3, <2>4, <2>5 DEF RunsInv
<1>12. pc' \in Places /\ fresh' \in Nat \ {0} /\ nOps' \in 0 .. MaxOps
       /\ mode' \in {"running", "stopped", "unwinding", "failed", "over"}
  BY <1>1 DEF ProgramInv
<1> QED BY <1>6, <1>7, <1>9, <1>10, <1>11, <1>12 DEF ProgramInv

\* A fail goes back to the innermost choice, past prompts of other kinds.
LEMMA BacktrackKeeps ==
  ASSUME ProgramInv, Orderly(ops), Backtrack
  PROVE  ProgramInv'
<1> DEFINE m == PromptIndex({"choice"})
<1>1. /\ mode = "running" /\ pc.code # "ensure" /\ fresh' = fresh /\ pc' = pc
      /\ nOps' \in 0 .. MaxOps /\ side' = side /\ ops' = ops
  BY PromptsAssumption DEF Backtrack, Operation, InProgram, ProgramInv
<1>2. /\ side' \in Seq(Nat) /\ Increasing(side') /\ (side' # <<>> => "ensure" \in ops)
      /\ {side'[i] : i \in 1 .. Len(side')} = {rs[i].to.act : i \in EnsureReturns(rs)}
  BY <1>1, SideUnlessEnsure
<1>3. astray' = "no" /\ ~lost'
  BY DEF Backtrack, ProgramInv, ControlInv
<1>4. rs \in Seq(Entries) /\ Len(rs) \in Nat /\ RunsInv /\ OpsInv
  BY Facts
<1>5. m \in 0 .. Len(rs) /\ (m # 0 => rs[m].k = "mark" /\ rs[m].kind \in {"choice"})
  BY <1>4, PromptIndexIs
<1>6. CASE m = 0
  <2>1. Fail /\ UNCHANGED <<rs, base, runs>> /\ "fail" \in ops
    BY <1>6 DEF Backtrack, Operation
  <2>2. ops \cap {"fault", "fail"} # {}
    BY <2>1
  <2>3. UNCHANGED <<ops, rs, base, runs>>
    BY <1>1, <2>1
  <2> QED BY <1>1, <1>2, <1>3, <2>1, <2>2, <2>3, FailKeeps
<1>7. CASE m # 0
  <2>1. UnwindTo(m, "raise")
    BY <1>7 DEF Backtrack
  <2>2. m \in 1 .. Len(rs) /\ IsChoice(rs, m) /\ rs[m].k = "mark"
    BY <1>4, <1>5, <1>7 DEF IsChoice
  <2>3. ops \cap {"fail", "failToAmb"} # {}
    BY DEF Backtrack, Operation
  <2> HIDE DEF m
  <2>4. \A i \in 1 .. m : Leads(rs, runs, i)
    <3> SUFFICES ASSUME NEW i \in 1 .. m PROVE Leads(rs, runs, i)
      OBVIOUS
    <3>1. i \in 1 .. Len(rs) /\ mode \notin {"failed", "over"}
      BY <1>1, <1>4, <2>2
    <3> QED BY <3>1, AllLead
  <2>5. "amb" \in ops
    <3>1. m \in 1 .. m
      BY <2>2
    <3>2. PICK k \in 2 .. Len(runs) : runs[k].op = "amb1"
      BY <1>4, <2>2, <2>4, <3>1, ChoiceBelow
    <3> QED BY <1>4, <3>2 DEF OpsInv, Bodies
  <2>6. "ensure" \notin ops /\ "each" \notin ops /\ ~({"times", "fault"} \subseteq ops)
    BY <2>3, <2>5 DEF Orderly, Raises
  <2>7. \A k \in 2 .. Len(runs) : LetsThrough(runs[k])
    BY <1>4, <2>6 DEF OpsInv, Bodies, LetsThrough
  <2>8. \A i \in EnsureReturns(rs) : i < m
    <3>1. side' = <<>>
      BY <1>2, <2>6
    <3>2. 1 .. Len(side') = {}
      BY <3>1
    <3>3. {rs[i].to.act : i \in EnsureReturns(rs)} = {}
      BY <1>2, <3>2
    <3>4. EnsureReturns(rs) = {}
      BY <3>3
    <3> QED BY <3>4
  <2> QED BY <1>1, <1>2, <1>3, <2>1, <2>2, <2>4, <2>7, <2>8, UnwindsKeep
<1> QED BY <1>6, <1>7

----------------------------------------------------------------------------
(* Operations that start a run loop.                                        *)

LEMMA Appended ==
  ASSUME NEW rr \in Seq(Loops), NEW r \in Loops, NEW l, l = Len(rr)
  PROVE  /\ Append(rr, r) \in Seq(Loops) /\ Len(Append(rr, r)) = l + 1 /\ Append(rr, r)[l + 1] = r
         /\ \A k \in 1 .. l : Append(rr, r)[k] = rr[k]
         /\ l \in Nat
OBVIOUS

\* A loop is entered with n entries on the stack, below its floor.
LEMMA LoopStarts ==
  ASSUME ProgramInv, mode = "running", rs' \in Seq(Entries), NEW n, n = Len(rs), n <= Len(rs'),
         \A i \in 1 .. n : rs'[i] = rs[i], NEW r \in Loops, runs' = Append(runs, r), mode' = "running",
         ops' = ops, side' = side, Nests(rs', Top, r), n <= r.floor,
         (IF r.op \in Bodies THEN r.op ELSE "amb") \in ops,
         \/ Len(rs') = n
         \/ \A k \in 2 .. Len(runs) :
              runs[k].floor = n => rs'[n + 1].k = "ret" \/ (runs[k].op \in Bodies /\ IsChoice(rs', n + 1)),
         \A i \in n + 1 .. Len(rs') :
           Leads(rs', runs', i) /\ ~IsCatch(rs', i) /\ (rs'[i].k = "mark" => rs'[i].kind # "exception")
  PROVE  /\ RunsInv' /\ OpsInv' /\ Top' = r /\ Len(runs') = Len(runs) + 1
<1> DEFINE l == Len(runs)
<1>1. /\ rs \in Seq(Entries) /\ n \in Nat /\ RunsInv /\ OpsInv /\ runs \in Seq(Loops) /\ runs[1] = Outermost
      /\ l \in Nat /\ l > 0
  BY Facts
<1>2. /\ runs' \in Seq(Loops) /\ Len(runs') = l + 1 /\ runs'[l + 1] = r
      /\ \A k \in 1 .. l : runs'[k] = runs[k]
  BY <1>1, Appended
<1>3. Floor <= n /\ Floor \in Nat /\ Top = runs[l]
  BY Running DEF Top
<1>4. \A k \in 1 .. l : runs[k].floor \in Nat /\ runs[k].floor <= Floor
  BY FloorsBelow
<1>5. Top' = r
  BY <1>2 DEF Top
<1>11. l = Len(runs)
  OBVIOUS
<1> HIDE DEF l
<1>6. RunsInv'
  <2>1. l \in 1 .. Len(runs) /\ l <= Len(runs') /\ 1 \in 1 .. l /\ l \in Nat
    BY <1>1, <1>2, <1>11
  <2>2. \A k \in 1 .. l : Same(runs[k], runs'[k])
    BY <1>2, SameSelf
  <2>3. runs'[1] = Outermost
    BY <1>1, <1>2, <2>1
  <2>4. n <= Len(rs) /\ n <= Len(rs') /\ \A i \in 1 .. n : rs[i] = rs'[i]
    BY <1>1
  <2>5. \/ Len(rs') = n
        \/ \A k \in 2 .. l :
             /\ runs[k].floor <= n
             /\ runs[k].floor = n => rs'[n + 1].k = "ret" \/ (runs[k].op \in Bodies /\ IsChoice(rs', n + 1))
    <3>1. \A k \in 2 .. l : runs[k].floor <= n
      <4> SUFFICES ASSUME NEW k \in 2 .. l PROVE runs[k].floor <= n
        OBVIOUS
      <4>1. k \in 1 .. l
        BY <1>1
      <4>2. runs[k].floor \in Nat /\ runs[k].floor <= Floor
        BY <1>4, <4>1
      <4> QED BY <1>1, <1>3, <4>2
    <3> QED BY <1>11, <3>1
  <2>6. \A k \in l + 1 .. Len(runs') : Nests(rs', runs'[k - 1], runs'[k])
    <3> SUFFICES ASSUME NEW k \in l + 1 .. Len(runs') PROVE Nests(rs', runs'[k - 1], runs'[k])
      OBVIOUS
    <3>1. k = l + 1 /\ k - 1 = l /\ l \in 1 .. l
      BY <1>2, <2>1
    <3>2. runs'[k - 1] = Top /\ runs'[k] = r
      BY <1>2, <1>3, <3>1
    <3> QED BY <3>2
  <2>7. \A i \in 1 .. n : mode' \notin {"failed", "over"} \/ i <= Floor' \/ i <= CatchIndex' =>
          /\ Leads(rs, runs, i)
          /\ \A k \in l + 1 .. Len(runs) :
               runs[k].floor # i - 1 /\ ~(runs[k].op = "amb1" /\ runs[k].floor = i)
          /\ \A k \in l + 1 .. Len(runs') : runs'[k].floor # i - 1
    <3> SUFFICES ASSUME NEW i \in 1 .. n
                 PROVE  /\ Leads(rs, runs, i)
                        /\ \A k \in l + 1 .. Len(runs) :
                             runs[k].floor # i - 1 /\ ~(runs[k].op = "amb1" /\ runs[k].floor = i)
                        /\ \A k \in l + 1 .. Len(runs') : runs'[k].floor # i - 1
      OBVIOUS
    <3>1. Leads(rs, runs, i)
      <4>1. i \in 1 .. Len(rs) /\ mode \notin {"failed", "over"}
        OBVIOUS
      <4> QED BY <4>1, AllLead
    <3>2. l + 1 .. Len(runs) = {}
      BY <1>11, <2>1
    <3>3. \A k \in l + 1 .. Len(runs') : runs'[k].floor # i - 1
      <4>1. \A k \in l + 1 .. Len(runs') : k = l + 1
        BY <1>2, <2>1
      <4>2. r.floor \in Nat
        BY DEF Loops
      <4>3. r.floor # i - 1
        BY <1>1, <4>2
      <4> QED BY <1>2, <4>1, <4>3
    <3> QED BY <3>1, <3>2, <3>3
  <2>8. \A i \in n + 1 .. Len(rs') : Leads(rs', runs', i)
    OBVIOUS
  <2> QED BY <1>1, <1>2, <2>1, <2>2, <2>3, <2>4, <2>5, <2>6, <2>7, <2>8, RunsKeep
<1>7. ASSUME NEW k \in 2 .. Len(runs') PROVE k = l + 1 \/ (k \in 2 .. l /\ k \in 1 .. l)
  BY <1>1, <1>2
<1>8. ASSUME NEW i \in 1 .. Len(rs'), IsCatch(rs', i) PROVE i \in 1 .. n /\ IsCatch(rs, i)
  <2>1. ~(i \in n + 1 .. Len(rs'))
    BY <1>8
  <2>2. i \in 1 .. n
    BY <1>1, <2>1
  <2> QED BY <1>8, <2>2 DEF IsCatch
<1>9. OpsInv'
  <2>1. \A k \in 2 .. Len(runs') : (IF runs'[k].op \in Bodies THEN runs'[k].op ELSE "amb") \in ops
    <3>1. \A k \in 2 .. l : (IF runs[k].op \in Bodies THEN runs[k].op ELSE "amb") \in ops
      BY <1>1, <1>11 DEF OpsInv
    <3> QED BY <1>2, <1>7, <3>1
  <2>2. \A i \in 1 .. Len(rs') : rs'[i].k = "mark" /\ rs'[i].kind = "exception" => "reset" \in ops
    <3> SUFFICES ASSUME NEW i \in 1 .. Len(rs'), rs'[i].k = "mark", rs'[i].kind = "exception"
                 PROVE  "reset" \in ops
      OBVIOUS
    <3>1. ~(i \in n + 1 .. Len(rs'))
      OBVIOUS
    <3>2. i \in 1 .. n
      BY <1>1, <3>1
    <3> QED BY <1>1, <3>2 DEF OpsInv
  <2>3. side' # <<>> => "ensure" \in ops
    BY <1>1 DEF OpsInv
  <2>4. ASSUME ops \cap {"fault", "fail"} # {}, NEW i \in 1 .. Len(rs'), NEW k \in 2 .. Len(runs'),
               IsCatch(rs', i)
        PROVE  i <= runs'[k].floor
    <3>1. i \in 1 .. n /\ IsCatch(rs, i)
      BY <1>8, <2>4
    <3>2. CASE k = l + 1
      <4>1. r.floor \in Nat
        BY DEF Loops
      <4> QED BY <1>1, <1>2, <3>1, <3>2, <4>1
    <3>3. CASE k \in 2 .. l /\ k \in 1 .. l
      <4>1. i \in 1 .. Len(rs)
        BY <3>1
      <4>2. i <= runs[k].floor
        BY <1>1, <1>11, <2>4, <3>1, <3>3, <4>1 DEF OpsInv
      <4> QED BY <1>2, <3>3, <4>2
    <3> QED BY <1>7, <3>2, <3>3
  <2>5. mode' # "failed" /\ ops' = ops
    OBVIOUS
  <2>6. (ops \cap {"fault", "fail"} # {} \/ mode = "failed" =>
          \A i \in 1 .. Len(rs), k \in 2 .. Len(runs) : IsCatch(rs, i) => i <= runs[k].floor)'
    BY <2>4, <2>5
  <2> QED BY <2>1, <2>2, <2>3, <2>5, <2>6 DEF OpsInv
<1> QED BY <1>2, <1>5, <1>6, <1>9, <1>11

LEMMA AmbKeeps ==
  ASSUME ProgramInv, Orderly(ops), Amb
  PROVE  ProgramInv'
<1> DEFINE n == Len(rs)
           mark == Mark("choice", fresh, fresh, pc.act)
           ret == Ret(Stop, fresh + 1)
           top == <<mark, ret>>
           r == Run("amb1", n + 1, FALSE, n, fresh, fresh + 1, 0)
<1>1. /\ InProgram /\ mode = "running" /\ nOps' \in 0 .. MaxOps /\ rs' = rs \o top
      /\ runs' = Append(runs, r) /\ pc' = At("plain", fresh + 1, pc.env) /\ fresh' = fresh + 2
      /\ UNCHANGED <<ops, base, mode, side, astray, lost>> /\ "amb" \in ops
  BY PromptsAssumption DEF Amb, Operation, Numbering, InProgram, historyVars, ProgramInv
<1>2. /\ rs \in Seq(Entries) /\ n \in Nat /\ fresh \in Nat /\ fresh > 0 /\ pc \in Places
      /\ WellFormed(rs, fresh)
      /\ pc.env \in Nat /\ pc.act \in Nat /\ base \in 0 .. n /\ runs \in Seq(Loops) /\ Len(runs) \in Nat
      /\ Innermost(rs, base, n) /\ RunsInv /\ Len(runs) > 0
  BY <1>1, Facts, Running
<1>3. Stop \in Places /\ Stop.code = "stop"
  BY DEF Stop, At, Places, Codes
<1>4. /\ mark \in Entries /\ mark.k = "mark" /\ mark.kind = "choice" /\ mark.id = fresh /\ mark.uid = fresh
      /\ ret \in Entries /\ ret.k = "ret" /\ ret.of = fresh + 1 /\ ret.to = Stop
  BY <1>2, <1>3 DEF Mark, Ret, Entries
<1>5. /\ r \in Loops /\ r.op = "amb1" /\ r.floor = n + 1 /\ r.at = n /\ r.id = fresh /\ r.body = fresh + 1
      /\ r.pc = pc
  <2>1. n + 1 \in Nat /\ fresh + 1 \in Nat /\ base \in Nat
    BY <1>2
  <2> QED BY <1>2, <2>1 DEF Run, Loops, Bodies
<1> HIDE DEF mark, r
<1>6. /\ rs' \in Seq(Entries) /\ Len(rs') = n + 2 /\ \A i \in 1 .. n : rs'[i] = rs[i]
      /\ rs'[n + 1] = mark /\ rs'[n + 2] = ret
  <2> HIDE DEF n, ret
  <2>1. n = Len(rs) /\ n \in Nat /\ rs \in Seq(Entries)
    BY <1>2 DEF n
  <2>2. top \in Seq(Entries) /\ Len(top) = 2 /\ top[1] = mark /\ top[2] = ret
    BY <1>4
  <2> HIDE DEF top
  <2>3. /\ rs \o top \in Seq(Entries) /\ Len(rs \o top) = n + Len(top)
        /\ \A i \in 1 .. n : (rs \o top)[i] = rs[i]
        /\ \A i \in 1 .. Len(top) : (rs \o top)[n + i] = top[i]
    BY <2>1, <2>2, Concatenated
  <2>4. rs' = rs \o top
    BY <1>1
  <2> QED BY <2>1, <2>2, <2>3, <2>4
<1>7. Innermost(rs', base, n)
  BY <1>6, StaysBelow
<1>8. n = Len(rs) /\ \A i \in n + 1 .. n + 2 : i = n + 1 \/ i = n + 2
  BY <1>2
<1>9. n > 0 /\ Floor <= n /\ Floor \in Nat /\ RunsIn(rs, Top, pc, n) /\ (n = Floor => Top.op \in Bodies)
  BY <1>1, Running
<1>10. \A k \in 1 .. Len(runs) : /\ runs[k].floor \in Nat /\ runs[k].floor <= Floor
                                 /\ runs[k].floor = Floor /\ Floor = n => runs[k].op \in Bodies
  <2> DEFINE l == Len(runs)
  <2> SUFFICES ASSUME NEW k \in 1 .. l
               PROVE  /\ runs[k].floor \in Nat /\ runs[k].floor <= Floor
                      /\ runs[k].floor = Floor /\ Floor = n => runs[k].op \in Bodies
    OBVIOUS
  <2>1. runs[k].floor \in Nat /\ runs[k].floor <= Floor /\ Top = runs[l]
    BY FloorsBelow
  <2>2. k \in 1 .. l - 1 /\ runs[k].floor = Floor => runs[k].op \in Bodies
    BY FloorsBelow
  <2>3. k = l \/ k \in 1 .. l - 1
    BY <1>2
  <2> HIDE DEF n, l
  <2> QED BY <1>9, <2>1, <2>2, <2>3
<1> HIDE DEF n, ret
<1>11. WellFormed(rs', fresh')
  <2>1. fresh' \in Nat /\ fresh <= fresh' /\ n <= Len(rs')
    BY <1>1, <1>2, <1>6, <1>8
  <2>3. fresh < fresh' /\ fresh <= fresh + 1 /\ fresh + 1 < fresh'
    <3>1. fresh' = fresh + 2 /\ fresh \in Nat
      BY <1>1, <1>2
    <3> QED BY <3>1
  <2>2. ASSUME NEW i \in n + 1 .. Len(rs')
        PROVE  /\ Supported(rs', i) /\ Followed(rs', i)
               /\ rs'[i].k = "ret" =>
                    /\ fresh <= rs'[i].of /\ rs'[i].of < fresh'
                    /\ \A j \in i + 1 .. Len(rs') : rs'[j].k = "ret" => rs'[i].of < rs'[j].of
               /\ rs'[i].k = "mark" => rs'[i].id < fresh' /\ rs'[i].uid = rs'[i].id
    <3>1. CASE i = n + 1
      <4>1. rs'[i].k = "mark" /\ rs'[i].kind = "choice" /\ rs'[i].id = fresh /\ rs'[i].uid = fresh
        BY <1>4, <1>6, <3>1
      <4>2. Supported(rs', i) /\ Followed(rs', i)
        BY <4>1 DEF Supported, Followed, EnsureReturns
      <4> QED BY <2>3, <4>1, <4>2
    <3>2. CASE i = n + 2
      <4>1. rs'[i].k = "ret" /\ rs'[i].of = fresh + 1 /\ rs'[i].to.code = "stop"
        BY <1>3, <1>4, <1>6, <3>2
      <4>2. Supported(rs', i) /\ Followed(rs', i)
        BY <4>1 DEF Supported, Followed, EnsureReturns
      <4>3. fresh <= rs'[i].of /\ rs'[i].of < fresh'
        BY <2>3, <4>1
      <4>4. i + 1 .. Len(rs') = {}
        BY <1>2, <1>6, <1>8, <3>2
      <4> QED BY <4>1, <4>2, <4>3, <4>4
    <3> QED BY <1>6, <1>8, <3>1, <3>2
  <2>4. Grown(rs', n, fresh, fresh')
    BY <2>2 DEF Grown
  <2> QED BY <1>2, <1>6, <1>8, <2>1, <2>4, GrowsWell
<1>12. Innermost(rs', base', n + 2)
  <2>1. rs'[n + 1].k # "header" /\ rs'[n + 2].k # "header" /\ base' = base
    BY <1>1, <1>4, <1>6
  <2> QED BY <1>2, <1>7, <1>8, <2>1 DEF Innermost
<1>13. /\ RunsInv' /\ OpsInv' /\ Top' = r
  <2>1. Nests(rs', Top, r)
    <3>1. IsChoice(rs', n + 1)
      BY <1>4, <1>6 DEF IsChoice
    <3>2. Bottom(r) = n
      BY <1>5 DEF Bottom, Bodies
    <3>3. IF Top.op \in Bodies THEN Top.floor <= n ELSE Top.floor < n
      <4>1. Top.floor = Floor
        BY DEF Floor
      <4> QED BY <1>2, <1>8, <1>9, <4>1
    <3>4. RunsIn(rs', Top, pc, n)
      <4>1. n \in 1 .. n /\ n \in Nat /\ \A i \in 1 .. n : rs[i] = rs'[i]
        BY <1>2, <1>6, <1>8, <1>9
      <4> QED BY <1>9, <4>1, SameSelf, AgreeRunsIn
    <3>5. \A i \in 1 .. Len(rs') : i < n + 1 /\ rs'[i].k = "mark" => rs'[i].id # fresh
      <4> SUFFICES ASSUME NEW i \in 1 .. Len(rs'), i < n + 1, rs'[i].k = "mark" PROVE rs'[i].id # fresh
        OBVIOUS
      <4>1. i \in 1 .. Len(rs) /\ rs'[i] = rs[i]
        BY <1>2, <1>6, <1>8
      <4>2. rs[i].id < fresh
        BY <1>2, <4>1 DEF WellFormed, Numbered
      <4> QED BY <1>2, <4>1, <4>2
    <3>6. rs'[(n + 1) + 1].k = "ret"
      <4>1. (n + 1) + 1 = n + 2
        BY <1>2, <1>8
      <4> QED BY <1>4, <1>6, <4>1
    <3>7. pc.code \in {"plain", "locals"} /\ r.op # "top" /\ r.op # "amb2" /\ r.op \notin Bodies
      BY <1>1, <1>5 DEF InProgram, Bodies
    <3> QED BY <1>5, <3>1, <3>2, <3>3, <3>4, <3>5, <3>6, <3>7 DEF Nests
  <2>2. n <= r.floor /\ n <= Len(rs')
    BY <1>2, <1>5, <1>6, <1>8
  <2>3. (IF r.op \in Bodies THEN r.op ELSE "amb") \in ops
    BY <1>1, <1>5 DEF Bodies
  <2>4. \A k \in 2 .. Len(runs) :
          runs[k].floor = n => rs'[n + 1].k = "ret" \/ (runs[k].op \in Bodies /\ IsChoice(rs', n + 1))
    <3> SUFFICES ASSUME NEW k \in 2 .. Len(runs), runs[k].floor = n
                 PROVE  runs[k].op \in Bodies /\ IsChoice(rs', n + 1)
      OBVIOUS
    <3>1. IsChoice(rs', n + 1)
      BY <1>4, <1>6 DEF IsChoice
    <3>2. k \in 1 .. Len(runs)
      BY <1>2
    <3>3. runs[k].floor <= Floor
      BY <1>10, <3>2
    <3>4. Floor = n
      BY <1>2, <1>8, <1>9, <3>3
    <3> QED BY <1>10, <3>1, <3>2, <3>4
  <2>5. ASSUME NEW i \in n + 1 .. Len(rs')
        PROVE  Leads(rs', runs', i) /\ ~IsCatch(rs', i) /\ (rs'[i].k = "mark" => rs'[i].kind # "exception")
    <3> DEFINE l == Len(runs)
    <3>1. l \in Nat /\ l > 0
      BY <1>2
    <3>2. Len(runs') = l + 1 /\ runs'[l + 1] = r /\ \A k \in 1 .. l : runs'[k] = runs[k]
      BY <1>1, <1>2, <1>5, Appended
    <3>3. \A k \in 1 .. l : runs'[k].floor # n + 1
      <4> SUFFICES ASSUME NEW k \in 1 .. l PROVE runs'[k].floor # n + 1
        OBVIOUS
      <4>1. runs[k].floor \in Nat /\ runs[k].floor <= Floor
        BY <1>10
      <4>2. runs'[k].floor = runs[k].floor
        BY <3>2
      <4> QED BY <1>2, <1>8, <1>9, <4>1, <4>2
    <3> HIDE DEF l
    <3>4. l + 1 \in 2 .. Len(runs') /\ \A k \in 2 .. Len(runs') : k = l + 1 \/ k \in 1 .. l
      BY <3>1, <3>2
    <3>5. CASE i = n + 1
      <4>1. rs'[i].k = "mark" /\ rs'[i].kind = "choice" /\ rs'[i].id = fresh
        BY <1>4, <1>6, <3>5
      <4>2. runs'[l + 1].op = "amb1" /\ runs'[l + 1].floor = i /\ runs'[l + 1].id = rs'[i].id
        BY <1>5, <3>2, <3>5, <4>1
      <4> QED BY <3>4, <4>1, <4>2 DEF Leads, IsCatch
    <3>6. CASE i = n + 2
      <4>1. rs'[i].k = "ret" /\ rs'[i] = Ret(Stop, r.body) /\ i # 1 /\ i - 1 = n + 1
        BY <1>2, <1>4, <1>5, <1>6, <1>8, <3>6 DEF ret
      <4>2. runs'[l + 1].floor = i - 1 /\ runs'[l + 1].op \notin Bodies /\ runs'[l + 1].body = r.body
        BY <1>5, <3>2, <4>1 DEF Bodies
      <4>3. \A k \in 2 .. Len(runs') : runs'[k].floor = i - 1 => k = l + 1
        BY <3>3, <3>4, <4>1
      <4> QED BY <3>4, <4>1, <4>2, <4>3 DEF Leads, IsCatch
    <3> QED BY <1>6, <1>8, <3>5, <3>6
  <2>6. mode' = "running" /\ ops' = ops /\ side' = side
    BY <1>1
  <2> QED BY <1>1, <1>5, <1>6, <1>8, <2>1, <2>2, <2>3, <2>4, <2>5, <2>6, LoopStarts
<1>14. pc' \in Places /\ pc'.env = pc.env /\ pc'.code = "plain" /\ pc'.act = fresh + 1
  BY <1>1, <1>2 DEF Places, At, Codes
<1>15. ControlInv'
  <2> DEFINE m == n + 2
  <2>1. m \in Nat /\ n <= m /\ \A i \in n + 1 .. m : rs'[i].k # "header"
    BY <1>2, <1>4, <1>6, <1>8
  <2>2. rs'[m].k = "ret" /\ rs'[m].of = fresh + 1 /\ m > r.floor /\ rs' # <<>>
    BY <1>2, <1>4, <1>5, <1>6, <1>8
  <2> HIDE DEF m
  <2>3. pc.env # 0 => \E b \in 1 .. m - 1 : Innermost(rs', b, m) /\ rs'[b + 1] = Local(pc.env)
    <3> SUFFICES ASSUME pc.env # 0
                 PROVE  \E b \in 1 .. m - 1 : Innermost(rs', b, m) /\ rs'[b + 1] = Local(pc.env)
      OBVIOUS
    <3>1. ProgramInv /\ mode = "running" /\ n = Len(rs)
      BY <1>1, <1>8
    <3>2. \A i \in 1 .. n : rs'[i] = rs[i]
      BY <1>6
    <3> QED BY <2>1, <3>1, <3>2, EnvStays
  <2>4. RunsOn(rs', pc', m)
    BY <1>14, <2>2, <2>3 DEF RunsOn
  <2>5. r.op \notin Bodies
    BY <1>5 DEF Bodies
  <2>6. RunsIn(rs', Top', pc', m)
    BY <1>13, <2>2, <2>4, <2>5 DEF RunsIn
  <2>7. m = Len(rs')
    BY <1>6 DEF m
  <2>8. mode' = "running" /\ astray' = "no" /\ ~lost'
    BY <1>1 DEF ProgramInv, ControlInv
  <2> QED BY <2>2, <2>6, <2>7, <2>8 DEF ControlInv
<1>16. SideInv'
  <2>1. pc'.code # "ensure" /\ side' = side /\ n < Len(rs')
    BY <1>1, <1>2, <1>6, <1>8, <1>14
  <2>2. \A i \in n + 1 .. Len(rs') : i \notin EnsureReturns(rs')
    <3>1. n + 1 \notin EnsureReturns(rs') /\ n + 2 \notin EnsureReturns(rs')
      BY <1>3, <1>4, <1>6 DEF EnsureReturns
    <3> QED BY <1>6, <1>8, <3>1
  <2> QED BY <1>1, <1>2, <1>6, <1>8, <2>1, <2>2, SideStays
<1>17. fresh' \in Nat \ {0} /\ nOps' \in 0 .. MaxOps
       /\ mode' \in {"running", "stopped", "unwinding", "failed", "over"}
  BY <1>1, <1>2
<1> QED BY <1>6, <1>11, <1>12, <1>13, <1>14, <1>15, <1>16, <1>17 DEF ProgramInv

LEMMA CombinatorKeeps ==
  ASSUME ProgramInv, Orderly(ops), Combinator
  PROVE  ProgramInv'
<1> DEFINE n == Len(rs)
<1>1. PICK op \in {"each", "times"} : op \in ops /\ runs' = Append(runs, Run(op, n, FALSE, 0, 0, fresh, 2))
  BY DEF Combinator, Operation
<1> DEFINE r == Run(op, n, FALSE, 0, 0, fresh, 2)
<1>2. /\ InProgram /\ mode = "running" /\ nOps' \in 0 .. MaxOps /\ pc' = At("plain", fresh, 0)
      /\ fresh' = fresh + 1 /\ UNCHANGED <<ops, rs, base, mode, side, astray, lost>>
  BY PromptsAssumption DEF Combinator, Operation, Numbering, InProgram, historyVars, ProgramInv
<1>3. /\ rs \in Seq(Entries) /\ n \in Nat /\ fresh \in Nat /\ fresh > 0 /\ pc \in Places
      /\ WellFormed(rs, fresh)
      /\ base \in 0 .. n /\ Innermost(rs, base, n) /\ OpsInv /\ n \in 1 .. n
      /\ Floor \in Nat /\ Floor <= n /\ RunsIn(rs, Top, pc, n) /\ (n = Floor => Top.op \in Bodies)
      /\ ~IsCatch(rs, n) /\ ~IsChoice(rs, n)
  BY <1>2, Facts, Running
<1>4. r \in Loops /\ r.op = op /\ r.floor = n /\ r.body = fresh /\ r.pc = pc /\ op \in Bodies
  <2>1. base \in Nat
    BY <1>3
  <2> QED BY <1>3, <2>1 DEF Run, Loops, Bodies
<1>5. runs' = Append(runs, r)
  BY <1>1
<1>6. n = Len(rs)
  OBVIOUS
<1> HIDE DEF r, n
<1>7. Nests(rs', Top, r)
  <2>1. IF Top.op \in Bodies THEN Top.floor <= n ELSE Top.floor < n
    <3>1. Top.floor = Floor
      BY DEF Floor
    <3> QED BY <1>3, <3>1
  <2>2. rs[n].k # "mark"
    <3> SUFFICES ASSUME rs[n].k = "mark" PROVE FALSE
      OBVIOUS
    <3>1. rs[n] \in Entries
      BY <1>3, <1>6
    <3>2. rs[n].kind \in {"exception", "catch", "choice"}
      BY <3>1 DEF Entries, Depth
    <3>3. rs[n].kind = "exception"
      BY <1>3, <3>2 DEF IsCatch, IsChoice
    <3>4. n \in 1 .. Len(rs)
      BY <1>3, <1>6
    <3>5. "reset" \in ops
      BY <1>3, <3>3, <3>4 DEF OpsInv
    <3>6. ops \cap Bodies # {}
      BY <1>1, <1>4
    <3> QED BY <3>5, <3>6 DEF Orderly
  <2>3. pc.code \in {"plain", "locals"}
    BY <1>2 DEF InProgram
  <2>4. op # "top" /\ op # "amb1" /\ op # "amb2" /\ Bottom(r) = n
    BY <1>4 DEF Bodies, Bottom
  <2>5. rs' = rs /\ ~(n < Len(rs'))
    BY <1>2, <1>3, <1>6
  <2> QED BY <1>3, <1>4, <2>1, <2>2, <2>3, <2>4, <2>5 DEF Nests
<1>8. RunsInv' /\ OpsInv' /\ Top' = r
  <2>1. rs' \in Seq(Entries) /\ n <= Len(rs') /\ Len(rs') = n /\ \A i \in 1 .. n : rs'[i] = rs[i]
    BY <1>2, <1>3, <1>6
  <2>2. n <= r.floor /\ mode' = "running" /\ ops' = ops /\ side' = side
    BY <1>2, <1>3, <1>4
  <2>3. (IF r.op \in Bodies THEN r.op ELSE "amb") \in ops
    BY <1>1, <1>4
  <2>4. n + 1 .. Len(rs') = {}
    BY <1>3, <2>1
  <2>5. \A i \in n + 1 .. Len(rs') :
          Leads(rs', runs', i) /\ ~IsCatch(rs', i) /\ (rs'[i].k = "mark" => rs'[i].kind # "exception")
    BY <2>4
  <2> QED BY <1>2, <1>4, <1>5, <1>6, <1>7, <2>1, <2>2, <2>3, <2>5, LoopStarts
<1>9. WellFormed(rs', fresh')
  <2>1. fresh' \in Nat /\ fresh <= fresh' /\ rs' \in Seq(Entries) /\ Len(rs) <= Len(rs')
        /\ \A i \in 1 .. n : rs'[i] = rs[i]
    BY <1>2, <1>3, <1>6
  <2>2. n + 1 .. Len(rs') = {}
    BY <1>2, <1>3, <1>6
  <2>3. Grown(rs', n, fresh, fresh')
    BY <2>2 DEF Grown
  <2> QED BY <1>3, <1>6, <2>1, <2>3, GrowsWell
<1>10. pc' \in Places /\ pc'.code = "plain" /\ pc' = At("plain", r.body, 0)
  BY <1>2, <1>3, <1>4 DEF Places, At, Codes
<1>11. ControlInv'
  <2>1. RunsIn(rs', Top', pc', n)
    BY <1>4, <1>8, <1>10 DEF RunsIn
  <2>2. n = Len(rs') /\ rs' # <<>> /\ mode' = "running"
    BY <1>2, <1>3, <1>6
  <2>3. astray' = "no" /\ ~lost'
    BY <1>2 DEF ProgramInv, ControlInv
  <2> QED BY <2>1, <2>2, <2>3 DEF ControlInv
<1>12. SideInv'
  <2>1. /\ side \in Seq(Nat) /\ Increasing(side)
        /\ {side[i] : i \in 1 .. Len(side)} = {rs[i].to.act : i \in EnsureReturns(rs)}
    BY <1>2, SideUnlessEnsure DEF InProgram
  <2>2. {rs'[i].to.act : i \in EnsureReturns(rs')} = {rs[i].to.act : i \in EnsureReturns(rs)}
    BY <1>2 DEF EnsureReturns
  <2>3. (IF mode' = "running" /\ pc'.code = "ensure" THEN {pc'.act} ELSE {}) = {}
    BY <1>10
  <2>4. side' = side
    BY <1>2
  <2> QED BY <2>1, <2>2, <2>3, <2>4, SideKept
<1>13. /\ fresh' \in Nat \ {0} /\ nOps' \in 0 .. MaxOps /\ Innermost(rs', base', Len(rs'))
       /\ mode' \in {"running", "stopped", "unwinding", "failed", "over"}
  BY <1>2, <1>3, <1>6
<1> QED BY <1>8, <1>9, <1>10, <1>11, <1>12, <1>13 DEF ProgramInv

\* Whether a loop has been entered and what it counts are its own affair.
LEMMA CountsApart ==
  ASSUME ProgramInv, mode \notin {"failed", "over"}, UNCHANGED <<ops, rs, mode, side>>,
         runs' \in Seq(Loops), Len(runs') = Len(runs), runs'[1] = Outermost,
         \A k \in 1 .. Len(runs) : Same(runs[k], runs'[k])
  PROVE  RunsInv' /\ OpsInv'
<1>1. mode' = mode /\ rs' = rs /\ ops' = ops /\ side' = side
  OBVIOUS
<1>2. /\ rs \in Seq(Entries) /\ runs \in Seq(Loops) /\ runs # <<>> /\ runs[1] = Outermost /\ RunsInv /\ OpsInv
      /\ Len(rs) \in Nat /\ Len(runs) \in Nat /\ Len(runs) > 0
  BY Facts
<1>3. /\ runs' \in Seq(Loops) /\ Len(runs') = Len(runs) /\ runs'[1] = Outermost
      /\ \A k \in 1 .. Len(runs) : Same(runs[k], runs'[k])
  OBVIOUS
<1>4. RunsInv'
  <2> DEFINE h == Len(runs)
             c == Len(rs)
  <2>1. /\ h \in 1 .. Len(runs) /\ h <= Len(runs') /\ h = Len(runs') /\ h \in Nat
        /\ \A k \in 1 .. h : Same(runs[k], runs'[k]) /\ h = Len(runs)
    BY <1>2, <1>3
  <2>2. /\ c \in Nat /\ c <= Len(rs) /\ c <= Len(rs') /\ (\A i \in 1 .. c : rs[i] = rs'[i]) /\ Len(rs') = c
        /\ rs' \in Seq(Entries) /\ c = Len(rs)
    BY <1>1, <1>2
  <2>8. \A i \in 1 .. c : Leads(rs, runs, i)
    BY AllLead
  <2> HIDE DEF h, c
  <2>3. (h + 1 .. Len(runs)) = {} /\ (h + 1 .. Len(runs')) = {} /\ (c + 1 .. Len(rs')) = {}
    BY <2>1, <2>2
  <2>5. \A k \in h + 1 .. Len(runs') : Nests(rs', runs'[k - 1], runs'[k])
    BY <2>3
  <2>6. \A i \in c + 1 .. Len(rs') : Leads(rs', runs', i)
    BY <2>3
  <2>7. \A i \in 1 .. c : mode' \notin {"failed", "over"} \/ i <= Floor' \/ i <= CatchIndex' =>
          /\ Leads(rs, runs, i)
          /\ \A k \in h + 1 .. Len(runs) :
               runs[k].floor # i - 1 /\ ~(runs[k].op = "amb1" /\ runs[k].floor = i)
          /\ \A k \in h + 1 .. Len(runs') : runs'[k].floor # i - 1
    BY <2>3, <2>8
  <2> QED BY <1>2, <1>3, <2>1, <2>2, <2>5, <2>6, <2>7, RunsKeep
<1>5. OpsInv'
  <2>1. Len(rs') <= Len(rs) /\ \A i \in 1 .. Len(rs') : rs[i] = rs'[i]
    BY <1>1, <1>2
  <2>2. Len(runs') <= Len(runs) /\ \A k \in 1 .. Len(runs') : Same(runs[k], runs'[k])
    BY <1>2, <1>3
  <2>3. rs' \in Seq(Entries) /\ ops' = ops /\ mode' # "failed"
    BY <1>1, <1>2
  <2>4. side' # <<>> => "ensure" \in ops
    BY <1>1, <1>2 DEF OpsInv
  <2> QED BY <1>2, <1>3, <2>1, <2>2, <2>3, <2>4, OpsKeep
<1> QED BY <1>4, <1>5

\* Leaving a chain of operations changes nothing that the invariant speaks of.
LEMMA ReturnToLoopKeeps ==
  ASSUME ProgramInv, Orderly(ops), ReturnToLoop
  PROVE  ProgramInv'
<1>1. /\ mode = "running" /\ runs' = Looping(runs)
      /\ UNCHANGED <<ops, nOps, rs, base, pc, mode, side, fresh, astray, lost>>
  BY DEF ReturnToLoop, InProgram, stackVars, historyVars
<1>2. /\ rs \in Seq(Entries) /\ runs \in Seq(Loops) /\ runs # <<>> /\ runs[1] = Outermost /\ RunsInv /\ OpsInv
      /\ Len(rs) \in Nat /\ Len(runs) \in Nat /\ Len(runs) > 0
  BY Facts
<1>3. /\ runs' \in Seq(Loops) /\ Len(runs') = Len(runs) /\ runs'[1] = Outermost
      /\ \A k \in 1 .. Len(runs) : Same(runs[k], runs'[k])
  BY <1>1, <1>2, LoopingIs
<1>4. RunsInv' /\ OpsInv'
  BY <1>1, <1>3, CountsApart
<1>6. ControlInv'
  <2>1. rs # <<>> /\ RunsIn(rs, Top, pc, Len(rs)) /\ astray = "no" /\ ~lost
    BY <1>1 DEF ProgramInv, ControlInv
  <2>2. Same(Top, Top')
    <3>1. Len(runs) \in 1 .. Len(runs) /\ Top = runs[Len(runs)] /\ Top' = runs'[Len(runs)]
      BY <1>2, <1>3 DEF Top
    <3> QED BY <1>3, <3>1
  <2>3. Len(rs) \in 1 .. Len(rs) /\ \A i \in 1 .. Len(rs) : rs[i] = rs'[i]
    BY <1>1, <1>2, <2>1
  <2>4. RunsIn(rs', Top', pc, Len(rs))
    BY <1>2, <2>1, <2>2, <2>3, AgreeRunsIn
  <2>5. mode' = "running" /\ rs' = rs /\ pc' = pc /\ astray' = "no" /\ ~lost'
    BY <1>1, <2>1
  <2> QED BY <2>1, <2>4, <2>5 DEF ControlInv
<1>7. SideInv'
  <2>1. {rs'[i].to.act : i \in EnsureReturns(rs')} = {rs[i].to.act : i \in EnsureReturns(rs)}
    BY <1>1 DEF EnsureReturns
  <2>2. /\ side \in Seq(Nat) /\ Increasing(side)
        /\ {side[i] : i \in 1 .. Len(side)} = {rs[i].to.act : i \in EnsureReturns(rs)}
    BY <1>1, SideUnlessEnsure DEF ReturnToLoop, InProgram
  <2>3. (IF mode' = "running" /\ pc'.code = "ensure" THEN {pc'.act} ELSE {}) = {}
    BY <1>1 DEF ReturnToLoop, InProgram
  <2>4. side' = side
    BY <1>1
  <2> QED BY <2>1, <2>2, <2>3, <2>4, SideKept
<1>8. /\ pc' \in Places /\ fresh' \in Nat \ {0} /\ nOps' \in 0 .. MaxOps /\ WellFormed(rs', fresh')
      /\ Innermost(rs', base', Len(rs')) /\ mode' \in {"running", "stopped", "unwinding", "failed", "over"}
  BY <1>1 DEF ProgramInv
<1> QED BY <1>4, <1>6, <1>7, <1>8 DEF ProgramInv

----------------------------------------------------------------------------
(* Run loops that end, and the code that called them.                       *)

LEMMA PopIs ==
  ASSUME ProgramInv, Len(runs) > 1, runs' = PopRun \/ runs' = Looping(PopRun),
         NEW d, d = Len(runs) - 1
  PROVE  /\ d \in Nat /\ d > 0 /\ d \in 1 .. d /\ d \in 1 .. Len(runs) /\ Len(runs) = d + 1
         /\ d + 1 \in 1 .. Len(runs)
         /\ runs' \in Seq(Loops) /\ Len(runs') = d /\ runs'[1] = Outermost
         /\ \A k \in 1 .. d : Same(runs[k], runs'[k])
         /\ Same(runs[d], Top') /\ Floor' = runs[d].floor
         /\ Top = runs[d + 1] /\ Floor = Top.floor /\ Nests(rs, runs[d], Top) /\ runs[d] \in Loops
         /\ Top \in Loops
<1> DEFINE l == Len(runs)
<1>1. runs \in Seq(Loops) /\ runs[1] = Outermost /\ l \in Nat /\ l > 1 /\ RunsInv
  BY Facts
<1>2. d \in Nat /\ d > 0 /\ d \in 1 .. l /\ l = d + 1 /\ d + 1 \in 1 .. l /\ d \in 1 .. d /\ 1 \in 1 .. d
      /\ d \in 0 .. l /\ d + 1 \in 2 .. l /\ (d + 1) - 1 = d
  <2>1. d = l - 1
    OBVIOUS
  <2> HIDE DEF l
  <2> QED BY <1>1, <2>1
<1>3. /\ PopRun \in Seq(Loops) /\ Len(PopRun) = d /\ \A k \in 1 .. d : PopRun[k] = runs[k]
  <2>1. PopRun = SubSeq(runs, 1, d)
    BY DEF PopRun, Prefix
  <2>2. d \in 0 .. Len(runs) /\ runs \in Seq(Loops)
    BY <1>1, <1>2
  <2>3. /\ SubSeq(runs, 1, d) \in Seq(Loops) /\ Len(SubSeq(runs, 1, d)) = d
        /\ \A k \in 1 .. d : SubSeq(runs, 1, d)[k] = runs[k]
    <3> HIDE <1>2
    <3> QED BY <2>2
  <2> QED BY <2>1, <2>3
<1>4. PopRun # <<>> /\ PopRun[1] = Outermost
  BY <1>1, <1>2, <1>3
<1>5. /\ runs' \in Seq(Loops) /\ Len(runs') = d /\ runs'[1] = Outermost
      /\ \A k \in 1 .. d : Same(runs[k], runs'[k])
  <2>1. CASE runs' = PopRun
    BY <1>3, <1>4, <2>1, SameSelf
  <2>2. CASE runs' = Looping(PopRun)
    <3> DEFINE p == PopRun
    <3>1. p \in Seq(Loops) /\ p # <<>> /\ p[1] = Outermost
      BY <1>3, <1>4
    <3>3. Len(p) = d /\ \A k \in 1 .. d : p[k] = runs[k]
      BY <1>3
    <3>4. runs' = Looping(p)
      BY <2>2
    <3> HIDE DEF p
    <3>2. /\ Looping(p) \in Seq(Loops) /\ Len(Looping(p)) = Len(p) /\ Looping(p)[1] = Outermost
          /\ \A k \in 1 .. Len(p) : Same(p[k], Looping(p)[k])
      BY <3>1, LoopingIs
    <3> QED BY <3>2, <3>3, <3>4
  <2> QED BY <2>1, <2>2
<1>6. Same(runs[d], Top') /\ Top' = runs'[d]
  BY <1>2, <1>5 DEF Top
<1>7. Floor' = runs[d].floor
  BY <1>6 DEF Floor, Same
<1>8. Top = runs[d + 1] /\ Floor = Top.floor
  BY <1>2 DEF Top, Floor
<1>9. Nests(rs, runs[d], Top)
  BY <1>1, <1>2, <1>8 DEF RunsInv
<1>10. runs[d] \in Loops /\ Top \in Loops
  BY <1>1, <1>2, <1>8
<1> QED BY <1>2, <1>5, <1>6, <1>7, <1>8, <1>9, <1>10

\* The innermost loop ends, and at most its choice and what an error left
\* above it are dropped with it.
LEMMA Leaves ==
  ASSUME ProgramInv, Len(runs) > 1, runs' = PopRun \/ runs' = Looping(PopRun),
         rs' \in Seq(Entries), Len(rs') <= Len(rs), \A i \in 1 .. Len(rs') : rs'[i] = rs[i],
         WellFormed(rs', fresh), Innermost(rs', base', Len(rs')), EnsureReturns(rs') = EnsureReturns(rs),
         UNCHANGED <<ops, nOps, side, fresh>>, pc' \in Places, pc'.code # "ensure", ControlInv',
         mode \in {"stopped", "unwinding", "failed"}, mode' \in {"running", "unwinding", "failed"},
         mode = "failed" <=> mode' = "failed",
         \A i \in 1 .. Len(rs') : mode' # "failed" \/ i <= Floor' \/ i <= CatchIndex' =>
           i <= Floor /\ (Top.op = "amb1" => i < Floor)
  PROVE  ProgramInv'
<1> DEFINE d == Len(runs) - 1
           c == Len(rs')
<1>1. /\ rs \in Seq(Entries) /\ runs \in Seq(Loops) /\ RunsInv /\ OpsInv /\ Len(rs) \in Nat /\ c \in Nat
      /\ fresh \in Nat \ {0} /\ nOps \in 0 .. MaxOps /\ Len(runs) \in Nat
  BY Facts
<1>2. /\ d \in Nat /\ d > 0 /\ d \in 1 .. d /\ d \in 1 .. Len(runs) /\ Len(runs) = d + 1
      /\ d + 1 \in 1 .. Len(runs)
      /\ runs' \in Seq(Loops) /\ Len(runs') = d /\ runs'[1] = Outermost
      /\ \A k \in 1 .. d : Same(runs[k], runs'[k])
      /\ Top = runs[d + 1] /\ Floor = Top.floor
  BY PopIs
<1>3. Floor \in Nat
  BY <1>1, TopIs
<1>10. c = Len(rs')
  OBVIOUS
<1> HIDE DEF d, c
<1>4. RunsInv'
  <2>1. d <= Len(runs') /\ c <= Len(rs) /\ c <= Len(rs') /\ \A i \in 1 .. c : rs[i] = rs'[i]
    BY <1>1, <1>2, <1>10
  <2>2. \A k \in d + 1 .. Len(runs') : Nests(rs', runs'[k - 1], runs'[k])
    <3>1. d + 1 .. Len(runs') = {}
      BY <1>2
    <3> QED BY <3>1
  <2>3. ASSUME NEW i \in 1 .. c, mode' \notin {"failed", "over"} \/ i <= Floor' \/ i <= CatchIndex'
        PROVE  /\ Leads(rs, runs, i)
               /\ \A k \in d + 1 .. Len(runs) :
                    runs[k].floor # i - 1 /\ ~(runs[k].op = "amb1" /\ runs[k].floor = i)
               /\ \A k \in d + 1 .. Len(runs') : runs'[k].floor # i - 1
    <3>1. i \in 1 .. Len(rs') /\ i \in 1 .. Len(rs)
      BY <1>1, <1>10
    <3>2. i <= Floor /\ (Top.op = "amb1" => i < Floor)
      <4>1. mode' # "failed" \/ i <= Floor' \/ i <= CatchIndex'
        BY <2>3
      <4> QED BY <3>1, <4>1
    <3>3. Leads(rs, runs, i)
      BY <1>1, <3>1, <3>2 DEF RunsInv
    <3>4. \A k \in d + 1 .. Len(runs) : k = d + 1
      BY <1>2
    <3>5. Floor # i - 1 /\ ~(Top.op = "amb1" /\ Floor = i)
      BY <1>1, <1>3, <3>2
    <3>6. d + 1 .. Len(runs') = {}
      BY <1>2
    <3> QED BY <1>2, <3>3, <3>4, <3>5, <3>6
  <2>4. \A i \in c + 1 .. Len(rs') : Leads(rs', runs', i)
    <3>1. c + 1 .. Len(rs') = {}
      BY <1>1, <1>10
    <3> QED BY <3>1
  <2>5. Len(rs') = c
    BY <1>10
  <2> QED BY <1>1, <1>2, <2>1, <2>2, <2>3, <2>4, <2>5, RunsKeep
<1>5. OpsInv'
  <2>1. Len(runs') <= Len(runs) /\ \A k \in 1 .. Len(runs') : Same(runs[k], runs'[k])
    BY <1>1, <1>2
  <2>2. ops' = ops /\ (mode' = "failed" => mode = "failed") /\ \A i \in 1 .. Len(rs') : rs[i] = rs'[i]
    OBVIOUS
  <2>3. side' # <<>> => "ensure" \in ops
    BY <1>1 DEF OpsInv
  <2> QED BY <1>1, <1>2, <2>1, <2>2, <2>3, OpsKeep
<1>6. SideInv'
  <2>1. /\ side \in Seq(Nat) /\ Increasing(side)
        /\ {side[i] : i \in 1 .. Len(side)} = {rs[i].to.act : i \in EnsureReturns(rs)}
    BY SideUnlessEnsure
  <2>2. {rs'[i].to.act : i \in EnsureReturns(rs')} = {rs[i].to.act : i \in EnsureReturns(rs)}
    <3>1. \A i \in EnsureReturns(rs) : i \in 1 .. Len(rs')
      BY DEF EnsureReturns
    <3>2. \A i \in EnsureReturns(rs) : rs'[i] = rs[i]
      BY <3>1
    <3> QED BY <3>2
  <2>3. (IF mode' = "running" /\ pc'.code = "ensure" THEN {pc'.act} ELSE {}) = {}
    OBVIOUS
  <2>4. side' = side
    OBVIOUS
  <2> QED BY <2>1, <2>2, <2>3, <2>4, SideKept
<1>7. fresh' \in Nat \ {0} /\ nOps' \in 0 .. MaxOps /\ WellFormed(rs', fresh')
      /\ mode' \in {"running", "stopped", "unwinding", "failed", "over"}
  BY <1>1
<1> QED BY <1>4, <1>5, <1>6, <1>7 DEF ProgramInv

\* The stack is cut back below a choice.
LEMMA CutAtChoice ==
  ASSUME NEW s, NEW f \in Nat, WellFormed(s, f), NEW c \in Nat, c < Len(s), IsChoice(s, c + 1)
  PROVE  /\ WellFormed(Prefix(s, c), f) /\ Prefix(s, c) \in Seq(Entries) /\ Len(Prefix(s, c)) = c
         /\ \A i \in 1 .. c : Prefix(s, c)[i] = s[i]
<1>1. s \in Seq(Entries) /\ c \in 0 .. Len(s)
  BY DEF WellFormed
<1>2. c > 0 => s[c].k # "header" /\ c \notin EnsureReturns(s)
  <2> SUFFICES ASSUME c > 0 PROVE s[c].k # "header" /\ c \notin EnsureReturns(s)
    OBVIOUS
  <2>1. c \in 1 .. Len(s)
    BY <1>1
  <2>2. Followed(s, c)
    BY <2>1 DEF WellFormed
  <2> QED BY <2>2 DEF Followed, IsChoice
<1> QED BY <1>1, <1>2, CutBack, PrefixIs

\* What the innermost loop, when it ends, goes back to.
LEMMA Landing ==
  ASSUME ProgramInv, Len(runs) > 1, NEW d, d = Len(runs) - 1, NEW c, c = Bottom(Top)
  PROVE  /\ c \in Nat /\ c > 0 /\ c <= Floor /\ Floor \in Nat /\ Floor = Top.floor
         /\ Top.op \in {"amb1", "amb2"} \cup Bodies /\ Top.pc \in Places
         /\ Top.pc.code \in {"plain", "locals"}
         /\ Top.op \in Bodies => c = Floor
         /\ Top.op = "amb1" => /\ Floor = c + 1 /\ c = Top.at
                               /\ Floor <= Len(rs) => IsChoice(rs, Floor)
         /\ Top.op = "amb2" => Floor = c /\ c = Top.at
         /\ runs[d].floor \in Nat /\ (IF runs[d].op \in Bodies THEN runs[d].floor <= c ELSE runs[d].floor < c)
         /\ c <= Len(rs) => RunsIn(rs, runs[d], Top.pc, c) /\ ~IsCatch(rs, c)
<1>1. /\ d \in Nat /\ d > 0 /\ d \in 1 .. Len(runs) /\ Nests(rs, runs[d], Top) /\ runs[d] \in Loops
      /\ Top \in Loops
      /\ Floor = Top.floor
  <2>1. d \in Nat /\ d > 0 /\ d \in 1 .. Len(runs) /\ Top \in Loops /\ runs[d] \in Loops
        /\ Nests(rs, runs[d], Top)
    <3>1. Len(runs) \in Nat
      BY Facts
    <3>2. Len(runs) - 1 \in 1 .. Len(runs)
      BY Nested
    <3>3. d \in Nat /\ d > 0
      <4> DEFINE l == Len(runs)
      <4>1. l \in Nat /\ l > 1 /\ d = l - 1
        BY <3>1
      <4> HIDE DEF l
      <4> QED BY <4>1
    <3> QED BY <3>2, <3>3, Nested
  <2> QED BY <2>1 DEF Floor
<1>2. /\ c \in Nat /\ c > 0 /\ c <= Floor /\ Floor \in Nat
  <2>1. RunsInv
    BY Facts
  <2>2. Len(runs) \in Nat /\ Len(runs) > 0
    BY Facts
  <2>3. Floor > 0 /\ Bottom(Top) > 0 /\ Bottom(Top) \in Nat /\ Floor \in Nat
    BY <2>1, TopIs
  <2>4. Bottom(Top) <= Floor
    <3>1. \A k \in 1 .. Len(runs) - 1 : Bottom(Top) <= Floor
      BY <2>1, TopIs
    <3>2. d \in 1 .. Len(runs) - 1
      BY <1>1
    <3> QED BY <3>1, <3>2
  <2> QED BY <2>3, <2>4
<1>3. Top.op \in {"amb1", "amb2"} \cup Bodies /\ Top.pc \in Places /\ Top.pc.code \in {"plain", "locals"}
  BY <1>1 DEF Loops, Nests
<1>4. Top.op \in Bodies => c = Floor
  BY <1>1 DEF Bottom
<1>5. Top.op = "amb1" => Floor = c + 1 /\ c = Top.at /\ (Floor <= Len(rs) => IsChoice(rs, Floor))
  <2>1. "amb1" \notin Bodies
    BY DEF Bodies
  <2> QED BY <1>1, <2>1 DEF Bottom, Nests
<1>6. Top.op = "amb2" => Floor = c /\ c = Top.at
  <2>1. "amb2" \notin Bodies
    BY DEF Bodies
  <2> QED BY <1>1, <2>1 DEF Bottom, Nests
<1>7. runs[d].floor \in Nat /\ (IF runs[d].op \in Bodies THEN runs[d].floor <= c ELSE runs[d].floor < c)
  BY <1>1 DEF Nests, Loops
<1>8. c <= Len(rs) => RunsIn(rs, runs[d], Top.pc, c) /\ ~IsCatch(rs, c)
  <2> SUFFICES ASSUME c <= Len(rs) PROVE RunsIn(rs, runs[d], Top.pc, c) /\ ~IsCatch(rs, c)
    OBVIOUS
  <2>1. RunsIn(rs, runs[d], Top.pc, c)
    BY <1>1 DEF Nests
  <2>2. CASE runs[d].op \in Bodies /\ c = runs[d].floor
    <3>1. d # 1
      <4>1. runs[1] = Outermost
        BY Facts
      <4>2. Outermost.op \notin Bodies
        BY DEF Outermost, Bodies
      <4> QED BY <2>2, <4>1, <4>2
    <3>2. d \in 2 .. Len(runs) /\ RunsInv
      <4>1. RunsInv /\ Len(runs) \in Nat
        BY Facts
      <4> DEFINE l == Len(runs)
      <4>2. l \in Nat /\ d \in 1 .. l /\ d # 1
        <5>1. d \in 1 .. Len(runs) /\ d # 1
          BY <1>1, <3>1
        <5> QED BY <4>1, <5>1
      <4> HIDE DEF l
      <4>3. d \in 2 .. l
        BY <4>2
      <4> QED BY <4>1, <4>3 DEF l
    <3>3. Nests(rs, runs[d - 1], runs[d])
      BY <3>2 DEF RunsInv
    <3>4. rs[c].k # "mark"
      BY <2>2, <3>3 DEF Nests
    <3> QED BY <2>1, <3>4 DEF IsCatch
  <2>3. CASE ~(runs[d].op \in Bodies /\ c = runs[d].floor)
    <3>1. RunsOn(rs, Top.pc, c)
      BY <2>1, <2>3 DEF RunsIn
    <3>2. ~IsCatch(rs, c)
      BY <3>1 DEF RunsOn, IsCatch
    <3> QED BY <2>1, <3>2
  <2> QED BY <2>2, <2>3
<1> QED BY <1>1, <1>2, <1>3, <1>4, <1>5, <1>6, <1>7, <1>8

\* The loop's body has stopped: the code that called it goes on.
LEMMA LeavesRunning ==
  ASSUME ProgramInv, Len(runs) > 1, mode = "stopped", runs' = PopRun, mode' = "running", pc' = Top.pc,
         rs' \in Seq(Entries), Len(rs') = Bottom(Top), Bottom(Top) <= Len(rs),
         \A i \in 1 .. Len(rs') : rs'[i] = rs[i],
         WellFormed(rs', fresh), Innermost(rs', base', Len(rs')), EnsureReturns(rs') = EnsureReturns(rs),
         UNCHANGED <<ops, nOps, side, fresh>>, astray' = "no", ~lost'
  PROVE  ProgramInv'
<1> DEFINE d == Len(runs) - 1
           c == Bottom(Top)
<1>1. /\ c \in Nat /\ c > 0 /\ c <= Floor /\ Floor \in Nat /\ Top.pc \in Places
      /\ Top.pc.code \in {"plain", "locals"}
      /\ (Top.op = "amb1" => Floor = c + 1) /\ RunsIn(rs, runs[d], Top.pc, c)
  BY Landing
<1>2. Same(runs[d], Top')
  BY PopIs
<1>3. c = Len(rs')
  OBVIOUS
<1> HIDE DEF d, c
<1>4. ControlInv'
  <2>1. c \in 1 .. c /\ \A i \in 1 .. c : rs[i] = rs'[i]
    BY <1>1, <1>3
  <2>2. RunsIn(rs', Top', Top.pc, c)
    BY <1>1, <1>2, <2>1, AgreeRunsIn
  <2>3. rs' # <<>>
    BY <1>1, <1>3
  <2> QED BY <1>3, <2>2, <2>3 DEF ControlInv
<1>5. \A i \in 1 .. Len(rs') : mode' # "failed" \/ i <= Floor' \/ i <= CatchIndex' =>
        i <= Floor /\ (Top.op = "amb1" => i < Floor)
  BY <1>1, <1>3
<1>6. pc' \in Places /\ pc'.code # "ensure" /\ Len(rs') <= Len(rs)
  BY <1>1
<1> QED BY <1>4, <1>5, <1>6, Leaves

\* The loop hands on an error; the catch it is for lies below.
LEMMA LeavesFailed ==
  ASSUME ProgramInv, Len(runs) > 1, mode = "failed", runs' = PopRun, mode' = "failed", pc' = Top.pc,
         rs' \in Seq(Entries), Bottom(Top) <= Len(rs'), Len(rs') <= Len(rs),
         \A i \in 1 .. Len(rs') : rs'[i] = rs[i],
         Len(rs') = Bottom(Top) \/ Len(rs') = Len(rs),
         Top.op = "amb1" => Len(rs') = Bottom(Top),
         WellFormed(rs', fresh), Innermost(rs', base', Len(rs')), EnsureReturns(rs') = EnsureReturns(rs),
         Top.op = "amb2" => Bottom(Top) < Len(rs'),
         UNCHANGED <<ops, nOps, side, fresh>>, aim' = aim, astray' = "no", ~lost'
  PROVE  ProgramInv'
<1> DEFINE d == Len(runs) - 1
           c == Bottom(Top)
           m == CatchIndex
           n == Len(rs')
<1>1. /\ c \in Nat /\ c > 0 /\ c <= Floor /\ Floor \in Nat /\ Top.pc \in Places
      /\ Top.pc.code \in {"plain", "locals"}
      /\ (Top.op = "amb1" => Floor = c + 1) /\ (Top.op # "amb1" => Floor = c) /\ ~IsCatch(rs, c)
      /\ (Top.op = "amb1" /\ Floor <= Len(rs) => IsChoice(rs, Floor))
      /\ runs[d].floor \in Nat /\ (IF runs[d].op \in Bodies THEN runs[d].floor <= c ELSE runs[d].floor < c)
  <2>1. c <= Len(rs)
    BY Landing, Facts
  <2> QED BY <2>1, Landing
<1>2. Same(runs[d], Top') /\ Floor' = runs[d].floor /\ Len(runs) \in 2 .. Len(runs) /\ Top = runs[Len(runs)]
  BY PopIs
<1>3. rs \in Seq(Entries) /\ Len(rs) \in Nat /\ n \in Nat /\ OpsInv
  BY Facts
<1> HIDE DEF d
<1>4. \A i \in 1 .. Len(rs) : IsCatch(rs, i) => i <= c
  <2> SUFFICES ASSUME NEW i \in 1 .. Len(rs), IsCatch(rs, i) PROVE i <= c
    OBVIOUS
  <2>1. i <= Floor
    BY <1>2, <1>3 DEF OpsInv, Floor
  <2>2. Top.op = "amb1" => i # Floor
    <3> SUFFICES ASSUME Top.op = "amb1", i = Floor PROVE FALSE
      OBVIOUS
    <3>1. IsChoice(rs, i)
      BY <1>1, <1>3
    <3> QED BY <3>1 DEF IsCatch, IsChoice
  <2> HIDE DEF c
  <2> QED BY <1>1, <2>1, <2>2
<1>5. m \in 0 .. c /\ (m # 0 => IsCatch(rs, m)) /\ CatchIndex' = m
  <2>1. /\ m \in 0 .. Len(rs) /\ (m # 0 => rs[m].k = "mark" /\ rs[m].kind \in {"catch"})
        /\ \A i \in m + 1 .. Len(rs) : ~(rs[i].k = "mark" /\ rs[i].kind \in {"catch"})
    BY <1>3, PromptIndexIs DEF CatchIndex
  <2>2. m # 0 => m \in 1 .. Len(rs) /\ IsCatch(rs, m)
    BY <1>3, <2>1 DEF IsCatch
  <2>3. m \in 0 .. c
    <3>1. m # 0 => m <= c
      BY <1>4, <2>2
    <3> HIDE DEF c, m
    <3> QED BY <1>1, <2>1, <3>1
  <2>4. {i \in DOMAIN rs' : rs'[i].k = "mark" /\ rs'[i].kind \in {"catch"}} =
          {i \in DOMAIN rs : rs[i].k = "mark" /\ rs[i].kind \in {"catch"}}
    <3>1. DOMAIN rs = 1 .. Len(rs) /\ DOMAIN rs' = 1 .. n
      OBVIOUS
    <3>2. \A i \in 1 .. Len(rs) : rs[i].k = "mark" /\ rs[i].kind \in {"catch"} => i \in 1 .. n
      <4> SUFFICES ASSUME NEW i \in 1 .. Len(rs), rs[i].k = "mark", rs[i].kind \in {"catch"}
                   PROVE  i \in 1 .. n
        OBVIOUS
      <4>1. i <= c
        BY <1>4 DEF IsCatch
      <4>2. c <= n
        OBVIOUS
      <4> HIDE DEF c, n
      <4> QED BY <1>1, <1>3, <4>1, <4>2
    <3>3. \A i \in 1 .. n : i \in 1 .. Len(rs) /\ rs'[i] = rs[i]
      <4>1. n <= Len(rs)
        OBVIOUS
      <4> QED BY <1>3, <4>1
    <3> HIDE DEF n, c, m
    <3> QED BY <3>1, <3>2, <3>3
  <2>5. CatchIndex' = CatchIndex
    BY <2>4 DEF CatchIndex, PromptIndex
  <2> QED BY <2>2, <2>3, <2>5
<1>11. n = Len(rs') /\ c <= n /\ (n = c \/ n = Len(rs)) /\ (Top.op = "amb1" => n = c)
       /\ (Top.op = "amb2" => c < n)
       /\ \A i \in 1 .. n : rs'[i] = rs[i]
  OBVIOUS
<1>12. m = CatchIndex
  OBVIOUS
<1> HIDE DEF c, n, m
<1>6. ControlInv'
  <2>1. aim.uid = CatchUid /\ ~IsCatch(rs, Len(rs))
    <3>1. rs # <<>>
      BY <1>1, <1>3, <1>11
    <3> QED BY <3>1 DEF ProgramInv, ControlInv
  <2>2. CatchUid' = CatchUid
    <3>1. m # 0 => rs'[m] = rs[m]
      BY <1>1, <1>3, <1>5, <1>11
    <3> QED BY <1>5, <1>12, <3>1 DEF CatchUid
  <2>3. ~IsCatch(rs', n)
    <3>1. n \in 1 .. n
      BY <1>1, <1>3, <1>11
    <3> QED BY <1>1, <1>11, <2>1, <3>1 DEF IsCatch
  <2>4. IF Top'.op \in Bodies THEN Floor' <= n ELSE Floor' < n
    BY <1>1, <1>2, <1>3, <1>11 DEF Same
  <2> QED BY <1>11, <2>1, <2>2, <2>3, <2>4 DEF ControlInv
<1>7. ASSUME NEW i \in 1 .. Len(rs'), mode' # "failed" \/ i <= Floor' \/ i <= CatchIndex'
      PROVE  i <= Floor /\ (Top.op = "amb1" => i < Floor)
  <2>1. i <= Floor' \/ i <= m
    BY <1>5, <1>7
  <2>2. i <= c
    BY <1>1, <1>2, <1>5, <2>1
  <2> QED BY <1>1, <2>2
<1>8. pc' \in Places /\ pc'.code # "ensure"
  BY <1>1
<1> QED BY <1>6, <1>7, <1>8, Leaves

\* The stack unwinds past the loop.
LEMMA LeavesUnwinding ==
  ASSUME ProgramInv, Len(runs) > 1, mode = "unwinding", Len(rs) <= Floor, Top.op = "amb1" => Len(rs) < Floor,
         runs' = Looping(PopRun), mode' = "unwinding", pc' = Top.pc, UNCHANGED <<rs, base, target, aim>>,
         UNCHANGED <<ops, nOps, side, fresh>>, astray' = "no", ~lost'
  PROVE  ProgramInv'
<1> DEFINE d == Len(runs) - 1
<1>1. Top.pc \in Places /\ Top.pc.code \in {"plain", "locals"} /\ Floor \in Nat
  BY Landing
<1>2. /\ d \in Nat /\ Len(runs) = d + 1 /\ Len(runs') = d /\ \A k \in 1 .. d : Same(runs[k], runs'[k])
  BY PopIs
<1>3. rs \in Seq(Entries) /\ Len(rs) \in Nat
  BY Facts
<1> HIDE DEF d
<1>4. ControlInv'
  <2>1. /\ rs # <<>> /\ rs[Len(rs)].k = "mark" /\ rs[Len(rs)].id = target /\ rs[Len(rs)].uid = aim.uid
        /\ \A k \in 2 .. Len(runs) : LetsThrough(runs[k])
    BY DEF ProgramInv, ControlInv
  <2>2. \A k \in 2 .. Len(runs') : LetsThrough(runs[k])'
    <3> SUFFICES ASSUME NEW k \in 2 .. Len(runs') PROVE LetsThrough(runs[k])'
      OBVIOUS
    <3>1. k \in 2 .. Len(runs) /\ k \in 1 .. d
      BY <1>2
    <3> QED BY <1>2, <2>1, <3>1 DEF Same, LetsThrough
  <2> QED BY <2>1, <2>2 DEF ControlInv
<1>5. \A i \in 1 .. Len(rs') : mode' # "failed" \/ i <= Floor' \/ i <= CatchIndex' =>
        i <= Floor /\ (Top.op = "amb1" => i < Floor)
  BY <1>1, <1>3
<1>6. /\ rs' \in Seq(Entries) /\ Len(rs') <= Len(rs) /\ (\A i \in 1 .. Len(rs') : rs'[i] = rs[i])
      /\ EnsureReturns(rs') = EnsureReturns(rs)
  BY <1>3 DEF EnsureReturns
<1>7. (WellFormed(rs, fresh) /\ Innermost(rs, base, Len(rs)))'
  BY DEF ProgramInv
<1>8. pc' \in Places /\ pc'.code # "ensure" /\ WellFormed(rs', fresh) /\ Innermost(rs', base', Len(rs'))
  BY <1>1, <1>7
<1> QED BY <1>4, <1>5, <1>6, <1>8, Leaves

\* There is more than the outermost loop.
LEMMA TopIsNested ==
  ASSUME Len(runs) \in Nat, Len(runs) > 1
  PROVE  Len(runs) \in 2 .. Len(runs)
<1> DEFINE l == Len(runs)
<1>1. l \in Nat /\ l > 1
  OBVIOUS
<1> HIDE DEF l
<1>2. l \in 2 .. l
  BY <1>1
<1> QED BY <1>2 DEF l

\* A run loop that ends was stopped at its floor, or passes on an error or the unwinding.
LEMMA RunEndsWhen ==
  ASSUME ProgramInv, RunEnds
  PROVE  /\ Len(runs) > 1 /\ mode \in {"stopped", "unwinding", "failed"} /\ ~lost /\ astray = "no"
         /\ mode = "stopped" => Len(rs) = Floor
         /\ mode = "unwinding" => Len(rs) <= Floor
         /\ mode = "failed" => IF Top.op \in Bodies THEN Floor <= Len(rs) ELSE Floor < Len(rs)
         /\ mode = "unwinding" => LetsThrough(Top) /\ rs[Len(rs)].k = "mark" /\ rs[Len(rs)].id = target
                                  /\ rs[Len(rs)].uid = aim.uid /\ Len(rs) > 0
<1>1. ControlInv /\ Len(runs) \in Nat /\ Len(rs) \in Nat /\ rs \in Seq(Entries) /\ ~lost /\ astray = "no"
  BY Facts
<1>2. Len(runs) > 1 /\ mode \in {"stopped", "unwinding", "failed"} /\ (mode = "unwinding" => Len(rs) <= Floor)
  BY DEF RunEnds
<1>3. mode = "unwinding" => LetsThrough(Top) /\ rs[Len(rs)].k = "mark" /\ rs[Len(rs)].id = target
                            /\ rs[Len(rs)].uid = aim.uid /\ Len(rs) > 0
  <2> SUFFICES ASSUME mode = "unwinding"
      PROVE  LetsThrough(Top) /\ rs[Len(rs)].k = "mark" /\ rs[Len(rs)].id = target
             /\ rs[Len(rs)].uid = aim.uid /\ Len(rs) > 0
    OBVIOUS
  <2>1. rs # <<>> /\ \A k \in 2 .. Len(runs) : LetsThrough(runs[k])
    BY <1>1 DEF ControlInv
  <2>2. Len(runs) \in 2 .. Len(runs)
    BY TopIsNested, <1>1, <1>2
  <2>3. Len(rs) > 0
    BY <1>1, <2>1
  <2> QED BY <1>1, <2>1, <2>2, <2>3 DEF ControlInv, Top
<1> QED BY <1>1, <1>2, <1>3 DEF ControlInv

\* What the first branch of an amb left, and its choice, are cut off.
LEMMA AmbCuts ==
  ASSUME ProgramInv, Len(runs) > 1, Top.op = "amb1", mode \in {"stopped", "failed"}, Floor <= Len(rs),
         mode = "stopped" => Len(rs) = Floor,
         rs' = Prefix(rs, Top.at), base' = BaseBelow(Top.at + 1)
  PROVE  /\ rs' \in Seq(Entries) /\ Len(rs') = Bottom(Top) /\ Bottom(Top) <= Len(rs)
         /\ \A i \in 1 .. Len(rs') : rs'[i] = rs[i]
         /\ WellFormed(rs', fresh) /\ Innermost(rs', base', Len(rs'))
         /\ EnsureReturns(rs') = EnsureReturns(rs)
<1> DEFINE c == Bottom(Top)
<1>1. c \in Nat /\ c > 0 /\ Floor = c + 1 /\ c = Top.at /\ IsChoice(rs, c + 1)
  BY Landing
<1>2. rs \in Seq(Entries) /\ Len(rs) \in Nat /\ WellFormed(rs, fresh) /\ fresh \in Nat /\ OpsInv
      /\ Innermost(rs, base, Len(rs)) /\ Len(runs) \in Nat
  BY Facts
<1>3. c = Top.at /\ rs' = Prefix(rs, c) /\ base' = BaseBelow(c + 1)
  BY <1>1
<1>4. c = Bottom(Top)
  OBVIOUS
<1> HIDE DEF c
<1>5. c < Len(rs) /\ c + 1 \in 1 .. Len(rs)
  BY <1>1, <1>2
<1>6. WellFormed(rs', fresh) /\ rs' \in Seq(Entries) /\ Len(rs') = c /\ \A i \in 1 .. c : rs'[i] = rs[i]
  BY <1>1, <1>2, <1>3, <1>5, CutAtChoice
<1>7. Innermost(rs', base', c)
  <2>1. Innermost(rs, base', (c + 1) - 1)
    BY <1>2, <1>3, <1>5, BaseBelowIs
  <2>2. (c + 1) - 1 = c /\ c \in 0 .. c
    BY <1>1
  <2>3. Innermost(rs, base', c)
    BY <2>1, <2>2
  <2>4. \A i \in 1 .. c : rs[i] = rs'[i]
    BY <1>6
  <2>5. c \in Nat
    BY <1>1
  <2> QED BY <2>3, <2>4, <2>5 DEF Innermost
<1>8. \A i \in c + 1 .. Len(rs) : ~IsCatch(rs, i)
  <2> SUFFICES ASSUME NEW i \in c + 1 .. Len(rs), IsCatch(rs, i) PROVE FALSE
    OBVIOUS
  <2>1. i \in 1 .. Len(rs) /\ i > c
    BY <1>1, <1>2
  <2>2. i # c + 1
    BY <1>1 DEF IsCatch, IsChoice
  <2>3. CASE mode = "stopped"
    BY <1>1, <2>1, <2>2, <2>3
  <2>4. CASE mode = "failed"
    <3>1. i <= runs[Len(runs)].floor
      <4>1. Len(runs) \in 2 .. Len(runs)
        BY <1>2, TopIsNested
      <4> QED BY <1>2, <2>1, <2>4, <4>1 DEF OpsInv
    <3>2. i <= Floor
      BY <3>1 DEF Floor, Top
    <3> QED BY <1>1, <2>1, <2>2, <3>2
  <2> QED BY <2>3, <2>4
<1>9. EnsureReturns(rs') = EnsureReturns(rs)
  <2>1. \A i \in EnsureReturns(rs) : i < c
    <3>1. c \in 0 .. Len(rs)
      BY <1>1, <1>2, <1>5
    <3> QED BY <1>2, <1>8, <3>1, EnsuresBelow DEF IsCatch
  <2>2. \A i \in 1 .. c : i \in 1 .. Len(rs)
    BY <1>1, <1>2, <1>5
  <2> QED BY <1>1, <1>2, <1>6, <2>1, <2>2 DEF EnsureReturns
<1> QED BY <1>2, <1>4, <1>5, <1>6, <1>7, <1>9

\* amb: its branch ends, and what called amb goes on, or unwinds or fails further.
LEMMA AmbReturnsKeeps ==
  ASSUME ProgramInv, Orderly(ops), AmbReturns
  PROVE  ProgramInv'
<1>1. RunEnds /\ Top.op \in {"amb1", "amb2"} /\ ReturnFromRun(mode)
      /\ UNCHANGED <<ops, nOps, target, side, fresh, aim, astray, lost>>
  BY DEF AmbReturns, historyVars
<1>2. /\ Len(runs) > 1 /\ mode \in {"stopped", "unwinding", "failed"} /\ ~lost /\ astray = "no"
      /\ mode = "stopped" => Len(rs) = Floor
      /\ mode = "unwinding" => Len(rs) <= Floor
      /\ mode = "failed" => IF Top.op \in Bodies THEN Floor <= Len(rs) ELSE Floor < Len(rs)
      /\ mode = "unwinding" => rs[Len(rs)].k = "mark" /\ rs[Len(rs)].id = target /\ Len(rs) > 0
  BY <1>1, RunEndsWhen
<1>3. Top.op \notin Bodies
  BY <1>1 DEF Bodies
<1>4. /\ Floor \in Nat /\ Bottom(Top) \in Nat /\ Bottom(Top) <= Floor /\ Bottom(Top) > 0
      /\ (Top.op = "amb1" => Floor = Bottom(Top) + 1 /\ (Floor <= Len(rs) => IsChoice(rs, Floor)))
      /\ (Top.op = "amb2" => Floor = Bottom(Top))
  BY <1>2, Landing
<1>5. rs \in Seq(Entries) /\ Len(rs) \in Nat /\ WellFormed(rs, fresh) /\ Innermost(rs, base, Len(rs))
      /\ RunsInv
  BY Facts
<1>6. ~lost' /\ astray' = "no" /\ aim' = aim /\ UNCHANGED <<ops, nOps, side, fresh>>
  BY <1>1, <1>2
<1>7. pc' = Top.pc
  BY <1>1 DEF ReturnFromRun
<1>8. Floor <= Len(rs) /\ Top.op = "amb1" /\ mode # "unwinding" =>
        /\ rs' \in Seq(Entries) /\ Len(rs') = Bottom(Top) /\ Bottom(Top) <= Len(rs)
        /\ \A i \in 1 .. Len(rs') : rs'[i] = rs[i]
        /\ WellFormed(rs', fresh) /\ Innermost(rs', base', Len(rs')) /\ EnsureReturns(rs') = EnsureReturns(rs)
  <2> SUFFICES ASSUME Floor <= Len(rs), Top.op = "amb1", mode # "unwinding"
      PROVE  /\ rs' \in Seq(Entries) /\ Len(rs') = Bottom(Top) /\ Bottom(Top) <= Len(rs)
             /\ \A i \in 1 .. Len(rs') : rs'[i] = rs[i]
             /\ WellFormed(rs', fresh) /\ Innermost(rs', base', Len(rs'))
             /\ EnsureReturns(rs') = EnsureReturns(rs)
    OBVIOUS
  <2>1. rs' = Prefix(rs, Top.at) /\ base' = BaseBelow(Top.at + 1)
    BY DEF AmbReturns
  <2>2. mode \in {"stopped", "failed"}
    BY <1>2
  <2> QED BY <1>2, <2>1, <2>2, AmbCuts
<1>9. Top.op = "amb2" \/ mode = "unwinding" =>
        /\ rs' = rs /\ base' = base /\ rs' \in Seq(Entries) /\ \A i \in 1 .. Len(rs') : rs'[i] = rs[i]
        /\ WellFormed(rs', fresh) /\ Innermost(rs', base', Len(rs')) /\ EnsureReturns(rs') = EnsureReturns(rs)
  <2> SUFFICES ASSUME Top.op = "amb2" \/ mode = "unwinding"
      PROVE  /\ rs' = rs /\ base' = base /\ rs' \in Seq(Entries) /\ \A i \in 1 .. Len(rs') : rs'[i] = rs[i]
             /\ WellFormed(rs', fresh) /\ Innermost(rs', base', Len(rs'))
             /\ EnsureReturns(rs') = EnsureReturns(rs)
    OBVIOUS
  <2>1. rs' = rs /\ base' = base
    BY DEF AmbReturns
  <2> QED BY <1>5, <2>1
<1>10. CASE mode = "stopped"
  <2>1. runs' = PopRun /\ mode' = "running"
    BY <1>1, <1>10 DEF ReturnFromRun
  <2>2. Len(rs') = Bottom(Top) /\ Bottom(Top) <= Len(rs)
    BY <1>1, <1>2, <1>4, <1>5, <1>8, <1>9, <1>10
  <2>3. /\ rs' \in Seq(Entries) /\ \A i \in 1 .. Len(rs') : rs'[i] = rs[i]
        /\ WellFormed(rs', fresh) /\ Innermost(rs', base', Len(rs')) /\ EnsureReturns(rs') = EnsureReturns(rs)
    <3>1. Floor <= Len(rs)
      BY <1>2, <1>4, <1>10
    <3> QED BY <1>1, <1>8, <1>9, <1>10, <3>1
  <2> QED BY <1>2, <1>6, <1>7, <1>10, <2>1, <2>2, <2>3, LeavesRunning
<1>11. CASE mode = "failed"
  <2>1. runs' = PopRun /\ mode' = "failed"
    BY <1>1, <1>11 DEF ReturnFromRun
  <2>2. Floor < Len(rs)
    BY <1>2, <1>3, <1>11
  <2>3. /\ rs' \in Seq(Entries) /\ \A i \in 1 .. Len(rs') : rs'[i] = rs[i]
        /\ WellFormed(rs', fresh) /\ Innermost(rs', base', Len(rs')) /\ EnsureReturns(rs') = EnsureReturns(rs)
    <3>1. Floor <= Len(rs)
      BY <1>4, <1>5, <2>2
    <3> QED BY <1>1, <1>8, <1>9, <1>11, <3>1
  <2>4. CASE Top.op = "amb1"
    <3>1. Len(rs') = Bottom(Top) /\ Bottom(Top) <= Len(rs)
      BY <1>4, <1>5, <1>8, <1>11, <2>2, <2>4
    <3>2. Bottom(Top) <= Len(rs') /\ Len(rs') <= Len(rs) /\ Top.op # "amb2"
      BY <1>4, <2>4, <3>1
    <3> QED BY <1>2, <1>6, <1>7, <1>11, <2>1, <2>3, <3>1, <3>2, LeavesFailed
  <2>5. CASE Top.op = "amb2"
    <3>1. Len(rs') = Len(rs) /\ Top.op # "amb1"
      BY <1>9, <2>5
    <3>2. Bottom(Top) <= Len(rs') /\ Len(rs') <= Len(rs) /\ Bottom(Top) < Len(rs')
      BY <1>4, <1>5, <2>2, <2>5, <3>1
    <3> QED BY <1>2, <1>6, <1>7, <1>11, <2>1, <2>3, <3>1, <3>2, LeavesFailed
  <2> QED BY <1>1, <2>4, <2>5
<1>12. CASE mode = "unwinding"
  <2>1. runs' = Looping(PopRun) /\ mode' = "unwinding"
    BY <1>1, <1>12 DEF ReturnFromRun
  <2>2. UNCHANGED <<rs, base, target, aim>>
    BY <1>1, <1>9, <1>12
  <2>3. Top.op = "amb1" => Len(rs) < Floor
    <3> SUFFICES ASSUME Top.op = "amb1", Len(rs) = Floor PROVE FALSE
      BY <1>2, <1>4, <1>5, <1>12
    <3>1. IsChoice(rs, Len(rs)) /\ Len(rs) \in 1 .. Len(rs)
      BY <1>2, <1>4, <1>5, <1>12
    <3>2. Leads(rs, runs, Len(rs))
      BY <1>12, <3>1, AllLead
    <3>3. Top.id = rs[Len(rs)].id
      BY <1>5, <3>1, <3>2, ChoiceBelow DEF Top
    <3>4. target # Top.id
      BY <1>12 DEF AmbReturns
    <3> QED BY <1>2, <1>12, <3>3, <3>4
  <2> QED BY <1>2, <1>6, <1>7, <1>12, <2>1, <2>2, <2>3, LeavesUnwinding
<1> QED BY <1>2, <1>10, <1>11, <1>12

\* each and times: the last body ends, and what called the combinator goes on.
LEMMA CombinatorReturnsKeeps ==
  ASSUME ProgramInv, Orderly(ops), CombinatorReturns
  PROVE  ProgramInv'
<1>1. RunEnds /\ Top.op \in Bodies /\ UNCHANGED <<ops, nOps, rs, base, target, side, fresh, aim, lost>>
  BY DEF CombinatorReturns, stackVars, Bodies
<1>2. /\ Len(runs) > 1 /\ mode \in {"stopped", "unwinding", "failed"} /\ ~lost /\ astray = "no"
      /\ mode = "stopped" => Len(rs) = Floor
      /\ mode = "unwinding" => Len(rs) <= Floor
      /\ mode = "failed" => IF Top.op \in Bodies THEN Floor <= Len(rs) ELSE Floor < Len(rs)
      /\ mode = "unwinding" => Top.op # "each"
  BY <1>1, RunEndsWhen DEF LetsThrough
<1>3. ReturnFromRun(mode) /\ astray' = astray
  BY <1>2 DEF CombinatorReturns
<1>4. Floor \in Nat /\ Bottom(Top) = Floor
  BY <1>1, <1>2, Landing
<1>5. rs \in Seq(Entries) /\ Len(rs) \in Nat /\ WellFormed(rs, fresh) /\ Innermost(rs, base, Len(rs))
  BY Facts
<1>6. ~lost' /\ astray' = "no" /\ aim' = aim /\ UNCHANGED <<ops, nOps, side, fresh>>
  BY <1>1, <1>2, <1>3
<1>7. pc' = Top.pc
  BY <1>3 DEF ReturnFromRun
<1>8. Top.op \notin {"amb1", "amb2"}
  BY <1>1 DEF Bodies
<1>9. /\ rs' = rs /\ base' = base /\ rs' \in Seq(Entries) /\ Len(rs') = Len(rs)
      /\ \A i \in 1 .. Len(rs') : rs'[i] = rs[i]
      /\ WellFormed(rs', fresh) /\ Innermost(rs', base', Len(rs')) /\ EnsureReturns(rs') = EnsureReturns(rs)
  <2>1. rs' = rs /\ base' = base
    BY <1>1
  <2> QED BY <1>5, <2>1
<1>10. CASE mode = "stopped"
  <2>1. runs' = PopRun /\ mode' = "running"
    BY <1>3, <1>10 DEF ReturnFromRun
  <2>2. Len(rs') = Bottom(Top) /\ Bottom(Top) <= Len(rs)
    BY <1>2, <1>4, <1>9, <1>10
  <2> QED BY <1>2, <1>6, <1>7, <1>9, <1>10, <2>1, <2>2, LeavesRunning
<1>11. CASE mode = "failed"
  <2>1. runs' = PopRun /\ mode' = "failed"
    BY <1>3, <1>11 DEF ReturnFromRun
  <2>2. Bottom(Top) <= Len(rs') /\ Len(rs') <= Len(rs)
    BY <1>1, <1>2, <1>4, <1>5, <1>9, <1>11
  <2> QED BY <1>2, <1>6, <1>7, <1>8, <1>9, <1>11, <2>1, <2>2, LeavesFailed
<1>12. CASE mode = "unwinding"
  <2>1. runs' = Looping(PopRun) /\ mode' = "unwinding"
    BY <1>3, <1>12 DEF ReturnFromRun
  <2>2. UNCHANGED <<rs, base, target, aim>>
    BY <1>1
  <2> QED BY <1>2, <1>6, <1>7, <1>8, <1>12, <2>1, <2>2, LeavesUnwinding
<1> QED BY <1>2, <1>10, <1>11, <1>12

\* The innermost loop starts another body, from the depth c at which it will return.
LEMMA LoopGoesOn ==
  ASSUME ProgramInv, Len(runs) > 1, mode \in {"stopped", "unwinding"}, NEW d, d = Len(runs) - 1,
         NEW r \in Loops, runs' = [runs EXCEPT ![Len(runs)] = r], mode' = "running", ops' = ops, side' = side,
         NEW c, c = Bottom(Top), r.floor = c, (IF r.op \in Bodies THEN r.op ELSE "amb") \in ops,
         c <= Len(rs), rs' \in Seq(Entries), c <= Len(rs'), \A i \in 1 .. c : rs[i] = rs'[i],
         \/ Len(rs') = c
         \/ Len(rs') = c + 1 /\ rs'[c + 1] = Ret(Stop, r.body) /\ r.op \notin Bodies,
         Nests(rs', runs[d], r)
  PROVE  RunsInv' /\ OpsInv' /\ Top' = r /\ Len(runs') = Len(runs)
<1> DEFINE l == Len(runs)
<1>1. /\ rs \in Seq(Entries) /\ RunsInv /\ OpsInv /\ runs \in Seq(Loops) /\ runs[1] = Outermost
      /\ l \in Nat /\ l > 1
  BY Facts
<1>2. c \in Nat /\ c > 0 /\ c <= Floor /\ Floor \in Nat /\ (Top.op = "amb1" => Floor = c + 1)
  BY Landing
<1>3. /\ d \in Nat /\ d > 0 /\ l = d + 1 /\ d \in 1 .. l /\ 1 \in 1 .. d /\ (d + 1) - 1 = d
      /\ d + 1 \in 2 .. l
      /\ d + 1 \in 1 .. l /\ d \in 1 .. d /\ \A k \in 1 .. l : k = d + 1 \/ k \in 1 .. d
  <2>1. d = l - 1
    OBVIOUS
  <2> HIDE DEF l
  <2> QED BY <1>1, <2>1
<1>4. /\ runs' \in Seq(Loops) /\ Len(runs') = l /\ runs'[l] = r /\ \A k \in 1 .. d : runs'[k] = runs[k]
  <2>1. \A k \in 1 .. d : k \in 1 .. l /\ k # l
    BY <1>3
  <2>2. runs' = [runs EXCEPT ![l] = r] /\ l \in 1 .. l
    BY <1>3
  <2> HIDE DEF l
  <2>3. l = Len(runs)
    BY DEF l
  <2> QED BY <1>1, <2>1, <2>2, <2>3
<1>5. Top = runs[l] /\ Top' = r
  BY <1>4 DEF Top
<1>6. l = Len(runs)
  OBVIOUS
<1> HIDE DEF l
<1>7. \A k \in 1 .. d : runs[k].floor \in Nat /\ runs[k].floor <= c
      /\ (runs[k].floor = c => runs[k].op \in Bodies)
  <2> SUFFICES ASSUME NEW k \in 1 .. d
               PROVE  runs[k].floor \in Nat /\ runs[k].floor <= c
                      /\ (runs[k].floor = c => runs[k].op \in Bodies)
    OBVIOUS
  <2>1. k \in 1 .. l /\ l \in 2 .. l /\ k \in 1 .. l - 1
    BY <1>3
  <2>2. runs[k].floor \in Nat
    BY <1>1, <1>6, <2>1, LoopIs
  <2>3. runs[k].floor <= c /\ (runs[k].op \notin Bodies => runs[k].floor < c)
    BY <1>1, <1>5, <1>6, <2>1, FloorsRise
  <2> QED BY <1>2, <2>2, <2>3
<1>8. rs'[c + 1].k = "ret" \/ Len(rs') = c
  BY DEF Ret
<1>9. RunsInv'
  <2>1. d \in 1 .. Len(runs) /\ d <= Len(runs') /\ runs'[1] = Outermost
    <3>1. d \in 1 .. l /\ l = d + 1 /\ d \in Nat
      BY <1>3
    <3>2. Len(runs') = l /\ runs'[1] = runs[1]
      BY <1>3, <1>4
    <3>3. d <= l
      BY <3>1
    <3> QED BY <1>1, <1>6, <3>1, <3>2, <3>3
  <2>2. \A k \in 1 .. d : Same(runs[k], runs'[k])
    BY <1>4, SameSelf
  <2>3. \/ Len(rs') = c
        \/ \A k \in 2 .. d :
             /\ runs[k].floor <= c
             /\ runs[k].floor = c => rs'[c + 1].k = "ret" \/ (runs[k].op \in Bodies /\ IsChoice(rs', c + 1))
    <3>1. \A k \in 2 .. d : k \in 1 .. d
      BY <1>3
    <3>2. \A k \in 2 .. d : runs[k].floor <= c
      BY <1>7, <3>1
    <3>3. CASE Len(rs') # c
      <4>1. rs'[c + 1].k = "ret"
        BY <1>8, <3>3
      <4> QED BY <3>2, <4>1
    <3> QED BY <3>3
  <2>4. \A k \in d + 1 .. Len(runs') : Nests(rs', runs'[k - 1], runs'[k])
    <3> SUFFICES ASSUME NEW k \in d + 1 .. Len(runs') PROVE Nests(rs', runs'[k - 1], runs'[k])
      OBVIOUS
    <3>1. k = d + 1 /\ k = l /\ k - 1 = d
      BY <1>3, <1>4
    <3>2. runs'[k - 1] = runs[d] /\ runs'[k] = r
      BY <1>3, <1>4, <3>1
    <3> QED BY <3>2
  <2>5. \A i \in 1 .. c : mode' \notin {"failed", "over"} \/ i <= Floor' \/ i <= CatchIndex' =>
          /\ Leads(rs, runs, i)
          /\ \A k \in d + 1 .. Len(runs) :
               runs[k].floor # i - 1 /\ ~(runs[k].op = "amb1" /\ runs[k].floor = i)
          /\ \A k \in d + 1 .. Len(runs') : runs'[k].floor # i - 1
    <3> SUFFICES ASSUME NEW i \in 1 .. c
                 PROVE  /\ Leads(rs, runs, i)
                        /\ \A k \in d + 1 .. Len(runs) :
                             runs[k].floor # i - 1 /\ ~(runs[k].op = "amb1" /\ runs[k].floor = i)
                        /\ \A k \in d + 1 .. Len(runs') : runs'[k].floor # i - 1
      OBVIOUS
    <3>1. Leads(rs, runs, i)
      <4>1. i \in 1 .. Len(rs)
        BY <1>1, <1>2
      <4>2. mode \notin {"failed", "over"}
        OBVIOUS
      <4> QED BY <4>1, <4>2, AllLead
    <3>2. \A k \in d + 1 .. l : k = l
      BY <1>3
    <3>3. Top.floor = Floor
      BY DEF Floor
    <3>4. Floor # i - 1 /\ ~(Top.op = "amb1" /\ Floor = i)
      BY <1>2
    <3>5. c # i - 1
      BY <1>2
    <3> QED BY <1>4, <1>5, <1>6, <3>1, <3>2, <3>3, <3>4, <3>5
  <2>6. \A i \in c + 1 .. Len(rs') : Leads(rs', runs', i)
    <3> SUFFICES ASSUME NEW i \in c + 1 .. Len(rs') PROVE Leads(rs', runs', i)
      OBVIOUS
    <3>1. Len(rs') = c + 1 /\ rs'[c + 1] = Ret(Stop, r.body) /\ r.op \notin Bodies
      BY <1>2
    <3>2. i = c + 1 /\ i # 1 /\ i - 1 = c
      BY <1>2, <3>1
    <3>3. rs'[i] = Ret(Stop, r.body) /\ rs'[i].k = "ret"
      BY <3>1, <3>2 DEF Ret
    <3>4. l \in 2 .. Len(runs') /\ runs'[l].floor = i - 1
      BY <1>3, <1>4, <3>2
    <3>5. ASSUME NEW k \in 2 .. Len(runs'), \A j \in k + 1 .. Len(runs') : runs'[j].floor # i - 1 PROVE k = l
      <4>1. k \in 1 .. l /\ l \in 1 .. l
        BY <1>3, <1>4
      <4>2. ~(l \in k + 1 .. Len(runs'))
        BY <3>4, <3>5
      <4> QED BY <1>1, <1>4, <4>1, <4>2
    <3> QED BY <1>4, <3>1, <3>2, <3>3, <3>4, <3>5 DEF Leads
  <2> QED BY <1>1, <1>2, <1>4, <2>1, <2>2, <2>3, <2>4, <2>5, <2>6, RunsKeep
<1>10. ASSUME NEW i \in 1 .. Len(rs'), rs'[i].k = "mark"
       PROVE  i \in 1 .. c /\ i \in 1 .. Len(rs) /\ rs'[i] = rs[i]
  <2>1. i # c + 1
    BY <1>2, <1>8, <1>10
  <2>2. Len(rs') = c \/ Len(rs') = c + 1
    OBVIOUS
  <2>3. i \in 1 .. c
    BY <1>2, <2>1, <2>2
  <2> QED BY <1>1, <1>2, <2>3
<1>11. OpsInv'
  <2>1. \A k \in 2 .. Len(runs') : k = l \/ (k \in 1 .. d /\ k \in 2 .. Len(runs))
    BY <1>3, <1>4, <1>6
  <2>2. \A k \in 2 .. Len(runs') : (IF runs'[k].op \in Bodies THEN runs'[k].op ELSE "amb") \in ops
    BY <1>1, <1>4, <2>1 DEF OpsInv
  <2>3. \A i \in 1 .. Len(rs') : rs'[i].k = "mark" /\ rs'[i].kind = "exception" => "reset" \in ops
    BY <1>1, <1>10 DEF OpsInv
  <2>4. side' # <<>> => "ensure" \in ops
    BY <1>1 DEF OpsInv
  <2>5. ASSUME ops \cap {"fault", "fail"} # {}, NEW i \in 1 .. Len(rs'), NEW k \in 2 .. Len(runs'),
               IsCatch(rs', i)
        PROVE  i <= runs'[k].floor
    <3>1. i \in 1 .. c /\ i \in 1 .. Len(rs) /\ IsCatch(rs, i)
      BY <1>10, <2>5 DEF IsCatch
    <3>2. CASE k = l
      BY <1>2, <1>4, <3>1, <3>2
    <3>3. CASE k \in 1 .. d /\ k \in 2 .. Len(runs)
      <4>1. i <= runs[k].floor
        BY <1>1, <2>5, <3>1, <3>3 DEF OpsInv
      <4> QED BY <1>4, <3>3, <4>1
    <3> QED BY <2>1, <3>2, <3>3
  <2>6. (ops \cap {"fault", "fail"} # {} \/ mode = "failed" =>
          \A i \in 1 .. Len(rs), k \in 2 .. Len(runs) : IsCatch(rs, i) => i <= runs[k].floor)'
    BY <2>5
  <2> QED BY <2>2, <2>3, <2>4, <2>6 DEF OpsInv
<1> QED BY <1>4, <1>5, <1>6, <1>9, <1>11

\* each and times: the body runs again on the next element.
LEMMA NextElementKeeps ==
  ASSUME ProgramInv, Orderly(ops), NextElement
  PROVE  ProgramInv'
<1> DEFINE c == Bottom(Top)
           d == Len(runs) - 1
           r == [Top EXCEPT !.left = Top.left - 1, !.looped = FALSE, !.body = fresh]
<1>1. /\ RunEnds /\ mode = "stopped" /\ Top.left > 1 /\ Top.op \in Bodies
      /\ runs' = [runs EXCEPT ![Len(runs)] = r] /\ pc' = At("plain", fresh, 0) /\ mode' = "running"
      /\ fresh' = fresh + 1 /\ UNCHANGED <<ops, nOps, rs, base, side, astray, lost>>
  <2>1. runs' = [runs EXCEPT ![Len(runs)] = r]
    BY DEF NextElement, Top
  <2> QED BY <2>1 DEF NextElement, Bodies, Numbering, stackVars, historyVars
<1>2. Len(runs) > 1 /\ Len(rs) = Floor /\ ~lost /\ astray = "no"
  BY <1>1, RunEndsWhen
<1>3. c \in Nat /\ c > 0 /\ c = Floor /\ Floor = Top.floor
  BY <1>1, <1>2, Landing
<1>4. /\ rs \in Seq(Entries) /\ Len(rs) \in Nat /\ WellFormed(rs, fresh) /\ Innermost(rs, base, Len(rs))
      /\ fresh \in Nat /\ fresh > 0 /\ nOps \in 0 .. MaxOps /\ OpsInv /\ Len(runs) \in Nat
  BY Facts
<1>5. Top \in Loops /\ Nests(rs, runs[d], Top)
  BY <1>2, Nested
<1>6. /\ r \in Loops /\ r.op = Top.op /\ r.floor = c /\ r.body = fresh /\ r.pc = Top.pc /\ r.id = Top.id
      /\ r.at = Top.at
  <2>1. Top.left - 1 \in Nat
    BY <1>1, <1>5 DEF Loops
  <2> QED BY <1>3, <1>4, <1>5, <2>1 DEF Loops
<1>7. (IF r.op \in Bodies THEN r.op ELSE "amb") \in ops
  <2>1. Len(runs) \in 2 .. Len(runs)
    BY <1>2, <1>4, TopIsNested
  <2>2. (IF Top.op \in Bodies THEN Top.op ELSE "amb") \in ops
    BY <1>4, <2>1 DEF OpsInv, Top
  <2> QED BY <1>6, <2>2
<1>8. rs' = rs /\ Len(rs) = c
  BY <1>1, <1>2, <1>3
<1>9. Nests(rs', runs[d], r)
  <2>1. Bottom(r) = Bottom(Top)
    BY <1>6 DEF Bottom, Floor
  <2> QED BY <1>1, <1>3, <1>5, <1>6, <1>8, <2>1 DEF Nests, Bodies
<1>10. RunsInv' /\ OpsInv' /\ Top' = r
  <2>1. c <= Len(rs) /\ c <= Len(rs') /\ (\A i \in 1 .. c : rs[i] = rs'[i]) /\ Len(rs') = c
        /\ rs' \in Seq(Entries)
    BY <1>3, <1>4, <1>8
  <2>2. c = Bottom(Top) /\ d = Len(runs) - 1
    OBVIOUS
  <2>3. mode \in {"stopped", "unwinding"} /\ mode' = "running" /\ ops' = ops /\ side' = side
    BY <1>1
  <2>4. runs' = [runs EXCEPT ![Len(runs)] = r]
    BY <1>1
  <2> HIDE DEF c, d, r
  <2> QED BY <1>2, <1>6, <1>7, <1>9, <2>1, <2>2, <2>3, <2>4, LoopGoesOn
<1> HIDE DEF c, d, r
<1>11. WellFormed(rs', fresh')
  <2>1. fresh' \in Nat /\ fresh <= fresh' /\ rs' \in Seq(Entries) /\ Len(rs) <= Len(rs')
        /\ \A i \in 1 .. c : rs'[i] = rs[i]
    BY <1>1, <1>3, <1>4, <1>8
  <2>2. c + 1 .. Len(rs') = {}
    BY <1>3, <1>8
  <2>3. Grown(rs', c, fresh, fresh')
    BY <2>2 DEF Grown
  <2> QED BY <1>3, <1>4, <1>8, <2>1, <2>3, GrowsWell
<1>12. pc' \in Places /\ pc'.code = "plain" /\ pc' = At("plain", r.body, 0)
  BY <1>1, <1>4, <1>6 DEF Places, At, Codes
<1>13. ControlInv'
  <2>1. RunsIn(rs', Top', pc', c)
    BY <1>1, <1>6, <1>10, <1>12 DEF RunsIn
  <2>2. c = Len(rs') /\ rs' # <<>> /\ mode' = "running"
    BY <1>1, <1>3, <1>8
  <2>3. astray' = "no" /\ ~lost'
    BY <1>1, <1>2
  <2> QED BY <2>1, <2>2, <2>3 DEF ControlInv
<1>14. SideInv'
  <2>1. /\ side \in Seq(Nat) /\ Increasing(side)
        /\ {side[i] : i \in 1 .. Len(side)} = {rs[i].to.act : i \in EnsureReturns(rs)}
    BY <1>1, SideUnlessEnsure
  <2>2. {rs'[i].to.act : i \in EnsureReturns(rs')} = {rs[i].to.act : i \in EnsureReturns(rs)}
    BY <1>1 DEF EnsureReturns
  <2>3. (IF mode' = "running" /\ pc'.code = "ensure" THEN {pc'.act} ELSE {}) = {}
    BY <1>12
  <2>4. side' = side
    BY <1>1
  <2> QED BY <2>1, <2>2, <2>3, <2>4, SideKept
<1>15. /\ fresh' \in Nat \ {0} /\ nOps' \in 0 .. MaxOps /\ Innermost(rs', base', Len(rs'))
       /\ mode' \in {"running", "stopped", "unwinding", "failed", "over"}
  BY <1>1, <1>4
<1> QED BY <1>10, <1>11, <1>12, <1>13, <1>14, <1>15 DEF ProgramInv

\* times begins its body again while the stack unwinds: nothing but the count
\* of its elements changes, as none of its operations can fault.
LEMMA RestartBodyKeeps ==
  ASSUME ProgramInv, Orderly(ops), RestartBody
  PROVE  ProgramInv'
<1> DEFINE l == Len(runs)
           r == [runs[l] EXCEPT !.left = runs[l].left - 1]
<1>1. RunEnds /\ Top.op = "times" /\ mode = "unwinding" /\ Top.left > 1
      /\ UNCHANGED <<ops, nOps, rs, base, pc, target, side, fresh, lost>>
      /\ runs' = [runs EXCEPT ![l] = r]
  BY DEF RestartBody, stackVars, Top
<1>2. LetsThrough(Top) /\ astray = "no" /\ ~lost /\ l > 1
  BY <1>1, RunEndsWhen
<1>3. UNCHANGED <<mode, aim, astray>>
  <2>1. "fault" \notin ops
    BY <1>1, <1>2 DEF LetsThrough
  <2> QED BY <2>1 DEF RestartBody
<1>4. /\ rs \in Seq(Entries) /\ runs \in Seq(Loops) /\ runs # <<>> /\ runs[1] = Outermost /\ RunsInv /\ OpsInv
      /\ Len(rs) \in Nat /\ l \in Nat /\ l > 0
  BY Facts
<1>5. r \in Loops /\ Same(runs[l], r)
  <2>1. runs[l] \in Loops
    BY <1>4
  <2>2. runs[l].left - 1 \in Nat
    <3>1. runs[l].left > 1 /\ runs[l].left \in Nat
      BY <1>1, <2>1 DEF Top, Loops
    <3> QED BY <3>1
  <2> HIDE DEF l
  <2> QED BY <2>1, <2>2 DEF Loops, Same
<1> HIDE DEF r
<1>6. /\ runs' \in Seq(Loops) /\ Len(runs') = l /\ runs'[1] = Outermost
      /\ \A k \in 1 .. l : Same(runs[k], runs'[k])
  <2>1. /\ runs' \in Seq(Loops) /\ Len(runs') = l /\ 1 # l /\ 1 \in 1 .. l
        /\ \A k \in 1 .. l : runs'[k] = IF k = l THEN r ELSE runs[k]
    BY <1>1, <1>2, <1>4, <1>5
  <2>2. \A k \in 1 .. l : Same(runs[k], runs[k])
    BY SameSelf
  <2> QED BY <1>4, <1>5, <2>1, <2>2
<1>7. RunsInv' /\ OpsInv'
  BY <1>1, <1>3, <1>6, CountsApart DEF RunEnds
<1>8. ControlInv'
  <2>1. /\ rs # <<>> /\ rs[Len(rs)].k = "mark" /\ rs[Len(rs)].id = target /\ rs[Len(rs)].uid = aim.uid
        /\ \A k \in 2 .. l : LetsThrough(runs[k])
    BY <1>1 DEF ProgramInv, ControlInv
  <2>2. \A k \in 2 .. l : LetsThrough(runs[k])'
    <3> SUFFICES ASSUME NEW k \in 2 .. l PROVE LetsThrough(runs[k])'
      OBVIOUS
    <3>1. k \in 1 .. l
      BY <1>4
    <3> QED BY <1>1, <1>6, <2>1, <3>1 DEF Same, LetsThrough
  <2> HIDE DEF l
  <2>3. /\ mode' = "unwinding" /\ rs' = rs /\ target' = target /\ aim' = aim /\ astray' = "no" /\ ~lost'
        /\ Len(runs') = l
    BY <1>1, <1>2, <1>3, <1>6
  <2> QED BY <2>1, <2>2, <2>3 DEF ControlInv
<1>9. SideInv'
  <2>1. {rs'[i].to.act : i \in EnsureReturns(rs')} = {rs[i].to.act : i \in EnsureReturns(rs)}
    BY <1>1 DEF EnsureReturns
  <2>2. /\ side \in Seq(Nat) /\ Increasing(side)
        /\ {side[i] : i \in 1 .. Len(side)} = {rs[i].to.act : i \in EnsureReturns(rs)}
    BY <1>1, SideUnlessEnsure
  <2>3. (IF mode' = "running" /\ pc'.code = "ensure" THEN {pc'.act} ELSE {}) = {}
    BY <1>1, <1>3
  <2> QED BY <1>1, <2>1, <2>2, <2>3, SideKept
<1>10. /\ pc' \in Places /\ fresh' \in Nat \ {0} /\ nOps' \in 0 .. MaxOps /\ WellFormed(rs', fresh')
       /\ Innermost(rs', base', Len(rs')) /\ mode' \in {"running", "stopped", "unwinding", "failed", "over"}
  BY <1>1, <1>3 DEF ProgramInv
<1> QED BY <1>7, <1>8, <1>9, <1>10 DEF ProgramInv

\* amb: a fail has taken the first branch back to the choice, and the second starts there.
LEMMA SecondBranchKeeps ==
  ASSUME ProgramInv, Orderly(ops), SecondBranch
  PROVE  ProgramInv'
<1> DEFINE c == Bottom(Top)
           d == Len(runs) - 1
           r == [Top EXCEPT !.op = "amb2", !.floor = Top.at, !.looped = FALSE, !.body = fresh]
           ret == Ret(Stop, fresh)
           pre == Prefix(rs, c)
<1>1. /\ RunEnds /\ mode = "unwinding" /\ Top.op = "amb1" /\ target = Top.id /\ Delivered(Top.id)
      /\ rs' = Append(Prefix(rs, Top.at), ret)
      /\ runs' = [runs EXCEPT ![Len(runs)] = r] /\ pc' = At("plain", fresh, Top.pc.env) /\ mode' = "running"
      /\ fresh' = fresh + 1 /\ UNCHANGED <<ops, nOps, base, side, lost>>
  BY DEF SecondBranch, Numbering, Top
<1>2. /\ Len(runs) > 1 /\ Len(rs) <= Floor /\ ~lost /\ astray = "no" /\ Len(rs) > 0
      /\ rs[Len(rs)].k = "mark" /\ rs[Len(rs)].id = Top.id /\ rs[Len(rs)].uid = aim.uid
  BY <1>1, RunEndsWhen
<1>3. /\ c \in Nat /\ c > 0 /\ Floor = c + 1 /\ c = Top.at /\ Floor = Top.floor
      /\ Top.pc \in Places /\ Top.pc.code \in {"plain", "locals"} /\ Floor \in Nat
      /\ (Floor <= Len(rs) => IsChoice(rs, Floor)) /\ (c <= Len(rs) => RunsIn(rs, runs[d], Top.pc, c))
  BY <1>1, <1>2, Landing
<1>4. /\ rs \in Seq(Entries) /\ Len(rs) \in Nat /\ WellFormed(rs, fresh) /\ Innermost(rs, base, Len(rs))
      /\ fresh \in Nat /\ fresh > 0 /\ nOps \in 0 .. MaxOps /\ OpsInv /\ Len(runs) \in Nat
  BY Facts
<1>5. Top \in Loops /\ runs[d] \in Loops /\ Nests(rs, runs[d], Top)
  BY <1>2, Nested
<1>16. c = Bottom(Top) /\ d = Len(runs) - 1
  OBVIOUS
<1>6. /\ r \in Loops /\ r.op = "amb2" /\ r.floor = c /\ r.body = fresh /\ r.pc = Top.pc /\ r.id = Top.id
      /\ r.at = c
  BY <1>3, <1>4, <1>5 DEF Loops, Bodies
<1>17. runs' = [runs EXCEPT ![Len(runs)] = r] /\ r.op \notin Bodies /\ Bottom(r) = c
  BY <1>1, <1>6 DEF Bodies, Bottom
<1> HIDE DEF c, d, r
<1>7. Len(rs) = c + 1 /\ IsChoice(rs, c + 1) /\ c < Len(rs) /\ c + 1 \in 1 .. Len(rs)
  <2>1. Len(rs) \in 1 .. Len(rs)
    BY <1>2, <1>4
  <2>2. ~(Len(rs) < Top.floor)
    BY <1>1, <1>2, <1>5, <2>1 DEF Nests
  <2>3. Len(rs) = c + 1
    BY <1>2, <1>3, <1>4, <2>2
  <2> QED BY <1>2, <1>3, <2>1, <2>3
<1>8. astray' = "no"
  <2>1. rs[Len(rs)].uid = rs[Len(rs)].id
    BY <1>2, <1>4, <1>7 DEF WellFormed, Numbered
  <2>2. Top.id = aim.uid
    BY <1>2, <2>1
  <2> QED BY <1>1, <1>2, <2>2 DEF Delivered
<1>9. /\ WellFormed(pre, fresh) /\ pre \in Seq(Entries) /\ Len(pre) = c /\ \A i \in 1 .. c : pre[i] = rs[i]
  BY <1>3, <1>4, <1>7, CutAtChoice
<1>10. ret \in Entries /\ ret.k = "ret" /\ ret.of = fresh /\ ret.to = Stop /\ Stop.code = "stop"
  <2>1. Stop \in Places /\ Stop.code = "stop"
    BY DEF Stop, At, Places, Codes
  <2> QED BY <1>4, <2>1 DEF Ret, Entries
<1>11. /\ rs' \in Seq(Entries) /\ Len(rs') = c + 1 /\ rs'[c + 1] = ret
       /\ \A i \in 1 .. c : rs'[i] = pre[i] /\ rs'[i] = rs[i]
  <2>1. rs' = Append(pre, ret)
    BY <1>1, <1>3
  <2> HIDE DEF pre, ret
  <2> QED BY <1>9, <1>10, <2>1
<1>12. RunsIn(rs, runs[d], Top.pc, c)
  BY <1>3, <1>4, <1>7
<1>13. Nests(rs', runs[d], r)
  <2>1. RunsIn(rs', runs[d], Top.pc, c)
    <3>1. c \in 1 .. c /\ \A i \in 1 .. c : rs[i] = rs'[i]
      BY <1>3, <1>11
    <3> QED BY <1>3, <1>12, <3>1, SameSelf, AgreeRunsIn
  <2>2. IF runs[d].op \in Bodies THEN runs[d].floor <= c ELSE runs[d].floor < c
    BY <1>5, <1>16 DEF Nests
  <2>3. rs'[c + 1].k = "ret"
    BY <1>10, <1>11
  <2>4. r.op # "top" /\ r.op # "amb1"
    BY <1>6
  <2> QED BY <1>3, <1>6, <1>17, <2>1, <2>2, <2>3, <2>4 DEF Nests
<1>14. (IF r.op \in Bodies THEN r.op ELSE "amb") \in ops
  <2>1. Len(runs) \in 2 .. Len(runs)
    BY <1>2, <1>4, TopIsNested
  <2>2. (IF Top.op \in Bodies THEN Top.op ELSE "amb") \in ops
    BY <1>4, <2>1 DEF OpsInv, Top
  <2>3. "amb1" \notin Bodies
    BY DEF Bodies
  <2> QED BY <1>1, <1>17, <2>2, <2>3
<1>15. RunsInv' /\ OpsInv' /\ Top' = r
  <2>1. c <= Len(rs) /\ c <= Len(rs') /\ (\A i \in 1 .. c : rs[i] = rs'[i])
    BY <1>3, <1>4, <1>7, <1>11
  <2>2. Len(rs') = c + 1 /\ rs'[c + 1] = Ret(Stop, r.body) /\ r.op \notin Bodies
    BY <1>6, <1>11, <1>17
  <2>3. mode \in {"stopped", "unwinding"} /\ mode' = "running" /\ ops' = ops /\ side' = side
    BY <1>1
  <2> QED BY <1>2, <1>6, <1>11, <1>13, <1>14, <1>16, <1>17, <2>1, <2>2, <2>3, LoopGoesOn
<1> HIDE DEF ret
<1>18. WellFormed(rs', fresh')
  <2> DEFINE p == pre
  <2>1. /\ fresh' \in Nat /\ fresh <= fresh' /\ fresh < fresh' /\ Len(p) <= Len(rs') /\ c = Len(p)
        /\ \A i \in 1 .. c : rs'[i] = p[i]
    BY <1>1, <1>3, <1>4, <1>9, <1>11
  <2>2. ASSUME NEW i \in c + 1 .. Len(rs')
        PROVE  /\ Supported(rs', i) /\ Followed(rs', i)
               /\ rs'[i].k = "ret" =>
                    /\ fresh <= rs'[i].of /\ rs'[i].of < fresh'
                    /\ \A j \in i + 1 .. Len(rs') : rs'[j].k = "ret" => rs'[i].of < rs'[j].of
               /\ rs'[i].k = "mark" => rs'[i].id < fresh' /\ rs'[i].uid = rs'[i].id
    <3>1. i = c + 1
      BY <1>3, <1>11
    <3>2. rs'[i].k = "ret" /\ rs'[i].of = fresh /\ rs'[i].to.code = "stop"
      BY <1>10, <1>11, <3>1
    <3>3. Supported(rs', i) /\ Followed(rs', i)
      BY <3>2 DEF Supported, Followed, EnsureReturns
    <3>4. i + 1 .. Len(rs') = {}
      BY <1>3, <1>11, <3>1
    <3>5. fresh <= rs'[i].of /\ rs'[i].of < fresh'
      BY <1>4, <2>1, <3>2
    <3> QED BY <3>2, <3>3, <3>4, <3>5
  <2>3. WellFormed(p, fresh)
    BY <1>9
  <2> HIDE DEF p
  <2>4. Grown(rs', c, fresh, fresh')
    BY <2>2 DEF Grown
  <2> QED BY <1>3, <1>4, <1>11, <2>1, <2>3, <2>4, GrowsWell
<1>19. Innermost(rs', base', c + 1)
  <2>1. rs[c + 1].k # "header" /\ rs'[c + 1].k # "header" /\ base' = base
    BY <1>1, <1>7, <1>10, <1>11 DEF IsChoice
  <2>2. Innermost(rs, base, c + 1)
    BY <1>4, <1>7
  <2>3. c \in Nat /\ \A i \in 1 .. c : rs'[i] = rs[i]
    BY <1>3, <1>11
  <2> QED BY <2>1, <2>2, <2>3 DEF Innermost
<1>20. pc' \in Places /\ pc'.env = Top.pc.env /\ pc'.code = "plain" /\ pc'.act = fresh
  BY <1>1, <1>3, <1>4 DEF Places, At, Codes
<1>21. ControlInv'
  <2> DEFINE m == c + 1
  <2>1. m \in Nat /\ m > c /\ c \in 1 .. c /\ m - 1 = c
    BY <1>3
  <2>2. rs'[m].k = "ret" /\ rs'[m].of = fresh /\ rs' # <<>> /\ m = Len(rs')
    BY <1>3, <1>10, <1>11
  <2>3. m > r.floor
    BY <1>6, <2>1
  <2>4. Top.pc.env # 0 => \E b \in 1 .. m - 1 : Innermost(rs', b, m) /\ rs'[b + 1] = Local(Top.pc.env)
    <3> SUFFICES ASSUME Top.pc.env # 0
                 PROVE  \E b \in 1 .. m - 1 : Innermost(rs', b, m) /\ rs'[b + 1] = Local(Top.pc.env)
      OBVIOUS
    <3>1. RunsOn(rs, Top.pc, c)
      BY <1>12 DEF RunsIn, At
    <3>2. PICK b \in 1 .. c - 1 : Innermost(rs, b, c) /\ rs[b + 1] = Local(Top.pc.env)
      BY <3>1 DEF RunsOn
    <3>3. b \in 1 .. m - 1 /\ b + 1 \in 1 .. c
      BY <1>3, <2>1
    <3>4. rs'[b + 1] = Local(Top.pc.env)
      BY <1>11, <3>2, <3>3
    <3>5. Innermost(rs', b, m)
      <4>1. Innermost(rs', b, c)
        <5>1. c \in Nat /\ \A i \in 1 .. c : rs'[i] = rs[i]
          BY <1>3, <1>11
        <5> QED BY <3>2, <5>1 DEF Innermost
      <4>2. rs'[m].k # "header"
        BY <2>2
      <4> QED BY <2>1, <4>1, <4>2, InnermostUnder
    <3> QED BY <3>3, <3>4, <3>5
  <2> HIDE DEF m
  <2>5. RunsOn(rs', pc', m)
    BY <1>20, <2>2, <2>4 DEF RunsOn
  <2>6. RunsIn(rs', Top', pc', m)
    BY <1>15, <1>17, <2>3, <2>5 DEF RunsIn
  <2>7. mode' = "running" /\ ~lost'
    BY <1>1, <1>2
  <2> QED BY <1>8, <2>2, <2>6, <2>7 DEF ControlInv
<1>22. SideInv'
  <2>1. /\ side \in Seq(Nat) /\ Increasing(side)
        /\ {side[i] : i \in 1 .. Len(side)} = {rs[i].to.act : i \in EnsureReturns(rs)}
    BY <1>1, SideUnlessEnsure
  <2>2. {rs'[i].to.act : i \in EnsureReturns(rs')} = {rs[i].to.act : i \in EnsureReturns(rs)}
    <3>1. c + 1 \notin EnsureReturns(rs) /\ c + 1 \notin EnsureReturns(rs')
      BY <1>7, <1>10, <1>11 DEF EnsureReturns, IsChoice
    <3>2. \A i \in 1 .. c + 1 : i = c + 1 \/ i \in 1 .. c
      BY <1>3
    <3>3. EnsureReturns(rs') = EnsureReturns(rs)
      BY <1>7, <1>11, <3>1, <3>2 DEF EnsureReturns
    <3>4. \A i \in EnsureReturns(rs) : i \in 1 .. c
      BY <1>7, <3>1, <3>2 DEF EnsureReturns
    <3> QED BY <1>11, <3>3, <3>4
  <2>3. (IF mode' = "running" /\ pc'.code = "ensure" THEN {pc'.act} ELSE {}) = {}
    BY <1>20
  <2>4. side' = side
    BY <1>1
  <2> QED BY <2>1, <2>2, <2>3, <2>4, SideKept
<1>23. fresh' \in Nat \ {0} /\ nOps' \in 0 .. MaxOps
       /\ mode' \in {"running", "stopped", "unwinding", "failed", "over"}
  BY <1>1, <1>4
<1> QED BY <1>11, <1>15, <1>18, <1>19, <1>20, <1>21, <1>22, <1>23 DEF ProgramInv

----------------------------------------------------------------------------
(* The whole program.                                                       *)

LEMMA InitKeeps ==
  ASSUME Init
  PROVE  ops \in Fragments /\ ProgramInv
<1> DEFINE r == Ret(Stop, 1)
<1>1. Stop \in Places /\ Stop.code = "stop"
  BY DEF Stop, At, Places, Codes
<1>2. r \in Entries /\ r.k = "ret" /\ r.of = 1 /\ r.to = Stop
  BY <1>1 DEF Ret, Entries
<1>3. rs = <<r>> /\ rs \in Seq(Entries) /\ Len(rs) = 1 /\ rs[1] = r /\ rs # <<>>
  BY <1>2 DEF Init
<1>4. pc \in Places /\ pc.code = "plain" /\ pc.act = 1 /\ pc.env = 0
  BY DEF Init, At, Places, Codes
<1>5. EnsureReturns(rs) = {}
  BY <1>1, <1>2, <1>3 DEF EnsureReturns
<1>6. Supported(rs, 1) /\ Followed(rs, 1)
  BY <1>2, <1>3, <1>5 DEF Supported, Followed
<1>7. WellFormed(rs, fresh)
  <2>1. fresh = 2
    BY DEF Init
  <2>2. Numbered(rs, fresh)
    BY <1>2, <1>3, <2>1 DEF Numbered
  <2> QED BY <1>3, <1>6, <2>2 DEF WellFormed
<1>8. Innermost(rs, base, Len(rs))
  BY <1>2, <1>3 DEF Init, Innermost
<1>9. RunsOn(rs, pc, Len(rs))
  BY <1>2, <1>3, <1>4 DEF RunsOn
<1>10. /\ runs = <<Outermost>> /\ Outermost \in Loops /\ Outermost.floor = 0 /\ Outermost.op \notin Bodies
  <2>1. runs = <<Outermost>>
    BY DEF Init, Outermost
  <2> QED BY <1>1, <2>1 DEF Outermost, Loops, Bodies
<1>11. /\ runs \in Seq(Loops) /\ runs # <<>> /\ Len(runs) = 1 /\ runs[1] = Outermost /\ Top = Outermost
       /\ 2 .. Len(runs) = {}
  <2> HIDE DEF r
  <2>1. runs \in Seq(Loops) /\ runs # <<>> /\ Len(runs) = 1 /\ runs[1] = Outermost
    BY <1>10
  <2> QED BY <2>1 DEF Top
<1>12. RunsInv
  <2>1. Leads(rs, runs, 1)
    BY <1>2, <1>3, <1>11 DEF Leads
  <2> QED BY <1>3, <1>11, <2>1 DEF RunsInv
<1>13. side = <<>> /\ mode = "running"
  BY DEF Init
<1>14. OpsInv
  BY <1>2, <1>3, <1>11, <1>13 DEF OpsInv
<1>15. ControlInv
  <2>1. RunsIn(rs, Top, pc, Len(rs))
    BY <1>3, <1>9, <1>10, <1>11 DEF RunsIn
  <2>2. astray = "no" /\ ~lost
    BY DEF Init
  <2> QED BY <1>3, <1>13, <2>1, <2>2 DEF ControlInv
<1>16. SideInv
  BY <1>4, <1>5, <1>13 DEF SideInv, Increasing
<1>17. nOps \in 0 .. MaxOps /\ fresh \in Nat \ {0} /\ ops \in Fragments
  BY PromptsAssumption DEF Init
<1> QED BY <1>4, <1>7, <1>8, <1>12, <1>13, <1>14, <1>15, <1>16, <1>17 DEF ProgramInv

\* A behaviour keeps to one fragment.
LEMMA SameFragment ==
  ASSUME [Next]_vars
  PROVE  ops' = ops
<1>1. CASE Call \/ CallWithLocals \/ EndBody \/ EarlyExit
  BY <1>1 DEF Call, CallWithLocals, EndBody, EarlyExit
<1>2. CASE Reset \/ Throw \/ Shift \/ Resume \/ Fault
  BY <1>2 DEF Reset, Throw, Shift, Resume, Fault
<1>3. CASE Catch \/ CatchEnd \/ Ensure \/ EnsureEnd
  BY <1>3 DEF Catch, CatchEnd, Ensure, EnsureEnd
<1>4. CASE Amb \/ Backtrack \/ Combinator \/ ReturnToLoop
  BY <1>4 DEF Amb, Backtrack, Combinator, ReturnToLoop
<1>5. CASE Unwind \/ CatchInterpreterError \/ AmbReturns \/ SecondBranch
  BY <1>5 DEF Unwind, CatchInterpreterError, AmbReturns, SecondBranch
<1>6. CASE ResumeReturns \/ NextElement \/ RestartBody \/ CombinatorReturns \/ Finish
  BY <1>6 DEF ResumeReturns, NextElement, RestartBody, CombinatorReturns, Finish
<1>7. CASE UNCHANGED vars
  BY <1>7 DEF vars
<1> QED BY <1>1, <1>2, <1>3, <1>4, <1>5, <1>6, <1>7 DEF Next, Execute, LoopEnds

\* Nothing that stays as it is was missed.
LEMMA StutterKeeps ==
  ASSUME ProgramInv, UNCHANGED vars
  PROVE  ProgramInv'
<1>1. /\ UNCHANGED <<ops, nOps, rs, base, runs, pc, mode, target>>
      /\ UNCHANGED <<side, fresh, aim, astray, lost>>
  BY DEF vars
<1>2. CatchIndex' = CatchIndex /\ CatchUid' = CatchUid /\ Top' = Top /\ Floor' = Floor
  BY <1>1 DEF CatchIndex, CatchUid, PromptIndex, Top, Floor
<1>3. RunsInv'
  BY <1>1, <1>2 DEF ProgramInv, RunsInv
<1>4. OpsInv'
  BY <1>1 DEF ProgramInv, OpsInv
<1>5. ControlInv'
  BY <1>1, <1>2 DEF ProgramInv, ControlInv, LetsThrough
<1>6. SideInv'
  <2>1. /\ side' \in Seq(Nat) /\ Increasing(side')
        /\ {side'[i] : i \in 1 .. Len(side')} = {side[i] : i \in 1 .. Len(side)}
    BY <1>1 DEF ProgramInv, SideInv, Increasing
  <2>2. {rs'[i].to.act : i \in EnsureReturns(rs')} = {rs[i].to.act : i \in EnsureReturns(rs)}
    BY <1>1 DEF EnsureReturns
  <2> QED BY <1>1, <2>1, <2>2 DEF ProgramInv, SideInv, Increasing
<1> QED BY <1>1, <1>3, <1>4, <1>5, <1>6 DEF ProgramInv

LEMMA StepKeeps ==
  ASSUME ProgramInv, Orderly(ops), [Next]_vars
  PROVE  ProgramInv'
<1>1. CASE Call BY <1>1, CallKeeps
<1>2. CASE CallWithLocals BY <1>2, CallWithLocalsKeeps
<1>3. CASE EndBody BY <1>3, EndBodyKeeps
<1>4. CASE EarlyExit BY <1>4, EarlyExitKeeps
<1>5. CASE Reset BY <1>5, ResetKeeps
<1>6. CASE Throw BY <1>6, ThrowKeeps
<1>7. CASE Fault BY <1>7, FaultKeeps
<1>8. CASE Catch BY <1>8, CatchKeeps
<1>9. CASE CatchEnd BY <1>9, CatchEndKeeps
<1>10. CASE Ensure BY <1>10, EnsureKeeps
<1>11. CASE EnsureEnd BY <1>11, EnsureEndKeeps
<1>12. CASE Amb BY <1>12, AmbKeeps
<1>13. CASE Backtrack BY <1>13, BacktrackKeeps
<1>14. CASE Combinator BY <1>14, CombinatorKeeps
<1>15. CASE ReturnToLoop BY <1>15, ReturnToLoopKeeps
<1>16. CASE Unwind BY <1>16, UnwindKeeps
<1>17. CASE CatchInterpreterError BY <1>17, CatchInterpreterErrorKeeps
<1>18. CASE AmbReturns BY <1>18, AmbReturnsKeeps
<1>19. CASE SecondBranch BY <1>19, SecondBranchKeeps
<1>20. CASE NextElement BY <1>20, NextElementKeeps
<1>21. CASE CombinatorReturns BY <1>21, CombinatorReturnsKeeps
<1>22. CASE Finish BY <1>22, FinishKeeps
<1>23. ~Shift /\ ~Resume
  BY DEF Shift, Resume, Operation, Orderly
<1>24. ~ResumeReturns
  <2> SUFFICES ASSUME ResumeReturns PROVE FALSE
    OBVIOUS
  <2>1. Top \in Loops
    BY TopIs DEF ProgramInv
  <2> QED BY <2>1 DEF ResumeReturns, Loops, Bodies
<1>25. CASE UNCHANGED vars BY <1>25, StutterKeeps
<1>26. CASE RestartBody BY <1>26, RestartBodyKeeps
<1> QED BY <1>1, <1>2, <1>3, <1>4, <1>5, <1>6, <1>7, <1>8, <1>9, <1>10, <1>11, <1>12, <1>13, <1>14,
          <1>15, <1>16, <1>17, <1>18, <1>19, <1>20, <1>21, <1>22, <1>23, <1>24, <1>25,
          <1>26
       DEF Next, Execute, LoopEnds

LEMMA TypeFollows ==
  ASSUME ProgramInv, ops \in Fragments
  PROVE  TypeOK
<1>1. /\ rs \in Seq(Entries) /\ Len(rs) \in Nat /\ base \in 0 .. Len(rs) /\ pc \in Places
      /\ nOps \in 0 .. MaxOps /\ side \in Seq(Nat) /\ astray = "no"
  BY Facts
<1>2. \A i \in DOMAIN rs : rs[i].k \in {"ret", "mark", "depth", "header", "local"}
  <2> SUFFICES ASSUME NEW i \in DOMAIN rs PROVE rs[i].k \in {"ret", "mark", "depth", "header", "local"}
    OBVIOUS
  <2>1. rs[i] \in Entries
    BY <1>1
  <2> QED BY <2>1 DEF Entries, Depth
<1>3. \A i \in DOMAIN runs : runs[i].floor \in Nat
  <2>1. DOMAIN runs = 1 .. Len(runs)
    BY Facts
  <2> QED BY <2>1, FloorsBelow
<1>4. mode = "running" => Floor <= Len(rs)
  BY Running
<1>5. mode \in {"running", "stopped", "unwinding", "failed", "over"}
  BY DEF ProgramInv
<1> QED BY <1>1, <1>2, <1>3, <1>4, <1>5 DEF TypeOK, Places

\* Whatever an orderly program has done, entry by entry the stack is what its
\* activations, frames and prompts left there, every run loop has a way back to
\* the code that called it, and the side stack holds the cleanups of the
\* ensures on the stack (core.c, words.c, logic.c, exceptions.telic).
THEOREM ProgramInvariance == Spec => [](Orderly(ops) => IInv)
<1> DEFINE J == ops \in Fragments /\ (Orderly(ops) => ProgramInv)
<1>1. Init => J
  BY InitKeeps
<1>2. J /\ [Next]_vars => J'
  <2> SUFFICES ASSUME J, [Next]_vars PROVE J'
    OBVIOUS
  <2>1. ops' = ops
    BY SameFragment
  <2>2. Orderly(ops) => ProgramInv'
    BY StepKeeps
  <2> QED BY <2>1, <2>2
<1>3. J => (Orderly(ops) => IInv)
  BY TypeFollows DEF IInv
<1> QED BY <1>1, <1>2, <1>3, PTL DEF Spec

LEMMA ProgramsKeep == Spec => [](Orderly(ops) => ProgramInv)
<1>1. (Orderly(ops) => IInv) => (Orderly(ops) => ProgramInv)
  BY DEF IInv
<1> QED BY <1>1, ProgramInvariance, PTL

\* The state keeps to its types.
THEOREM TypeCorrect == Spec => [](Orderly(ops) => TypeOK)
<1>1. (Orderly(ops) => IInv) => (Orderly(ops) => TypeOK)
  BY DEF IInv
<1> QED BY <1>1, ProgramInvariance, PTL

\* p_exit, p_leave_locals, the unwinding of the run loop, and the returns of
\* amb and the combinators always go back to the caller of the activation that
\* ends: control never goes astray.
THEOREM ControlReturns == Spec => [](Orderly(ops) => NeverLost)
<1>1. ProgramInv => NeverLost
  BY DEF ProgramInv, ControlInv, NeverLost
<1> QED BY <1>1, ProgramsKeep, PTL

\* local_base names the frame of the code that runs, through calls, early
\* exits, quotations that read the locals around them, backtracking into an
\* amb, bodies of combinators, and unwinding.
THEOREM LocalsReadRight == Spec => [](Orderly(ops) => LocalsRight)
<1>1. ProgramInv => LocalsRight
  <2> SUFFICES ASSUME ProgramInv, mode = "running", pc.env # 0
               PROVE  base \in 1 .. Len(rs) - 1 /\ rs[base + 1] = Local(pc.env)
    BY DEF LocalsRight
  <2>1. Innermost(rs, base, Len(rs)) /\ Len(rs) \in Nat
    BY Facts
  <2>2. RunsOn(rs, pc, Len(rs))
    <3>1. RunsIn(rs, Top, pc, Len(rs))
      BY Running
    <3> QED BY <3>1 DEF RunsIn, At
  <2>3. PICK b \in 1 .. Len(rs) - 1 : Innermost(rs, b, Len(rs)) /\ rs[b + 1] = Local(pc.env)
    BY <2>2 DEF RunsOn
  <2>4. b = base
    BY <2>1, <2>3, InnermostIsOne
  <2> QED BY <2>3, <2>4
<1> QED BY <1>1, ProgramsKeep, PTL

\* A throw, the second throw of an ensure, and a fail stop at the prompt that
\* was innermost when they were raised: through the run loops of amb, and
\* through those of times with the bodies it begins again while the stack
\* unwinds, in programs whose operations do not fault (with faults the raise can
\* be lost there, as run prompts_promises shows).
THEOREM RaisesArrive == Spec => [](Orderly(ops) => RaiseReachesPrompt)
<1>1. ProgramInv => RaiseReachesPrompt
  BY DEF ProgramInv, ControlInv, RaiseReachesPrompt
<1> QED BY <1>1, ProgramsKeep, PTL

\* An interpreter error stops at the innermost catch, through any resets in
\* between, and ends the program only where there is no catch.
THEOREM ErrorsArrive == Spec => [](Orderly(ops) => ErrorReachesCatch)
<1>1. ProgramInv => ErrorReachesCatch
  BY DEF ProgramInv, ControlInv, ErrorReachesCatch
<1> QED BY <1>1, ProgramsKeep, PTL

\* Each ensure finds its own cleanup last on the side stack, and none is left
\* there by a throw or an error that passed it.
THEOREM CleanupsMatch == Spec => [](Orderly(ops) => CleanupsPaired)
<1>1. ProgramInv => CleanupsPaired
  <2> SUFFICES ASSUME ProgramInv, mode = "running"
               PROVE  {side[i] : i \in 1 .. Len(side)} = PendingEnsures /\ Increasing(side)
    BY DEF CleanupsPaired
  <2> QED BY DEF ProgramInv, SideInv, PendingEnsures
<1> QED BY <1>1, ProgramsKeep, PTL


=============================================================================
