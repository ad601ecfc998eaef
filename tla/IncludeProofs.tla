---------------------------- MODULE IncludeProofs ---------------------------
(***************************************************************************)
(* CondStack, for every capacity, every number of arms and every set of    *)
(* macro names: type correctness, the emitting flag, and the refinement of *)
(* CondSpec.                                                               *)
(*                                                                         *)
(* Include, for every set of headers and directories, every depth limit    *)
(* and every sequence of lines: the conditionals of all files together,    *)
(* the positions the lexer arrives at, and the bound on inclusion.         *)
(***************************************************************************)
EXTENDS Include, SequenceTheorems, TLAPS


\* The current arm of the conditionals 1 to i of gs is their first true one.
SelectedTo(gs, i) == \A j \in 1..i : Spec0!Selected(gs[j])

\* What the i-th frame of fs knows about the source.  The first two conjuncts
\* speak of all the enclosing conditionals, not of the frame below: that makes
\* the invariant inductive without an induction over the stack.
FrameOK(fs, gs, i) ==
    /\ fs[i].parent_emitting <=> SelectedTo(gs, i - 1)
    /\ fs[i].emitting <=> SelectedTo(gs, i)
    /\ fs[i].seen_else <=> gs[i].hasElse
    /\ fs[i].branch_taken <=>
          /\ SelectedTo(gs, i - 1)
          /\ gs[i].first # 0
          /\ ~(gs[i].hasElse /\ gs[i].first = gs[i].n)
    /\ gs[i].first <= gs[i].n

StackInv ==
    /\ Len(groups) = Len(cond_stack)
    /\ \A i \in 1..Len(cond_stack) : FrameOK(cond_stack, groups, i)
    /\ emitting <=> SelectedTo(groups, Len(groups))

IInv == TypeOK /\ StackInv

(***************************************************************************)
(* Facts about the definitions.                                            *)
(***************************************************************************)

\* The condition of a controlling line is a truth value.
LEMMA HoldsBoolean == ASSUME NEW c \in Controls PROVE Holds(c) \in BOOLEAN
  BY Zenon DEF Holds

\* A frame pushed by #if and its relatives is a CondFrame.
LEMMA NewFrameType ==
  ASSUME TypeOK, NEW v \in BOOLEAN
  PROVE  NewFrame(v) \in CondFrame
  BY DEF NewFrame, CondFrame, TypeOK

\* #elif and #else turn a CondFrame into a CondFrame.
LEMMA ArmFrameType ==
  ASSUME NEW f \in CondFrame, NEW v \in BOOLEAN
  PROVE  ElifFrame(f, v) \in CondFrame /\ ElseFrame(f) \in CondFrame
  BY DEF ElifFrame, ElseFrame, CondFrame

\* Another arm turns a conditional into a conditional.
LEMMA WithArmType ==
  ASSUME NEW g \in Spec0!Group, NEW t \in BOOLEAN, NEW e \in BOOLEAN
  PROVE  Spec0!WithArm(g, t, e) \in Spec0!Group
  BY DEF Spec0!WithArm, Spec0!Group

(***************************************************************************)
(* One lemma for each kind of step.                                        *)
(***************************************************************************)

\* The initial state satisfies the invariant.
LEMMA InitIInv == Init => IInv
  BY CondAssumption
  DEF Init, IInv, TypeOK, StackInv, cond_depth, SelectedTo

\* A step that leaves the stack and its history alone keeps the invariant.
LEMMA QuietStep ==
  ASSUME IInv, UNCHANGED <<cond_stack, emitting, groups>>,
         defined' \in SUBSET Names, status' \in {"scan", "done"} \cup Errors
  PROVE  IInv'
  BY DEF IInv, TypeOK, StackInv, cond_depth

\* Pushing a frame keeps the invariant while the array has room.
LEMMA PushStep ==
  ASSUME IInv, NEW c \in Controls, ~Full, Push(c)
  PROVE  IInv'
<1> DEFINE n == Len(cond_stack)
           v == Holds(c)
           g == [n |-> 1, first |-> IF v THEN 1 ELSE 0, hasElse |-> FALSE]
<1>1. v \in BOOLEAN
  BY HoldsBoolean
<1>2. NewFrame(v) \in CondFrame
  BY <1>1, NewFrameType DEF IInv
<1>3. /\ g \in Spec0!Group /\ g.first <= g.n /\ ~g.hasElse
      /\ Spec0!Selected(g) <=> v
      /\ g.first # 0 <=> v
  BY <1>1 DEF Spec0!Group, Spec0!Selected
<1>4. /\ cond_stack' = Append(cond_stack, NewFrame(v))
      /\ groups' = Append(groups, g)
      /\ emitting' = NewFrame(v).emitting
      /\ n \in Nat /\ Len(groups) = n
      /\ Len(cond_stack') = n + 1 /\ Len(groups') = n + 1
      /\ cond_stack'[n + 1] = NewFrame(v) /\ groups'[n + 1] = g
      /\ \A i \in 1..n : cond_stack'[i] = cond_stack[i] /\ groups'[i] = groups[i]
  BY <1>2, <1>3 DEF Push, IInv, TypeOK, StackInv
<1>5. /\ NewFrame(v).parent_emitting <=> emitting
      /\ NewFrame(v).emitting <=> emitting /\ v
      /\ ~NewFrame(v).seen_else
      /\ NewFrame(v).branch_taken <=> emitting /\ v
      /\ NewFrame(v).emitting \in BOOLEAN
  BY <1>1 DEF NewFrame, IInv, TypeOK
<1>6. TypeOK'
  <2>1. n + 1 <= MAX_COND_DEPTH
    BY <1>4, CondAssumption DEF Full, cond_depth
  <2> QED
    BY <1>2, <1>3, <1>4, <1>5, <2>1 DEF Push, IInv, TypeOK, cond_depth
<1>7. SelectedTo(groups', n) <=> SelectedTo(groups, n)
  BY <1>4 DEF SelectedTo
<1>8. SelectedTo(groups', n + 1) <=> SelectedTo(groups, n) /\ v
  <2>1. 1..(n + 1) = 1..n \cup {n + 1}
    BY <1>4
  <2> QED
    BY <1>3, <1>4, <2>1 DEF SelectedTo
<1>9. \A i \in 1..n : FrameOK(cond_stack', groups', i)
  <2> SUFFICES ASSUME NEW i \in 1..n PROVE FrameOK(cond_stack', groups', i)
    OBVIOUS
  <2>1. FrameOK(cond_stack, groups, i)
    BY DEF IInv, StackInv
  <2>2. /\ SelectedTo(groups', i) <=> SelectedTo(groups, i)
        /\ SelectedTo(groups', i - 1) <=> SelectedTo(groups, i - 1)
    BY <1>4 DEF SelectedTo
  <2> QED
    BY <1>4, <2>1, <2>2 DEF FrameOK
<1>10. emitting <=> SelectedTo(groups, n)
  BY <1>4 DEF IInv, StackInv
<1>11. FrameOK(cond_stack', groups', n + 1)
  <2>1. (n + 1) - 1 = n
    BY <1>4
  <2> QED
    BY <1>3, <1>4, <1>5, <1>7, <1>8, <1>10, <2>1 DEF FrameOK
<1>12. emitting' <=> SelectedTo(groups', n + 1)
  BY <1>4, <1>5, <1>8, <1>10
<1>13. \A i \in 1..(n + 1) : FrameOK(cond_stack', groups', i)
  <2>1. 1..(n + 1) = 1..n \cup {n + 1}
    BY <1>4
  <2> QED
    BY <1>9, <1>11, <2>1
<1> QED
  BY <1>4, <1>6, <1>12, <1>13 DEF IInv, StackInv

\* Popping the top frame keeps the invariant: the frame below already knows
\* about everything that still encloses the text.
LEMMA PopStep ==
  ASSUME IInv, cond_depth > 0, Pop
  PROVE  IInv'
<1> DEFINE n == Len(cond_stack)
<1>1. /\ n \in Nat \ {0} /\ Len(groups) = n
      /\ cond_stack' = SubSeq(cond_stack, 1, n - 1)
      /\ groups' = SubSeq(groups, 1, n - 1)
      /\ cond_stack' \in Seq(CondFrame) /\ groups' \in Seq(Spec0!Group)
      /\ Len(cond_stack') = n - 1 /\ Len(groups') = n - 1
      /\ \A i \in 1..(n - 1) : cond_stack'[i] = cond_stack[i] /\ groups'[i] = groups[i]
  BY DEF Pop, IInv, TypeOK, StackInv, cond_depth
<1>2. emitting' = IF n > 1 THEN cond_stack[n - 1].emitting ELSE TRUE
  BY DEF Pop, cond_depth
<1>3. \A i \in 1..n : FrameOK(cond_stack, groups, i) /\ cond_stack[i] \in CondFrame
  BY <1>1 DEF IInv, TypeOK, StackInv
<1>4. \A i \in 0..(n - 1) : SelectedTo(groups', i) <=> SelectedTo(groups, i)
  BY <1>1 DEF SelectedTo
<1>5. emitting' \in BOOLEAN /\ (emitting' <=> SelectedTo(groups', n - 1))
  <2>1. CASE n > 1
    <3>1. n - 1 \in 1..n /\ n - 1 \in 0..(n - 1)
      BY <1>1, <2>1
    <3>2. cond_stack[n - 1].emitting \in BOOLEAN
      BY <1>3, <3>1 DEF CondFrame
    <3> QED
      BY <1>2, <1>3, <1>4, <2>1, <3>1, <3>2 DEF FrameOK
  <2>2. CASE ~(n > 1)
    <3>1. n - 1 = 0
      BY <1>1, <2>2
    <3> QED
      BY <1>2, <2>2, <3>1 DEF SelectedTo
  <2> QED
    BY <2>1, <2>2
<1>6. TypeOK'
  <2>1. n <= MAX_COND_DEPTH
    BY DEF IInv, TypeOK, cond_depth
  <2>2. n - 1 <= MAX_COND_DEPTH
    BY <1>1, <2>1, CondAssumption
  <2> QED
    BY <1>1, <1>5, <2>2 DEF Pop, IInv, TypeOK, cond_depth
<1>7. \A i \in 1..(n - 1) : FrameOK(cond_stack', groups', i)
  <2> SUFFICES ASSUME NEW i \in 1..(n - 1) PROVE FrameOK(cond_stack', groups', i)
    OBVIOUS
  <2>1. i \in 0..(n - 1) /\ i - 1 \in 0..(n - 1) /\ i \in 1..n
    BY <1>1
  <2> QED
    BY <1>1, <1>3, <1>4, <2>1 DEF FrameOK
<1> QED
  BY <1>1, <1>5, <1>6, <1>7 DEF IInv, StackInv

\* Replacing the top frame keeps the invariant when the new frame is right
\* about the new arm; the frames below do not notice.
LEMMA TopStep ==
  ASSUME IInv, cond_depth > 0,
         NEW f \in CondFrame, NEW t \in BOOLEAN, NEW e \in BOOLEAN,
         SetTop(f, t, e),
         NEW h \in Spec0!Group, h = Spec0!WithArm(groups[cond_depth], t, e),
         f.parent_emitting <=> top.parent_emitting,
         f.emitting <=> top.parent_emitting /\ Spec0!Selected(h),
         f.seen_else <=> h.hasElse,
         f.branch_taken <=> /\ top.parent_emitting
                            /\ h.first # 0
                            /\ ~(h.hasElse /\ h.first = h.n),
         h.first <= h.n
  PROVE  IInv'
<1> DEFINE n == Len(cond_stack)
<1>1. /\ n \in Nat \ {0} /\ Len(groups) = n
      /\ cond_stack' = [cond_stack EXCEPT ![n] = f]
      /\ groups' = [groups EXCEPT ![n] = h]
      /\ emitting' = f.emitting
      /\ cond_stack' \in Seq(CondFrame) /\ groups' \in Seq(Spec0!Group)
      /\ Len(cond_stack') = n /\ Len(groups') = n
      /\ cond_stack'[n] = f /\ groups'[n] = h
      /\ \A i \in 1..(n - 1) : cond_stack'[i] = cond_stack[i] /\ groups'[i] = groups[i]
  BY DEF SetTop, IInv, TypeOK, StackInv, cond_depth
<1>2. \A i \in 0..(n - 1) : SelectedTo(groups', i) <=> SelectedTo(groups, i)
  BY <1>1 DEF SelectedTo
<1>3. SelectedTo(groups', n) <=> SelectedTo(groups, n - 1) /\ Spec0!Selected(h)
  <2>1. 1..n = 1..(n - 1) \cup {n}
    BY <1>1
  <2> QED
    BY <1>1, <2>1 DEF SelectedTo
<1>4. top.parent_emitting <=> SelectedTo(groups, n - 1)
  BY <1>1 DEF IInv, StackInv, FrameOK, top, cond_depth
<1>5. FrameOK(cond_stack', groups', n)
  <2>1. n - 1 \in 0..(n - 1)
    BY <1>1
  <2>2. SelectedTo(groups', n - 1) <=> SelectedTo(groups, n - 1)
    BY <1>2, <2>1
  <2> HIDE DEF n
  <2> QED
    BY <1>1, <1>3, <1>4, <2>2 DEF FrameOK
<1>6. \A i \in 1..(n - 1) : FrameOK(cond_stack', groups', i)
  <2> SUFFICES ASSUME NEW i \in 1..(n - 1) PROVE FrameOK(cond_stack', groups', i)
    OBVIOUS
  <2>1. i \in 0..(n - 1) /\ i - 1 \in 0..(n - 1) /\ i \in 1..n
    BY <1>1
  <2>2. FrameOK(cond_stack, groups, i)
    BY <2>1 DEF IInv, StackInv
  <2> QED
    BY <1>1, <1>2, <2>1, <2>2 DEF FrameOK
<1>7. \A i \in 1..n : FrameOK(cond_stack', groups', i)
  <2>1. 1..n = 1..(n - 1) \cup {n}
    BY <1>1
  <2> QED
    BY <1>5, <1>6, <2>1
<1>8. emitting' \in BOOLEAN /\ (emitting' <=> SelectedTo(groups', n))
  BY <1>1, <1>3, <1>4 DEF CondFrame
<1>9. TypeOK'
  BY <1>1, <1>8 DEF SetTop, IInv, TypeOK, cond_depth
<1> QED
  BY <1>1, <1>7, <1>8, <1>9 DEF IInv, StackInv

\* What the invariant says about the top frame.
LEMMA TopFacts ==
  ASSUME IInv, cond_depth > 0
  PROVE  /\ top \in CondFrame
         /\ groups[cond_depth] \in Spec0!Group
         /\ top.seen_else <=> groups[cond_depth].hasElse
         /\ top.branch_taken <=>
               /\ top.parent_emitting
               /\ groups[cond_depth].first # 0
               /\ ~(/\ groups[cond_depth].hasElse
                    /\ groups[cond_depth].first = groups[cond_depth].n)
         /\ groups[cond_depth].first <= groups[cond_depth].n
  BY DEF IInv, TypeOK, StackInv, FrameOK, top, cond_depth

\* A frame of a skipped conditional emits nothing.
LEMMA FrameEmits ==
  ASSUME IInv, cond_depth > 0, ~top.parent_emitting
  PROVE  ~top.emitting
<1>1. cond_depth \in 1..Len(cond_stack)
  BY DEF IInv, TypeOK, cond_depth
<1>2. FrameOK(cond_stack, groups, cond_depth)
  BY <1>1 DEF IInv, StackInv
<1>3. SelectedTo(groups, cond_depth) => SelectedTo(groups, cond_depth - 1)
  BY <1>1 DEF SelectedTo
<1> QED
  BY <1>2, <1>3 DEF FrameOK, top

\* An #elif keeps the invariant.
LEMMA ElifStep ==
  ASSUME IInv, NEW c \in Controls, cond_depth > 0, ~top.seen_else,
         SetTop(ElifFrame(top, Needed(top) /\ Holds(c)), Holds(c), FALSE)
  PROVE  IInv'
<1> DEFINE g == groups[cond_depth]
           v == Holds(c)
           f == ElifFrame(top, Needed(top) /\ v)
           h == Spec0!WithArm(g, v, FALSE)
<1>1. v \in BOOLEAN /\ (Needed(top) /\ v) \in BOOLEAN
  BY HoldsBoolean
<1>2. f \in CondFrame /\ h \in Spec0!Group
  BY <1>1, TopFacts, ArmFrameType, WithArmType
<1>3. /\ h.n = g.n + 1 /\ ~h.hasElse
      /\ h.first = IF g.first = 0 /\ v THEN g.n + 1 ELSE g.first
  BY DEF Spec0!WithArm
<1>4. /\ h.first <= h.n
      /\ Spec0!Selected(h) <=> (g.first = 0 /\ v)
      /\ h.first # 0 <=> (g.first # 0 \/ v)
  <2>1. g.n \in Nat /\ g.first \in Nat /\ g.first <= g.n
    BY TopFacts DEF Spec0!Group
  <2> HIDE DEF g, h
  <2> QED
    BY <1>1, <1>3, <2>1 DEF Spec0!Selected
<1>5. /\ f.parent_emitting <=> top.parent_emitting
      /\ ~f.seen_else
      /\ f.emitting <=> top.parent_emitting /\ g.first = 0 /\ v
      /\ f.branch_taken <=> top.parent_emitting /\ (g.first # 0 \/ v)
  <2>1. CASE ~top.parent_emitting
    <3>1. f = top
      BY <2>1 DEF ElifFrame
    <3>2. ~top.emitting
      BY <2>1, FrameEmits
    <3> QED
      BY <2>1, <3>1, <3>2, TopFacts
  <2>2. CASE top.parent_emitting
    BY <1>1, <2>2, TopFacts DEF ElifFrame, CondFrame, Needed
  <2> QED
    BY <2>1, <2>2
<1>6. f.branch_taken <=> /\ top.parent_emitting
                         /\ h.first # 0
                         /\ ~(h.hasElse /\ h.first = h.n)
  BY <1>3, <1>4, <1>5
<1>7. f.emitting <=> top.parent_emitting /\ Spec0!Selected(h)
  BY <1>4, <1>5
<1>8. f.seen_else <=> h.hasElse
  BY <1>3, <1>5
<1> HIDE DEF f, h
<1> QED
  BY <1>1, <1>2, <1>4, <1>5, <1>6, <1>7, <1>8, TopStep DEF f, h

\* An #else keeps the invariant.
LEMMA ElseStep ==
  ASSUME IInv, cond_depth > 0, ~top.seen_else, SetTop(ElseFrame(top), TRUE, TRUE)
  PROVE  IInv'
<1> DEFINE g == groups[cond_depth]
           f == ElseFrame(top)
           h == Spec0!WithArm(g, TRUE, TRUE)
<1>1. f \in CondFrame /\ h \in Spec0!Group
  BY TopFacts, ArmFrameType, WithArmType
<1>2. /\ h.n = g.n + 1 /\ h.hasElse
      /\ h.first = IF g.first = 0 THEN g.n + 1 ELSE g.first
  BY DEF Spec0!WithArm
<1>3. /\ h.first <= h.n
      /\ h.first # 0
      /\ Spec0!Selected(h) <=> g.first = 0
      /\ h.first = h.n <=> g.first = 0
  <2>1. g.n \in Nat /\ g.first \in Nat /\ g.first <= g.n
    BY TopFacts DEF Spec0!Group
  <2> HIDE DEF g, h
  <2> QED
    BY <1>2, <2>1 DEF Spec0!Selected
<1>4. /\ f.parent_emitting <=> top.parent_emitting
      /\ f.seen_else
      /\ f.branch_taken <=> top.parent_emitting /\ g.first # 0
      /\ f.emitting <=> top.parent_emitting /\ g.first = 0
  <2>1. ~top.parent_emitting => ~top.emitting
    BY FrameEmits
  <2> QED
    BY <2>1, TopFacts DEF ElseFrame, CondFrame
<1>5. f.branch_taken <=> /\ top.parent_emitting
                         /\ h.first # 0
                         /\ ~(h.hasElse /\ h.first = h.n)
  BY <1>2, <1>3, <1>4
<1>6. f.emitting <=> top.parent_emitting /\ Spec0!Selected(h)
  BY <1>3, <1>4
<1>7. f.seen_else <=> h.hasElse
  BY <1>2, <1>4
<1> HIDE DEF f, h
<1> QED
  BY <1>1, <1>3, <1>4, <1>5, <1>6, <1>7, TopStep DEF f, h

\* Every step of the scanner keeps the invariant.
LEMMA NextIInv == IInv /\ [Next]_vars => IInv'
<1> SUFFICES ASSUME IInv, [Next]_vars PROVE IInv'
  OBVIOUS
<1> USE DEF Errors
<1>t. defined \in SUBSET Names /\ status \in {"scan", "done"} \cup Errors
  BY DEF IInv, TypeOK
<1>1. ASSUME NEW c \in Controls, If(c) PROVE IInv'
  <2>1. CASE Full /\ Stop("nesting too deep")
    BY <1>t, <2>1, QuietStep DEF Stop
  <2>2. CASE ~Full /\ emitting /\ Rejects(c) /\ Stop("bad expression")
    BY <1>t, <2>2, QuietStep DEF Stop
  <2>3. CASE ~Full /\ ~(emitting /\ Rejects(c)) /\ Push(c)
    BY <2>3, PushStep
  <2> QED
    BY <1>1, <2>1, <2>2, <2>3 DEF If
<1>2. ASSUME NEW c \in Controls, Elif(c) PROVE IInv'
  <2>1. CASE cond_depth = 0 /\ Stop("without conditional")
    BY <1>t, <2>1, QuietStep DEF Stop
  <2>2. CASE cond_depth > 0 /\ top.seen_else /\ Stop("after else")
    BY <1>t, <2>2, QuietStep DEF Stop
  <2>3. CASE /\ cond_depth > 0 /\ ~top.seen_else
             /\ Needed(top) /\ Rejects(c)
             /\ Stop("bad expression")
    BY <1>t, <2>3, QuietStep DEF Stop
  <2>4. CASE /\ cond_depth > 0 /\ ~top.seen_else
             /\ SetTop(ElifFrame(top, Needed(top) /\ Holds(c)), Holds(c), FALSE)
    BY <2>4, ElifStep
  <2> QED
    BY <1>2, <2>1, <2>2, <2>3, <2>4 DEF Elif
<1>3. ASSUME Else PROVE IInv'
  <2>1. CASE cond_depth = 0 /\ Stop("without conditional")
    BY <1>t, <2>1, QuietStep DEF Stop
  <2>2. CASE cond_depth > 0 /\ top.seen_else /\ Stop("duplicate else")
    BY <1>t, <2>2, QuietStep DEF Stop
  <2>3. CASE cond_depth > 0 /\ ~top.seen_else /\ SetTop(ElseFrame(top), TRUE, TRUE)
    BY <2>3, ElseStep
  <2> QED
    BY <1>3, <2>1, <2>2, <2>3 DEF Else
<1>4. ASSUME Endif PROVE IInv'
  <2>1. CASE cond_depth = 0 /\ Stop("without conditional")
    BY <1>t, <2>1, QuietStep DEF Stop
  <2>2. CASE cond_depth > 0 /\ Pop
    BY <2>2, PopStep
  <2> QED
    BY <1>4, <2>1, <2>2 DEF Endif
<1>5. ASSUME NEW m \in Names, Define(m) \/ Undef(m) PROVE IInv'
  <2>1. defined' \in SUBSET Names /\ UNCHANGED <<cond_stack, emitting, groups, status>>
    BY <1>t, <1>5 DEF Define, Undef
  <2> QED
    BY <1>t, <2>1, QuietStep
<1>6. ASSUME BadDirective PROVE IInv'
  BY <1>t, <1>6, QuietStep DEF BadDirective, Stop
<1>7. ASSUME EndOfFile PROVE IInv'
  BY <1>t, <1>7, QuietStep DEF EndOfFile, Stop
<1>8. ASSUME UNCHANGED vars PROVE IInv'
  BY <1>t, <1>8, QuietStep DEF vars
<1> QED
  BY <1>1, <1>2, <1>3, <1>4, <1>5, <1>6, <1>7, <1>8 DEF Next

\* The invariant holds throughout every scan.
LEMMA AlwaysIInv == Spec => []IInv
  BY InitIInv, NextIInv, PTL DEF Spec

(***************************************************************************)
(* The results.                                                            *)
(***************************************************************************)

\* The scanner's flags keep their types and the frames never outgrow the
\* array cond_stack[MAX_COND_DEPTH].
THEOREM TypeCorrect == Spec => []TypeOK
<1>1. IInv => TypeOK
  BY DEF IInv
<1> QED
  BY <1>1, AlwaysIInv, PTL

\* A flag that is right about all the open conditionals is CondSpec's.
LEMMA SelectedIsActive ==
  ASSUME NEW gs \in Seq(Spec0!Group), NEW b \in BOOLEAN,
         b <=> SelectedTo(gs, Len(gs))
  PROVE  b = Spec0!Active(gs)
<1>1. DOMAIN gs = 1..Len(gs)
  OBVIOUS
<1>2. Spec0!Active(gs) <=> SelectedTo(gs, Len(gs))
  BY <1>1 DEF Spec0!Active, SelectedTo
<1>3. Spec0!Active(gs) \in BOOLEAN
  BY Zenon DEF Spec0!Active
<1> QED
  BY <1>2, <1>3

\* The invariant in the words of CondSpec.
LEMMA IInvActive == ASSUME IInv PROVE emitting = Spec0!Active(groups)
  BY SelectedIsActive DEF IInv, TypeOK, StackInv

\* Text is emitted exactly when C99 6.10.1 has it kept, whatever the nesting:
\* the flag that each handler derives from the top frame alone is right about
\* all the conditionals that enclose the text.
THEOREM EmittingIsCorrect == Spec => []EmittingCorrect
<1>1. IInv => EmittingCorrect
  BY IInvActive DEF EmittingCorrect
<1> QED
  BY <1>1, AlwaysIInv, PTL

\* An #elif whose condition is looked at has an emitted parent and no earlier
\* true arm.
LEMMA NeededFacts ==
  ASSUME IInv, cond_depth > 0, ~top.seen_else, Needed(top)
  PROVE  /\ groups # <<>>
         /\ groups[Len(groups)].first = 0
         /\ Spec0!Active(SubSeq(groups, 1, Len(groups) - 1))
<1> DEFINE n == Len(cond_stack)
           hs == SubSeq(groups, 1, n - 1)
<1>1. n = cond_depth /\ Len(groups) = n /\ n \in Nat \ {0} /\ groups \in Seq(Spec0!Group)
  BY DEF IInv, TypeOK, StackInv, cond_depth
<1>2. ~top.branch_taken /\ top.parent_emitting
  BY DEF Needed
<1>3. groups[n].first = 0
  BY <1>1, <1>2, TopFacts
<1>4. SelectedTo(groups, n - 1)
  BY <1>1, <1>2 DEF IInv, StackInv, FrameOK, top
<1>5. hs \in Seq(Spec0!Group) /\ Len(hs) = n - 1 /\ \A i \in 1..(n - 1) : hs[i] = groups[i]
  BY <1>1
<1>6. SelectedTo(hs, Len(hs))
  BY <1>1, <1>4, <1>5 DEF SelectedTo
<1>7. Spec0!Active(hs)
  BY <1>5, <1>6, SelectedIsActive
<1> QED
  BY <1>1, <1>3, <1>7

\* A directive that rejects its expression is one that the standard has
\* evaluated.
LEMMA EvaluationStep ==
  ASSUME IInv, Next, status' = "bad expression"
  PROVE  \/ Spec0!Active(groups)
         \/ /\ groups # <<>>
            /\ groups[Len(groups)].first = 0
            /\ Spec0!Active(SubSeq(groups, 1, Len(groups) - 1))
<1>1. ASSUME NEW c \in Controls, If(c) PROVE Spec0!Active(groups)
  BY <1>1, IInvActive DEF If, Stop, Push
<1>2. ASSUME NEW c \in Controls, Elif(c)
      PROVE  /\ groups # <<>>
             /\ groups[Len(groups)].first = 0
             /\ Spec0!Active(SubSeq(groups, 1, Len(groups) - 1))
  <2>1. cond_depth > 0 /\ ~top.seen_else /\ Needed(top)
    BY <1>2 DEF Elif, Stop, SetTop
  <2> QED
    BY <2>1, NeededFacts
<1>3. ASSUME Else \/ Endif \/ BadDirective \/ EndOfFile PROVE FALSE
  BY <1>3 DEF Else, Endif, BadDirective, EndOfFile, Stop, SetTop, Pop
<1>4. ASSUME NEW m \in Names, Define(m) \/ Undef(m) PROVE FALSE
  BY <1>4 DEF Define, Undef
<1> QED
  BY <1>1, <1>2, <1>3, <1>4 DEF Next

\* An expression is only evaluated, and so can only stop the compiler, where
\* the standard has it evaluated.
THEOREM EvaluationIsNeeded == Spec => EvaluatedOnlyIfNeeded
<1> DEFINE A == status' = "bad expression" =>
                  \/ Spec0!Active(groups)
                  \/ /\ groups # <<>>
                     /\ groups[Len(groups)].first = 0
                     /\ Spec0!Active(SubSeq(groups, 1, Len(groups) - 1))
<1>1. IInv /\ [Next]_vars => A \/ UNCHANGED vars
  <2> SUFFICES ASSUME IInv, Next, status' = "bad expression" PROVE A
    BY DEF vars
  <2> QED
    BY EvaluationStep
<1> QED
  BY <1>1, AlwaysIInv, PTL DEF Spec, EvaluatedOnlyIfNeeded

\* Seen through the history of the source, a step of the scanner is a step of
\* CondSpec or none.
LEMMA CondStep == IInv /\ IInv' /\ [Next]_vars => [Spec0!Next]_(Spec0!vars)
<1> SUFFICES ASSUME IInv, IInv', [Next]_vars PROVE [Spec0!Next]_(Spec0!vars)
  OBVIOUS
<1>a. emitting = Spec0!Active(groups) /\ emitting' = Spec0!Active(groups')
  BY SelectedIsActive DEF IInv, TypeOK, StackInv
<1>b. /\ groups \in Seq(Spec0!Group) /\ Len(groups) = cond_depth
      /\ defined' \in SUBSET Names
  BY DEF IInv, TypeOK, StackInv, cond_depth
<1>s. ASSUME NEW why \in Errors, status = "scan", Stop(why) PROVE Spec0!Reject
  BY <1>s DEF Stop, Spec0!Reject, Errors
<1>1. ASSUME NEW c \in Controls, If(c) PROVE Spec0!Next
  <2>1. ASSUME Push(c), status = "scan" PROVE Spec0!Open
    BY <1>a, <2>1, HoldsBoolean DEF Push, Spec0!Open, Spec0!SetGroups
  <2> QED
    BY <1>1, <1>s, <2>1 DEF If, Errors, Spec0!Next
<1>2. ASSUME NEW f, NEW t \in BOOLEAN, NEW e \in BOOLEAN, e => t,
             status = "scan", cond_depth > 0, ~top.seen_else, SetTop(f, t, e)
      PROVE  Spec0!NextArm
  <2>1. groups # <<>> /\ ~groups[Len(groups)].hasElse
    BY <1>b, <1>2, TopFacts
  <2>2. Spec0!SetGroups([groups EXCEPT ![Len(groups)] = Spec0!WithArm(@, t, e)])
    BY <1>a, <1>b, <1>2 DEF SetTop, Spec0!SetGroups
  <2> QED
    BY <1>2, <2>1, <2>2 DEF Spec0!NextArm
<1>3. ASSUME NEW c \in Controls, Elif(c) PROVE Spec0!Next
  <2>1. CASE /\ cond_depth > 0 /\ ~top.seen_else
             /\ SetTop(ElifFrame(top, Needed(top) /\ Holds(c)), Holds(c), FALSE)
    BY <1>2, <1>3, <2>1, HoldsBoolean DEF Elif, Spec0!Next
  <2> QED
    BY <1>3, <1>s, <2>1 DEF Elif, Errors, Spec0!Next
<1>4. ASSUME Else PROVE Spec0!Next
  <2>1. CASE cond_depth > 0 /\ ~top.seen_else /\ SetTop(ElseFrame(top), TRUE, TRUE)
    BY <1>2, <1>4, <2>1 DEF Else, Spec0!Next
  <2> QED
    BY <1>4, <1>s, <2>1 DEF Else, Errors, Spec0!Next
<1>5. ASSUME Endif PROVE Spec0!Next
  <2>1. CASE cond_depth > 0 /\ Pop
    <3>1. groups # <<>>
      BY <1>b, <2>1
    <3>2. Spec0!SetGroups(SubSeq(groups, 1, Len(groups) - 1))
      BY <1>a, <1>b, <1>5, <2>1 DEF Endif, Pop, Spec0!SetGroups
    <3> QED
      BY <3>1, <3>2 DEF Spec0!Close, Spec0!Next
  <2> QED
    BY <1>5, <1>s, <2>1 DEF Endif, Errors, Spec0!Next
<1>6. ASSUME NEW m \in Names, Define(m) \/ Undef(m) PROVE Spec0!Next
  BY <1>b, <1>6 DEF Define, Undef, Spec0!ChangeMacros, Spec0!Next
<1>7. ASSUME BadDirective PROVE Spec0!Next
  BY <1>7, <1>s DEF BadDirective, Errors, Spec0!Next
<1>8. ASSUME EndOfFile PROVE Spec0!Next
  <2>1. CASE cond_depth = 0 /\ Stop("done")
    <3>1. groups = <<>>
      BY <1>b, <2>1
    <3> QED
      BY <1>8, <2>1, <3>1 DEF EndOfFile, Stop, Spec0!Accept, Spec0!Next
  <2> QED
    BY <1>8, <1>s, <2>1 DEF EndOfFile, Errors, Spec0!Next
<1>9. ASSUME UNCHANGED vars PROVE UNCHANGED Spec0!vars
  BY <1>9 DEF vars, Spec0!vars
<1> QED
  BY <1>1, <1>3, <1>4, <1>5, <1>6, <1>7, <1>8, <1>9 DEF Next

\* The frame stack implements conditional inclusion as C99 states it: every
\* scan, seen through the history of the source, is a behaviour of CondSpec.
THEOREM CondStackImplementsCondSpec == Spec => ImplementsCondSpec
<1>1. Init => Spec0!Init
  <2> SUFFICES ASSUME Init PROVE Spec0!Init
    OBVIOUS
  <2> QED
    BY DEF Init, Spec0!Init
<1> QED
  BY <1>1, CondStep, AlwaysIInv, PTL DEF Spec, ImplementsCondSpec, Spec0!Spec

-----------------------------------------------------------------------------
(***************************************************************************)
(* Included files.                                                         *)
(***************************************************************************)
Path == Readable \cup {MainFile}

\* No name, or one.
FileNames == SUBSET (LineFiles \cup {MainFile})

Call == [source_path : Path, current_file_override : FileNames, current_line : Nat, presumed : Nat,
         dropped : Nat, cond_stack : Seq(CondFrame), groups : Seq(Spec0!Group),
         around : Seq(Spec0!Group)]

FileTypes ==
    /\ calls \in Seq(Call)
    /\ source_path \in Path
    /\ current_file_override \in FileNames
    /\ current_line \in Nat /\ presumed \in Nat /\ dropped \in Nat
    /\ lexer \in [file : Path, line : Nat]

\* The line counter is behind C99's line by the newlines it never saw, and a
\* lexer that has seen a marker since the last #line agrees with it.
LineInv ==
    /\ current_line + dropped = presumed
    /\ synced /\ status = "scan" =>
          lexer.file = source_path /\ lexer.line = current_line

\* The conditionals around the file that the k-th suspended call is reading.
AroundCall(cs, k) == IF k = 1 THEN <<>> ELSE cs[k - 1].around

\* A suspended call is at an #include in emitted text: its own conditionals are
\* as the scanner left them, all selected, and so are those around it.
CallOK(c) ==
    /\ Len(c.cond_stack) <= MAX_COND_DEPTH
    /\ Len(c.groups) = Len(c.cond_stack)
    /\ \A i \in 1..Len(c.cond_stack) : FrameOK(c.cond_stack, c.groups, i)
    /\ SelectedTo(c.groups, Len(c.groups))
    /\ Spec0!Active(c.around)
    /\ c.current_line + c.dropped = c.presumed

CallsInv ==
    /\ Len(calls) <= MAX_INCLUDE_DEPTH
    /\ \A k \in 1..Len(calls) :
          /\ CallOK(calls[k])
          /\ calls[k].around = AroundCall(calls, k) \o calls[k].groups

OnceInv == once_paths = marked

IncludeInv == IInv /\ FileTypes /\ LineInv /\ CallsInv /\ OnceInv

(***************************************************************************)
(* Facts about the definitions.                                            *)
(***************************************************************************)

\* A prefix of a sequence.
LEMMA PrefixSeq ==
  ASSUME NEW S, NEW s, NEW n \in Nat, \A i \in 1..n : s[i] \in S
  PROVE  /\ SubSeq(s, 1, n) \in Seq(S)
         /\ Len(SubSeq(s, 1, n)) = n
         /\ \A i \in 1..n : SubSeq(s, 1, n)[i] = s[i]
<1>1. /\ SubSeq(s, 1, n) \in Seq(S)
      /\ Len(SubSeq(s, 1, n)) = IF 1 <= n THEN n - 1 + 1 ELSE 0
      /\ \A i \in 1..(n - 1 + 1) : SubSeq(s, 1, n)[i] = s[1 + i - 1]
  BY SubSeqProperties
<1> QED
  BY <1>1

\* A sequence without its last element.
LEMMA FrontSeq ==
  ASSUME NEW S, NEW s \in Seq(S), s # <<>>
  PROVE  /\ SubSeq(s, 1, Len(s) - 1) \in Seq(S)
         /\ Len(SubSeq(s, 1, Len(s) - 1)) = Len(s) - 1
         /\ \A k \in 1..(Len(s) - 1) : SubSeq(s, 1, Len(s) - 1)[k] = s[k]
<1> DEFINE n == Len(s) - 1
<1>1. n \in Nat /\ \A i \in 1..n : s[i] \in S
  BY EmptySeq
<1> HIDE DEF n
<1>2. /\ SubSeq(s, 1, n) \in Seq(S)
      /\ Len(SubSeq(s, 1, n)) = n
      /\ \A i \in 1..n : SubSeq(s, 1, n)[i] = s[i]
  BY <1>1, PrefixSeq
<1> QED
  BY <1>2 DEF n

\* Every directory search ends in a file that can be opened.
LEMMA ResolveFacts ==
  ASSUME NEW form \in {"angle", "quoted", "next"}, NEW name,
         NEW p \in Resolve(form, name)
  PROVE  p \in Path
<1>1. ASSUME NEW dirs, NEW q \in FirstIn(dirs, name) PROVE q \in Readable
  BY <1>1 DEF FirstIn
<1> QED
  BY <1>1 DEF Resolve, resolve_angle_include_path, resolve_include_path,
              resolve_include_next_path, Path

\* A line ends with the counter still that far behind.
LEMMA EndLineFacts ==
  ASSUME FileTypes, LineInv, NEW lost \in Nat, EndLine(lost)
  PROVE  /\ current_line' \in Nat /\ presumed' \in Nat /\ dropped' \in Nat
         /\ current_line' = current_line + 1
         /\ current_line' + dropped' = presumed'
  BY DEF FileTypes, LineInv, EndLine

\* The lexer's line moves on by one.
LEMMA NewlineFacts ==
  ASSUME FileTypes, LexNewline
  PROVE  /\ lexer' \in [file : Path, line : Nat] /\ synced' = synced
         /\ lexer'.file = lexer.file /\ lexer'.line = lexer.line + 1
  BY DEF FileTypes, LexNewline

\* Behind a return marker that was written the lexer is on the line after the
\* #include.
LEMMA ReturnFacts ==
  ASSUME FileTypes, NEW n \in Nat, NEW path \in Path, LexReturn(n, path)
  PROVE  /\ lexer' \in [file : Path, line : Nat]
         /\ synced' => lexer' = [file |-> path, line |-> n + 1]
<1>0. synced' = (Len(path) <= MAX_MARKER)
  BY DEF LexReturn, MarkerSeen
<1>1. synced' => Len(path) <= MAX_MARKER
  BY <1>0, Zenon
<1>2. lexer' = [Marker(lexer, n, path) EXCEPT !.line = @ + 1]
  BY DEF LexReturn, ReturnLine
<1>3. CASE Len(path) <= MAX_MARKER
  BY <1>1, <1>2, <1>3 DEF Marker
<1>4. CASE ~(Len(path) <= MAX_MARKER)
  <2>1. lexer' = [lexer EXCEPT !.line = @ + 1] /\ ~synced'
    BY <1>1, <1>2, <1>4 DEF Marker
  <2> QED
    BY <1>1, <2>1 DEF FileTypes
<1> QED
  BY <1>3, <1>4

\* What the invariant says of the innermost suspended call.
LEMMA LastCall ==
  ASSUME IncludeInv, calls # <<>>
  PROVE  /\ Len(calls) \in 1..Len(calls) /\ Len(calls) \in Nat \ {0}
         /\ calls[Len(calls)] \in Call
         /\ CallOK(calls[Len(calls)])
         /\ calls[Len(calls)].around
              = AroundCall(calls, Len(calls)) \o calls[Len(calls)].groups
  BY DEF IncludeInv, FileTypes, CallsInv

\* The conditionals around the file being read are well formed and selected.
LEMMA AroundFacts ==
  ASSUME IncludeInv
  PROVE  Around \in Seq(Spec0!Group) /\ Spec0!Active(Around)
<1>1. CASE calls = <<>>
  BY <1>1 DEF Around, Spec0!Active
<1>2. CASE calls # <<>>
  BY <1>2, LastCall DEF Around, Call, CallOK
<1> QED
  BY <1>1, <1>2

\* Conditionals put behind others: what is kept is what all of them keep.
LEMMA ActiveConcat ==
  ASSUME NEW a \in Seq(Spec0!Group), NEW g \in Seq(Spec0!Group)
  PROVE  /\ a \o g \in Seq(Spec0!Group)
         /\ Spec0!Active(a \o g) <=> Spec0!Active(a) /\ Spec0!Active(g)
<1>1. /\ a \o g \in Seq(Spec0!Group)
      /\ Len(a \o g) = Len(a) + Len(g)
      /\ \A i \in 1..(Len(a) + Len(g)) :
            (a \o g)[i] = IF i <= Len(a) THEN a[i] ELSE g[i - Len(a)]
  BY ConcatProperties
<1> DEFINE ag == a \o g
<1>2. /\ ag \in Seq(Spec0!Group) /\ Len(ag) = Len(a) + Len(g)
      /\ \A i \in 1..Len(a) : ag[i] = a[i]
      /\ \A i \in 1..Len(g) : ag[Len(a) + i] = g[i]
      /\ \A i \in 1..Len(ag) : i <= Len(a) \/ i - Len(a) \in 1..Len(g)
      /\ \A i \in 1..Len(ag) : i <= Len(a) \/ ag[i] = g[i - Len(a)]
  BY <1>1
<1> HIDE DEF ag
<1>3. Spec0!Active(ag) => Spec0!Active(a) /\ Spec0!Active(g)
  <2>1. \A i \in 1..Len(a) : i \in 1..Len(ag)
    BY <1>2
  <2>2. \A i \in 1..Len(g) : Len(a) + i \in 1..Len(ag)
    BY <1>2
  <2>3. DOMAIN ag = 1..Len(ag) /\ DOMAIN a = 1..Len(a) /\ DOMAIN g = 1..Len(g)
    BY <1>2
  <2>4. ASSUME Spec0!Active(ag), NEW i \in 1..Len(a) PROVE Spec0!Selected(a[i])
    BY <1>2, <2>1, <2>3, <2>4 DEF Spec0!Active
  <2>5. ASSUME Spec0!Active(ag), NEW i \in 1..Len(g) PROVE Spec0!Selected(g[i])
    <3>1. Len(a) + i \in DOMAIN ag /\ ag[Len(a) + i] = g[i]
      BY <1>2, <2>2, <2>3
    <3> QED
      BY <2>5, <3>1 DEF Spec0!Active
  <2> QED
    BY <2>3, <2>4, <2>5 DEF Spec0!Active
<1>4. Spec0!Active(a) /\ Spec0!Active(g) => Spec0!Active(ag)
  BY <1>2 DEF Spec0!Active
<1> QED
  BY <1>2, <1>3, <1>4 DEF ag

(***************************************************************************)
(* One lemma for each kind of step.                                        *)
(***************************************************************************)

\* A main file begins with nothing open and a counter that is right.
LEMMA InitIncludeInv == Init_Include => IncludeInv
<1> SUFFICES ASSUME Init_Include PROVE IncludeInv
  OBVIOUS
<1>1. IInv
  BY InitIInv DEF Init_Include
<1>2. FileTypes
  BY IncludeAssumption DEF Init_Include, FileTypes, Path, FileNames
<1>3. synced => lexer.line = 1
  <2>1. PICK inject \in BOOLEAN :
           /\ lexer = [file |-> MainFile,
                       line |-> IF inject THEN 1 + PREAMBLE_LINES ELSE 1]
           /\ synced = ~inject
    BY DEF Init_Include
  <2> QED
    BY <2>1
<1>5. LineInv /\ OnceInv
  BY <1>3 DEF Init_Include, LineInv, OnceInv
<1>4. CallsInv
  BY IncludeAssumption DEF Init_Include, CallsInv
<1> QED
  BY <1>1, <1>2, <1>4, <1>5 DEF IncludeInv

\* A step within a file leaves the suspended calls alone.
LEMMA WithinFile ==
  ASSUME IncludeInv, IInv', FileTypes', LineInv', OnceInv', UNCHANGED calls
  PROVE  IncludeInv'
  BY DEF IncludeInv, CallsInv, AroundCall

\* A line that adds to no list and moves counter and lexer on by one.
LEMMA OrdinaryLine ==
  ASSUME IncludeInv, IInv', NEW lost \in Nat, status = "scan", EndLine(lost), LexNewline,
         UNCHANGED <<calls, source_path, current_file_override>>, once_paths' = marked'
  PROVE  IncludeInv'
<1>1. FileTypes'
  BY EndLineFacts, NewlineFacts DEF IncludeInv, FileTypes
<1>2. LineInv'
  BY EndLineFacts, NewlineFacts DEF IncludeInv, LineInv
<1> QED
  BY <1>1, <1>2, WithinFile DEF OnceInv

\* Stopping changes nothing but the status.
LEMMA StopStep ==
  ASSUME IncludeInv, IInv', status' # "scan", UNCHANGED incl_vars
  PROVE  IncludeInv'
  BY WithinFile DEF IncludeInv, incl_vars, FileTypes, LineInv, OnceInv

\* The directives of CondStack are its steps.
LEMMA CondLineFacts ==
  ASSUME NEW lost, CondLine(lost)
  PROVE  Next /\ status = "scan" /\ status' # "done"
<1>1. Next
  BY DEF CondLine, Next
<1>2. status = "scan"
  BY DEF CondLine, If, Elif, Else, Endif, Define, Undef, BadDirective
<1>3. status' # "done"
  BY DEF CondLine, If, Elif, Else, Endif, Define, Undef, BadDirective, Stop, Push, SetTop, Pop
<1> QED
  BY <1>1, <1>2, <1>3

\* #include of a file not seen before: the call is suspended in emitted text.
LEMMA EnterStep ==
  ASSUME IncludeInv, NEW path \in Path, NEW lost \in Nat, status = "scan", emitting,
         Include_Enter(path, lost)
  PROVE  IncludeInv'
<1> DEFINE c == [source_path |-> source_path, current_line |-> current_line,
                 current_file_override |-> current_file_override,
                 presumed |-> presumed + lost, dropped |-> dropped + lost,
                 cond_stack |-> cond_stack, groups |-> groups, around |-> AllGroups]
<1>1. /\ cond_stack \in Seq(CondFrame) /\ groups \in Seq(Spec0!Group)
      /\ Len(cond_stack) <= MAX_COND_DEPTH /\ Len(groups) = Len(cond_stack)
      /\ \A i \in 1..Len(cond_stack) : FrameOK(cond_stack, groups, i)
      /\ SelectedTo(groups, Len(groups))
  BY DEF IncludeInv, IInv, TypeOK, StackInv, cond_depth
<1>2. calls \in Seq(Call) /\ Len(calls) \in Nat
  BY DEF IncludeInv, FileTypes
<1>3. AllGroups \in Seq(Spec0!Group) /\ Spec0!Active(AllGroups)
  <2>1. Spec0!Active(groups)
    BY <1>1 DEF Spec0!Active, SelectedTo
  <2> QED
    BY <1>1, <2>1, AroundFacts, ActiveConcat DEF AllGroups
<1>4. c \in Call
  BY <1>1, <1>3 DEF IncludeInv, FileTypes, Call
<1>5. CallOK(c)
  BY <1>1, <1>3 DEF CallOK, IncludeInv, FileTypes, LineInv
<1>6. /\ calls' = Append(calls, c) /\ calls' \in Seq(Call) /\ Len(calls') = Len(calls) + 1
      /\ calls'[Len(calls) + 1] = c
      /\ \A k \in 1..Len(calls) : calls'[k] = calls[k]
  BY <1>2, <1>4 DEF Include_Enter
<1>7. IInv'
  BY CondAssumption DEF Include_Enter, IncludeInv, IInv, TypeOK, StackInv, cond_depth, SelectedTo
<1>8. FileTypes'
  BY <1>6 DEF Include_Enter, IncludeInv, FileTypes, FileNames, Marker, MarkerSeen
<1>m. synced' => lexer' = [file |-> path, line |-> 1]
  <2>1. synced' => Len(path) <= MAX_MARKER
    BY Zenon DEF Include_Enter, MarkerSeen
  <2> QED
    BY <2>1 DEF Include_Enter, Marker
<1>9. LineInv' /\ OnceInv'
  BY <1>m DEF Include_Enter, IncludeInv, LineInv, OnceInv
<1>10. CallsInv'
  <2>1. Len(calls') <= MAX_INCLUDE_DEPTH
    BY <1>2, <1>6, IncludeAssumption DEF Include_Enter, TooDeep
  <2>2. ASSUME NEW k \in 1..Len(calls)
        PROVE  CallOK(calls'[k]) /\ calls'[k].around = AroundCall(calls', k) \o calls'[k].groups
    <3>1. AroundCall(calls', k) = AroundCall(calls, k)
      BY <1>2, <1>6 DEF AroundCall
    <3> QED
      BY <1>6, <3>1 DEF IncludeInv, CallsInv
  <2>3. AllGroups = AroundCall(calls', Len(calls) + 1) \o groups
    <3>1. calls = <<>> <=> Len(calls) = 0
      BY <1>2
    <3>2. AroundCall(calls', Len(calls) + 1)
            = Around
      <4>1. CASE calls = <<>>
        BY <3>1, <4>1 DEF AroundCall, Around
      <4>2. CASE calls # <<>>
        <5>1. /\ Len(calls) + 1 # 1 /\ (Len(calls) + 1) - 1 = Len(calls)
              /\ calls'[Len(calls)] = calls[Len(calls)]
          BY <1>2, <1>6, <3>1, <4>2
        <5> QED
          BY <4>2, <5>1 DEF AroundCall, Around
      <4> QED
        BY <4>1, <4>2
    <3> QED
      BY <3>2 DEF AllGroups
  <2>4. 1..Len(calls') = 1..Len(calls) \cup {Len(calls) + 1}
    BY <1>2, <1>6
  <2> HIDE DEF c
  <2>5. c.around = AllGroups /\ c.groups = groups
    BY DEF c
  <2> QED
    BY <1>5, <1>6, <2>1, <2>2, <2>3, <2>4, <2>5 DEF CallsInv
<1> QED
  BY <1>7, <1>8, <1>9, <1>10 DEF IncludeInv

\* The end of an included file: the suspended call goes on where it was.
LEMMA LeaveStep ==
  ASSUME IncludeInv, EndFile, ~Unclosed, calls # <<>>
  PROVE  IncludeInv'
<1> DEFINE n == Len(calls)
           c == calls[n]
<1>1. /\ source_path' = c.source_path
      /\ current_line' = c.current_line + 1
      /\ current_file_override' = c.current_file_override
      /\ presumed' = c.presumed + 1
      /\ dropped' = c.dropped
      /\ cond_stack' = c.cond_stack /\ groups' = c.groups
      /\ emitting' = TRUE
      /\ LexReturn(c.current_line, c.source_path)
      /\ calls' = SubSeq(calls, 1, n - 1)
      /\ UNCHANGED <<defined, status, once_paths, marked>>
  BY DEF EndFile
<1>2. /\ n \in Nat \ {0} /\ c \in Call /\ CallOK(c) /\ calls \in Seq(Call)
  BY LastCall DEF IncludeInv, FileTypes
<1> HIDE DEF c
<1>3. /\ calls' \in Seq(Call) /\ Len(calls') = n - 1
      /\ \A k \in 1..(n - 1) : calls'[k] = calls[k]
  <2>1. calls' = SubSeq(calls, 1, n - 1) /\ n \in Nat \ {0} /\ calls \in Seq(Call)
    BY <1>1, <1>2
  <2>2. calls # <<>>
    OBVIOUS
  <2> QED
    BY <2>1, <2>2, FrontSeq
<1>4. IInv'
  BY <1>1, <1>2 DEF IncludeInv, IInv, TypeOK, StackInv, cond_depth, Call, CallOK
<1>r. /\ c.source_path \in Path /\ c.current_file_override \in FileNames
      /\ c.current_line \in Nat
      /\ c.presumed \in Nat /\ c.dropped \in Nat
      /\ c.current_line + c.dropped = c.presumed
  BY <1>2 DEF Call, CallOK
<1>l. /\ lexer' \in [file : Path, line : Nat]
      /\ synced' => lexer' = [file |-> c.source_path, line |-> c.current_line + 1]
  BY <1>1, <1>r, ReturnFacts DEF IncludeInv
<1>5. FileTypes'
  BY <1>1, <1>3, <1>r, <1>l DEF FileTypes
<1>6. LineInv'
  BY <1>1, <1>r, <1>l DEF LineInv
<1>7. CallsInv'
  <2>1. Len(calls') <= MAX_INCLUDE_DEPTH
    BY <1>2, <1>3, IncludeAssumption DEF IncludeInv, CallsInv
  <2>2. ASSUME NEW k \in 1..Len(calls')
        PROVE  CallOK(calls'[k]) /\ calls'[k].around = AroundCall(calls', k) \o calls'[k].groups
    <3>1. k \in 1..n /\ calls'[k] = calls[k] /\ (k # 1 => calls'[k - 1] = calls[k - 1])
      BY <1>2, <1>3
    <3>2. AroundCall(calls', k) = AroundCall(calls, k)
      BY <3>1 DEF AroundCall
    <3> QED
      BY <3>1, <3>2 DEF IncludeInv, CallsInv
  <2> QED
    BY <2>1, <2>2 DEF CallsInv
<1> QED
  BY <1>1, <1>4, <1>5, <1>6, <1>7 DEF IncludeInv, OnceInv

\* Every step keeps the invariant.
LEMMA NextIncludeInv == IncludeInv /\ [Next_Include]_all_vars => IncludeInv'
<1> SUFFICES ASSUME IncludeInv, [Next_Include]_all_vars PROVE IncludeInv'
  OBVIOUS
<1>0. IInv /\ FileTypes /\ LineInv /\ CallsInv /\ OnceInv
  BY DEF IncludeInv
<1>q. UNCHANGED vars => IInv'
  BY <1>0, NextIInv
<1>e. ASSUME NEW why \in Errors \cup {"done"}, Stop(why), UNCHANGED incl_vars PROVE IncludeInv'
  <2>1. IInv'
    BY <1>0, <1>e, QuietStep DEF Stop, IInv, TypeOK
  <2>2. status' # "scan"
    BY <1>e DEF Stop, Errors
  <2> QED
    BY <1>e, <2>1, <2>2, StopStep
<1>1. ASSUME NEW lost \in Nat, TextLine(lost) PROVE IncludeInv'
  BY <1>0, <1>q, <1>1, OrdinaryLine DEF TextLine, Here, OnceInv
<1>2. ASSUME NEW lost \in Nat, CondLine(lost) PROVE IncludeInv'
  <2>1. IInv' /\ status = "scan"
    BY <1>0, <1>2, CondLineFacts, NextIInv
  <2>2. UNCHANGED Here
    BY <1>2 DEF CondLine
  <2>3. CASE status' = "scan" /\ EndLine(lost) /\ LexNewline
    BY <1>0, <2>1, <2>2, <2>3, OrdinaryLine DEF Here, OnceInv
  <2>4. CASE status' # "scan" /\ UNCHANGED <<file_vars, pos_vars>>
    BY <2>1, <2>2, <2>4, StopStep DEF Here, file_vars, pos_vars, incl_vars
  <2> QED
    BY <1>2, <2>3, <2>4 DEF CondLine
<1>3. ASSUME NEW lost \in Nat, PragmaOnce(lost) PROVE IncludeInv'
  <2>1. once_paths' = marked'
    BY <1>0, <1>3 DEF PragmaOnce, OncePath, OnceInv
  <2> QED
    BY <1>0, <1>q, <1>3, <2>1, OrdinaryLine DEF PragmaOnce
<1>4. ASSUME NEW lost \in Nat, NEW n \in LineNumbers,
             NEW file \in {{}} \cup {{f} : f \in LineFiles}, LineDirective(n, file, lost)
      PROVE  IncludeInv'
  <2>1. n \in Nat /\ n # 0
    BY IncludeAssumption
  <2>2. file \in FileNames
    BY DEF FileNames
  <2>3. FileTypes' /\ LineInv'
    BY <1>0, <1>4, <2>1, <2>2 DEF LineDirective, FileTypes, LineInv
  <2> QED
    BY <1>0, <1>q, <1>4, <2>3, WithinFile DEF LineDirective, OnceInv
<1>5. ASSUME SpanningCall PROVE IncludeInv'
  <2>1. PICK copies \in 0..2 : lexer' = [lexer EXCEPT !.line = @ + 1 + copies]
    BY <1>5 DEF SpanningCall
  <2>2. lexer' \in [file : Path, line : Nat]
    BY <1>0, <2>1 DEF FileTypes
  <2>3. EndLine(1) /\ synced' = FALSE /\ UNCHANGED Here /\ UNCHANGED vars
    BY <1>5 DEF SpanningCall
  <2>4. FileTypes' /\ LineInv'
    BY <1>0, <2>2, <2>3, EndLineFacts DEF FileTypes, LineInv, Here
  <2> QED
    BY <1>0, <1>q, <2>3, <2>4, WithinFile DEF Here, OnceInv
<1>6. ASSUME NEW lost \in Nat, NEW form \in {"angle", "quoted", "next"}, NEW name,
             IncludeLine(form, name, lost)
      PROVE  IncludeInv'
  <2>0. status = "scan" /\ emitting
    BY <1>6 DEF IncludeLine
  <2>1. CASE Include_NotFound(form, name)
    BY <1>e, <2>1 DEF Include_NotFound, Errors
  <2>2. ASSUME NEW path \in Resolve(form, name), Include_TooDeep(path) PROVE IncludeInv'
    BY <1>e, <2>2 DEF Include_TooDeep, Errors
  <2>3. ASSUME NEW path \in Resolve(form, name), Include_Once(path, lost) PROVE IncludeInv'
    <3>1. EndLine(lost) /\ LexReturn(current_line, source_path) /\ UNCHANGED <<vars, Here>>
      BY <2>3 DEF Include_Once
    <3>2. FileTypes'
      BY <1>0, <3>1, EndLineFacts, ReturnFacts DEF FileTypes, Here
    <3>3. LineInv'
      BY <1>0, <3>1, EndLineFacts, ReturnFacts DEF FileTypes, LineInv, Here
    <3> QED
      BY <1>0, <1>q, <3>1, <3>2, <3>3, WithinFile DEF Here, OnceInv
  <2>4. ASSUME NEW path \in Resolve(form, name), Include_Enter(path, lost) PROVE IncludeInv'
    BY <2>0, <2>4, ResolveFacts, EnterStep
  <2> QED
    BY <1>6, <2>1, <2>2, <2>3, <2>4 DEF IncludeLine
<1>7. ASSUME EndFile PROVE IncludeInv'
  <2>1. CASE Stop("missing endif") /\ UNCHANGED incl_vars
    BY <1>e, <2>1 DEF Errors
  <2>2. CASE Stop("done") /\ UNCHANGED incl_vars
    BY <1>e, <2>2
  <2>3. CASE ~Unclosed /\ calls # <<>>
    BY <1>7, <2>3, LeaveStep
  <2> QED
    BY <1>7, <2>1, <2>2, <2>3 DEF EndFile
<1>8. CASE UNCHANGED all_vars
  <2>1. UNCHANGED <<vars, incl_vars>>
    BY <1>8 DEF all_vars
  <2> QED
    BY <1>0, <1>q, <2>1, WithinFile DEF vars, incl_vars, FileTypes, LineInv, OnceInv
<1>9. \A lost \in 0..1 : lost \in Nat
  OBVIOUS
<1>10. ASSUME UnterminatedComment PROVE IncludeInv'
  BY <1>e, <1>10 DEF UnterminatedComment, Errors
<1> QED
  BY <1>1, <1>2, <1>3, <1>4, <1>5, <1>6, <1>7, <1>8, <1>9, <1>10 DEF Next_Include, Line

\* The invariant holds however files include one another.
LEMMA AlwaysIncludeInv == Spec_Include => []IncludeInv
  BY InitIncludeInv, NextIncludeInv, PTL DEF Spec_Include

(***************************************************************************)
(* The results.                                                            *)
(***************************************************************************)

\* In every file, included or not, the frames fit the array of its call.
THEOREM IncludeTypeCorrect == Spec_Include => []TypeOK
<1>1. IncludeInv => TypeOK
  BY DEF IncludeInv, IInv
<1> QED
  BY <1>1, AlwaysIncludeInv, PTL

\* The flag emitting of the innermost call is right about its own file.
THEOREM IncludeEmittingIsCorrect == Spec_Include => []EmittingCorrect
<1>1. IncludeInv => EmittingCorrect
  BY IInvActive DEF IncludeInv, EmittingCorrect
<1> QED
  BY <1>1, AlwaysIncludeInv, PTL

\* After every #include and every return the lexer's file and line are those
\* of the line being read, for every nesting of files: a diagnostic names the
\* right place unless a #line or a call over several lines came in between.
THEOREM LocationsAreTrue == Spec_Include => []LocationsTrue
<1>1. IncludeInv => LocationsTrue
  BY DEF IncludeInv, FileTypes, LineInv, LocationsTrue
<1> QED
  BY <1>1, AlwaysIncludeInv, PTL

\* Files never nest deeper than MAX_INCLUDE_DEPTH, and a file that executed
\* #pragma once is not entered again.
THEOREM InclusionIsBounded == Spec_Include => InclusionBounded
<1> DEFINE A == /\ Len(calls') <= MAX_INCLUDE_DEPTH
                /\ Len(calls') > Len(calls) => source_path' \notin marked
<1>1. IncludeInv /\ IncludeInv' /\ [Next_Include]_all_vars => A \/ UNCHANGED all_vars
  <2> SUFFICES ASSUME IncludeInv, IncludeInv', Next_Include PROVE A
    OBVIOUS
  <2>1. Len(calls') <= MAX_INCLUDE_DEPTH
    BY DEF IncludeInv, CallsInv
  <2>2. calls \in Seq(Call) /\ Len(calls) \in Nat /\ once_paths = marked
    BY DEF IncludeInv, FileTypes, OnceInv
  <2>3. CASE UNCHANGED calls
    BY <2>1, <2>2, <2>3
  <2>4. ASSUME NEW path, NEW lost, Include_Enter(path, lost)
        PROVE  source_path' \notin marked
    BY <2>2, <2>4 DEF Include_Enter
  <2>5. CASE calls # <<>> /\ calls' = SubSeq(calls, 1, Len(calls) - 1)
    BY <2>1, <2>2, <2>5, FrontSeq
  <2>6. \/ UNCHANGED calls
        \/ \E path, lost : Include_Enter(path, lost)
        \/ calls # <<>> /\ calls' = SubSeq(calls, 1, Len(calls) - 1)
    <3>1. ASSUME EndFile PROVE <2>6!1 \/ <2>6!3
      BY <3>1 DEF EndFile, incl_vars
    <3>2. ASSUME SpanningCall PROVE UNCHANGED calls
      BY <3>2 DEF SpanningCall, Here
    <3>3. ASSUME NEW lost, TextLine(lost) \/ CondLine(lost) \/ PragmaOnce(lost)
          PROVE UNCHANGED calls
      BY <3>3 DEF TextLine, CondLine, PragmaOnce, Here
    <3>4. ASSUME NEW lost, NEW n, NEW file, LineDirective(n, file, lost)
          PROVE  UNCHANGED calls
      BY <3>4 DEF LineDirective
    <3>6. ASSUME UnterminatedComment PROVE UNCHANGED calls
      BY <3>6 DEF UnterminatedComment, incl_vars
    <3>5. ASSUME NEW lost, NEW form, NEW name, IncludeLine(form, name, lost)
          PROVE  <2>6!1 \/ <2>6!2
      BY <3>5 DEF IncludeLine, Include_NotFound, Include_TooDeep, Include_Once, Here, incl_vars
    <3> QED
      BY <3>1, <3>2, <3>3, <3>4, <3>5, <3>6 DEF Next_Include, Line
  <2> QED
    BY <2>1, <2>3, <2>4, <2>5, <2>6
<1> QED
  BY <1>1, AlwaysIncludeInv, PTL DEF Spec_Include, InclusionBounded

\* A controlling expression is only evaluated where its file's conditionals
\* have it evaluated.
THEOREM IncludeEvaluationIsNeeded == Spec_Include => EvaluatedOnlyIfNeeded
<1> DEFINE A == status' = "bad expression" =>
                  \/ Spec0!Active(groups)
                  \/ /\ groups # <<>>
                     /\ groups[Len(groups)].first = 0
                     /\ Spec0!Active(SubSeq(groups, 1, Len(groups) - 1))
<1>1. IncludeInv /\ [Next_Include]_all_vars => A \/ UNCHANGED vars
  <2> SUFFICES ASSUME IncludeInv, Next_Include, status' = "bad expression" PROVE A
    BY DEF all_vars
  <2>1. ASSUME NEW lost, CondLine(lost) PROVE A
    BY <2>1, CondLineFacts, EvaluationStep DEF IncludeInv
  <2>2. ASSUME EndFile PROVE FALSE
    BY <2>2 DEF EndFile, Stop
  <2>3. ASSUME SpanningCall PROVE FALSE
    BY <2>3 DEF SpanningCall, vars
  <2>4. ASSUME NEW lost, TextLine(lost) \/ PragmaOnce(lost) PROVE FALSE
    BY <2>4 DEF TextLine, PragmaOnce, vars
  <2>5. ASSUME NEW lost, NEW n, NEW file, LineDirective(n, file, lost) PROVE FALSE
    BY <2>5 DEF LineDirective, vars
  <2>6. ASSUME NEW lost, NEW form, NEW name, IncludeLine(form, name, lost) PROVE FALSE
    BY <2>6 DEF IncludeLine, Include_NotFound, Include_TooDeep, Include_Once,
                Include_Enter, Stop, vars
  <2>7. ASSUME UnterminatedComment PROVE FALSE
    BY <2>7 DEF UnterminatedComment, Stop
  <2> QED
    BY <2>1, <2>2, <2>3, <2>4, <2>5, <2>6, <2>7 DEF Next_Include, Line
<1> QED
  BY <1>1, AlwaysIncludeInv, PTL DEF Spec_Include, EvaluatedOnlyIfNeeded

(***************************************************************************)
(* The conditionals of all files together implement CondSpec.              *)
(***************************************************************************)

\* A sequence that is a and then h, element by element.
LEMMA ConcatIs ==
  ASSUME NEW S, NEW a \in Seq(S), NEW h \in Seq(S), NEW u \in Seq(S),
         Len(u) = Len(a) + Len(h),
         \A i \in 1..Len(u) : u[i] = IF i <= Len(a) THEN a[i] ELSE h[i - Len(a)]
  PROVE  u = a \o h
<1>1. /\ a \o h \in Seq(S) /\ Len(a \o h) = Len(a) + Len(h)
      /\ \A i \in 1..(Len(a) + Len(h)) :
            (a \o h)[i] = IF i <= Len(a) THEN a[i] ELSE h[i - Len(a)]
  BY ConcatProperties
<1> QED
  BY <1>1, SeqEqual

\* An element put behind a sequence is put behind all that precedes it.
LEMMA AppendBehindPrefix ==
  ASSUME NEW S, NEW a \in Seq(S), NEW g \in Seq(S), NEW x \in S
  PROVE  Append(a \o g, x) = a \o Append(g, x)
<1>1. a \o g \in Seq(S)
  BY ConcatProperties
<1>2. /\ Append(a \o g, x) = (a \o g) \o <<x>> /\ Append(g, x) = g \o <<x>>
      /\ <<x>> \in Seq(S)
  BY <1>1, AppendIsConcat
<1> QED
  BY <1>2, ConcatAssociative

\* Replacing the last element leaves what precedes the sequence alone.
LEMMA BehindPrefix ==
  ASSUME NEW S, NEW a \in Seq(S), NEW g \in Seq(S), g # <<>>
  PROVE  /\ a \o g # <<>>
         /\ (a \o g)[Len(a \o g)] = g[Len(g)]
         /\ \A x \in S : [a \o g EXCEPT ![Len(a \o g)] = x]
                           = a \o [g EXCEPT ![Len(g)] = x]
<1> DEFINE ag == a \o g
<1>1. /\ ag \in Seq(S) /\ Len(ag) = Len(a) + Len(g)
      /\ \A i \in 1..(Len(a) + Len(g)) :
            ag[i] = IF i <= Len(a) THEN a[i] ELSE g[i - Len(a)]
  BY ConcatProperties
<1>2. Len(a) \in Nat /\ Len(g) \in Nat
  OBVIOUS
<1>4. Len(g) # 0 /\ ag # <<>> /\ ag[Len(ag)] = g[Len(g)]
  <2>1. Len(g) # 0
    BY EmptySeq
  <2>2. Len(ag) # 0 /\ Len(ag) \in 1..(Len(a) + Len(g)) /\ Len(ag) - Len(a) = Len(g)
        /\ ~(Len(ag) <= Len(a))
    BY <1>1, <1>2, <2>1
  <2> HIDE DEF ag
  <2> QED
    BY <1>1, <2>1, <2>2
<1>7. ASSUME NEW x \in S
      PROVE  [ag EXCEPT ![Len(ag)] = x] = a \o [g EXCEPT ![Len(g)] = x]
  <2> DEFINE u == [ag EXCEPT ![Len(ag)] = x]
             h == [g EXCEPT ![Len(g)] = x]
  <2>1. Len(g) \in 1..Len(g) /\ Len(ag) \in 1..Len(ag)
    BY <1>1, <1>2, <1>4, <1>7
  <2>2. /\ u \in Seq(S) /\ Len(u) = Len(ag)
        /\ \A i \in 1..Len(ag) : u[i] = IF i = Len(ag) THEN x ELSE ag[i]
    <3> HIDE DEF ag
    <3> QED
      BY <1>1, <2>1, ExceptSeq
  <2>3. /\ h \in Seq(S) /\ Len(h) = Len(g)
        /\ \A i \in 1..Len(g) : h[i] = IF i = Len(g) THEN x ELSE g[i]
    BY <2>1, ExceptSeq
  <2> HIDE DEF ag, u, h
  <2>4. Len(u) = Len(a) + Len(h)
    BY <1>1, <2>2, <2>3
  <2>5. ASSUME NEW i \in 1..Len(u) PROVE u[i] = IF i <= Len(a) THEN a[i] ELSE h[i - Len(a)]
    <3>1. i \in 1..(Len(a) + Len(g)) /\ i \in 1..Len(ag)
      BY <1>1, <2>2
    <3>2. CASE i <= Len(a)
      <4>1. i # Len(ag)
        BY <1>1, <1>2, <2>1, <3>2
      <4> QED
        BY <1>1, <2>2, <3>1, <3>2, <4>1
    <3>3. CASE ~(i <= Len(a))
      <4>1. i - Len(a) \in 1..Len(g) /\ (i = Len(ag) <=> i - Len(a) = Len(g))
        BY <1>1, <1>2, <3>1, <3>3
      <4> QED
        BY <1>1, <2>2, <2>3, <3>1, <3>3, <4>1
    <3> QED
      BY <3>2, <3>3
  <2> QED
    BY ConcatIs, <2>2, <2>3, <2>4, <2>5 DEF u, h
<1> QED
  BY <1>4, <1>7

\* The same for dropping the last element.
LEMMA FrontBehindPrefix ==
  ASSUME NEW S, NEW a \in Seq(S), NEW g \in Seq(S), g # <<>>
  PROVE  SubSeq(a \o g, 1, Len(a \o g) - 1) = a \o SubSeq(g, 1, Len(g) - 1)
<1> DEFINE ag == a \o g
           u == SubSeq(ag, 1, Len(ag) - 1)
           h == SubSeq(g, 1, Len(g) - 1)
<1>0. /\ ag \in Seq(S) /\ ag # <<>> /\ Len(ag) = Len(a) + Len(g)
      /\ \A i \in 1..(Len(a) + Len(g)) :
            ag[i] = IF i <= Len(a) THEN a[i] ELSE g[i - Len(a)]
  BY ConcatProperties, BehindPrefix
<1>1. /\ u \in Seq(S) /\ Len(u) = Len(ag) - 1
      /\ \A i \in 1..(Len(ag) - 1) : u[i] = ag[i]
  <2> HIDE DEF ag
  <2> QED
    BY <1>0, FrontSeq
<1>2. /\ h \in Seq(S) /\ Len(h) = Len(g) - 1
      /\ \A i \in 1..(Len(g) - 1) : h[i] = g[i]
  BY FrontSeq
<1> HIDE DEF ag, u, h
<1>3. Len(a) \in Nat /\ Len(g) \in Nat /\ Len(u) = Len(a) + Len(h)
  BY <1>0, <1>1, <1>2
<1>4. ASSUME NEW i \in 1..Len(u) PROVE u[i] = IF i <= Len(a) THEN a[i] ELSE h[i - Len(a)]
  <2>1. u[i] = IF i <= Len(a) THEN a[i] ELSE g[i - Len(a)]
    BY <1>0, <1>1, <1>3
  <2>2. ~(i <= Len(a)) => i - Len(a) \in 1..(Len(g) - 1)
    BY <1>0, <1>1, <1>3
  <2> QED
    BY <1>2, <2>1, <2>2
<1>5. u = a \o h
  BY <1>1, <1>2, <1>3, <1>4, ConcatIs
<1> QED
  BY <1>5 DEF u, h, ag

\* The flag of the innermost call is right about the conditionals of all files.
LEMMA NestActive ==
  ASSUME IncludeInv
  PROVE  AllGroups \in Seq(Spec0!Group) /\ emitting = Nest!Active(AllGroups)
<1>1. groups \in Seq(Spec0!Group) /\ emitting = Spec0!Active(groups)
  BY IInvActive DEF IncludeInv, IInv, TypeOK
<1>2. /\ AllGroups \in Seq(Spec0!Group)
      /\ Spec0!Active(AllGroups) <=> Spec0!Active(Around) /\ Spec0!Active(groups)
  BY <1>1, AroundFacts, ActiveConcat DEF AllGroups
<1>3. Spec0!Active(AllGroups) <=> Spec0!Active(groups)
  BY <1>2, AroundFacts
<1>4. /\ Nest!Active(AllGroups) = Spec0!Active(AllGroups)
      /\ Spec0!Active(AllGroups) \in BOOLEAN /\ Spec0!Active(groups) \in BOOLEAN
  BY Zenon DEF Nest!Active, Spec0!Active, Nest!Selected, Spec0!Selected
<1> QED
  BY <1>1, <1>2, <1>3, <1>4

\* A step of CondSpec on the file's own conditionals is one on all of them.
LEMMA NestStep ==
  ASSUME IncludeInv, IncludeInv', UNCHANGED calls, status' # "done",
         [Spec0!Next]_(Spec0!vars)
  PROVE  [Nest!Next]_(Nest!vars)
<1> DEFINE a == Around
<1>1. /\ a \in Seq(Spec0!Group) /\ groups \in Seq(Spec0!Group)
      /\ AllGroups = a \o groups /\ AllGroups' = a \o groups'
      /\ emitting' = Nest!Active(AllGroups')
  <2>1. Around' = Around
    BY DEF Around
  <2>2. AllGroups = a \o groups /\ AllGroups' = a \o groups'
    BY <2>1 DEF AllGroups
  <2>3. /\ a \in Seq(Spec0!Group) /\ Spec0!Active(a)
        /\ groups \in Seq(Spec0!Group) /\ groups' \in Seq(Spec0!Group)
    BY AroundFacts DEF IncludeInv, IInv, TypeOK
  <2>4. emitting' = Spec0!Active(groups')
    BY SelectedIsActive DEF IncludeInv, IInv, TypeOK, StackInv
  <2>5. Spec0!Active(AllGroups') <=> Spec0!Active(groups')
    BY <2>2, <2>3, ActiveConcat
  <2>6. /\ Nest!Active(AllGroups') = Spec0!Active(AllGroups')
        /\ Spec0!Active(AllGroups') \in BOOLEAN /\ Spec0!Active(groups') \in BOOLEAN
    BY Zenon DEF Nest!Active, Spec0!Active, Nest!Selected, Spec0!Selected
  <2> QED
    BY <2>2, <2>3, <2>4, <2>5, <2>6
<1> HIDE DEF a
<1>2. ASSUME NEW gs, Spec0!SetGroups(gs) PROVE Nest!SetGroups(a \o gs)
  BY <1>1, <1>2 DEF Spec0!SetGroups, Nest!SetGroups
<1>3. CASE Spec0!Open
  <2>1. PICK t \in BOOLEAN :
           Spec0!SetGroups(Append(groups, [n |-> 1, first |-> IF t THEN 1 ELSE 0,
                                           hasElse |-> FALSE]))
    BY <1>3 DEF Spec0!Open
  <2> DEFINE x == [n |-> 1, first |-> IF t THEN 1 ELSE 0, hasElse |-> FALSE]
  <2>2. x \in Spec0!Group
    BY DEF Spec0!Group
  <2>3. Append(AllGroups, x) = a \o Append(groups, x)
    <3> HIDE DEF x
    <3>0. a \in Seq(Spec0!Group) /\ groups \in Seq(Spec0!Group) /\ x \in Spec0!Group
      BY <1>1, <2>2
    <3>1. Append(a \o groups, x) = a \o Append(groups, x)
      BY <3>0, AppendBehindPrefix
    <3> QED
      BY <1>1, <3>1, Zenon
  <2>4. Nest!SetGroups(Append(AllGroups, x))
    BY <1>2, <2>1, <2>3
  <2> QED
    BY <2>4 DEF Nest!Open, Nest!Next
<1>4. CASE Spec0!NextArm
  <2>1. groups # <<>> /\ ~groups[Len(groups)].hasElse
    BY <1>4 DEF Spec0!NextArm
  <2>2. PICK t \in BOOLEAN, e \in BOOLEAN :
           /\ e => t
           /\ Spec0!SetGroups([groups EXCEPT ![Len(groups)] = Spec0!WithArm(@, t, e)])
    BY <1>4 DEF Spec0!NextArm
  <2>3. AllGroups # <<>> /\ AllGroups[Len(AllGroups)] = groups[Len(groups)]
    BY <1>1, <2>1, BehindPrefix
  <2> DEFINE x == Spec0!WithArm(groups[Len(groups)], t, e)
  <2>4. x \in Spec0!Group
    <3>1. groups[Len(groups)] \in Spec0!Group
      BY <1>1, <2>1, EmptySeq
    <3> QED
      BY <3>1, WithArmType
  <2>5. [AllGroups EXCEPT ![Len(AllGroups)] = x] = a \o [groups EXCEPT ![Len(groups)] = x]
    BY <1>1, <2>1, <2>4, BehindPrefix
  <2>6. Nest!SetGroups([AllGroups EXCEPT ![Len(AllGroups)] = x])
    BY <1>2, <2>2, <2>5
  <2>7. x = Nest!WithArm(AllGroups[Len(AllGroups)], t, e)
    BY <2>3 DEF Spec0!WithArm, Nest!WithArm
  <2>8. Nest!SetGroups([AllGroups EXCEPT ![Len(AllGroups)] = Nest!WithArm(@, t, e)])
    BY <2>6, <2>7
  <2> QED
    BY <2>1, <2>2, <2>3, <2>8 DEF Nest!NextArm, Nest!Next
<1>5. CASE Spec0!Close
  <2>1. groups # <<>> /\ Spec0!SetGroups(SubSeq(groups, 1, Len(groups) - 1))
    BY <1>5 DEF Spec0!Close
  <2>2. /\ AllGroups # <<>>
        /\ SubSeq(AllGroups, 1, Len(AllGroups) - 1) = a \o SubSeq(groups, 1, Len(groups) - 1)
    <3>1. groups # <<>> /\ a \in Seq(Spec0!Group) /\ groups \in Seq(Spec0!Group)
      BY <1>1, <2>1
    <3>2. SubSeq(a \o groups, 1, Len(a \o groups) - 1)
            = a \o SubSeq(groups, 1, Len(groups) - 1)
      BY <3>1, FrontBehindPrefix, Zenon
    <3>3. a \o groups # <<>>
      BY <3>1, BehindPrefix
    <3> QED
      BY <1>1, <3>2, <3>3, Zenon
  <2> QED
    BY <1>2, <2>1, <2>2 DEF Nest!Close, Nest!Next
<1>6. CASE Spec0!ChangeMacros
  BY <1>1, <1>6 DEF Spec0!ChangeMacros, Nest!ChangeMacros, Nest!Next
<1>7. CASE Spec0!Reject
  BY <1>1, <1>7 DEF Spec0!Reject, Nest!Reject, Nest!Next
<1>8. CASE Spec0!Accept
  BY <1>8 DEF Spec0!Accept
<1>9. CASE UNCHANGED Spec0!vars
  BY <1>1, <1>9 DEF Spec0!vars, Nest!vars
<1> QED
  BY <1>3, <1>4, <1>5, <1>6, <1>7, <1>8, <1>9 DEF Spec0!Next

\* Entering and leaving a file changes no conditional: those of the includer
\* are put aside and come back.
LEMMA NestFileStep ==
  ASSUME IncludeInv, IncludeInv', status = "scan",
         \/ emitting /\ \E path, lost : Include_Enter(path, lost)
         \/ EndFile /\ ~Unclosed /\ calls # <<>>
  PROVE  UNCHANGED Nest!vars
<1>1. /\ groups \in Seq(Spec0!Group) /\ Around \in Seq(Spec0!Group)
      /\ calls \in Seq(Call) /\ Len(calls) \in Nat
  BY AroundFacts DEF IncludeInv, IInv, TypeOK, FileTypes
<1>2. ASSUME emitting, NEW path, NEW lost, Include_Enter(path, lost)
      PROVE  UNCHANGED Nest!vars
  <2>1. /\ calls' # <<>> /\ calls'[Len(calls')].around = AllGroups
        /\ groups' = <<>> /\ emitting' = TRUE /\ UNCHANGED <<defined, status>>
    <3> DEFINE c == [source_path |-> source_path, current_line |-> current_line,
                     current_file_override |-> current_file_override,
                     presumed |-> presumed + lost, dropped |-> dropped + lost,
                     cond_stack |-> cond_stack, groups |-> groups, around |-> AllGroups]
    <3>1. calls' = Append(calls, c)
      BY <1>2 DEF Include_Enter
    <3>2. c.around = AllGroups
      OBVIOUS
    <3> HIDE DEF c
    <3>3. calls' # <<>> /\ Len(calls') = Len(calls) + 1 /\ calls'[Len(calls) + 1] = c
      BY <1>1, <3>1
    <3> QED
      BY <1>2, <3>2, <3>3 DEF Include_Enter
  <2>2. AllGroups' = AllGroups \o <<>> /\ AllGroups \in Seq(Spec0!Group)
    BY <2>1, NestActive DEF AllGroups, Around
  <2>3. AllGroups' = AllGroups
    BY <2>2, ConcatEmptySeq
  <2>4. emitting = TRUE
    BY <1>2 DEF IncludeInv, IInv, TypeOK
  <2> QED
    BY <2>1, <2>3, <2>4 DEF Nest!vars
<1>3. ASSUME EndFile, ~Unclosed, calls # <<>> PROVE UNCHANGED Nest!vars
  <2> DEFINE n == Len(calls)
  <2>1. groups = <<>>
    BY <1>1, <1>3, EmptySeq DEF Unclosed, cond_depth, IncludeInv, IInv, TypeOK, StackInv
  <2>2. /\ groups' = calls[n].groups /\ emitting' = TRUE
        /\ calls' = SubSeq(calls, 1, n - 1)
        /\ UNCHANGED <<defined, status>>
    BY <1>3 DEF EndFile
  <2>3. /\ n \in Nat \ {0} /\ calls[n].around \in Seq(Spec0!Group)
        /\ calls[n].around = AroundCall(calls, n) \o calls[n].groups
    BY <1>3, LastCall DEF Call
  <2>4. AllGroups = calls[n].around
    <3>1. AllGroups = calls[n].around \o <<>>
      BY <1>3, <2>1 DEF AllGroups, Around
    <3> QED
      BY <2>3, <3>1, ConcatEmptySeq
  <2>5. Around' = AroundCall(calls, n)
    <3>1. /\ calls' \in Seq(Call) /\ Len(calls') = n - 1
          /\ \A k \in 1..(n - 1) : calls'[k] = calls[k]
      BY <1>1, <1>3, <2>2, FrontSeq
    <3>2. CASE n = 1
      BY <2>3, <3>1, <3>2, EmptySeq DEF Around, AroundCall
    <3>3. CASE n # 1
      <4>1. calls' # <<>> /\ calls'[Len(calls')] = calls[n - 1]
        BY <2>3, <3>1, <3>3
      <4> QED
        BY <3>3, <4>1 DEF Around, AroundCall
    <3> QED
      BY <3>2, <3>3
  <2>6. AllGroups' = AllGroups
    BY <2>2, <2>3, <2>4, <2>5 DEF AllGroups
  <2>7. emitting = TRUE
    BY <2>1 DEF IncludeInv, IInv, TypeOK, StackInv, SelectedTo
  <2> QED
    BY <2>2, <2>6, <2>7 DEF Nest!vars
<1> QED
  BY <1>2, <1>3

\* The conditionals of a file and of all the files around it, taken together,
\* behave as C99 has the conditionals of one text behave: #include puts the
\* file's text where it stands, and no file opens or closes another's.
THEOREM NestIsCondSpec == Spec_Include => NestImplementsCondSpec
<1>1. Init_Include => Nest!Init
  <2> SUFFICES ASSUME Init_Include PROVE Nest!Init
    OBVIOUS
  <2>1. AllGroups = <<>> \o <<>>
    BY DEF Init_Include, Init, AllGroups, Around
  <2>2. AllGroups = <<>>
    BY <2>1, ConcatEmptySeq, EmptySeq
  <2> QED
    BY <2>2 DEF Init_Include, Init, Nest!Init
<1>2. IncludeInv /\ IncludeInv' /\ [Next_Include]_all_vars => [Nest!Next]_(Nest!vars)
  <2> SUFFICES ASSUME IncludeInv, IncludeInv', [Next_Include]_all_vars
               PROVE  [Nest!Next]_(Nest!vars)
    OBVIOUS
  <2>0. IInv /\ IInv'
    BY DEF IncludeInv
  <2>q. ASSUME UNCHANGED vars, UNCHANGED calls PROVE UNCHANGED Nest!vars
    BY <2>q DEF vars, Nest!vars, AllGroups, Around
  <2>e. ASSUME NEW why \in Errors, status = "scan", Stop(why), UNCHANGED calls PROVE Nest!Next
    <3>1. why # "scan" /\ why # "done"
      BY DEF Errors
    <3> QED
      BY <2>e, <3>1 DEF Stop, AllGroups, Around, Nest!Reject, Nest!Next
  <2>1. ASSUME NEW lost, CondLine(lost) PROVE [Nest!Next]_(Nest!vars)
    <3>1. UNCHANGED calls
      BY <2>1 DEF CondLine, Here
    <3>2. [Spec0!Next]_(Spec0!vars)
      BY <2>0, <2>1, CondLineFacts, CondStep
    <3> QED
      BY <2>1, <3>1, <3>2, CondLineFacts, NestStep
  <2>2. ASSUME NEW lost, TextLine(lost) \/ PragmaOnce(lost) PROVE UNCHANGED Nest!vars
    BY <2>q, <2>2 DEF TextLine, PragmaOnce, Here
  <2>3. ASSUME NEW lost, NEW n, NEW file, LineDirective(n, file, lost)
        PROVE  UNCHANGED Nest!vars
    BY <2>q, <2>3 DEF LineDirective
  <2>4. ASSUME SpanningCall PROVE UNCHANGED Nest!vars
    BY <2>q, <2>4 DEF SpanningCall, Here
  <2>5. ASSUME NEW lost, NEW form, NEW name, IncludeLine(form, name, lost)
        PROVE  [Nest!Next]_(Nest!vars)
    <3>0. status = "scan" /\ emitting
      BY <2>5 DEF IncludeLine
    <3>1. ASSUME Stop("bad directive"), UNCHANGED incl_vars PROVE Nest!Next
      BY <2>e, <3>0, <3>1 DEF incl_vars, Errors
    <3>2. ASSUME NEW path, Include_Once(path, lost) PROVE UNCHANGED Nest!vars
      BY <2>q, <3>2 DEF Include_Once, Here
    <3>3. ASSUME NEW path, Include_Enter(path, lost) PROVE UNCHANGED Nest!vars
      BY <3>0, <3>3, NestFileStep
    <3> QED
      BY <2>5, <3>1, <3>2, <3>3 DEF IncludeLine, Include_NotFound, Include_TooDeep
  <2>6. ASSUME EndFile PROVE [Nest!Next]_(Nest!vars)
    <3>0. status = "scan"
      BY <2>6 DEF EndFile
    <3>1. CASE Stop("missing endif") /\ UNCHANGED incl_vars
      BY <2>e, <3>0, <3>1 DEF incl_vars, Errors
    <3>2. CASE ~Unclosed /\ calls = <<>> /\ Stop("done") /\ UNCHANGED incl_vars
      <4>1. groups = <<>>
        BY <2>0, <3>2, EmptySeq DEF Unclosed, cond_depth, IInv, TypeOK, StackInv
      <4>2. AllGroups = <<>>
        BY <3>2, <4>1, ConcatEmptySeq, EmptySeq DEF AllGroups, Around
      <4>3. AllGroups' = AllGroups
        BY <3>2 DEF Stop, incl_vars, AllGroups, Around
      <4> QED
        BY <3>0, <3>2, <4>2, <4>3 DEF Stop, Nest!Accept, Nest!Next
    <3>3. CASE ~Unclosed /\ calls # <<>>
      BY <2>6, <3>0, <3>3, NestFileStep
    <3> QED
      BY <2>6, <3>1, <3>2, <3>3 DEF EndFile
  <2>7. CASE UNCHANGED all_vars
    BY <2>q, <2>7 DEF all_vars, incl_vars
  <2>8. ASSUME UnterminatedComment PROVE Nest!Next
    BY <2>e, <2>8 DEF UnterminatedComment, incl_vars, Errors
  <2> QED
    BY <2>1, <2>2, <2>3, <2>4, <2>5, <2>6, <2>7, <2>8 DEF Next_Include, Line
<1> QED
  BY <1>1, <1>2, AlwaysIncludeInv, PTL DEF Spec_Include, NestImplementsCondSpec, Nest!Spec
=============================================================================
