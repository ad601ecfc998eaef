----------------------------- MODULE MacrosProofs ---------------------------
(***************************************************************************)
(* The flags of the macro table follow the recursion of expand_macros_text,*)
(* for every set of definitions, every text and every depth.               *)
(*                                                                         *)
(* The property is not inductive: when an object-like macro's replacement  *)
(* is expanded its flag is cleared, which is right only if no other open   *)
(* call is expanding the same macro.  That no macro is expanded within     *)
(* itself (NoneTwice) is what the flag is for, and it is what has to be    *)
(* carried along.                                                          *)
(***************************************************************************)
EXTENDS Macros, SequenceTheorems, TLAPS

\* A call has the two fields the argument is about.
IsCall(f) == {"waiting", "name"} \subseteq DOMAIN f

\* Open calls: a sequence of them.
AreCalls(c) ==
    /\ c \in Seq({c[i] : i \in DOMAIN c})
    /\ \A i \in DOMAIN c : IsCall(c[i])

\* The macros whose replacement the open calls are expanding.
Expanding(c) == {c[i].name : i \in {j \in DOMAIN c : c[j].waiting = "object"}}

\* No macro is expanded within its own replacement.
NoneTwice(c) ==
    \A i, j \in DOMAIN c :
        c[i].waiting = "object" /\ c[j].waiting = "object" /\ c[i].name = c[j].name
            => i = j

\* The inductive invariant.
CallsInv ==
    /\ AreCalls(calls)
    /\ NoneTwice(calls)
    /\ disabled = Expanding(calls)

(***************************************************************************)
(* Sequences of calls.  Every step of the expansion takes one or two calls *)
(* off the end and puts others there.                                      *)
(***************************************************************************)

\* What a call adds to the macros being expanded.
Adds(f) == IF f.waiting = "object" THEN {f.name} ELSE {}

\* A call put at the end adds its own macro, and must not repeat one.
LEMMA AppendedCall ==
    ASSUME NEW c, AreCalls(c), NEW f, IsCall(f)
    PROVE  /\ AreCalls(Append(c, f))
           /\ Expanding(Append(c, f)) = Expanding(c) \cup Adds(f)
           /\ NoneTwice(Append(c, f)) <=> NoneTwice(c) /\ Expanding(c) \cap Adds(f) = {}
<1> DEFINE S == {c[i] : i \in DOMAIN c}
           T == S \cup {f}
           d == Append(c, f)
<1>1. c \in Seq(T)
  BY DEF AreCalls
<1>2. /\ Len(c) \in Nat /\ DOMAIN c = 1..Len(c)
      /\ d \in Seq(T) /\ Len(d) = Len(c) + 1 /\ DOMAIN d = 1..(Len(c) + 1)
      /\ d[Len(c) + 1] = f
      /\ \A i \in 1..Len(c) : d[i] = c[i]
  BY <1>1
<1> HIDE DEF d, T, S
<1>3. AreCalls(d)
  <2>1. d \in Seq({d[i] : i \in DOMAIN d})
    BY <1>2
  <2>2. \A i \in DOMAIN d : IsCall(d[i])
    BY <1>2 DEF AreCalls
  <2> QED
    BY <2>1, <2>2 DEF AreCalls
<1>4. Expanding(d) = Expanding(c) \cup Adds(f)
  <2>1. ASSUME NEW x \in Expanding(d) PROVE x \in Expanding(c) \cup Adds(f)
    BY <1>2, <2>1 DEF Expanding, Adds
  <2>2. ASSUME NEW x \in Expanding(c) PROVE x \in Expanding(d)
    BY <1>2, <2>2 DEF Expanding
  <2>3. ASSUME NEW x \in Adds(f) PROVE x \in Expanding(d)
    BY <1>2, <2>3 DEF Expanding, Adds
  <2> QED
    BY <2>1, <2>2, <2>3
<1>5. ASSUME NoneTwice(d) PROVE NoneTwice(c) /\ Expanding(c) \cap Adds(f) = {}
  <2>1. NoneTwice(c)
    BY <1>2, <1>5 DEF NoneTwice
  <2>2. Expanding(c) \cap Adds(f) = {}
    BY <1>2, <1>5 DEF NoneTwice, Expanding, Adds
  <2> QED
    BY <2>1, <2>2
<1>6. ASSUME NoneTwice(c), Expanding(c) \cap Adds(f) = {} PROVE NoneTwice(d)
  BY <1>2, <1>6 DEF NoneTwice, Expanding, Adds
<1> QED
  BY <1>3, <1>4, <1>5, <1>6 DEF d

\* The first m elements of a sequence.
LEMMA SubSequence ==
    ASSUME NEW S, NEW c \in Seq(S), NEW m \in Nat, m <= Len(c)
    PROVE  /\ SubSeq(c, 1, m) \in Seq(S) /\ Len(SubSeq(c, 1, m)) = m
           /\ \A i \in 1..m : SubSeq(c, 1, m)[i] = c[i]
<1>1. \A i \in 1..m : c[i] \in S
  OBVIOUS
<1>2. /\ SubSeq(c, 1, m) \in Seq(S)
      /\ Len(SubSeq(c, 1, m)) = IF 1 <= m THEN m - 1 + 1 ELSE 0
      /\ \A i \in 1..(m - 1 + 1) : SubSeq(c, 1, m)[i] = c[1 + i - 1]
  BY <1>1, SubSeqProperties
<1>3. (IF 1 <= m THEN m - 1 + 1 ELSE 0) = m /\ m - 1 + 1 = m
  OBVIOUS
<1>4. \A i \in 1..m : SubSeq(c, 1, m)[i] = c[i]
  BY <1>2
<1> QED
  BY <1>2, <1>3, <1>4, Zenon

\* A nonempty sequence is its front with its last element put at the end.
LEMMA FrontLast ==
    ASSUME NEW S, NEW c \in Seq(S), c # <<>>
    PROVE  /\ Front(c) \in Seq(S) /\ Len(Front(c)) = Len(c) - 1
           /\ \A i \in 1..(Len(c) - 1) : Front(c)[i] = c[i]
           /\ Last(c) = c[Len(c)] /\ Len(c) \in Nat /\ Len(c) > 0
           /\ c = Append(Front(c), Last(c))
<1> DEFINE d == SubSeq(c, 1, Len(c) - 1)
<1>1. Len(c) \in Nat /\ Len(c) > 0
  OBVIOUS
<1>2. Len(c) - 1 \in Nat /\ Len(c) - 1 <= Len(c)
  BY <1>1
<1>3. /\ d \in Seq(S) /\ Len(d) = Len(c) - 1
      /\ \A i \in 1..(Len(c) - 1) : d[i] = c[i]
  BY <1>2, SubSequence, Zenon
<1> HIDE DEF d
<1>4. PICK l \in S : l = c[Len(c)]
  BY <1>1
<1>5. c = Append(d, l)
  <2>1. /\ Append(d, l) \in Seq(S) /\ Len(Append(d, l)) = Len(d) + 1
        /\ \A i \in 1..Len(d) : Append(d, l)[i] = d[i]
        /\ Append(d, l)[Len(d) + 1] = l
    BY <1>3, AppendProperties
  <2>2. \A i \in 1..Len(c) : c[i] = Append(d, l)[i]
    <3> SUFFICES ASSUME NEW i \in 1..Len(c) PROVE c[i] = Append(d, l)[i]
      OBVIOUS
    <3>1. CASE i = Len(c)
      BY <1>1, <1>3, <1>4, <2>1, <3>1
    <3>2. CASE i \in 1..(Len(c) - 1)
      BY <1>1, <1>3, <2>1, <3>2
    <3>3. i = Len(c) \/ i \in 1..(Len(c) - 1)
      BY <1>1
    <3> QED
      BY <3>1, <3>2, <3>3
  <2>3. Len(Append(d, l)) = Len(c)
    BY <1>1, <1>3, <2>1
  <2> QED
    BY <2>1, <2>2, <2>3, SeqEqual
<1> QED
  BY <1>1, <1>3, <1>4, <1>5, Zenon DEF Front, Last, d

\* The same for calls.
LEMMA LastCall ==
    ASSUME NEW c, AreCalls(c), c # <<>>
    PROVE  /\ AreCalls(Front(c)) /\ IsCall(Last(c))
           /\ c = Append(Front(c), Last(c))
           /\ Len(Front(c)) = Len(c) - 1
<1>1. PICK S : c \in Seq(S)
  BY DEF AreCalls
<1>2. PICK d \in Seq(S) :
         /\ d = Front(c) /\ Len(d) = Len(c) - 1
         /\ \A i \in 1..(Len(c) - 1) : d[i] = c[i]
         /\ Last(c) = c[Len(c)] /\ Len(c) \in Nat /\ Len(c) > 0
         /\ c = Append(Front(c), Last(c))
  BY <1>1, FrontLast, Zenon
<1>3. AreCalls(d)
  <2>1. d \in Seq({d[i] : i \in DOMAIN d})
    OBVIOUS
  <2>2. \A i \in DOMAIN d : IsCall(d[i])
    BY <1>1, <1>2 DEF AreCalls
  <2> QED
    BY <2>1, <2>2 DEF AreCalls
<1>4. IsCall(c[Len(c)])
  BY <1>1, <1>2 DEF AreCalls
<1> QED
  BY <1>2, <1>3, <1>4, Zenon

(***************************************************************************)
(* The steps.                                                              *)
(***************************************************************************)

\* No call is open and no flag is set.
LEMMA NoCalls ==
    AreCalls(<<>>) /\ NoneTwice(<<>>) /\ Expanding(<<>>) = {}
  BY DEF AreCalls, NoneTwice, Expanding

\* A call that begins to scan.
LEMMA ScanIsCall ==
    ASSUME NEW text
    PROVE  IsCall(Scan(text)) /\ Adds(Scan(text)) = {}
  BY DEF IsCall, Scan, Adds

\* What the calls below the innermost one, and below its caller, know.
LEMMA Below ==
    ASSUME CallsInv, calls # <<>>, Top.waiting = "no"
    PROVE  /\ AreCalls(Rest) /\ NoneTwice(Rest) /\ disabled = Expanding(Rest)
           /\ IsCall(Top)
           /\ Len(Rest) = Len(calls) - 1
<1>1. /\ AreCalls(Rest) /\ IsCall(Top)
      /\ calls = Append(Rest, Top)
      /\ Len(Rest) = Len(calls) - 1
  BY LastCall DEF CallsInv, Rest, Top
<1>2. /\ Expanding(Append(Rest, Top)) = Expanding(Rest) \cup Adds(Top)
      /\ NoneTwice(Append(Rest, Top)) => NoneTwice(Rest)
  BY <1>1, AppendedCall
<1>3. Adds(Top) = {}
  BY DEF Adds
<1> QED
  BY <1>1, <1>2, <1>3, Zenon DEF CallsInv

LEMMA CopyKeeps ==
    ASSUME CallsInv, Copy
    PROVE  CallsInv'
<1>1. PICK f : calls' = Append(Rest, f) /\ IsCall(f) /\ Adds(f) = {}
  <2> DEFINE f == [Top EXCEPT !.in = CopyEnd(Top) + 1,
                              !.out = @ \o SubSeq(Top.text, Top.in, CopyEnd(Top))]
  <2>1. calls' = Append(Rest, f)
    BY Zenon DEF Copy
  <2>2. IsCall(f) /\ Adds(f) = {}
    BY Below DEF Copy, Scanning, IsCall, Adds
  <2> QED
    BY <2>1, <2>2
<1>2. AreCalls(Rest) /\ NoneTwice(Rest) /\ disabled' = Expanding(Rest)
  BY Below DEF Copy, Scanning
<1>3. /\ AreCalls(Append(Rest, f)) /\ NoneTwice(Append(Rest, f))
      /\ Expanding(Append(Rest, f)) = Expanding(Rest)
  <2>1. Expanding(Rest) \cap Adds(f) = {} /\ Expanding(Rest) \cup Adds(f) = Expanding(Rest)
    BY <1>1
  <2> QED
    BY <1>1, <1>2, <2>1, AppendedCall, Zenon
<1>4. AreCalls(calls') /\ NoneTwice(calls') /\ Expanding(calls') = disabled'
  BY <1>1, <1>2, <1>3, Zenon
<1> QED
  BY <1>4, Zenon DEF CallsInv

\* The calls go on as f, and a new one begins.
LEMMA CallSelfKeeps ==
    ASSUME CallsInv, Scanning, NEW f, IsCall(f), NEW text, CallSelf(f, text),
           Expanding(Rest) \cap Adds(f) = {}
    PROVE  /\ AreCalls(calls') /\ NoneTwice(calls')
           /\ Expanding(calls') = disabled \cup Adds(f)
<1>1. AreCalls(Rest) /\ NoneTwice(Rest) /\ disabled = Expanding(Rest)
  BY Below DEF Scanning
<1> DEFINE c == Append(Rest, f)
<1>2. AreCalls(c) /\ NoneTwice(c) /\ Expanding(c) = disabled \cup Adds(f)
  BY <1>1, AppendedCall
<1> HIDE DEF c
<1>3. IsCall(Scan(text)) /\ Adds(Scan(text)) = {}
  BY ScanIsCall
<1>4. /\ AreCalls(Append(c, Scan(text)))
      /\ NoneTwice(Append(c, Scan(text)))
      /\ Expanding(Append(c, Scan(text))) = Expanding(c)
  BY <1>2, <1>3, AppendedCall
<1>5. calls' = Append(c, Scan(text))
  BY DEF CallSelf, c
<1> QED
  BY <1>2, <1>4, <1>5, Zenon

LEMMA ExpandObjectKeeps ==
    ASSUME CallsInv, ExpandObject
    PROVE  CallsInv'
<1> DEFINE f == [Top EXCEPT !.in = @ + 1, !.waiting = "object", !.name = Token[1]]
           text == defs[Token[1]].repl
<1>1. Scanning /\ CallSelf(f, text)
  BY Zenon DEF ExpandObject
<1>2. disabled = Expanding(Rest) /\ IsCall(Top)
  BY <1>1, Below DEF Scanning
<1>3. IsCall(f) /\ Adds(f) = {Token[1]}
  BY <1>2 DEF IsCall, Adds
<1>4. Token[1] \notin disabled /\ disabled' = disabled \cup {Token[1]}
  BY DEF ExpandObject, Expandable
<1> HIDE DEF f, text
<1>5. Expanding(Rest) \cap Adds(f) = {}
  BY <1>2, <1>3, <1>4
<1>6. /\ AreCalls(calls') /\ NoneTwice(calls')
      /\ Expanding(calls') = disabled \cup Adds(f)
  BY <1>1, <1>3, <1>5, CallSelfKeeps
<1>7. Expanding(calls') = disabled'
  BY <1>3, <1>4, <1>6, Zenon
<1> QED
  BY <1>6, <1>7, Zenon DEF CallsInv

LEMMA InvokeKeeps ==
    ASSUME CallsInv, Invoke
    PROVE  CallsInv'
<1> DEFINE d == defs[Token[1]]
           c == collect_args(Top.text, Top.in + 2)
           f == [Top EXCEPT !.in = c.next, !.name = Token[1], !.raw = c.args,
                            !.args = <<>>, !.waiting = "arg"]
           g == [f EXCEPT !.waiting = "rescan", !.args = <<>>]
<1>1. Scanning /\ disabled' = disabled
  BY DEF Invoke
<1>2. IsCall(Top)
  BY <1>1, Below DEF Scanning
<1>3. IsCall(f) /\ Adds(f) = {}
  BY <1>2 DEF IsCall, Adds
<1>4. IsCall(g) /\ Adds(g) = {}
  BY <1>2 DEF IsCall, Adds
<1>5. \/ UNCHANGED calls
      \/ CallSelf(g, substitute_args(defs[f.name], <<>>, f.raw))
      \/ CallSelf(f, c.args[1])
  BY Zenon DEF Invoke, Rescan
<1> HIDE DEF f, g
<1>6. CASE UNCHANGED calls
  BY <1>1, <1>6, Zenon DEF CallsInv
<1>7. ASSUME NEW h, IsCall(h), Adds(h) = {}, NEW text, CallSelf(h, text)
      PROVE  CallsInv'
  <2>1. Expanding(Rest) \cap Adds(h) = {} /\ disabled \cup Adds(h) = disabled
    BY <1>7
  <2>2. /\ AreCalls(calls') /\ NoneTwice(calls')
        /\ Expanding(calls') = disabled \cup Adds(h)
    BY <1>1, <1>7, <2>1, CallSelfKeeps
  <2> QED
    BY <1>1, <2>1, <2>2, Zenon DEF CallsInv
<1> QED
  BY <1>3, <1>4, <1>5, <1>6, <1>7, Zenon

\* What lies below the caller of the innermost call.
LEMMA BelowCaller ==
    ASSUME CallsInv, calls # <<>>, Top.waiting = "no", Len(calls) > 1
    PROVE  /\ AreCalls(SubSeq(calls, 1, Len(calls) - 2)) /\ IsCall(Caller)
           /\ NoneTwice(SubSeq(calls, 1, Len(calls) - 2))
           /\ disabled = Expanding(SubSeq(calls, 1, Len(calls) - 2)) \cup Adds(Caller)
           /\ Expanding(SubSeq(calls, 1, Len(calls) - 2)) \cap Adds(Caller) = {}
<1> DEFINE back == SubSeq(calls, 1, Len(calls) - 2)
<1>1. AreCalls(Rest) /\ NoneTwice(Rest) /\ disabled = Expanding(Rest)
  BY Below
<1>2. Rest # <<>> /\ Front(Rest) = back /\ Last(Rest) = Caller
  <2>1. PICK S : calls \in Seq(S)
    BY DEF CallsInv, AreCalls
  <2>2. PICK n \in Nat : n = Len(calls) /\ n > 1
    BY <2>1
  <2>3. /\ Rest \in Seq(S) /\ Len(Rest) = n - 1
        /\ \A i \in 1..(n - 1) : Rest[i] = calls[i]
    BY <2>1, <2>2, FrontLast DEF Rest
  <2>4. Last(Rest) = Caller
    BY <2>2, <2>3 DEF Last, Caller
  <2>5. Front(Rest) = back
    <3>1. /\ Front(Rest) \in Seq(S) /\ Len(Front(Rest)) = n - 2
          /\ \A i \in 1..(n - 2) : Front(Rest)[i] = calls[i]
      BY <2>2, <2>3, FrontLast
    <3>2. /\ back \in Seq(S) /\ Len(back) = n - 2
          /\ \A i \in 1..(n - 2) : back[i] = calls[i]
      BY <2>1, <2>2, SubSequence
    <3> QED
      BY <3>1, <3>2, SeqEqual
  <2> QED
    BY <2>2, <2>3, <2>4, <2>5
<1>3. /\ AreCalls(back) /\ IsCall(Caller)
      /\ Rest = Append(back, Caller)
  BY <1>1, <1>2, LastCall
<1> HIDE DEF back
<1>4. /\ Expanding(Append(back, Caller)) = Expanding(back) \cup Adds(Caller)
      /\ NoneTwice(Append(back, Caller)) <=>
            NoneTwice(back) /\ Expanding(back) \cap Adds(Caller) = {}
  BY <1>3, AppendedCall
<1>5. /\ AreCalls(back) /\ IsCall(Caller) /\ NoneTwice(back)
      /\ disabled = Expanding(back) \cup Adds(Caller)
      /\ Expanding(back) \cap Adds(Caller) = {}
  BY <1>1, <1>3, <1>4, Zenon
<1> QED
  BY <1>5, Zenon DEF back

\* The innermost call returns to a caller that goes on as f.
LEMMA ReturnKeeps ==
    ASSUME NEW b, AreCalls(b), NoneTwice(b), NEW f, IsCall(f), Adds(f) = {}
    PROVE  /\ AreCalls(Append(b, f)) /\ NoneTwice(Append(b, f))
           /\ Expanding(Append(b, f)) = Expanding(b)
<1>1. Expanding(b) \cap Adds(f) = {} /\ Expanding(b) \cup Adds(f) = Expanding(b)
  OBVIOUS
<1> QED
  BY <1>1, AppendedCall, Zenon

\* Two calls at the end are put there one after the other.
LEMMA TwoCalls ==
    ASSUME NEW b, AreCalls(b), NEW f, NEW g
    PROVE  b \o <<f, g>> = Append(Append(b, f), g)
<1>1. PICK S : b \in Seq(S)
  BY DEF AreCalls
<1> DEFINE T == S \cup {f, g}
<1>2. b \in Seq(T) /\ f \in T /\ g \in T
  BY <1>1
<1> HIDE DEF T
<1> QED
  BY <1>2

\* For the provers that do no arithmetic.
LEMMA MoreThanOne == \A n : n > 1 => n # 1
  OBVIOUS

LEMMA FinishKeeps ==
    ASSUME CallsInv, Finish
    PROVE  CallsInv'
<1> DEFINE back == SubSeq(calls, 1, Len(calls) - 2)
           f == [Caller EXCEPT !.out = @ \o Top.out, !.waiting = "no"]
           args == Append(Caller.args, Top.out)
           g == [Caller EXCEPT !.args = args]
           h == [Caller EXCEPT !.waiting = "rescan", !.args = args]
<1>1. calls # <<>> /\ Top.waiting = "no"
  BY DEF Finish
<1>2. CASE Len(calls) = 1 /\ calls' = <<>> /\ UNCHANGED disabled
  <2>1. Len(Rest) = 0 /\ AreCalls(Rest) /\ disabled = Expanding(Rest)
    BY <1>1, <1>2, Below
  <2>2. Rest = <<>>
    BY <2>1 DEF AreCalls
  <2> QED
    BY <1>2, <2>1, <2>2, NoCalls, Zenon DEF CallsInv
<1>3. CASE Len(calls) > 1
  <2>1. /\ AreCalls(back) /\ NoneTwice(back) /\ IsCall(Caller)
        /\ disabled = Expanding(back) \cup Adds(Caller)
        /\ Expanding(back) \cap Adds(Caller) = {}
    BY <1>1, <1>3, BelowCaller
  <2>2. IsCall(f) /\ Adds(f) = {}
    BY <2>1 DEF IsCall, Adds
  <2>3. CASE /\ Caller.waiting = "object"
             /\ disabled' = Enabled(Caller.name)
             /\ calls' = Append(back, f)
    <3>1. disabled' = Expanding(back)
      BY <2>1, <2>3 DEF Enabled, Adds
    <3> HIDE DEF back, f
    <3>2. AreCalls(calls') /\ NoneTwice(calls') /\ Expanding(calls') = Expanding(back)
      BY <2>1, <2>2, <2>3, ReturnKeeps, Zenon
    <3> QED
      BY <3>1, <3>2, Zenon DEF CallsInv
  <2>4. CASE Caller.waiting = "rescan" /\ calls' = Append(back, f) /\ UNCHANGED disabled
    <3>1. disabled' = Expanding(back)
      BY <2>1, <2>4 DEF Adds
    <3> HIDE DEF back, f
    <3>2. AreCalls(calls') /\ NoneTwice(calls') /\ Expanding(calls') = Expanding(back)
      BY <2>1, <2>2, <2>4, ReturnKeeps, Zenon
    <3> QED
      BY <3>1, <3>2, Zenon DEF CallsInv
  <2>5. ASSUME NEW k, IsCall(k), Adds(k) = {}, NEW text, Caller.waiting = "arg",
               calls' = back \o <<k, Scan(text)>>, UNCHANGED disabled
        PROVE  CallsInv'
    <3>1. disabled' = Expanding(back)
      BY <2>1, <2>5 DEF Adds
    <3> HIDE DEF back
    <3>2. calls' = Append(Append(back, k), Scan(text))
      <4>1. \A x : back \o <<k, x>> = Append(Append(back, k), x)
        BY <2>1, TwoCalls
      <4> QED
        BY <2>5, <4>1
    <3>3. /\ AreCalls(Append(back, k)) /\ NoneTwice(Append(back, k))
          /\ Expanding(Append(back, k)) = Expanding(back)
      BY <2>1, <2>5, ReturnKeeps, Zenon
    <3>4. IsCall(Scan(text)) /\ Adds(Scan(text)) = {}
      BY ScanIsCall, Zenon
    <3>5. AreCalls(calls') /\ NoneTwice(calls') /\ Expanding(calls') = Expanding(back)
      BY <3>2, <3>3, <3>4, ReturnKeeps, Zenon
    <3> QED
      BY <3>1, <3>5, Zenon DEF CallsInv
  <2>6. Caller.waiting = "arg" => IsCall(g) /\ Adds(g) = {} /\ IsCall(h) /\ Adds(h) = {}
    BY <2>1 DEF IsCall, Adds
  <2>7. \/ /\ Caller.waiting = "object"
           /\ disabled' = Enabled(Caller.name)
           /\ calls' = Append(back, f)
        \/ Caller.waiting = "rescan" /\ calls' = Append(back, f) /\ UNCHANGED disabled
        \/ /\ Caller.waiting = "arg" /\ UNCHANGED disabled
           /\ calls' = back \o <<g, Scan(Caller.raw[Len(args) + 1])>>
        \/ /\ Caller.waiting = "arg" /\ UNCHANGED disabled
           /\ calls' = back \o <<h, Scan(substitute_args(defs[Caller.name], args, Caller.raw))>>
    BY <1>3, MoreThanOne, Zenon DEF Finish
  <2> HIDE DEF back, f, g, h, args
  <2> QED
    BY <2>3, <2>4, <2>5, <2>6, <2>7, Zenon
<1> QED
  BY <1>2, <1>3, Zenon DEF Finish

(***************************************************************************)
(* The theorems.                                                           *)
(***************************************************************************)
LEMMA CallsInvStep ==
    ASSUME CallsInv, [Next]_vars
    PROVE  CallsInv'
<1>1. ASSUME Idle, disabled' = disabled, NEW f, IsCall(f), Adds(f) = {}, calls' = <<f>>
      PROVE  CallsInv'
  <2>1. calls = <<>> /\ disabled = {}
    BY <1>1, NoCalls DEF Idle, CallsInv
  <2>2. <<f>> = Append(<<>>, f)
    OBVIOUS
  <2>3. AreCalls(calls') /\ NoneTwice(calls') /\ Expanding(calls') = Expanding(<<>>)
    BY <1>1, <2>2, NoCalls, ReturnKeeps, Zenon
  <2> QED
    BY <1>1, <2>1, <2>3, NoCalls, Zenon DEF CallsInv
<1>2. ASSUME NEW m \in Definitions, macro_define(m.name, m.def) \/ DefineRejected(m.def)
      PROVE  CallsInv'
  BY <1>2 DEF macro_define, DefineRejected, CallsInv
<1>3. ASSUME NEW n \in Names, macro_undef(n) PROVE CallsInv'
  BY <1>3 DEF macro_undef, CallsInv
<1>4. ASSUME NEW text \in Lines, Line(text) PROVE CallsInv'
  <2> DEFINE f == [Scan(text) EXCEPT !.file = TRUE]
  <2>1. IsCall(f) /\ Adds(f) = {}
    BY DEF IsCall, Adds, Scan
  <2>2. Idle /\ disabled' = disabled /\ calls' = <<f>>
    BY <1>4 DEF Line
  <2> HIDE DEF f
  <2> QED
    BY <1>1, <2>1, <2>2
<1>5. ASSUME NEW text \in Conditions, Condition(text) PROVE CallsInv'
  BY <1>1, <1>5, ScanIsCall DEF Condition
<1>6. CASE UNCHANGED vars
  BY <1>6 DEF vars, CallsInv
<1> QED
  BY <1>2, <1>3, <1>4, <1>5, <1>6, CopyKeeps, ExpandObjectKeeps, InvokeKeeps, FinishKeeps
     DEF Next, Expand

LEMMA CallsInvAlways == Spec => []CallsInv
<1>1. Init => CallsInv
  BY NoCalls DEF Init, CallsInv
<1> QED
  BY <1>1, CallsInvStep, PTL DEF Spec

\* The disabled flags of the macro table are exactly those of the macros that
\* the open calls of expand_macros_text are expanding, whatever is defined,
\* undefined and expanded, and in whatever order.
THEOREM FlagsFollowTheCalls == Spec => []DisabledMatchesCalls
<1>1. CallsInv => DisabledMatchesCalls
  BY DEF CallsInv, DisabledMatchesCalls, Expanding
<1> QED
  BY <1>1, CallsInvAlways, PTL

\* While a macro's replacement is expanded, at any depth below, the same
\* object-like macro is not expanded again: only as many calls can wait for a
\* replacement as there are object-like macros.
THEOREM NoMacroWithinItself == Spec => []NoneTwice(calls)
<1>1. CallsInv => NoneTwice(calls)
  BY DEF CallsInv
<1> QED
  BY <1>1, CallsInvAlways, PTL
=============================================================================
