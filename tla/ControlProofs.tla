--------------------------- MODULE ControlProofs ---------------------------
(***************************************************************************)
(* Machine-checked proofs about the execution of statements: for any       *)
(* modules, kinds of loops and number of frames, a `return`, `break` or    *)
(* `continue` ends what it is meant to end, and nothing else; and about    *)
(* cs_dbg: for any functions, lines, number of breakpoints and call depth, *)
(* the program stops where the list of breakpoints and the last command    *)
(* say.                                                                    *)
(***************************************************************************)
EXTENDS Control, Debugger, SequenceTheorems, WellFoundedInduction, TLAPS

(***************************************************************************)
(* The inductive invariant.  Either all flags are down and every frame is  *)
(* settled: it was ended by a flag only if that was meant.  Or one flag is *)
(* on its way, in the frames from its target, the loop or function to be   *)
(* ended, up to the innermost one: all of them are about to test the flags *)
(* or have just done so.                                                   *)
(***************************************************************************)
Places(g) == \* where a frame is that waits for g
    CASE g.kind = "finalizer" -> Cleaning
      [] g.kind \in Bodies \ {"finalizer"} -> Evaluating
      [] OTHER -> {"check"}

Nested(s) ==
    /\ s[1].kind \in Bodies
    /\ \A k \in 1 .. Len(s) - 1 : s[k].pc \in Places(s[k + 1])
    /\ \A j, k \in 1 .. Len(s) :
           j <= k /\ (\A m \in j + 1 .. k : s[m].kind \notin Bodies) => s[j].inst = s[k].inst

(* Only loops have heads and rounds, and interpret() throws no lang_error. *)
FrameOK(f) ==
    /\ f.pc \in {"init", "cond", "step", "clear"} => f.kind \in Loops
    /\ f.kind = "program" => f.why # "lang"

Shape(s) ==
    /\ s \in Seq(Frame) /\ s # <<>>
    /\ Nested(s)
    /\ \A k \in 1 .. Len(s) : FrameOK(s[k])

Settled(f) ==
    /\ f.why = "flag" => \/ f.pc = "leave" /\ f.over = "all"
                         \/ f.pc \in {"step", "clear"} /\ f.over = "round"
    /\ f.over = "all" => f.why = "flag"
    /\ f.over = "round" => f.why = "flag" \/ Failed(f)
    /\ Failed(f) => f.pc = "leave"

Raised(i, flag) == [j \in Instances |-> IF j = i THEN [NoFlags EXCEPT ![flag] = TRUE] ELSE NoFlags]

Taker(f, flag) ==
    /\ f.kind \in (IF flag = "ret" THEN Functions ELSE Loops)
    /\ f.over = (IF flag = "cont" THEN "round" ELSE "all")

Passed(f, flag) ==
    /\ f.kind \in (IF flag = "ret" THEN Blocks \cup Loops ELSE Blocks)
    /\ f.over = "all"

Testing(f) == f.pc = "check" /\ f.why = "end"

(* The flag of instance i is on its way through s to the frame at t.       *)
OnItsWay(s, i, flag, t) ==
    /\ t \in 1 .. Len(s)
    /\ Taker(s[t], flag) /\ Testing(s[t])
    /\ \A k \in 1 .. Len(s) :
           /\ k < t => Settled(s[k])
           /\ k >= t => s[k].inst = i
           /\ k > t => /\ Passed(s[k], flag)
                       /\ \/ Testing(s[k])
                          \/ k = Len(s) /\ s[k].pc = "leave" /\ s[k].why = "flag"

Sound(s) == Shape(s) /\ \A k \in 1 .. Len(s) : Settled(s[k])

Quiet == FlagsDown /\ Sound(Stack)

Jumping ==
    /\ Shape(Stack)
    /\ \E i \in Instances, flag \in {"ret", "brk", "cont"}, t \in 1 .. Len(Stack) :
           flags = Raised(i, flag) /\ OnItsWay(Stack, i, flag, t)

ContextsOK ==
    /\ frames \in [Contexts -> Seq(Frame)]
    /\ ctl \in Contexts /\ ready \in SUBSET Instances
    /\ flags \in [Instances -> [ret : BOOLEAN, brk : BOOLEAN, cont : BOOLEAN]]
    /\ frames[Main] # <<>>
    /\ \A c \in Contexts \ {ctl} : frames[c] # <<>> =>
           Sound(frames[c]) /\ Last(frames[c]).pc \in Evaluating

ControlIInv == ContextsOK /\ (Quiet \/ Jumping)
-----------------------------------------------------------------------------
(* A set of positions has a last one, which Max chooses.                   *)
LEMMA MaxOfPositions ==
    ASSUME NEW n \in Nat, NEW S \in SUBSET (0 .. n), S # {}
    PROVE  Max(S) \in S /\ \A x \in S : x <= Max(S)
<1> DEFINE below == {n - x : x \in S}
<1>1. below \in SUBSET Nat /\ below # {}
  OBVIOUS
<1>2. PICK y \in below : \A z \in below : ~ (<<z, y>> \in OpToRel(<, Nat))
  BY <1>1, NatLessThanWellFounded, WFMin
<1>3. ASSUME NEW z \in below PROVE y <= z
  <2>1. <<z, y>> \in Nat \X Nat /\ <<z, y>>[1] = z /\ <<z, y>>[2] = y
    BY <1>1
  <2>2. z < y => <<z, y>> \in OpToRel(<, Nat)
    BY <2>1, Zenon DEF OpToRel
  <2>3. ~ (z < y)
    BY <1>2, <2>2, Zenon
  <2> QED
    BY <1>1, <2>3
<1>4. PICK x \in S : y = n - x
  OBVIOUS
<1>5. \A w \in S : x >= w
  <2> SUFFICES ASSUME NEW w \in S PROVE x >= w
    OBVIOUS
  <2>1. n - w \in below
    OBVIOUS
  <2>2. n - x <= n - w
    BY <1>3, <1>4, <2>1
  <2>3. w \in Nat /\ x \in Nat
    OBVIOUS
  <2> HIDE DEF below
  <2> QED
    BY <2>2, <2>3
<1> HIDE DEF below
<1>6. \E m \in S : \A w \in S : m >= w
  BY <1>5
<1>7. Max(S) \in S /\ \A w \in S : Max(S) >= w
  BY <1>6, Zenon DEF Max
<1> QED
  BY <1>7

(* The innermost frame of a stack.                                         *)
LEMMA TopOfStack ==
    ASSUME NEW s \in Seq(Frame), s # <<>>
    PROVE  /\ Len(s) \in Nat \ {0} /\ DOMAIN s = 1 .. Len(s)
           /\ Last(s) = s[Len(s)] /\ Last(s) \in Frame
           /\ \A k \in 1 .. Len(s) : s[k] \in Frame
BY EmptySeq, LenProperties, ElementOfSeq DEF Last

(* A call pushes a frame.                                                  *)
LEMMA PushedStack ==
    ASSUME NEW s \in Seq(Frame), s # <<>>, NEW f \in Frame
    PROVE  /\ Append(s, f) \in Seq(Frame) /\ Append(s, f) # <<>>
           /\ Len(s) \in Nat \ {0} /\ Len(Append(s, f)) = Len(s) + 1
           /\ \A k \in 1 .. Len(s) : Append(s, f)[k] = s[k]
           /\ Append(s, f)[Len(s) + 1] = f
BY TopOfStack, AppendProperties

(* The end of a call takes it away again.                                  *)
LEMMA PoppedStack ==
    ASSUME NEW s \in Seq(Frame), s # <<>>
    PROVE  /\ Front(s) \in Seq(Frame) /\ Len(Front(s)) = Len(s) - 1
           /\ Len(s) \in Nat \ {0}
           /\ \A k \in 1 .. Len(s) - 1 : Front(s)[k] = s[k]
<1>1. Len(s) \in Nat \ {0} /\ DOMAIN s = 1 .. Len(s)
  BY TopOfStack
<1>2. /\ Front(s) \in Seq(Frame) /\ Len(Front(s)) = Len(s) - 1
      /\ \A k \in 1 .. (Len(s) - 1) : Front(s)[k] = s[k]
  BY <1>1, SubSeqProperties DEF Front
<1> QED
  BY <1>1, <1>2

(* A step inside a frame changes the innermost one only.                   *)
LEMMA SteppedStack ==
    ASSUME NEW s \in Seq(Frame), s # <<>>, NEW f \in Frame
    PROVE  /\ Append(Front(s), f) \in Seq(Frame) /\ Append(Front(s), f) # <<>>
           /\ Len(s) \in Nat \ {0} /\ Len(Append(Front(s), f)) = Len(s)
           /\ \A k \in 1 .. Len(s) - 1 : Append(Front(s), f)[k] = s[k]
           /\ Append(Front(s), f)[Len(s)] = f
<1> DEFINE r == Front(s)
<1>1. r \in Seq(Frame) /\ Len(r) = Len(s) - 1 /\ Len(s) \in Nat \ {0}
      /\ \A k \in 1 .. Len(s) - 1 : r[k] = s[k]
  BY PoppedStack
<1> HIDE DEF r
<1>2. /\ Append(r, f) \in Seq(Frame) /\ Len(Append(r, f)) = Len(r) + 1
      /\ \A k \in 1 .. Len(r) : Append(r, f)[k] = r[k]
      /\ Append(r, f)[Len(r) + 1] = f /\ Append(r, f) # <<>>
  BY <1>1, AppendProperties
<1> QED
  BY <1>1, <1>2 DEF r
-----------------------------------------------------------------------------
(* What the steps do to the shape of a stack.  A callee belongs to the     *)
(* instance of its caller unless it is a body of its own.                  *)
LEMMA PushKeepsShape ==
    ASSUME NEW s, Shape(s), NEW f \in Frame, FrameOK(f),
           Last(s).pc \in Places(f), f.kind \notin Bodies => f.inst = Last(s).inst
    PROVE  Shape(Append(s, f))
<1> DEFINE r == Append(s, f)
<1>1. /\ s \in Seq(Frame) /\ s # <<>> /\ Nested(s)
      /\ \A k \in 1 .. Len(s) : FrameOK(s[k])
  BY DEF Shape
<1>2. /\ r \in Seq(Frame) /\ r # <<>> /\ Len(s) \in Nat \ {0} /\ Len(r) = Len(s) + 1
      /\ \A k \in 1 .. Len(s) : r[k] = s[k]
      /\ r[Len(s) + 1] = f /\ Last(s) = s[Len(s)]
  BY <1>1, PushedStack, TopOfStack
<1> HIDE DEF r
<1>3. \A k \in 1 .. Len(r) - 1 : r[k].pc \in Places(r[k + 1])
  <2> SUFFICES ASSUME NEW k \in 1 .. Len(r) - 1 PROVE r[k].pc \in Places(r[k + 1])
    OBVIOUS
  <2>1. CASE k = Len(s)
    <3>1. r[k] = Last(s) /\ r[k + 1] = f
      BY <1>2, <2>1
    <3> QED
      BY <3>1
  <2>2. CASE k # Len(s)
    <3>1. k \in 1 .. Len(s) - 1 /\ r[k] = s[k] /\ r[k + 1] = s[k + 1]
      BY <1>2, <2>2
    <3> QED
      BY <1>1, <3>1 DEF Nested
  <2> QED
    BY <2>1, <2>2
<1>4. ASSUME NEW j \in 1 .. Len(r), NEW k \in 1 .. Len(r), j <= k,
             \A m \in j + 1 .. k : r[m].kind \notin Bodies
      PROVE  r[j].inst = r[k].inst
  <2>1. CASE k <= Len(s)
    <3>1. \A m \in j + 1 .. k : s[m].kind \notin Bodies
      BY <1>2, <1>4, <2>1
    <3>2. j \in 1 .. Len(s) /\ k \in 1 .. Len(s) /\ r[j] = s[j] /\ r[k] = s[k]
      BY <1>2, <1>4, <2>1
    <3> QED
      BY <1>1, <1>4, <3>1, <3>2 DEF Nested
  <2>2. CASE k = Len(s) + 1 /\ j < k
    <3>1. f.kind \notin Bodies
      BY <1>2, <1>4, <2>2
    <3>2. \A m \in j + 1 .. Len(s) : s[m].kind \notin Bodies
      BY <1>2, <1>4, <2>2
    <3>3. j \in 1 .. Len(s) /\ r[j] = s[j] /\ r[k] = f /\ j <= Len(s) /\ Len(s) \in 1 .. Len(s)
      BY <1>2, <1>4, <2>2
    <3>4. s[j].inst = s[Len(s)].inst
      BY <1>1, <3>2, <3>3 DEF Nested
    <3> QED
      BY <1>2, <3>1, <3>3, <3>4
  <2>3. CASE j = k
    BY <2>3
  <2> QED
    BY <1>2, <1>4, <2>1, <2>2, <2>3
<1>5. \A k \in 1 .. Len(r) : FrameOK(r[k])
  <2> SUFFICES ASSUME NEW k \in 1 .. Len(r) PROVE FrameOK(r[k])
    OBVIOUS
  <2>1. (k \in 1 .. Len(s) /\ r[k] = s[k]) \/ r[k] = f
    BY <1>2
  <2> QED
    BY <1>1, <2>1
<1>6. r[1].kind \in Bodies
  BY <1>1, <1>2 DEF Nested
<1> QED
  BY <1>2, <1>3, <1>4, <1>5, <1>6 DEF Shape, Nested, r

(* A frame stays a frame of the same statement or body.                    *)
SameCall(f, g) ==
    /\ f.inst = g.inst
    /\ \/ f.kind = g.kind
       \/ f.kind = "catch" /\ g.kind = "try"

LEMMA SameCallSamePlaces ==
    ASSUME NEW f, NEW g, SameCall(f, g)
    PROVE  Places(f) = Places(g) /\ (f.kind \in Bodies <=> g.kind \in Bodies)
BY DEF SameCall, Places, Bodies, Functions

(* Only the innermost frame moves.                                         *)
LEMMA ChangeKeepsShape ==
    ASSUME NEW s, Shape(s), NEW r \in Seq(Frame), Len(r) = Len(s),
           \A k \in 1 .. Len(s) : SameCall(r[k], s[k]) /\ FrameOK(r[k]),
           \A k \in 1 .. Len(s) - 1 : r[k].pc = s[k].pc
    PROVE  Shape(r)
<1>1. /\ s \in Seq(Frame) /\ Nested(s) /\ Len(s) \in Nat \ {0}
  BY TopOfStack DEF Shape
<1>2. r # <<>>
  BY <1>1, EmptySeq
<1>3. r[1].kind \in Bodies
  BY <1>1, SameCallSamePlaces DEF Nested
<1>4. ASSUME NEW k \in 1 .. Len(r) - 1 PROVE r[k].pc \in Places(r[k + 1])
  <2>1. k \in 1 .. Len(s) - 1 /\ k + 1 \in 1 .. Len(s)
    BY <1>1
  <2>2. Places(r[k + 1]) = Places(s[k + 1])
    BY <2>1, SameCallSamePlaces
  <2> QED
    BY <1>1, <2>1, <2>2 DEF Nested
<1>5. ASSUME NEW j \in 1 .. Len(r), NEW k \in 1 .. Len(r), j <= k,
             \A m \in j + 1 .. k : r[m].kind \notin Bodies
      PROVE  r[j].inst = r[k].inst
  <2>1. \A m \in j + 1 .. k : s[m].kind \notin Bodies
    BY <1>1, <1>5, SameCallSamePlaces
  <2>2. s[j].inst = s[k].inst
    BY <1>1, <1>5, <2>1 DEF Nested
  <2> QED
    BY <2>2 DEF SameCall
<1> QED
  BY <1>2, <1>3, <1>4, <1>5 DEF Shape, Nested

LEMMA PopKeepsShape ==
    ASSUME NEW s, Shape(s), Len(s) > 1
    PROVE  Shape(Front(s)) /\ Last(Front(s)) = s[Len(s) - 1]
<1> DEFINE r == Front(s)
<1>1. s \in Seq(Frame) /\ Nested(s) /\ s # <<>> /\ \A k \in 1 .. Len(s) : FrameOK(s[k])
  BY DEF Shape
<1>2. /\ r \in Seq(Frame) /\ Len(r) = Len(s) - 1 /\ Len(s) \in Nat \ {0}
      /\ \A k \in 1 .. Len(s) - 1 : r[k] = s[k]
  BY <1>1, PoppedStack
<1>3. r # <<>>
  BY <1>2, EmptySeq
<1>4. Last(r) = s[Len(s) - 1]
  BY <1>2, <1>3, TopOfStack
<1> HIDE DEF r
<1>5. r[1].kind \in Bodies
  BY <1>1, <1>2 DEF Nested
<1>6. ASSUME NEW k \in 1 .. Len(r) - 1 PROVE r[k].pc \in Places(r[k + 1])
  <2>1. k \in 1 .. Len(s) - 1 /\ r[k] = s[k] /\ r[k + 1] = s[k + 1]
    BY <1>2
  <2> QED
    BY <1>1, <2>1 DEF Nested
<1>7. ASSUME NEW j \in 1 .. Len(r), NEW k \in 1 .. Len(r), j <= k,
             \A m \in j + 1 .. k : r[m].kind \notin Bodies
      PROVE  r[j].inst = r[k].inst
  <2>1. \A m \in j + 1 .. k : s[m].kind \notin Bodies
    BY <1>2, <1>7
  <2>2. j \in 1 .. Len(s) /\ k \in 1 .. Len(s) /\ r[j] = s[j] /\ r[k] = s[k]
    BY <1>2
  <2>3. s[j].inst = s[k].inst
    BY <1>1, <1>7, <2>1, <2>2 DEF Nested
  <2> QED
    BY <2>2, <2>3
<1>8. \A k \in 1 .. Len(r) : FrameOK(r[k])
  BY <1>1, <1>2
<1> QED
  BY <1>2, <1>3, <1>4, <1>5, <1>6, <1>7, <1>8 DEF Shape, Nested, r

(* The innermost frame moves on.                                           *)
LEMMA StepKeepsShape ==
    ASSUME NEW s, Shape(s), NEW f \in Frame, FrameOK(f), SameCall(f, Last(s))
    PROVE  Shape(Append(Front(s), f)) /\ Last(Append(Front(s), f)) = f
<1> DEFINE r == Append(Front(s), f)
<1>1. s \in Seq(Frame) /\ s # <<>> /\ \A k \in 1 .. Len(s) : FrameOK(s[k])
  BY DEF Shape
<1>2. /\ r \in Seq(Frame) /\ r # <<>> /\ Len(s) \in Nat \ {0} /\ Len(r) = Len(s)
      /\ \A k \in 1 .. Len(s) - 1 : r[k] = s[k]
      /\ r[Len(s)] = f /\ Last(s) = s[Len(s)]
  BY <1>1, SteppedStack, TopOfStack
<1>3. Last(r) = f
  BY <1>2, TopOfStack
<1> HIDE DEF r
<1>4. ASSUME NEW k \in 1 .. Len(s) PROVE SameCall(r[k], s[k]) /\ FrameOK(r[k])
  <2>1. CASE k = Len(s)
    BY <1>2, <2>1
  <2>2. CASE k # Len(s)
    <3>1. r[k] = s[k]
      BY <1>2, <2>2
    <3> QED
      BY <1>1, <3>1 DEF SameCall
  <2> QED
    BY <2>1, <2>2
<1>5. \A k \in 1 .. Len(s) - 1 : r[k].pc = s[k].pc
  BY <1>2
<1>6. Shape(r)
  BY <1>2, <1>4, <1>5, ChangeKeepsShape
<1> QED
  BY <1>3, <1>6 DEF r
-----------------------------------------------------------------------------
(* The same for the settled stacks.                                        *)
LEMMA PushKeepsSound ==
    ASSUME NEW s, Sound(s), NEW f \in Frame, FrameOK(f), Settled(f),
           Last(s).pc \in Places(f), f.kind \notin Bodies => f.inst = Last(s).inst
    PROVE  Sound(Append(s, f))
<1>1. Shape(Append(s, f))
  BY PushKeepsShape DEF Sound
<1>2. /\ Len(s) \in Nat \ {0} /\ Len(Append(s, f)) = Len(s) + 1
      /\ \A k \in 1 .. Len(s) : Append(s, f)[k] = s[k]
      /\ Append(s, f)[Len(s) + 1] = f
  BY PushedStack DEF Sound, Shape
<1>3. ASSUME NEW k \in 1 .. Len(s) + 1 PROVE Settled(Append(s, f)[k])
  <2>1. (k \in 1 .. Len(s) /\ Append(s, f)[k] = s[k]) \/ Append(s, f)[k] = f
    BY <1>2
  <2> QED
    BY <2>1 DEF Sound
<1> QED
  BY <1>1, <1>2, <1>3 DEF Sound

LEMMA StepKeepsSound ==
    ASSUME NEW s, Sound(s), NEW f \in Frame, FrameOK(f), Settled(f), SameCall(f, Last(s))
    PROVE  Sound(Append(Front(s), f)) /\ Last(Append(Front(s), f)) = f
<1>1. Shape(Append(Front(s), f)) /\ Last(Append(Front(s), f)) = f
  BY StepKeepsShape DEF Sound
<1>2. /\ Len(s) \in Nat \ {0} /\ Len(Append(Front(s), f)) = Len(s)
      /\ \A k \in 1 .. Len(s) - 1 : Append(Front(s), f)[k] = s[k]
      /\ Append(Front(s), f)[Len(s)] = f
  BY SteppedStack DEF Sound, Shape
<1>3. ASSUME NEW k \in 1 .. Len(s) PROVE Settled(Append(Front(s), f)[k])
  <2>1. (k \in 1 .. Len(s) /\ Append(Front(s), f)[k] = s[k]) \/ Append(Front(s), f)[k] = f
    BY <1>2
  <2> QED
    BY <2>1 DEF Sound
<1> QED
  BY <1>1, <1>2, <1>3 DEF Sound

LEMMA PopKeepsSound ==
    ASSUME NEW s, Sound(s), Len(s) > 1
    PROVE  Sound(Front(s)) /\ Last(Front(s)) = s[Len(s) - 1]
<1>1. Shape(Front(s)) /\ Last(Front(s)) = s[Len(s) - 1]
  BY PopKeepsShape DEF Sound
<1>2. /\ Len(s) \in Nat \ {0} /\ Len(Front(s)) = Len(s) - 1
      /\ \A k \in 1 .. Len(s) - 1 : Front(s)[k] = s[k]
  BY PoppedStack DEF Sound, Shape
<1> QED
  BY <1>1, <1>2 DEF Sound

(* An exception that arrives at a statement or an expression.              *)
LEMMA UnwoundIsSound ==
    ASSUME NEW s, Sound(s), Last(s).pc \in Evaluating \cup {"check"},
           NEW why \in {"lang", "fatal"}
    PROVE  Sound(Unwound(s, why))
<1> DEFINE f == Last(s)
           g == IF f.kind = "try" /\ why = "lang"
                THEN [f EXCEPT !.kind = "catch", !.pc = "reset"]
                ELSE [f EXCEPT !.pc = "leave",
                               !.why = IF f.kind = "program" THEN "fatal" ELSE why]
<1>1. f \in Frame /\ Settled(f) /\ FrameOK(f)
  BY TopOfStack DEF Sound, Shape
<1>2. g \in Frame
  BY <1>1 DEF Frame, Kinds, Blocks, Cleaning
<1>3. SameCall(g, f)
  BY <1>1 DEF SameCall, Frame
<1>4. Settled(g) /\ FrameOK(g)
  BY <1>1 DEF Settled, FrameOK, Failed, Frame, Evaluating, Loops
<1>5. Unwound(s, why) = Append(Front(s), g)
  BY DEF Unwound
<1> HIDE DEF g
<1> QED
  BY <1>2, <1>3, <1>4, <1>5, StepKeepsSound
-----------------------------------------------------------------------------
(* The body a statement belongs to: the frames from there on belong to one *)
(* instance.                                                               *)
LEMMA BodyOfStack ==
    ASSUME NEW s, Shape(s)
    PROVE  /\ BodyOf(s) \in 1 .. Len(s) /\ s[BodyOf(s)].kind \in Bodies
           /\ \A k \in 1 .. Len(s) :
                  /\ k > BodyOf(s) => s[k].kind \notin Bodies
                  /\ k >= BodyOf(s) => s[k].inst = Last(s).inst
<1> DEFINE S == {k \in 1 .. Len(s) : s[k].kind \in Bodies}
<1>1. Nested(s) /\ Len(s) \in Nat \ {0} /\ Last(s) = s[Len(s)]
  BY TopOfStack DEF Shape
<1>2. 1 \in S /\ S \in SUBSET (0 .. Len(s))
  BY <1>1 DEF Nested
<1>3. Max(S) \in S /\ \A x \in S : x <= Max(S)
  BY <1>1, <1>2, MaxOfPositions
<1>4. BodyOf(s) = Max(S)
  BY <1>2 DEF BodyOf, SelectLastInSeq
<1>5. /\ BodyOf(s) \in 1 .. Len(s) /\ s[BodyOf(s)].kind \in Bodies
      /\ \A k \in 1 .. Len(s) : k > BodyOf(s) => s[k].kind \notin Bodies
  <2>1. BodyOf(s) \in S /\ \A x \in S : x <= BodyOf(s)
    BY <1>3, <1>4
  <2> HIDE DEF S
  <2>2. ASSUME NEW k \in 1 .. Len(s), k > BodyOf(s) PROVE k \notin S
    <3>1. BodyOf(s) \in 0 .. Len(s)
      BY <1>2, <2>1
    <3>2. ~ (k <= BodyOf(s))
      BY <1>1, <2>2, <3>1
    <3> QED
      BY <2>1, <3>2
  <2> QED
    BY <2>1, <2>2 DEF S
<1>6. ASSUME NEW k \in 1 .. Len(s), k >= BodyOf(s) PROVE s[k].inst = s[Len(s)].inst
  <2>1. \A m \in k + 1 .. Len(s) : s[m].kind \notin Bodies
    BY <1>1, <1>5, <1>6
  <2> QED
    BY <1>1, <2>1 DEF Nested
<1> QED
  BY <1>1, <1>5, <1>6

(* The loop around a statement: only blocks are between the two.           *)
LEMMA LoopOfStack ==
    ASSUME NEW s, Shape(s), LoopOf(s) # 0
    PROVE  /\ LoopOf(s) \in BodyOf(s) .. Len(s) /\ s[LoopOf(s)].kind \in Loops
           /\ \A k \in 1 .. Len(s) : k > LoopOf(s) => s[k].kind \in Blocks
<1> DEFINE b == BodyOf(s)
           S == {k \in b .. Len(s) : s[k].kind \in Loops}
<1>1. s \in Seq(Frame) /\ Len(s) \in Nat \ {0} /\ \A k \in 1 .. Len(s) : s[k] \in Frame
  BY TopOfStack DEF Shape
<1>2. b \in 1 .. Len(s) /\ \A k \in 1 .. Len(s) : k > b => s[k].kind \notin Bodies
  BY BodyOfStack
<1>3. LoopOf(s) = IF S # {} THEN Max(S) ELSE 0
  BY DEF LoopOf, SelectLastInSubSeq
<1> HIDE DEF b
<1>4. S # {} /\ S \in SUBSET (0 .. Len(s))
  BY <1>1, <1>2, <1>3
<1>5. Max(S) \in S /\ \A x \in S : x <= Max(S)
  BY <1>1, <1>4, MaxOfPositions
<1>6. LoopOf(s) = Max(S)
  BY <1>3, <1>4
<1>7. LoopOf(s) \in b .. Len(s) /\ s[LoopOf(s)].kind \in Loops
  BY <1>5, <1>6
<1>8. ASSUME NEW k \in 1 .. Len(s), k > LoopOf(s) PROVE s[k].kind \in Blocks
  <2>1. k \in b .. Len(s) /\ k \notin S /\ k > b
    BY <1>1, <1>2, <1>5, <1>6, <1>7, <1>8
  <2>2. s[k].kind \in Kinds /\ s[k].kind \notin Loops /\ s[k].kind \notin Bodies
    BY <1>1, <1>2, <2>1 DEF Frame
  <2> QED
    BY <2>2 DEF Kinds
<1> QED
  BY <1>7, <1>8 DEF b
-----------------------------------------------------------------------------
(* Where the flags are down, and what becomes of the invariant then.       *)
LEMMA JumpsAreTested ==
    ASSUME Jumping
    PROVE  Stack # <<>> /\ Top.pc \in {"check", "leave"}
<1>1. Stack # <<>> /\ Len(Stack) \in Nat \ {0} /\ Top = Stack[Len(Stack)]
  BY TopOfStack DEF Jumping, Shape, Top
<1>2. PICK i \in Instances, flag \in {"ret", "brk", "cont"}, t \in 1 .. Len(Stack) :
          OnItsWay(Stack, i, flag, t)
  BY DEF Jumping
<1>3. CASE t = Len(Stack)
  BY <1>1, <1>2, <1>3 DEF OnItsWay, Testing
<1>4. CASE t # Len(Stack)
  BY <1>1, <1>2, <1>4 DEF OnItsWay, Testing
<1> QED
  BY <1>1, <1>3, <1>4

LEMMA QuietElsewhere ==
    ASSUME ControlIInv, Stack # <<>> => Top.pc \notin {"check", "leave"}
    PROVE  ContextsOK /\ Quiet
BY JumpsAreTested DEF ControlIInv

LEMMA ExpressionsAreQuiet ==
    ASSUME ControlIInv, AtExpression
    PROVE  /\ ContextsOK /\ Quiet /\ Sound(Stack) /\ FlagsDown
           /\ Stack # <<>> /\ Top.pc \in Evaluating
<1>1. Stack # <<>> /\ Top.pc \in Evaluating
  BY DEF AtExpression
<1>2. ContextsOK /\ Quiet
  BY <1>1, QuietElsewhere DEF Evaluating
<1> QED
  BY <1>1, <1>2 DEF Quiet

LEMMA StatementsAreQuiet ==
    ASSUME ControlIInv, NEW pc \in {"body", "init", "cond", "step", "clear", "reset"}, At(pc)
    PROVE  /\ ContextsOK /\ Quiet /\ Sound(Stack) /\ FlagsDown
           /\ Stack # <<>> /\ Top.pc = pc /\ Top \in Frame
           /\ Settled(Top) /\ FrameOK(Top)
<1>1. Stack # <<>> /\ Top.pc = pc
  BY DEF At
<1>2. ContextsOK /\ Quiet
  BY <1>1, QuietElsewhere
<1>3. Sound(Stack) /\ FlagsDown
  BY <1>2 DEF Quiet
<1> QED
  BY <1>1, <1>2, <1>3, TopOfStack DEF Sound, Shape, Top

LEMMA StacksChange ==
    ASSUME ContextsOK, NEW s, Shape(s), ctl' = ctl,
           frames' = [frames EXCEPT ![ctl] = s],
           ready' \in SUBSET Instances,
           flags' \in [Instances -> [ret : BOOLEAN, brk : BOOLEAN, cont : BOOLEAN]]
    PROVE  ContextsOK' /\ Stack' = s
<1>1. s \in Seq(Frame) /\ s # <<>>
  BY DEF Shape
<1>2. /\ frames \in [Contexts -> Seq(Frame)] /\ ctl \in Contexts
      /\ \A c \in Contexts \ {ctl} : frames[c] # <<>> =>
             Sound(frames[c]) /\ Last(frames[c]).pc \in Evaluating
      /\ frames[Main] # <<>>
  BY DEF ContextsOK
<1>3. frames' \in [Contexts -> Seq(Frame)] /\ frames'[ctl] = s
  BY <1>1, <1>2
<1>4. \A c \in Contexts \ {ctl} : frames'[c] = frames[c]
  BY <1>2
<1>5. frames'[Main] # <<>>
  BY <1>1, <1>2, <1>3, <1>4 DEF Contexts
<1> QED
  BY <1>2, <1>3, <1>4, <1>5 DEF ContextsOK, Stack

LEMMA KeepsQuiet ==
    ASSUME ContextsOK, NEW s, Sound(s), ctl' = ctl,
           frames' = [frames EXCEPT ![ctl] = s],
           ready' \in SUBSET Instances,
           flags' = [j \in Instances |-> NoFlags]
    PROVE  ControlIInv'
<1>1. flags' \in [Instances -> [ret : BOOLEAN, brk : BOOLEAN, cont : BOOLEAN]]
  BY DEF NoFlags
<1>2. ContextsOK' /\ Stack' = s
  BY <1>1, StacksChange DEF Sound
<1>3. FlagsDown'
  BY DEF FlagsDown
<1> QED
  BY <1>2, <1>3 DEF ControlIInv, Quiet

LEMMA GoesOn ==
    ASSUME ContextsOK, NEW s, Shape(s), ctl' = ctl,
           frames' = [frames EXCEPT ![ctl] = s],
           ready' \in SUBSET Instances,
           NEW i \in Instances, NEW flag \in {"ret", "brk", "cont"},
           NEW t \in 1 .. Len(s),
           OnItsWay(s, i, flag, t), flags' = Raised(i, flag)
    PROVE  ControlIInv'
<1>1. flags' \in [Instances -> [ret : BOOLEAN, brk : BOOLEAN, cont : BOOLEAN]]
  BY DEF NoFlags, Raised
<1>2. ContextsOK' /\ Stack' = s
  BY <1>1, StacksChange
<1> QED
  BY <1>2 DEF ControlIInv, Jumping

(* Flags that are down are all NoFlags; raising one makes one Raised.      *)
LEMMA FlagsOfInstances ==
    ASSUME ContextsOK, FlagsDown
    PROVE  /\ flags = [j \in Instances |-> NoFlags]
           /\ \A i \in Instances :
                  /\ [flags EXCEPT ![i].ret = TRUE] = Raised(i, "ret")
                  /\ [flags EXCEPT ![i].brk = TRUE] = Raised(i, "brk")
                  /\ [flags EXCEPT ![i].cont = TRUE] = Raised(i, "cont")
                  /\ [flags EXCEPT ![i] = EntryFlags(@)] = flags
                  /\ [flags EXCEPT ![i] = NoFlags] = flags
<1>1. flags \in [Instances -> [ret : BOOLEAN, brk : BOOLEAN, cont : BOOLEAN]]
  BY DEF ContextsOK
<1>2. flags = [j \in Instances |-> NoFlags]
  BY <1>1 DEF FlagsDown
<1>3. \A i \in Instances : flags[i] = NoFlags
  BY <1>2
<1>4. EntryFlags(NoFlags) = NoFlags
  <2>1. /\ NoFlags \in [ret : BOOLEAN, brk : BOOLEAN, cont : BOOLEAN]
        /\ NoFlags.brk = FALSE /\ NoFlags.cont = FALSE
    BY DEF NoFlags
  <2> QED
    BY <2>1 DEF EntryFlags
<1>5. ASSUME NEW i \in Instances
      PROVE  /\ [flags EXCEPT ![i] = EntryFlags(@)] = flags
             /\ [flags EXCEPT ![i] = NoFlags] = flags
  BY <1>2, <1>3, <1>4
<1>6. ASSUME NEW i \in Instances
      PROVE  /\ [flags EXCEPT ![i].ret = TRUE] = Raised(i, "ret")
             /\ [flags EXCEPT ![i].brk = TRUE] = Raised(i, "brk")
             /\ [flags EXCEPT ![i].cont = TRUE] = Raised(i, "cont")
  BY <1>2, <1>3 DEF Raised, NoFlags
<1> QED
  BY <1>2, <1>5, <1>6

LEMMA FlagsGoDown ==
    ASSUME NEW i \in Instances, NEW flag \in {"ret", "brk", "cont"}, flags = Raised(i, flag)
    PROVE  /\ [flags EXCEPT ![i][flag] = FALSE] = [j \in Instances |-> NoFlags]
           /\ flags[i] = [NoFlags EXCEPT ![flag] = TRUE]
           /\ \A f \in {"ret", "brk", "cont"} : flags[i][f] <=> f = flag
BY DEF Raised, NoFlags
-----------------------------------------------------------------------------
(* The innermost frame while no flag is up.                                *)
LEMMA RunningFrames ==
    ASSUME NEW f \in Frame, Settled(f), f.pc \notin {"leave", "step", "clear"}
    PROVE  f.why = "end" /\ f.over = "no"
BY DEF Settled, Failed, Frame

LEMMA NewFramesAreSettled ==
    ASSUME NEW kind \in Kinds, NEW i \in Instances, NEW pc \in {"body", "init", "cond"},
           pc \in {"init", "cond"} => kind \in Loops
    PROVE  LET f == NewFrame(kind, i, pc)
           IN  f \in Frame /\ FrameOK(f) /\ Settled(f)
BY DEF NewFrame, Frame, FrameOK, Settled, Failed, Evaluating

LEMMA QuietPush ==
    ASSUME ContextsOK, FlagsDown, Sound(Stack),
           NEW f \in Frame, FrameOK(f), Settled(f),
           Top.pc \in Places(f), f.kind \notin Bodies => f.inst = Top.inst,
           Push(f), UNCHANGED <<ctl, flags, ready>>
    PROVE  ControlIInv'
<1>1. Sound(Append(Stack, f))
  BY PushKeepsSound DEF Top
<1>2. frames' = [frames EXCEPT ![ctl] = Append(Stack, f)]
  BY DEF Push, Stack
<1>3. flags' = [j \in Instances |-> NoFlags] /\ ready' \in SUBSET Instances
  BY FlagsOfInstances DEF ContextsOK
<1> QED
  BY <1>1, <1>2, <1>3, KeepsQuiet

LEMMA QuietStep ==
    ASSUME ContextsOK, FlagsDown, Sound(Stack),
           NEW f \in Frame, FrameOK(f), Settled(f), SameCall(f, Top),
           ReplaceTop(f), UNCHANGED <<ctl, flags, ready>>
    PROVE  ControlIInv'
<1>1. Sound(Append(Front(Stack), f))
  BY StepKeepsSound DEF Top
<1>2. frames' = [frames EXCEPT ![ctl] = Append(Front(Stack), f)]
  BY DEF ReplaceTop, Stack
<1>3. flags' = [j \in Instances |-> NoFlags] /\ ready' \in SUBSET Instances
  BY FlagsOfInstances DEF ContextsOK
<1> QED
  BY <1>1, <1>2, <1>3, KeepsQuiet

(* The steps of an expression.                                             *)
LEMMA CallStep ==
    ASSUME ControlIInv, NEW i \in Instances, Call(i)
    PROVE  ControlIInv'
<1> DEFINE f == NewFrame("function", i, "body")
<1>1. /\ ContextsOK /\ FlagsDown /\ Sound(Stack) /\ Top.pc \in Evaluating
      /\ Push(f) /\ UNCHANGED <<ctl, flags, ready>>
  BY ExpressionsAreQuiet DEF Call
<1>2. f \in Frame /\ FrameOK(f) /\ Settled(f)
  BY NewFramesAreSettled DEF Kinds, Bodies, Functions
<1>3. f.kind \in Bodies /\ Places(f) = Evaluating
  BY DEF NewFrame, Bodies, Functions, Places
<1> HIDE DEF f
<1> QED
  BY <1>1, <1>2, <1>3, QuietPush

LEMMA ImportStep ==
    ASSUME ControlIInv, NEW i \in Instances, Import(i)
    PROVE  ControlIInv'
<1> DEFINE f == NewFrame("program", i, "body")
<1>1. /\ ContextsOK /\ FlagsDown /\ Sound(Stack) /\ Top.pc \in Evaluating
      /\ Push(f) /\ UNCHANGED <<ctl, flags, ready>>
  BY ExpressionsAreQuiet DEF Import
<1>2. f \in Frame /\ FrameOK(f) /\ Settled(f)
  BY NewFramesAreSettled DEF Kinds, Bodies, Functions
<1>3. f.kind \in Bodies /\ Places(f) = Evaluating
  BY DEF NewFrame, Bodies, Functions, Places
<1> HIDE DEF f
<1> QED
  BY <1>1, <1>2, <1>3, QuietPush

LEMMA StartFiberStep ==
    ASSUME ControlIInv, NEW i \in Instances, StartFiber(i)
    PROVE  ControlIInv'
<1> DEFINE f == NewFrame("function", i, "body")
<1>1. /\ ContextsOK /\ FlagsDown /\ Sound(Stack) /\ Stack # <<>> /\ Top.pc \in Evaluating
      /\ ctl = Main /\ frames' = [frames EXCEPT ![Fiber] = <<f>>] /\ ctl' = Fiber
      /\ UNCHANGED <<flags, ready>>
  BY ExpressionsAreQuiet DEF StartFiber
<1>2. f \in Frame /\ FrameOK(f) /\ Settled(f) /\ f.kind \in Bodies
  <2>1. f.kind \in Bodies
    BY DEF NewFrame, Bodies, Functions
  <2> QED
    BY <2>1, NewFramesAreSettled DEF Kinds, Bodies, Functions
<1> HIDE DEF f
<1>3. Sound(<<f>>)
  BY <1>2 DEF Sound, Shape, Nested
<1>4. /\ frames' \in [Contexts -> Seq(Frame)] /\ frames'[Fiber] = <<f>>
      /\ frames'[Main] = Stack
  BY <1>1, <1>2, ControlAssumption DEF ContextsOK, Contexts, Stack
<1>5. ContextsOK'
  BY <1>1, <1>3, <1>4 DEF ContextsOK, Contexts, Top
<1>6. Quiet'
  BY <1>1, <1>3, <1>4 DEF Quiet, Stack, FlagsDown
<1> QED
  BY <1>5, <1>6 DEF ControlIInv

LEMMA SwitchStep ==
    ASSUME ControlIInv, NEW c \in Contexts, SwitchTo(c)
    PROVE  ControlIInv'
<1>1. /\ ContextsOK /\ FlagsDown /\ Sound(Stack) /\ Stack # <<>> /\ Top.pc \in Evaluating
      /\ c # ctl /\ frames[c] # <<>> /\ ctl' = c
      /\ UNCHANGED <<frames, flags, ready>>
  BY ExpressionsAreQuiet DEF SwitchTo
<1>2. Sound(frames[c])
  BY <1>1 DEF ContextsOK
<1>3. ASSUME NEW d \in Contexts \ {c}, frames[d] # <<>>
      PROVE  Sound(frames[d]) /\ Last(frames[d]).pc \in Evaluating
  BY <1>1, <1>3 DEF ContextsOK, Stack, Top
<1>4. ContextsOK'
  BY <1>1, <1>3 DEF ContextsOK
<1>5. Quiet'
  BY <1>1, <1>2 DEF Quiet, Stack, FlagsDown
<1> QED
  BY <1>4, <1>5 DEF ControlIInv

LEMMA RaiseStep ==
    ASSUME ControlIInv, NEW why \in {"lang", "fatal"}, Raise(why)
    PROVE  ControlIInv'
<1>1. /\ ContextsOK /\ FlagsDown /\ Sound(Stack) /\ Top.pc \in Evaluating
      /\ frames' = [frames EXCEPT ![ctl] = Unwound(Stack, why)]
      /\ UNCHANGED <<ctl, flags, ready>>
  BY ExpressionsAreQuiet DEF Raise, Stack
<1>2. Sound(Unwound(Stack, why))
  BY <1>1, UnwoundIsSound DEF Top
<1>3. flags' = [j \in Instances |-> NoFlags] /\ ready' \in SUBSET Instances
  BY <1>1, FlagsOfInstances DEF ContextsOK
<1> QED
  BY <1>1, <1>2, <1>3, KeepsQuiet
-----------------------------------------------------------------------------
(* The steps of a frame that goes on.                                      *)
LEMMA GotoKeepsCalls ==
    ASSUME NEW f \in Frame, NEW pc \in Evaluating \cup Cleaning \cup {"check"}
    PROVE  LET g == Goto(f, pc)
           IN  /\ g \in Frame /\ SameCall(g, f) /\ g.pc = pc
               /\ g.kind = f.kind /\ g.inst = f.inst /\ g.why = f.why /\ g.over = f.over
BY DEF Goto, Frame, SameCall

LEMMA QuietGoto ==
    ASSUME ContextsOK, FlagsDown, Sound(Stack), Top \in Frame, FrameOK(Top),
           Top.why = "end", Top.over = "no",
           NEW pc \in Evaluating \cup Cleaning \cup {"check"},
           pc \in {"init", "cond", "step", "clear"} => Top.kind \in Loops,
           ReplaceTop(Goto(Top, pc)), UNCHANGED <<ctl, flags, ready>>
    PROVE  ControlIInv'
<1> DEFINE g == Goto(Top, pc)
<1>1. /\ g \in Frame /\ SameCall(g, Top) /\ g.pc = pc
      /\ g.kind = Top.kind /\ g.inst = Top.inst /\ g.why = "end" /\ g.over = "no"
  BY GotoKeepsCalls
<1> HIDE DEF g
<1>2. FrameOK(g) /\ Settled(g)
  BY <1>1 DEF FrameOK, Settled, Failed
<1> QED
  BY <1>1, <1>2, QuietStep DEF g

LEMMA StatementStep ==
    ASSUME ControlIInv, Statement
    PROVE  ControlIInv'
BY StatementsAreQuiet, RunningFrames, QuietGoto DEF Statement

LEMMA EndOfBodyStep ==
    ASSUME ControlIInv, EndOfBody
    PROVE  ControlIInv'
<1>1. IF Top.kind \in Loops THEN RoundEnd(Top.kind) \in {"step", "clear"} ELSE TRUE
  BY DEF RoundEnd
<1>2. PICK pc \in {"step", "clear", "leave"} :
          /\ pc # "leave" => Top.kind \in Loops
          /\ ReplaceTop(Goto(Top, pc))
  BY <1>1 DEF EndOfBody
<1>3. pc \in Evaluating \cup Cleaning \cup {"check"}
  BY DEF Evaluating, Cleaning
<1> QED
  BY <1>2, <1>3, StatementsAreQuiet, RunningFrames, QuietGoto DEF EndOfBody

LEMMA LoopHeadStep ==
    ASSUME ControlIInv, LoopHead
    PROVE  ControlIInv'
<1>1. PICK pc \in {"init", "cond", "step"} : At(pc)
  BY DEF LoopHead, At
<1>2. /\ ContextsOK /\ FlagsDown /\ Sound(Stack)
      /\ Top \in Frame /\ Settled(Top) /\ FrameOK(Top) /\ Top.pc = pc
  BY <1>1, StatementsAreQuiet
<1>3. PICK next \in {"cond", "body", "leave", "clear"} :
          /\ ReplaceTop(Goto(Top, next))
          /\ (Top.pc = "step") <=> (next = "clear")
  BY DEF LoopHead
<1>4. Top.kind \in Loops
  BY <1>1, <1>2 DEF FrameOK
<1>5. next \in Evaluating \cup Cleaning \cup {"check"}
  BY DEF Evaluating, Cleaning
<1>6. UNCHANGED <<ctl, flags, ready>>
  BY DEF LoopHead
<1>7. CASE Top.pc # "step"
  <2>1. Top.why = "end" /\ Top.over = "no"
    BY <1>1, <1>2, <1>7, RunningFrames
  <2> QED
    BY <1>2, <1>3, <1>4, <1>5, <1>6, <2>1, QuietGoto
<1>8. CASE Top.pc = "step"
  <2> DEFINE g == Goto(Top, "clear")
  <2>1. /\ g \in Frame /\ SameCall(g, Top) /\ g.pc = "clear"
        /\ g.kind = Top.kind /\ g.inst = Top.inst /\ g.why = Top.why /\ g.over = Top.over
    BY <1>2, GotoKeepsCalls DEF Cleaning
  <2>2. ReplaceTop(g)
    BY <1>3, <1>8
  <2> HIDE DEF g
  <2>3. FrameOK(g) /\ Settled(g)
    BY <1>2, <1>4, <1>8, <2>1 DEF FrameOK, Settled, Failed
  <2> QED
    BY <1>2, <1>6, <2>1, <2>2, <2>3, QuietStep
<1> QED
  BY <1>7, <1>8

LEMMA NextRoundStep ==
    ASSUME ControlIInv, NextRound
    PROVE  ControlIInv'
<1> DEFINE g == [Top EXCEPT !.pc = IF Top.kind = "loop" THEN "body" ELSE "cond",
                            !.why = "end",
                            !.over = IF @ = "round" THEN "no" ELSE @]
<1>1. /\ ContextsOK /\ FlagsDown /\ Sound(Stack)
      /\ Top \in Frame /\ Settled(Top) /\ FrameOK(Top) /\ Top.pc = "clear"
  BY StatementsAreQuiet DEF NextRound
<1>2. ReplaceTop(g) /\ UNCHANGED <<ctl, flags, ready>>
  BY DEF NextRound
<1>3. Top.kind \in Loops
  BY <1>1 DEF FrameOK
<1>4. Top.over # "all"
  BY <1>1 DEF Settled
<1>5. /\ g \in Frame /\ g.kind = Top.kind /\ g.inst = Top.inst
      /\ g.pc \in {"body", "cond"} /\ g.why = "end" /\ g.over = "no"
  BY <1>1, <1>4 DEF Frame, Evaluating
<1> HIDE DEF g
<1>6. FrameOK(g) /\ Settled(g) /\ SameCall(g, Top)
  BY <1>3, <1>5 DEF FrameOK, Settled, Failed, SameCall
<1> QED
  BY <1>1, <1>2, <1>5, <1>6, QuietStep

LEMMA CatchStep ==
    ASSUME ControlIInv, Catch
    PROVE  ControlIInv'
<1>1. "body" \in Evaluating \cup Cleaning \cup {"check"}
  BY DEF Evaluating
<1> QED
  BY <1>1, StatementsAreQuiet, RunningFrames, QuietGoto DEF Catch

(* A compound statement begins: its parent will test the flags.            *)
LEMMA QuietEnter ==
    ASSUME ContextsOK, FlagsDown, Sound(Stack), Top \in Frame, FrameOK(Top), Top.pc = "body",
           Top.why = "end", Top.over = "no",
           NEW f \in Frame, FrameOK(f), Settled(f), f.inst = Top.inst,
           f.kind \in Blocks \cup Loops,
           Enter(f), UNCHANGED <<ctl, flags, ready>>
    PROVE  ControlIInv'
<1> DEFINE g == Goto(Top, "check")
           r == Append(Front(Stack), g)
<1>1. /\ g \in Frame /\ SameCall(g, Top) /\ g.pc = "check"
      /\ g.kind = Top.kind /\ g.inst = Top.inst /\ g.why = "end" /\ g.over = "no"
  BY GotoKeepsCalls
<1>2. frames' = [frames EXCEPT ![ctl] = r \o <<f>>]
  BY DEF Enter, Stack
<1> HIDE DEF g
<1>3. FrameOK(g) /\ Settled(g)
  BY <1>1 DEF FrameOK, Settled, Failed
<1>4. Sound(r) /\ Last(r) = g
  BY <1>1, <1>3, StepKeepsSound DEF Top
<1> HIDE DEF r
<1>5. f.kind \notin Bodies /\ Places(f) = {"check"}
  BY DEF Places, Bodies, Functions, Blocks, Loops
<1>6. Sound(Append(r, f))
  BY <1>1, <1>4, <1>5, PushKeepsSound
<1>7. r \o <<f>> = Append(r, f)
  BY <1>4, AppendIsConcat DEF Sound, Shape
<1>8. flags' = [j \in Instances |-> NoFlags] /\ ready' \in SUBSET Instances
  BY FlagsOfInstances DEF ContextsOK
<1> QED
  BY <1>2, <1>6, <1>7, <1>8, KeepsQuiet

LEMMA EnterBlockStep ==
    ASSUME ControlIInv, NEW kind \in {"block", "try"}, EnterBlock(kind)
    PROVE  ControlIInv'
<1> DEFINE f == NewFrame(kind, Top.inst, "body")
<1>1. /\ ContextsOK /\ FlagsDown /\ Sound(Stack)
      /\ Top \in Frame /\ Settled(Top) /\ FrameOK(Top) /\ Top.pc = "body"
  BY StatementsAreQuiet DEF EnterBlock
<1>2. Top.why = "end" /\ Top.over = "no" /\ Top.inst \in Instances
  BY <1>1, RunningFrames DEF Frame
<1>3. f \in Frame /\ FrameOK(f) /\ Settled(f)
  BY <1>2, NewFramesAreSettled DEF Kinds, Blocks
<1>4. f.inst = Top.inst /\ f.kind \in Blocks \cup Loops
  BY DEF NewFrame, Blocks
<1>5. Enter(f) /\ UNCHANGED <<ctl, flags, ready>>
  BY DEF EnterBlock
<1> HIDE DEF f
<1> QED
  BY <1>1, <1>2, <1>3, <1>4, <1>5, QuietEnter

LEMMA EnterLoopStep ==
    ASSUME ControlIInv, NEW kind \in LoopKinds, EnterLoop(kind)
    PROVE  ControlIInv'
<1> DEFINE f == NewFrame(kind, Top.inst, FirstOf(kind))
<1>1. /\ ContextsOK /\ FlagsDown /\ Sound(Stack)
      /\ Top \in Frame /\ Settled(Top) /\ FrameOK(Top) /\ Top.pc = "body"
  BY StatementsAreQuiet DEF EnterLoop
<1>2. Top.why = "end" /\ Top.over = "no" /\ Top.inst \in Instances
  BY <1>1, RunningFrames DEF Frame
<1>3. kind \in Loops /\ FirstOf(kind) \in {"body", "init", "cond"}
  BY ControlAssumption DEF FirstOf
<1>4. f \in Frame /\ FrameOK(f) /\ Settled(f)
  BY <1>2, <1>3, NewFramesAreSettled DEF Kinds
<1>5. f.inst = Top.inst /\ f.kind \in Blocks \cup Loops
  BY <1>3 DEF NewFrame
<1>6. Enter(f) /\ UNCHANGED <<ctl, flags, ready>>
  BY <1>1, <1>2, FlagsOfInstances DEF EnterLoop
<1> HIDE DEF f
<1> QED
  BY <1>1, <1>2, <1>4, <1>5, <1>6, QuietEnter
-----------------------------------------------------------------------------
(* The beginning of a jump.                                                *)
Jumped(s, target, extent) ==
    [k \in DOMAIN s |->
        LET f == IF k = Len(s) THEN Goto(s[k], "check") ELSE s[k]
        IN  IF k > target THEN [f EXCEPT !.over = "all"]
            ELSE IF k = target THEN [f EXCEPT !.over = extent] ELSE f]

LEMMA JumpBegins ==
    ASSUME ControlIInv, At("body"), NEW t \in 1 .. Len(Stack),
           NEW flag \in {"ret", "brk", "cont"},
           NEW extent, extent = (IF flag = "cont" THEN "round" ELSE "all"),
           Stack[t].kind \in (IF flag = "ret" THEN Functions ELSE Loops),
           \A k \in 1 .. Len(Stack) :
               /\ k >= t => Stack[k].inst = Top.inst
               /\ k > t => Stack[k].kind \in (IF flag = "ret" THEN Blocks \cup Loops ELSE Blocks),
           frames' = [frames EXCEPT ![ctl] = Jumped(Stack, t, extent)],
           flags' = Raised(Top.inst, flag), UNCHANGED <<ctl, ready>>
    PROVE  ControlIInv'
<1> DEFINE r == Jumped(Stack, t, extent)
           n == Len(Stack)
<1>1. /\ ContextsOK /\ FlagsDown /\ Sound(Stack) /\ Stack # <<>> /\ Top.pc = "body"
      /\ Top \in Frame /\ Settled(Top) /\ FrameOK(Top) /\ Top.inst \in Instances
  BY StatementsAreQuiet DEF Frame
<1>2. /\ n \in Nat \ {0} /\ DOMAIN Stack = 1 .. n /\ Top = Stack[n]
      /\ \A k \in 1 .. n : Stack[k] \in Frame /\ FrameOK(Stack[k]) /\ Settled(Stack[k])
      /\ Nested(Stack)
  BY <1>1, TopOfStack DEF Sound, Shape, Top
<1>3. extent \in {"round", "all"}
  OBVIOUS
<1>0. n \in Nat \ {0} /\ t \in 1 .. n
  BY <1>2
(* The frames from the target on wait for a statement, except the last.    *)
<1>4. ASSUME NEW k \in 1 .. n, k >= t, k # n PROVE Stack[k].pc = "check"
  <2>1. k \in 1 .. n - 1 /\ k + 1 \in 1 .. n /\ k + 1 > t
    BY <1>0, <1>4
  <2>2. Stack[k + 1].kind \in Blocks \cup Loops
    BY <2>1
  <2>3. Stack[k].pc \in Places(Stack[k + 1])
    BY <1>2, <2>1 DEF Nested
  <2> QED
    BY <2>2, <2>3 DEF Places, Bodies, Functions, Blocks, Loops
<1>5. ASSUME NEW k \in 1 .. n
      PROVE  /\ r[k] \in Frame /\ SameCall(r[k], Stack[k])
             /\ r[k].kind = Stack[k].kind /\ r[k].inst = Stack[k].inst /\ r[k].why = Stack[k].why
             /\ r[k].pc = IF k = n THEN "check" ELSE Stack[k].pc
             /\ r[k].over = IF k > t THEN "all" ELSE IF k = t THEN extent ELSE Stack[k].over
  <2> DEFINE g == IF k = n THEN Goto(Stack[k], "check") ELSE Stack[k]
  <2>1. /\ g \in Frame /\ SameCall(g, Stack[k])
        /\ g.kind = Stack[k].kind /\ g.inst = Stack[k].inst /\ g.why = Stack[k].why
        /\ g.pc = (IF k = n THEN "check" ELSE Stack[k].pc) /\ g.over = Stack[k].over
    BY <1>2, GotoKeepsCalls DEF SameCall
  <2>2. r[k] = IF k > t THEN [g EXCEPT !.over = "all"]
               ELSE IF k = t THEN [g EXCEPT !.over = extent] ELSE g
    BY <1>2 DEF Jumped
  <2> HIDE DEF r, g
  <2> QED
    BY <1>3, <2>1, <2>2 DEF Frame, SameCall
<1>6. r \in Seq(Frame) /\ Len(r) = n
  <2>1. r = [k \in 1 .. n |-> r[k]]
    BY <1>2 DEF Jumped
  <2> HIDE DEF r
  <2> QED
    BY <1>2, <1>5, <2>1, SeqDef, LenProperties
<1> HIDE DEF r
<1>7. \A k \in 1 .. n - 1 : r[k].pc = Stack[k].pc
  <2> SUFFICES ASSUME NEW k \in 1 .. n - 1 PROVE r[k].pc = Stack[k].pc
    OBVIOUS
  <2>1. k \in 1 .. n /\ k # n
    BY <1>0
  <2> QED
    BY <1>5, <2>1
<1>8. \A k \in 1 .. n : SameCall(r[k], Stack[k]) /\ FrameOK(r[k])
  BY <1>2, <1>5 DEF FrameOK
<1>9. Shape(r)
  BY <1>1, <1>6, <1>7, <1>8, ChangeKeepsShape DEF Sound
<1>10. \A k \in 1 .. n : k >= t => Testing(r[k])
  <2> SUFFICES ASSUME NEW k \in 1 .. n, k >= t PROVE Testing(r[k])
    OBVIOUS
  <2>1. Stack[k].why = "end"
    <3>1. Stack[k].pc \in {"check", "body"}
      BY <1>1, <1>2, <1>4
    <3> QED
      BY <1>2, <3>1, RunningFrames
  <2> QED
    BY <1>4, <1>5, <2>1 DEF Testing
<1>11. \A k \in 1 .. n : k > t => Passed(r[k], flag)
  BY <1>5 DEF Passed
<1>12. Taker(r[t], flag)
  <2>1. ~ (t > t)
    BY <1>0
  <2>2. r[t].kind = Stack[t].kind /\ r[t].over = extent
    BY <1>0, <1>5, <2>1
  <2> QED
    BY <2>2 DEF Taker
<1>13. ASSUME NEW k \in 1 .. n, k < t PROVE Settled(r[k])
  <2>1. k # n /\ ~ (k > t) /\ k # t
    BY <1>0, <1>13
  <2>2. r[k].why = Stack[k].why /\ r[k].pc = Stack[k].pc /\ r[k].over = Stack[k].over
    BY <1>5, <2>1
  <2>3. Settled(Stack[k])
    BY <1>2
  <2> QED
    BY <2>2, <2>3 DEF Settled, Failed
<1>14. \A k \in 1 .. n : k >= t => r[k].inst = Top.inst
  BY <1>5
<1>15. OnItsWay(r, Top.inst, flag, t)
  BY <1>6, <1>10, <1>11, <1>12, <1>13, <1>14 DEF OnItsWay
<1> QED
  BY <1>1, <1>6, <1>9, <1>15, GoesOn DEF r, ContextsOK

LEMMA BreakStep ==
    ASSUME ControlIInv, Break
    PROVE  ControlIInv'
<1> DEFINE t == LoopOf(Stack)
<1>1. /\ At("body") /\ t # 0 /\ UNCHANGED <<ctl, ready>>
      /\ frames' = [frames EXCEPT ![ctl] = Jumped(Stack, t, "all")]
      /\ flags' = [flags EXCEPT ![Top.inst].brk = TRUE]
  BY DEF Break, JumpTo, Jumped, Stack
<1>2. ContextsOK /\ FlagsDown /\ Shape(Stack) /\ Top.inst \in Instances
  BY <1>1, StatementsAreQuiet DEF Sound, Frame
<1>3. /\ t \in BodyOf(Stack) .. Len(Stack) /\ Stack[t].kind \in Loops
      /\ \A k \in 1 .. Len(Stack) : k > t => Stack[k].kind \in Blocks
  BY <1>1, <1>2, LoopOfStack
<1>4. /\ BodyOf(Stack) \in 1 .. Len(Stack)
      /\ \A k \in 1 .. Len(Stack) : k >= BodyOf(Stack) => Stack[k].inst = Top.inst
  BY <1>2, BodyOfStack DEF Top
<1> HIDE DEF t
<1>5. Len(Stack) \in Nat
  BY <1>2, TopOfStack DEF Shape
<1>6. /\ t \in 1 .. Len(Stack)
      /\ \A k \in 1 .. Len(Stack) : k >= t => Stack[k].inst = Top.inst
  BY <1>3, <1>4, <1>5
<1>7. flags' = Raised(Top.inst, "brk")
  BY <1>1, <1>2, FlagsOfInstances
<1> QED
  BY <1>1, <1>3, <1>6, <1>7, JumpBegins

LEMMA ContinueStep ==
    ASSUME ControlIInv, Continue
    PROVE  ControlIInv'
<1> DEFINE t == LoopOf(Stack)
<1>1. /\ At("body") /\ t # 0 /\ UNCHANGED <<ctl, ready>>
      /\ frames' = [frames EXCEPT ![ctl] = Jumped(Stack, t, "round")]
      /\ flags' = [flags EXCEPT ![Top.inst].cont = TRUE]
  BY DEF Continue, JumpTo, Jumped, Stack
<1>2. ContextsOK /\ FlagsDown /\ Shape(Stack) /\ Top.inst \in Instances
  BY <1>1, StatementsAreQuiet DEF Sound, Frame
<1>3. /\ t \in BodyOf(Stack) .. Len(Stack) /\ Stack[t].kind \in Loops
      /\ \A k \in 1 .. Len(Stack) : k > t => Stack[k].kind \in Blocks
  BY <1>1, <1>2, LoopOfStack
<1>4. /\ BodyOf(Stack) \in 1 .. Len(Stack)
      /\ \A k \in 1 .. Len(Stack) : k >= BodyOf(Stack) => Stack[k].inst = Top.inst
  BY <1>2, BodyOfStack DEF Top
<1> HIDE DEF t
<1>5. Len(Stack) \in Nat
  BY <1>2, TopOfStack DEF Shape
<1>6. /\ t \in 1 .. Len(Stack)
      /\ \A k \in 1 .. Len(Stack) : k >= t => Stack[k].inst = Top.inst
  BY <1>3, <1>4, <1>5
<1>7. flags' = Raised(Top.inst, "cont")
  BY <1>1, <1>2, FlagsOfInstances
<1> QED
  BY <1>1, <1>3, <1>6, <1>7, JumpBegins

LEMMA ReturnStep ==
    ASSUME ControlIInv, Return, ~ ModuleReturns
    PROVE  ControlIInv'
<1> DEFINE b == BodyOf(Stack)
<1>1. /\ ContextsOK /\ FlagsDown /\ Sound(Stack) /\ Stack # <<>> /\ Top.pc = "body"
      /\ Top.inst \in Instances /\ At("body") /\ Shape(Stack) /\ UNCHANGED <<ctl, ready>>
  BY StatementsAreQuiet DEF Return, Sound, Frame
<1>2. /\ b \in 1 .. Len(Stack) /\ Stack[b].kind \in Bodies
      /\ \A k \in 1 .. Len(Stack) :
             /\ k > b => Stack[k].kind \notin Bodies
             /\ k >= b => Stack[k].inst = Top.inst
  BY <1>1, BodyOfStack DEF Top
<1>3. CASE ValueStackEmpty
  <2>1. frames' = [frames EXCEPT ![ctl] = Unwound(Stack, "fatal")] /\ UNCHANGED flags
    BY <1>3 DEF Return, Stack
  <2>2. Sound(Unwound(Stack, "fatal"))
    BY <1>1, UnwoundIsSound DEF Top, Evaluating
  <2>3. flags' = [j \in Instances |-> NoFlags] /\ ready' \in SUBSET Instances
    BY <1>1, <2>1, FlagsOfInstances DEF ContextsOK
  <2> QED
    BY <1>1, <2>1, <2>2, <2>3, KeepsQuiet
<1>4. CASE ~ ValueStackEmpty
  <2>1. ~ AtTopLevel
    BY <1>4 DEF Return
  <2>2. Stack[b].kind \in Functions
    BY <1>2, <2>1 DEF AtTopLevel, Bodies
  <2>3. /\ frames' = [frames EXCEPT ![ctl] = Jumped(Stack, b, "all")]
        /\ flags' = [flags EXCEPT ![Top.inst].ret = TRUE]
    BY <1>4, <2>1 DEF Return, JumpTo, Jumped, Stack
  <2>4. flags' = Raised(Top.inst, "ret")
    BY <1>1, <2>3, FlagsOfInstances
  <2> HIDE DEF b
  <2>5. \A k \in 1 .. Len(Stack) : k > b => Stack[k].kind \in Blocks \cup Loops
    BY <1>1, <1>2, TopOfStack DEF Shape, Frame, Kinds
  <2> QED
    BY <1>1, <1>2, <2>2, <2>3, <2>4, <2>5, JumpBegins
<1> QED
  BY <1>3, <1>4
-----------------------------------------------------------------------------
(* The tests of the flags.  While a flag is up, the innermost frame is the *)
(* target or one that the jump passes.                                     *)
LEMMA QuietProceed ==
    ASSUME ContextsOK, Quiet, At("check"), Proceed, UNCHANGED <<ctl, flags, ready>>
    PROVE  ControlIInv'
<1>1. /\ FlagsDown /\ Sound(Stack) /\ Top.pc = "check"
      /\ Top \in Frame /\ Settled(Top) /\ FrameOK(Top)
  BY TopOfStack DEF Quiet, At, Sound, Shape, Top
<1>2. Top.why = "end" /\ Top.over = "no"
  BY <1>1, RunningFrames
<1>3. "body" \in Evaluating \cup Cleaning \cup {"check"}
  BY DEF Evaluating
<1> QED
  BY <1>1, <1>2, <1>3, QuietGoto DEF Proceed

LEMMA QuietFlags ==
    ASSUME FlagsDown, NEW i \in Instances
    PROVE  ~ flags[i].ret /\ ~ flags[i].brk /\ ~ flags[i].cont
BY DEF FlagsDown, NoFlags

(* A flag that is on its way at the end of a stack.                        *)
LEMMA EndOfTheWay ==
    ASSUME Shape(Stack), NEW i \in Instances, NEW flag \in {"ret", "brk", "cont"},
           NEW t \in 1 .. Len(Stack),
           flags = Raised(i, flag), OnItsWay(Stack, i, flag, t)
    PROVE  /\ Top \in Frame /\ Top = Stack[Len(Stack)] /\ Top.inst = i
           /\ FrameOK(Top) /\ Len(Stack) \in Nat \ {0}
           /\ t = Len(Stack) => Taker(Top, flag) /\ Testing(Top)
           /\ t # Len(Stack) =>
                  /\ t < Len(Stack) /\ Passed(Top, flag)
                  /\ Testing(Top) \/ (Top.pc = "leave" /\ Top.why = "flag")
           /\ FlagsHere.ret <=> flag = "ret"
           /\ FlagsHere.brk <=> flag = "brk"
           /\ FlagsHere.cont <=> flag = "cont"
<1>1. /\ Len(Stack) \in Nat \ {0} /\ Top = Stack[Len(Stack)] /\ Top \in Frame
      /\ FrameOK(Top)
  BY TopOfStack DEF Shape, Top
<1>2. Top.inst = i
  BY <1>1 DEF OnItsWay
<1>3. t = Len(Stack) => Taker(Top, flag) /\ Testing(Top)
  BY <1>1 DEF OnItsWay
<1>4. t # Len(Stack) =>
          /\ t < Len(Stack) /\ Passed(Top, flag)
          /\ Testing(Top) \/ (Top.pc = "leave" /\ Top.why = "flag")
  BY <1>1 DEF OnItsWay
<1>5. \A f \in {"ret", "brk", "cont"} : flags[i][f] <=> f = flag
  BY FlagsGoDown
<1> QED
  BY <1>1, <1>2, <1>3, <1>4, <1>5 DEF FlagsHere

(* The target ends its body or its round and lowers the flag.              *)
LEMMA TargetIsReached ==
    ASSUME ContextsOK, Shape(Stack), NEW i \in Instances,
           NEW flag \in {"ret", "brk", "cont"},
           flags = Raised(i, flag), OnItsWay(Stack, i, flag, Len(Stack)),
           NEW pc \in {"leave", "step", "clear"}, EarlyEnd(pc),
           flag = "cont" <=> pc # "leave",
           flags' = [flags EXCEPT ![i][flag] = FALSE], UNCHANGED <<ctl, ready>>
    PROVE  ControlIInv'
<1> DEFINE f == [Top EXCEPT !.pc = pc, !.why = "flag"]
           r == Append(Front(Stack), f)
           n == Len(Stack)
<1>1. /\ n \in Nat \ {0} /\ Top = Stack[n] /\ Top \in Frame /\ FrameOK(Top)
      /\ Taker(Top, flag) /\ Stack # <<>> /\ Stack \in Seq(Frame) /\ Top = Last(Stack)
  BY TopOfStack DEF Shape, Top, OnItsWay
<1>2. /\ f \in Frame /\ f.pc = pc /\ f.why = "flag" /\ f.over = Top.over
      /\ f.kind = Top.kind /\ f.inst = Top.inst
  BY <1>1 DEF Frame, Cleaning, Evaluating
<1>3. frames' = [frames EXCEPT ![ctl] = r]
  BY DEF EarlyEnd, ReplaceTop, Stack
<1> HIDE DEF f
<1>4. SameCall(f, Top) /\ FrameOK(f) /\ Settled(f)
  BY <1>1, <1>2 DEF SameCall, FrameOK, Settled, Failed, Taker
<1>5. Shape(r)
  BY <1>1, <1>2, <1>4, StepKeepsShape
<1>6. Len(r) = n /\ r[n] = f /\ \A k \in 1 .. n - 1 : r[k] = Stack[k]
  BY <1>1, <1>2, SteppedStack
<1> HIDE DEF r
<1>7. ASSUME NEW k \in 1 .. n PROVE Settled(r[k])
  <2>1. CASE k = n
    BY <1>4, <1>6, <2>1
  <2>2. CASE k # n
    <3>1. k \in 1 .. n - 1 /\ k < n
      BY <1>1, <2>2
    <3> QED
      BY <1>6, <3>1 DEF OnItsWay
  <2> QED
    BY <2>1, <2>2
<1>8. Sound(r)
  BY <1>5, <1>6, <1>7 DEF Sound
<1>9. flags' = [j \in Instances |-> NoFlags] /\ ready' \in SUBSET Instances
  BY FlagsGoDown DEF ContextsOK
<1> QED
  BY <1>3, <1>8, <1>9, KeepsQuiet

(* A frame on the way ends too and leaves the flag up.                     *)
LEMMA FrameIsPassed ==
    ASSUME ContextsOK, Shape(Stack), NEW i \in Instances,
           NEW flag \in {"ret", "brk", "cont"}, NEW t \in 1 .. Len(Stack), t # Len(Stack),
           flags = Raised(i, flag), OnItsWay(Stack, i, flag, t),
           EarlyEnd("leave"), UNCHANGED <<ctl, flags, ready>>
    PROVE  ControlIInv'
<1> DEFINE f == [Top EXCEPT !.pc = "leave", !.why = "flag"]
           r == Append(Front(Stack), f)
           n == Len(Stack)
<1>1. /\ n \in Nat \ {0} /\ Top = Stack[n] /\ Top \in Frame /\ FrameOK(Top)
      /\ Stack # <<>> /\ Stack \in Seq(Frame) /\ Top = Last(Stack)
  BY TopOfStack DEF Shape, Top
<1>2. /\ f \in Frame /\ f.pc = "leave" /\ f.why = "flag" /\ f.over = Top.over
      /\ f.kind = Top.kind /\ f.inst = Top.inst
  BY <1>1 DEF Frame, Cleaning, Evaluating
<1>3. frames' = [frames EXCEPT ![ctl] = r]
  BY DEF EarlyEnd, ReplaceTop, Stack
<1>4. Passed(Top, flag) /\ Top.inst = i /\ t < n
  BY EndOfTheWay
<1> HIDE DEF f
<1>5. SameCall(f, Top) /\ FrameOK(f) /\ Passed(f, flag)
  BY <1>1, <1>2, <1>4 DEF SameCall, FrameOK, Passed
<1>6. Shape(r)
  BY <1>1, <1>2, <1>5, StepKeepsShape
<1>7. Len(r) = n /\ r[n] = f /\ \A k \in 1 .. n - 1 : r[k] = Stack[k]
  BY <1>1, <1>2, SteppedStack
<1> HIDE DEF r
<1>8. ASSUME NEW k \in 1 .. n
      PROVE  /\ k < t => Settled(r[k])
             /\ k >= t => r[k].inst = i
             /\ k > t => /\ Passed(r[k], flag)
                         /\ \/ Testing(r[k])
                            \/ k = n /\ r[k].pc = "leave" /\ r[k].why = "flag"
  <2>1. CASE k = n
    <3>1. r[k] = f /\ ~ (k < t)
      BY <1>1, <1>4, <1>7, <2>1
    <3> QED
      BY <1>2, <1>4, <1>5, <2>1, <3>1
  <2>2. CASE k # n
    <3>1. k \in 1 .. n - 1
      BY <1>1, <2>2
    <3> QED
      BY <1>7, <2>2, <3>1 DEF OnItsWay
  <2> QED
    BY <2>1, <2>2
<1>9. t \in 1 .. n - 1 /\ r[t] = Stack[t]
  BY <1>1, <1>4, <1>7
<1>10. OnItsWay(r, i, flag, t)
  BY <1>7, <1>8, <1>9 DEF OnItsWay
<1>11. t \in 1 .. Len(r) /\ flags' = Raised(i, flag) /\ ready' \in SUBSET Instances
  BY <1>7 DEF ContextsOK
<1> QED
  BY <1>3, <1>6, <1>10, <1>11, GoesOn

LEMMA CheckProgramStep ==
    ASSUME ControlIInv, CheckProgram
    PROVE  ControlIInv'
<1>1. CASE Quiet
  BY <1>1, QuietProceed DEF ControlIInv, CheckProgram
<1>2. CASE Jumping
  <2>1. PICK i \in Instances, flag \in {"ret", "brk", "cont"}, t \in 1 .. Len(Stack) :
            flags = Raised(i, flag) /\ OnItsWay(Stack, i, flag, t)
    BY <1>2 DEF Jumping
  <2>2. Taker(Top, flag) \/ Passed(Top, flag)
    BY <1>2, <2>1, EndOfTheWay DEF Jumping
  <2> QED
    BY <2>2 DEF CheckProgram, Taker, Passed, Functions, Loops, Blocks
<1> QED
  BY <1>1, <1>2 DEF ControlIInv

LEMMA CheckFunctionStep ==
    ASSUME ControlIInv, CheckFunction
    PROVE  ControlIInv'
<1>1. CASE Quiet
  <2>1. Top.inst \in Instances /\ FlagsDown
    BY <1>1, TopOfStack DEF Quiet, Sound, Shape, Top, Frame
  <2>2. ~ FlagsHere.ret
    BY <2>1, QuietFlags DEF FlagsHere
  <2> QED
    BY <1>1, <2>2, QuietProceed DEF ControlIInv, CheckFunction
<1>2. CASE Jumping
  <2>1. PICK i \in Instances, flag \in {"ret", "brk", "cont"}, t \in 1 .. Len(Stack) :
            flags = Raised(i, flag) /\ OnItsWay(Stack, i, flag, t)
    BY <1>2 DEF Jumping
  <2>2. Shape(Stack)
    BY <1>2 DEF Jumping
  <2>3. t = Len(Stack)
    <3>1. ~ Passed(Top, flag)
      BY DEF CheckFunction, Passed, Functions, Loops, Blocks
    <3> QED
      BY <2>1, <2>2, <3>1, EndOfTheWay
  <2>4. flag = "ret" /\ FlagsHere.ret /\ Top.inst = i
    <3>1. Taker(Top, flag)
      BY <2>1, <2>2, <2>3, EndOfTheWay
    <3>2. flag = "ret"
      BY <3>1 DEF CheckFunction, Taker, Functions, Loops
    <3> QED
      BY <2>1, <2>2, <3>2, EndOfTheWay
  <2>5. /\ EarlyEnd("leave") /\ flags' = [flags EXCEPT ![i]["ret"] = FALSE]
        /\ UNCHANGED <<ctl, ready>>
    BY <2>4 DEF CheckFunction, Lower
  <2> QED
    BY <2>1, <2>2, <2>3, <2>4, <2>5, TargetIsReached DEF ControlIInv
<1> QED
  BY <1>1, <1>2 DEF ControlIInv

LEMMA CheckBlockStep ==
    ASSUME ControlIInv, CheckBlock
    PROVE  ControlIInv'
<1>1. CASE Quiet
  <2>1. Top.inst \in Instances /\ FlagsDown
    BY <1>1, TopOfStack DEF Quiet, Sound, Shape, Top, Frame
  <2>2. ~ AnyFlag(FlagsHere)
    BY <2>1, QuietFlags DEF FlagsHere, AnyFlag
  <2> QED
    BY <1>1, <2>2, QuietProceed DEF ControlIInv, CheckBlock
<1>2. CASE Jumping
  <2>1. PICK i \in Instances, flag \in {"ret", "brk", "cont"}, t \in 1 .. Len(Stack) :
            flags = Raised(i, flag) /\ OnItsWay(Stack, i, flag, t)
    BY <1>2 DEF Jumping
  <2>2. Shape(Stack)
    BY <1>2 DEF Jumping
  <2>3. t # Len(Stack)
    <3>1. ~ Taker(Top, flag)
      BY DEF CheckBlock, Taker, Functions, Loops, Blocks
    <3> QED
      BY <2>1, <2>2, <3>1, EndOfTheWay
  <2>4. AnyFlag(FlagsHere)
    BY <2>1, <2>2, EndOfTheWay DEF AnyFlag
  <2>5. EarlyEnd("leave") /\ UNCHANGED <<ctl, flags, ready>>
    BY <2>4 DEF CheckBlock
  <2> QED
    BY <2>1, <2>2, <2>3, <2>5, FrameIsPassed DEF ControlIInv
<1> QED
  BY <1>1, <1>2 DEF ControlIInv

LEMMA CheckLoopStep ==
    ASSUME ControlIInv, CheckLoop
    PROVE  ControlIInv'
<1>1. CASE Quiet
  <2>1. Top.inst \in Instances /\ FlagsDown
    BY <1>1, TopOfStack DEF Quiet, Sound, Shape, Top, Frame
  <2>2. ~ FlagsHere.ret /\ ~ FlagsHere.brk /\ ~ FlagsHere.cont
    BY <2>1, QuietFlags DEF FlagsHere
  <2> QED
    BY <1>1, <2>2, QuietProceed DEF ControlIInv, CheckLoop
<1>2. CASE Jumping
  <2>1. PICK i \in Instances, flag \in {"ret", "brk", "cont"}, t \in 1 .. Len(Stack) :
            flags = Raised(i, flag) /\ OnItsWay(Stack, i, flag, t)
    BY <1>2 DEF Jumping
  <2>2. Shape(Stack) /\ ContextsOK
    BY <1>2 DEF Jumping, ControlIInv
  <2>3. CASE flag = "ret"
    <3>1. ~ Taker(Top, flag)
      BY <2>3 DEF CheckLoop, Taker, Functions, Loops
    <3>2. t # Len(Stack) /\ FlagsHere.ret
      BY <2>1, <2>2, <2>3, <3>1, EndOfTheWay
    <3>3. EarlyEnd("leave") /\ UNCHANGED <<ctl, flags, ready>>
      BY <3>2 DEF CheckLoop
    <3> QED
      BY <2>1, <2>2, <3>2, <3>3, FrameIsPassed
  <2>4. CASE flag # "ret"
    <3>1. ~ Passed(Top, flag)
      BY <2>4 DEF CheckLoop, Passed, Blocks, Loops
    <3>2. t = Len(Stack) /\ Top.inst = i /\ ~ FlagsHere.ret
      BY <2>1, <2>2, <2>4, <3>1, EndOfTheWay
    <3>3. FlagsHere.brk <=> flag = "brk"
      BY <2>1, <2>2, EndOfTheWay
    <3>4. FlagsHere.cont <=> flag = "cont"
      BY <2>1, <2>2, EndOfTheWay
    <3>5. CASE flag = "brk"
      <4>1. /\ EarlyEnd("leave") /\ flags' = [flags EXCEPT ![i]["brk"] = FALSE]
            /\ UNCHANGED <<ctl, ready>>
        BY <3>2, <3>3, <3>5 DEF CheckLoop, Lower
      <4> QED
        BY <2>1, <2>2, <3>2, <3>5, <4>1, TargetIsReached
    <3>6. CASE flag = "cont"
      <4>1. /\ EarlyEnd(RoundEnd(Top.kind)) /\ flags' = [flags EXCEPT ![i]["cont"] = FALSE]
            /\ UNCHANGED <<ctl, ready>>
        BY <3>2, <3>3, <3>4, <3>6 DEF CheckLoop, Lower
      <4>2. RoundEnd(Top.kind) \in {"step", "clear"}
        BY DEF RoundEnd
      <4> HIDE DEF RoundEnd
      <4> QED
        BY <2>1, <2>2, <3>2, <3>6, <4>1, <4>2, TargetIsReached
    <3> QED
      BY <2>4, <3>5, <3>6
  <2> QED
    BY <2>3, <2>4
<1> QED
  BY <1>1, <1>2 DEF ControlIInv
-----------------------------------------------------------------------------
(* The clean-up.  Finalizers run while the flags are down.                 *)
LEMMA FlagsDownIsQuiet ==
    ASSUME ControlIInv, FlagsDown
    PROVE  ContextsOK /\ Quiet
<1>1. ~ Jumping
  <2> SUFFICES ASSUME Jumping PROVE FALSE
    OBVIOUS
  <2>1. PICK i \in Instances, flag \in {"ret", "brk", "cont"} : flags = Raised(i, flag)
    BY DEF Jumping
  <2>2. flags[i][flag]
    BY <2>1, FlagsGoDown
  <2> QED
    BY <2>2, QuietFlags
<1> QED
  BY <1>1 DEF ControlIInv

LEMMA FinalizeStep ==
    ASSUME ControlIInv, NEW i \in Instances, Finalize(i), ~ JumpFinalizers
    PROVE  ControlIInv'
<1> DEFINE f == NewFrame("finalizer", i, "body")
<1>1. /\ ContextsOK /\ FlagsDown /\ Sound(Stack) /\ Top.pc \in Cleaning
      /\ Push(f) /\ UNCHANGED <<ctl, flags, ready>>
  BY FlagsDownIsQuiet DEF Finalize, Quiet
<1>2. f \in Frame /\ FrameOK(f) /\ Settled(f)
  BY NewFramesAreSettled DEF Kinds, Bodies, Functions
<1>3. f.kind \in Bodies /\ Places(f) = Cleaning
  BY DEF NewFrame, Bodies, Functions, Places
<1> HIDE DEF f
<1> QED
  BY <1>1, <1>2, <1>3, QuietPush

LEMMA LeaveQuietly ==
    ASSUME ContextsOK, Quiet, LeaveFrame
    PROVE  ControlIInv'
<1> DEFINE s == IF Failed(Top) /\ Top.kind \notin {"finalizer", "program"}
                THEN Unwound(Front(Stack), Top.why) ELSE Front(Stack)
           n == Len(Stack)
<1>1. Sound(Stack) /\ FlagsDown /\ n > 1 /\ ctl' = ctl
  BY DEF Quiet, LeaveFrame
<1>2. frames' = [frames EXCEPT ![ctl] = s]
  BY DEF LeaveFrame, Stack
<1>3. n \in Nat \ {0} /\ Top = Stack[n] /\ Top \in Frame /\ Nested(Stack)
  BY <1>1, TopOfStack DEF Sound, Shape, Top
<1>4. Sound(Front(Stack)) /\ Last(Front(Stack)) = Stack[n - 1]
  BY <1>1, PopKeepsSound
<1>5. Sound(s)
  <2>1. CASE Failed(Top) /\ Top.kind \notin {"finalizer", "program"}
    <3>1. Stack[n - 1].pc \in Places(Top)
      <4>1. n - 1 \in 1 .. n - 1 /\ (n - 1) + 1 = n
        BY <1>1, <1>3
      <4> QED
        BY <1>3, <4>1 DEF Nested
    <3>2. Stack[n - 1].pc \in Evaluating \cup {"check"}
      BY <2>1, <3>1 DEF Places
    <3>3. Top.why \in {"lang", "fatal"}
      BY <2>1 DEF Failed
    <3> QED
      BY <1>4, <2>1, <3>2, <3>3, UnwoundIsSound
  <2>2. CASE ~ (Failed(Top) /\ Top.kind \notin {"finalizer", "program"})
    BY <1>4, <2>2
  <2> QED
    BY <2>1, <2>2
<1> HIDE DEF s
<1>6. Top.inst \in Instances
  BY <1>3 DEF Frame
<1>7. ready' \in SUBSET Instances
  BY <1>6 DEF LeaveFrame, ContextsOK
<1>8. flags' = [j \in Instances |-> NoFlags]
  BY <1>1, <1>6, FlagsOfInstances DEF LeaveFrame
<1> QED
  BY <1>1, <1>2, <1>5, <1>7, <1>8, KeepsQuiet

LEMMA LeaveJumping ==
    ASSUME ContextsOK, Jumping, LeaveFrame
    PROVE  ControlIInv'
<1> DEFINE r == Front(Stack)
           n == Len(Stack)
<1>1. PICK i \in Instances, flag \in {"ret", "brk", "cont"}, t \in 1 .. Len(Stack) :
          flags = Raised(i, flag) /\ OnItsWay(Stack, i, flag, t)
  BY DEF Jumping
<1>2. Shape(Stack) /\ Top.pc = "leave" /\ n > 1 /\ ctl' = ctl
  BY DEF Jumping, LeaveFrame, At
<1>3. t # n
  BY <1>1, <1>2, EndOfTheWay DEF Testing
<1>4. /\ t < n /\ Passed(Top, flag) /\ Top.why = "flag" /\ n \in Nat \ {0}
  BY <1>1, <1>2, <1>3, EndOfTheWay DEF Testing
<1>5. ~ Failed(Top) /\ Top.kind # "program"
  BY <1>4 DEF Failed, Passed, Blocks, Loops
<1>6. frames' = [frames EXCEPT ![ctl] = r] /\ UNCHANGED <<flags, ready>>
  BY <1>5 DEF LeaveFrame, Stack
<1>7. Shape(r)
  BY <1>2, PopKeepsShape
<1>8. Len(r) = n - 1 /\ \A k \in 1 .. n - 1 : r[k] = Stack[k]
  BY <1>2, PoppedStack DEF Shape
<1> HIDE DEF r
<1>9. t \in 1 .. n - 1
  BY <1>4
<1>10. ASSUME NEW k \in 1 .. n - 1
       PROVE  /\ k < t => Settled(r[k])
              /\ k >= t => r[k].inst = i
              /\ k > t => Passed(r[k], flag) /\ Testing(r[k])
  <2>1. k \in 1 .. n /\ k # n
    BY <1>4
  <2>2. r[k] = Stack[k]
    BY <1>8
  <2> QED
    BY <1>1, <2>1, <2>2 DEF OnItsWay
<1>11. Taker(r[t], flag) /\ Testing(r[t])
  BY <1>1, <1>8, <1>9 DEF OnItsWay
<1>12. OnItsWay(r, i, flag, t)
  BY <1>8, <1>9, <1>10, <1>11 DEF OnItsWay
<1>13. t \in 1 .. Len(r) /\ ready' \in SUBSET Instances
  BY <1>6, <1>8, <1>9 DEF ContextsOK
<1> QED
  BY <1>1, <1>2, <1>6, <1>7, <1>12, <1>13, GoesOn

LEMMA EndFiberStep ==
    ASSUME ControlIInv, EndFiber
    PROVE  ControlIInv'
<1> DEFINE s == IF Failed(Top) THEN Unwound(frames[Main], Top.why) ELSE frames[Main]
<1>1. /\ ContextsOK /\ ctl = Fiber /\ Top.pc = "leave" /\ Len(Stack) = 1 /\ ctl' = Main
      /\ UNCHANGED <<flags, ready>>
  BY DEF ControlIInv, EndFiber, At
<1>2. frames' = [frames EXCEPT ![Fiber] = <<>>, ![Main] = s]
  BY DEF EndFiber
<1>3. Quiet
  <2> SUFFICES ASSUME Jumping PROVE FALSE
    BY DEF ControlIInv
  <2>1. PICK i \in Instances, flag \in {"ret", "brk", "cont"}, t \in 1 .. Len(Stack) :
            flags = Raised(i, flag) /\ OnItsWay(Stack, i, flag, t)
    BY DEF Jumping
  <2>2. t = Len(Stack)
    BY <1>1
  <2> QED
    BY <1>1, <2>1, <2>2, EndOfTheWay DEF Jumping, Testing
<1>4. Main \in Contexts \ {ctl} /\ Contexts \ {Main} = {Fiber} /\ frames[Main] # <<>>
  BY <1>1, ControlAssumption DEF Contexts, ContextsOK
<1>5. Sound(frames[Main]) /\ Last(frames[Main]).pc \in Evaluating
  BY <1>1, <1>4 DEF ContextsOK
<1>6. Sound(s)
  BY <1>5, UnwoundIsSound DEF Failed
<1> HIDE DEF s
<1>7. s \in Seq(Frame) /\ s # <<>>
  BY <1>6 DEF Sound, Shape
<1>8. /\ frames' \in [Contexts -> Seq(Frame)]
      /\ frames'[Fiber] = <<>> /\ frames'[Main] = s
  <2>1. frames \in [Contexts -> Seq(Frame)] /\ <<>> \in Seq(Frame)
    BY <1>1, EmptySeq DEF ContextsOK
  <2>2. Main # Fiber /\ Main \in Contexts /\ Fiber \in Contexts
    BY ControlAssumption DEF Contexts
  <2> QED
    BY <1>2, <1>7, <2>1, <2>2
<1>9. ContextsOK'
  BY <1>1, <1>4, <1>7, <1>8 DEF ContextsOK, Contexts
<1>10. Quiet'
  BY <1>1, <1>3, <1>6, <1>8 DEF Quiet, FlagsDown, Stack
<1> QED
  BY <1>9, <1>10 DEF ControlIInv
-----------------------------------------------------------------------------
LEMMA ControlStarts ==
    ASSUME ControlInit
    PROVE  ControlIInv
<1> DEFINE f == NewFrame("program", Root, "body")
<1>1. Main # Fiber /\ Root \in Instances /\ Main \in Contexts
  BY ControlAssumption DEF Instances, Contexts
<1>2. f \in Frame /\ FrameOK(f) /\ Settled(f)
  BY <1>1, NewFramesAreSettled DEF Kinds, Bodies
<1>3. f.kind \in Bodies
  BY DEF NewFrame, Bodies
<1>4. /\ frames = [c \in Contexts |-> IF c = Main THEN <<f>> ELSE <<>>]
      /\ ctl = Main /\ flags = [i \in Instances |-> NoFlags] /\ ready = {Root}
  BY DEF ControlInit
<1> HIDE DEF f
<1>5. Sound(<<f>>)
  BY <1>2, <1>3 DEF Sound, Shape, Nested
<1>6. frames \in [Contexts -> Seq(Frame)] /\ frames[Main] = <<f>>
  BY <1>1, <1>2, <1>4
<1>7. \A c \in Contexts \ {ctl} : frames[c] = <<>>
  BY <1>1, <1>4
<1>8. flags \in [Instances -> [ret : BOOLEAN, brk : BOOLEAN, cont : BOOLEAN]]
  BY <1>4 DEF NoFlags
<1>9. ContextsOK
  BY <1>1, <1>4, <1>6, <1>7, <1>8 DEF ContextsOK
<1>10. Quiet
  BY <1>4, <1>5, <1>6 DEF Quiet, FlagsDown, Stack
<1> QED
  BY <1>9, <1>10 DEF ControlIInv

LEMMA ControlSteps ==
    ASSUME ControlIInv, [ControlNext]_controlVars, ~ JumpFinalizers, ~ ModuleReturns
    PROVE  ControlIInv'
<1>1. CASE Evaluate
  BY <1>1, CallStep, ImportStep, StartFiberStep, SwitchStep, RaiseStep DEF Evaluate
<1>2. CASE Execute
  BY <1>2, StatementStep, BreakStep, ContinueStep, ReturnStep, EnterBlockStep,
     EnterLoopStep, EndOfBodyStep, LoopHeadStep, NextRoundStep, CatchStep DEF Execute
<1>3. CASE Check
  BY <1>3, CheckProgramStep, CheckFunctionStep, CheckBlockStep, CheckLoopStep DEF Check
<1>4. CASE CleanUp
  BY <1>4, FinalizeStep, LeaveQuietly, LeaveJumping, EndFiberStep DEF CleanUp, ControlIInv
<1>5. CASE UNCHANGED controlVars
  BY <1>5 DEF controlVars, ControlIInv, ContextsOK, Quiet, Jumping, FlagsDown, Stack
<1> QED
  BY <1>1, <1>2, <1>3, <1>4, <1>5 DEF ControlNext

(* One flag at most is on its way, in the frames it is to end, and every   *)
(* other frame is settled: run_impl() of every statement, in any order of  *)
(* calls, imports, fibers and exceptions, as long as no finalizer runs in  *)
(* the middle of a jump and no module returns at its top level.            *)
THEOREM ControlInvariant ==
    ASSUME ~ JumpFinalizers, ~ ModuleReturns
    PROVE  ControlSpec => []ControlIInv
<1>1. ControlInit => ControlIInv
  BY ControlStarts
<1>2. ControlIInv /\ [ControlNext]_controlVars => ControlIInv'
  BY ControlSteps
<1> QED
  BY <1>1, <1>2, PTL DEF ControlSpec
-----------------------------------------------------------------------------
(* What the inductive invariant says of each frame.                        *)
LEMMA FramesAreSound ==
    ASSUME ControlIInv, NEW c \in Contexts, NEW k \in DOMAIN frames[c]
    PROVE  /\ Shape(frames[c]) /\ k \in 1 .. Len(frames[c])
           /\ \/ Settled(frames[c][k])
              \/ Testing(frames[c][k])
              \/ frames[c][k].pc = "leave" /\ frames[c][k].over = "all"
<1>1. frames[c] \in Seq(Frame)
  BY DEF ControlIInv, ContextsOK
<1>2. DOMAIN frames[c] = 1 .. Len(frames[c]) /\ frames[c] # <<>>
  BY <1>1, LenProperties, EmptySeq
<1>3. CASE c = ctl
  <2>1. CASE Quiet
    BY <1>2, <1>3, <2>1 DEF Quiet, Sound, Stack
  <2>2. CASE Jumping
    <3>1. PICK i \in Instances, flag \in {"ret", "brk", "cont"}, t \in 1 .. Len(Stack) :
              OnItsWay(Stack, i, flag, t)
      BY <2>2 DEF Jumping
    <3>2. k \in 1 .. Len(Stack) /\ Stack = frames[c]
      BY <1>2, <1>3 DEF Stack
    <3>3. k < t \/ k = t \/ k > t
      BY <3>2
    <3> QED
      BY <2>2, <3>1, <3>2, <3>3 DEF Jumping, OnItsWay, Passed
  <2> QED
    BY <2>1, <2>2 DEF ControlIInv
<1>4. CASE c # ctl
  BY <1>2, <1>4 DEF ControlIInv, ContextsOK, Sound
<1> QED
  BY <1>3, <1>4

LEMMA FramesHaveTheirPlaces ==
    ASSUME ControlIInv
    PROVE  ControlTypeOK
<1>1. ContextsOK
  BY DEF ControlIInv
<1>2. ASSUME NEW c \in Contexts, NEW k \in DOMAIN frames[c]
      PROVE  /\ frames[c][k].kind = "program" => frames[c][k].why # "lang"
             /\ k = Len(frames[c]) /\ c # ctl => frames[c][k].pc \in Evaluating
             /\ k < Len(frames[c]) => frames[c][k].pc \in Places(frames[c][k + 1])
  <2>1. Shape(frames[c]) /\ k \in 1 .. Len(frames[c])
    BY FramesAreSound
  <2>2. /\ Nested(frames[c]) /\ FrameOK(frames[c][k]) /\ frames[c] # <<>>
        /\ Len(frames[c]) \in Nat \ {0} /\ Last(frames[c]) = frames[c][Len(frames[c])]
    BY <2>1, TopOfStack DEF Shape
  <2>3. k = Len(frames[c]) /\ c # ctl => frames[c][k].pc \in Evaluating
    BY <1>1, <2>2 DEF ContextsOK
  <2>4. ASSUME k < Len(frames[c]) PROVE frames[c][k].pc \in Places(frames[c][k + 1])
    <3>1. k \in 1 .. Len(frames[c]) - 1
      BY <2>1, <2>2, <2>4
    <3> QED
      BY <2>2, <3>1 DEF Nested
  <2> QED
    BY <2>2, <2>3, <2>4 DEF FrameOK
<1> QED
  BY <1>1, <1>2 DEF ControlTypeOK, ContextsOK, Places

LEMMA OnlyWhatEndedIsLeft ==
    ASSUME ControlIInv
    PROVE  LeavesOnlyWhatEnded
<1> SUFFICES ASSUME NEW c \in Contexts, NEW k \in DOMAIN frames[c], frames[c][k].why = "flag"
             PROVE  frames[c][k].over = (IF frames[c][k].pc = "leave" THEN "all" ELSE "round")
  BY DEF LeavesOnlyWhatEnded
<1> QED
  BY FramesAreSound DEF Settled, Testing

LEMMA TakersWait ==
    ASSUME ControlIInv
    PROVE  FlagsHaveTakers
<1>1. CASE Quiet
  BY <1>1, QuietFlags DEF Quiet, FlagsHaveTakers
<1>2. CASE Jumping
  <2> DEFINE b == BodyOf(Stack)
             n == Len(Stack)
  <2>1. PICK i \in Instances, flag \in {"ret", "brk", "cont"}, t \in 1 .. Len(Stack) :
            flags = Raised(i, flag) /\ OnItsWay(Stack, i, flag, t)
    BY <1>2 DEF Jumping
  <2>2. /\ b \in 1 .. n /\ Stack[b].kind \in Bodies
        /\ \A k \in 1 .. n : k > b => Stack[k].kind \notin Bodies
    BY <1>2, BodyOfStack DEF Jumping
  <2> HIDE DEF b
  <2>3. n \in Nat /\ t \in 1 .. n
    BY <1>2, TopOfStack DEF Jumping, Shape
  <2>4. b <= t
    <3>1. ASSUME b > t PROVE FALSE
      <4>1. Passed(Stack[b], flag)
        BY <2>1, <2>2, <3>1 DEF OnItsWay
      <4> QED
        BY <2>2, <4>1 DEF Passed, Bodies, Functions, Blocks, Loops
    <3> QED
      BY <2>2, <2>3, <3>1
  <2>5. Taker(Stack[t], flag) /\ Stack[t].inst = i
    <3>1. t >= t
      BY <2>3
    <3> QED
      BY <2>1, <3>1 DEF OnItsWay
  <2>6. ASSUME flag = "ret" PROVE b = t /\ Stack[b].kind \in Functions
    <3>1. Stack[t].kind \in Functions
      BY <2>5, <2>6 DEF Taker
    <3>2. ~ (t > b)
      BY <2>2, <2>3, <3>1 DEF Bodies
    <3>3. b = t
      BY <2>2, <2>3, <2>4, <3>2
    <3> QED
      BY <3>1, <3>3
  <2>7. ASSUME flag # "ret" PROVE t \in b .. n /\ Stack[t].kind \in Loops
    BY <2>2, <2>3, <2>4, <2>5, <2>7 DEF Taker
  <2>8. ASSUME NEW j \in Instances
        PROVE  /\ flags[j].ret => j = i /\ flag = "ret"
               /\ flags[j].brk \/ flags[j].cont => j = i /\ flag # "ret"
    BY <2>1 DEF Raised, NoFlags
  <2>9. ASSUME NEW j \in Instances
        PROVE  /\ flags[j].ret => Stack[b].kind \in Functions /\ Stack[b].inst = j
               /\ flags[j].brk \/ flags[j].cont =>
                      \E k \in b .. n : Stack[k].kind \in Loops /\ Stack[k].inst = j
    BY <2>5, <2>6, <2>7, <2>8
  <2> QED
    BY <2>9 DEF FlagsHaveTakers, b
<1> QED
  BY <1>1, <1>2 DEF ControlIInv

(* Only the jump that was meant to leaves a statement list or cuts a round *)
(* short, the flags are down whenever an expression is evaluated, and each *)
(* flag that is up has a taker above it: for any modules, loops and number *)
(* of frames, with no `finalize` method inside a jump and no `return` at   *)
(* the top level of a module (the tests of the flags in every run_impl()). *)
THEOREM ControlCorrect ==
    ASSUME ~ JumpFinalizers, ~ ModuleReturns
    PROVE  ControlSpec => []ControlInv
<1>1. ControlIInv => ControlInv
  <2> SUFFICES ASSUME ControlIInv PROVE ControlInv
    OBVIOUS
  <2>1. FlagsDownWhenEvaluating
    BY ExpressionsAreQuiet DEF FlagsDownWhenEvaluating
  <2> QED
    BY <2>1, FramesHaveTheirPlaces, OnlyWhatEndedIsLeft, TakersWait DEF ControlInv
<1> QED
  BY <1>1, ControlInvariant, PTL

(* Under the same conditions a statement list that a jump is meant to      *)
(* leave executes no further statement, and its loop no further condition  *)
(* (statement.cpp:42-43: "honoring early returns").                        *)
THEOREM NothingRunsLate ==
    ASSUME ~ JumpFinalizers, ~ ModuleReturns
    PROVE  ControlSpec => []NothingRunsAfterLeaving
<1>1. ControlIInv => NothingRunsAfterLeaving
  <2> SUFFICES ASSUME ControlIInv, NEW c \in Contexts, NEW k \in DOMAIN frames[c]
               PROVE  /\ frames[c][k].pc \in {"body", "init", "cond"} => frames[c][k].over = "no"
                      /\ frames[c][k].pc = "step" => frames[c][k].over # "all"
    BY DEF NothingRunsAfterLeaving
  <2>1. frames[c][k] \in Frame
    BY FramesAreSound, TopOfStack DEF Shape
  <2> QED
    BY <2>1, FramesAreSound DEF Settled, Testing, Failed, Frame
<1> QED
  BY <1>1, ControlInvariant, PTL
-----------------------------------------------------------------------------
(***************************************************************************)
(* The inductive invariant.  While a program may still define functions,   *)
(* a breakpoint on a name is one on a function not yet defined, with an    *)
(* open pending entry of its own; and stepping at or above `level` is due  *)
(* to the breakpoint that was hit or the command that was given.           *)
(***************************************************************************)
BreakKinds == {"line", "name", "func"}
Commands == {"run", "next", "step", "continue"}
Live == phase \in {"none", "running", "stopped"}

RecordsOK ==
    /\ lastId \in Nat
    /\ breakpoints \subseteq [id : 1 .. lastId, kind : BreakKinds, at : Funcs \cup SourceLines]
    /\ pendings \subseteq [name : Funcs, id : 1 .. lastId, open : BOOLEAN]
    /\ matched \subseteq defined /\ defined \subseteq Funcs

RecordsAreUnique ==
    /\ \A a, b \in breakpoints : a.id = b.id => a = b
    /\ \A a, b \in breakpoints : a.at = b.at /\ a.at \in Funcs => a = b
    /\ \A b \in breakpoints : b.kind = "line" <=> b.at \in SourceLines
    /\ \A p, q \in pendings : p.name = q.name => p = q

CountersOK ==
    /\ level \in Nat /\ depth \in 0 .. MaxDepth
    /\ asked.cmd \in Commands /\ asked.depth \in Nat

SwitchesOK == byStep \in BOOLEAN /\ into \in BOOLEAN /\ due \in BOOLEAN

NamesWait ==
    Live => \A b \in breakpoints :
        /\ b.kind = "name" =>
               /\ b.at \notin defined
               /\ \E p \in pendings : p.name = b.at /\ p.id = b.id /\ p.open
        /\ b.kind = "func" => b.at \in matched

MatchedIsListed ==
    /\ Live => \A f \in matched : \E b \in breakpoints : b.at = f
    /\ phase = "none" => defined = {}

StepIsAsked ==
    /\ phase = "none" => ~byStep /\ ~into
    /\ phase = "stopped" => byStep /\ ~into /\ level = depth
    /\ phase \in {"running", "stopped"} =>
           /\ into => asked.cmd = "step"
           /\ byStep => \/ due
                        \/ asked.cmd = "step"
                        \/ asked.cmd = "next" /\ level <= asked.depth

DebuggerIInv ==
    /\ RecordsOK /\ RecordsAreUnique /\ CountersOK /\ SwitchesOK
    /\ NamesWait /\ MatchedIsListed /\ PendingIsListed /\ StepIsAsked
-----------------------------------------------------------------------------
USE DEF Live, Commands, BreakKinds, AtPrompt, HasContext, records, stepping

(* A fresh debugger has no breakpoints and nothing matched or pending.     *)
LEMMA InitEstablishes == DebuggerInit => DebuggerIInv
<1> SUFFICES ASSUME DebuggerInit PROVE DebuggerIInv
  OBVIOUS
<1> USE DebuggerAssumption DEF DebuggerInit
<1>1. RecordsOK
  BY DEF RecordsOK
<1>2. RecordsAreUnique
  BY DEF RecordsAreUnique
<1>3. CountersOK
  BY DEF CountersOK
<1>4. SwitchesOK
  BY DEF SwitchesOK
<1>5. NamesWait
  BY DEF NamesWait
<1>6. MatchedIsListed
  BY DEF MatchedIsListed
<1>7. PendingIsListed
  BY DEF PendingIsListed
<1>8. StepIsAsked
  BY DEF StepIsAsked
<1> QED
  BY <1>1, <1>2, <1>3, <1>4, <1>5, <1>6, <1>7, <1>8 DEF DebuggerIInv

(* `break` on a line adds a record of a new number and nothing else.       *)
LEMMA BreakLineKeeps ==
    ASSUME DebuggerIInv, NEW n \in SourceLines, BreakLine(n)
    PROVE  DebuggerIInv'
<1> USE DebuggerAssumption DEF BreakLine, Add, Breakpoint
<1>0. /\ RecordsOK /\ RecordsAreUnique /\ CountersOK /\ SwitchesOK
      /\ NamesWait /\ MatchedIsListed /\ PendingIsListed /\ StepIsAsked
  BY DEF DebuggerIInv
<1>1. RecordsOK'
  BY <1>0 DEF RecordsOK
<1>2. RecordsAreUnique'
  BY <1>0 DEF RecordsOK, RecordsAreUnique
<1>3. CountersOK'
  BY <1>0 DEF CountersOK
<1>4. SwitchesOK'
  BY <1>0 DEF SwitchesOK
<1>5. NamesWait'
  BY <1>0 DEF NamesWait
<1>6. MatchedIsListed'
  BY <1>0 DEF MatchedIsListed
<1>7. PendingIsListed'
  BY <1>0 DEF PendingIsListed
<1>8. StepIsAsked'
  BY <1>0 DEF StepIsAsked
<1> QED
  BY <1>1, <1>2, <1>3, <1>4, <1>5, <1>6, <1>7, <1>8 DEF DebuggerIInv

(* `break` on a function that does not exist yet: its record waits.        *)
LEMMA BreakPendingKeeps ==
    ASSUME DebuggerIInv, ~TargetsAreShared, NEW f \in Funcs, BreakPending(f)
    PROVE  DebuggerIInv'
<1> USE DebuggerAssumption DEF BreakPending, Free, Add, Breakpoint
<1> DEFINE entry == [name |-> f, id |-> lastId + 1, open |-> TRUE]
           added == [id |-> lastId + 1, kind |-> "name", at |-> f]
<1>0. /\ RecordsOK /\ RecordsAreUnique /\ CountersOK /\ SwitchesOK
      /\ NamesWait /\ MatchedIsListed /\ PendingIsListed /\ StepIsAsked
  BY DEF DebuggerIInv
<1>1. RecordsOK'
  <2>1. /\ pendings' = pendings \cup {entry} /\ entry.open
        /\ breakpoints' = breakpoints \cup {added} /\ lastId' = lastId + 1
    BY <1>0 DEF PendingIsListed
  <2>2. /\ entry \in [name : Funcs, id : 1 .. lastId', open : BOOLEAN]
        /\ added \in [id : 1 .. lastId', kind : BreakKinds, at : Funcs \cup SourceLines]
    BY <1>0, <2>1 DEF RecordsOK
  <2>3. pendings \subseteq [name : Funcs, id : 1 .. lastId', open : BOOLEAN]
    BY <1>0, <2>1 DEF RecordsOK
  <2>4. /\ lastId' \in Nat
        /\ breakpoints \subseteq [id : 1 .. lastId', kind : BreakKinds, at : Funcs \cup SourceLines]
    BY <1>0 DEF RecordsOK
  <2>5. matched' \subseteq defined' /\ defined' \subseteq Funcs
    BY <1>0 DEF RecordsOK
  <2> HIDE DEF entry, added
  <2> QED
    BY <2>1, <2>2, <2>3, <2>4, <2>5 DEF RecordsOK
<1>2. RecordsAreUnique'
  <2>1. /\ pendings' = pendings \cup {entry} /\ entry.name = f
        /\ breakpoints' = breakpoints \cup {added}
        /\ added.id = lastId + 1 /\ added.at = f /\ added.kind = "name"
    BY <1>0 DEF PendingIsListed
  <2>2. \A b \in breakpoints : b.at # f /\ b.id # lastId + 1
    BY <1>0 DEF RecordsOK
  <2>3. \A p \in pendings : p.name # f
    BY <1>0, <2>2 DEF PendingIsListed
  <2> QED
    BY <1>0, <2>1, <2>2, <2>3 DEF RecordsAreUnique
<1>3. CountersOK'
  BY <1>0 DEF CountersOK
<1>4. SwitchesOK'
  BY <1>0 DEF SwitchesOK
<1>5. NamesWait'
  <2>1. /\ pendings' = pendings \cup {entry} /\ entry.name = f
        /\ entry.id = lastId + 1 /\ entry.open
    BY <1>0 DEF PendingIsListed
  <2>2. added.id = lastId + 1 /\ added.at = f /\ added.kind = "name" /\ f \notin defined
    BY <1>0 DEF MatchedIsListed
  <2> QED
    BY <1>0, <2>1, <2>2 DEF NamesWait
<1>6. MatchedIsListed'
  BY <1>0 DEF MatchedIsListed
<1>7. PendingIsListed'
  <2>1. /\ pendings' = pendings \cup {entry} /\ entry.name = f
        /\ entry.id = lastId + 1 /\ entry.open
        /\ breakpoints' = breakpoints \cup {added}
    BY <1>0 DEF PendingIsListed
  <2>2. added.id = lastId + 1 /\ added.at = f /\ added.kind = "name"
    OBVIOUS
  <2> HIDE DEF entry, added
  <2> QED
    BY <1>0, <2>1, <2>2 DEF PendingIsListed
<1>8. StepIsAsked'
  BY <1>0 DEF StepIsAsked
<1> QED
  BY <1>1, <1>2, <1>3, <1>4, <1>5, <1>6, <1>7, <1>8 DEF DebuggerIInv

(* `break` on a function that exists marks the function at once.           *)
LEMMA BreakFuncKeeps ==
    ASSUME DebuggerIInv, ~TargetsAreShared, NEW f \in Funcs, BreakFunc(f)
    PROVE  DebuggerIInv'
<1> USE DebuggerAssumption DEF BreakFunc, Free, Add, Breakpoint
<1> DEFINE added == [id |-> lastId + 1, kind |-> "func", at |-> f]
<1>0. /\ RecordsOK /\ RecordsAreUnique /\ CountersOK /\ SwitchesOK
      /\ NamesWait /\ MatchedIsListed /\ PendingIsListed /\ StepIsAsked
  BY DEF DebuggerIInv
<1>1. RecordsOK'
  BY <1>0 DEF RecordsOK
<1>2. RecordsAreUnique'
  BY <1>0 DEF RecordsOK, RecordsAreUnique
<1>3. CountersOK'
  BY <1>0 DEF CountersOK
<1>4. SwitchesOK'
  BY <1>0 DEF SwitchesOK
<1>5. NamesWait'
  BY <1>0 DEF NamesWait
<1>6. MatchedIsListed'
  <2>1. added \in breakpoints' /\ added.at = f /\ breakpoints \subseteq breakpoints'
    OBVIOUS
  <2> QED
    BY <1>0, <2>1 DEF MatchedIsListed
<1>7. PendingIsListed'
  BY <1>0 DEF PendingIsListed
<1>8. StepIsAsked'
  BY <1>0 DEF StepIsAsked
<1> QED
  BY <1>1, <1>2, <1>3, <1>4, <1>5, <1>6, <1>7, <1>8 DEF DebuggerIInv

(* `rmbp` removes the record, and the mark of its function with it.        *)
LEMMA RemoveBreakpointKeeps ==
    ASSUME DebuggerIInv, NEW id \in 1 .. MaxBreakpoints, RemoveBreakpoint(id)
    PROVE  DebuggerIInv'
<1> USE DebuggerAssumption DEF RemoveBreakpoint, MatchedWithout, PendingWithout
<1>0. /\ RecordsOK /\ RecordsAreUnique /\ CountersOK /\ SwitchesOK
      /\ NamesWait /\ MatchedIsListed /\ PendingIsListed /\ StepIsAsked
  BY DEF DebuggerIInv
<1>1. RecordsOK'
  BY <1>0 DEF RecordsOK
<1>2. RecordsAreUnique'
  BY <1>0 DEF RecordsAreUnique
<1>3. CountersOK'
  BY <1>0 DEF CountersOK
<1>4. SwitchesOK'
  BY <1>0 DEF SwitchesOK
<1>5. NamesWait'
  BY <1>0 DEF RecordsOK, RecordsAreUnique, NamesWait
<1>6. MatchedIsListed'
  BY <1>0 DEF RecordsOK, RecordsAreUnique, NamesWait, MatchedIsListed
<1>7. PendingIsListed'
  BY <1>0 DEF PendingIsListed
<1>8. StepIsAsked'
  BY <1>0 DEF StepIsAsked
<1> QED
  BY <1>1, <1>2, <1>3, <1>4, <1>5, <1>6, <1>7, <1>8 DEF DebuggerIInv

(* `run` starts the program with the breakpoints listed so far.            *)
LEMMA RunKeeps ==
    ASSUME DebuggerIInv, Run
    PROVE  DebuggerIInv'
<1> USE DebuggerAssumption DEF Run
<1>0. /\ RecordsOK /\ RecordsAreUnique /\ CountersOK /\ SwitchesOK
      /\ NamesWait /\ MatchedIsListed /\ PendingIsListed /\ StepIsAsked
  BY DEF DebuggerIInv
<1>1. RecordsOK'
  BY <1>0 DEF RecordsOK
<1>2. RecordsAreUnique'
  BY <1>0 DEF RecordsAreUnique
<1>3. CountersOK'
  BY <1>0 DEF CountersOK
<1>4. SwitchesOK'
  BY <1>0 DEF SwitchesOK
<1>5. NamesWait'
  BY <1>0 DEF NamesWait
<1>6. MatchedIsListed'
  BY <1>0 DEF MatchedIsListed
<1>7. PendingIsListed'
  BY <1>0 DEF PendingIsListed
<1>8. StepIsAsked'
  BY <1>0 DEF StepIsAsked
<1> QED
  BY <1>1, <1>2, <1>3, <1>4, <1>5, <1>6, <1>7, <1>8 DEF DebuggerIInv

(* `next`, `step` and `continue` say where to stop next.                   *)
LEMMA ResumeKeeps ==
    ASSUME DebuggerIInv, NEW cmd \in {"next", "step", "continue"}, Resume(cmd)
    PROVE  DebuggerIInv'
<1> USE DebuggerAssumption DEF Resume
<1>0. /\ RecordsOK /\ RecordsAreUnique /\ CountersOK /\ SwitchesOK
      /\ NamesWait /\ MatchedIsListed /\ PendingIsListed /\ StepIsAsked
  BY DEF DebuggerIInv
<1>1. RecordsOK'
  BY <1>0 DEF RecordsOK
<1>2. RecordsAreUnique'
  BY <1>0 DEF RecordsAreUnique
<1>3. CountersOK'
  BY <1>0 DEF CountersOK
<1>4. SwitchesOK'
  BY <1>0 DEF SwitchesOK
<1>5. NamesWait'
  BY <1>0 DEF NamesWait
<1>6. MatchedIsListed'
  BY <1>0 DEF MatchedIsListed
<1>7. PendingIsListed'
  BY <1>0 DEF PendingIsListed
<1>8. StepIsAsked'
  BY <1>0 DEF CountersOK, SwitchesOK, StepIsAsked
<1> QED
  BY <1>1, <1>2, <1>3, <1>4, <1>5, <1>6, <1>7, <1>8 DEF DebuggerIInv

(* The end of the program resets the functions: their breakpoints wait.    *)
LEMMA FinishKeeps ==
    ASSUME DebuggerIInv, Finish
    PROVE  DebuggerIInv'
<1> USE DebuggerAssumption DEF Finish, Reset
<1> DEFINE back(b) == \E p \in pendings : p.id = b.id /\ b.kind = "func"
           waiting(b) == IF back(b) THEN [b EXCEPT !.kind = "name"] ELSE b
           opened(p) == [p EXCEPT !.open = TRUE]
<1>0. /\ RecordsOK /\ RecordsAreUnique /\ CountersOK /\ SwitchesOK
      /\ NamesWait /\ MatchedIsListed /\ PendingIsListed /\ StepIsAsked
  BY DEF DebuggerIInv
<1>1. RecordsOK'
  <2>1. /\ breakpoints' = {waiting(b) : b \in breakpoints}
        /\ pendings' = {opened(p) : p \in pendings}
    OBVIOUS
  <2>2. ASSUME NEW b \in breakpoints
        PROVE  /\ waiting(b) \in [id : 1 .. lastId, kind : BreakKinds, at : Funcs \cup SourceLines]
               /\ waiting(b).id = b.id /\ waiting(b).at = b.at
               /\ waiting(b).kind = IF back(b) THEN "name" ELSE b.kind
    BY <1>0 DEF RecordsOK
  <2>3. ASSUME NEW p \in pendings
        PROVE  /\ opened(p) \in [name : Funcs, id : 1 .. lastId, open : BOOLEAN]
               /\ opened(p).name = p.name /\ opened(p).id = p.id /\ opened(p).open
    BY <1>0 DEF RecordsOK
  <2> HIDE DEF waiting, opened
  <2> QED
    BY <1>0, <2>1, <2>2, <2>3 DEF RecordsOK
<1>2. RecordsAreUnique'
  <2>1. /\ breakpoints' = {waiting(b) : b \in breakpoints}
        /\ pendings' = {opened(p) : p \in pendings}
    OBVIOUS
  <2>2. ASSUME NEW b \in breakpoints
        PROVE  /\ waiting(b) \in [id : 1 .. lastId, kind : BreakKinds, at : Funcs \cup SourceLines]
               /\ waiting(b).id = b.id /\ waiting(b).at = b.at
               /\ waiting(b).kind = IF back(b) THEN "name" ELSE b.kind
    BY <1>0 DEF RecordsOK
  <2>3. ASSUME NEW p \in pendings
        PROVE  /\ opened(p) \in [name : Funcs, id : 1 .. lastId, open : BOOLEAN]
               /\ opened(p).name = p.name /\ opened(p).id = p.id /\ opened(p).open
    BY <1>0 DEF RecordsOK
  <2> HIDE DEF waiting, opened
  <2> QED
    BY SMTT(30), <1>0, <2>1, <2>2, <2>3 DEF RecordsAreUnique
<1>3. CountersOK'
  BY <1>0 DEF CountersOK
<1>4. SwitchesOK'
  BY <1>0 DEF SwitchesOK
<1>5. NamesWait'
  BY <1>0 DEF NamesWait
<1>6. MatchedIsListed'
  BY <1>0 DEF MatchedIsListed
<1>7. PendingIsListed'
  <2>1. /\ breakpoints' = {waiting(b) : b \in breakpoints}
        /\ pendings' = {opened(p) : p \in pendings}
    OBVIOUS
  <2>2. ASSUME NEW b \in breakpoints
        PROVE  /\ waiting(b) \in [id : 1 .. lastId, kind : BreakKinds, at : Funcs \cup SourceLines]
               /\ waiting(b).id = b.id /\ waiting(b).at = b.at
               /\ waiting(b).kind = IF back(b) THEN "name" ELSE b.kind
    BY <1>0 DEF RecordsOK
  <2>3. ASSUME NEW p \in pendings
        PROVE  /\ opened(p) \in [name : Funcs, id : 1 .. lastId, open : BOOLEAN]
               /\ opened(p).name = p.name /\ opened(p).id = p.id /\ opened(p).open
    BY <1>0 DEF RecordsOK
  <2> HIDE DEF waiting, opened
  <2> SUFFICES ASSUME NEW p \in pendings
               PROVE  \E b \in breakpoints : waiting(b).id = p.id /\ waiting(b).at = p.name
                                           /\ waiting(b).kind = "name"
    BY <2>1, <2>3 DEF PendingIsListed
  <2>4. PICK b \in breakpoints : b.id = p.id /\ b.at = p.name /\ b.kind \in {"name", "func"}
    BY <1>0 DEF PendingIsListed
  <2> QED
    BY <2>2, <2>4
<1>8. StepIsAsked'
  BY <1>0 DEF StepIsAsked
<1> QED
  BY <1>1, <1>2, <1>3, <1>4, <1>5, <1>6, <1>7, <1>8 DEF DebuggerIInv

(* A statement stops the program where it was asked to stop.               *)
LEMMA ScriptStatementKeeps ==
    ASSUME DebuggerIInv, NEW n \in SourceLines, ScriptStatement(n)
    PROVE  DebuggerIInv'
<1> USE DebuggerAssumption DEF ScriptStatement, Stops
<1>0. /\ RecordsOK /\ RecordsAreUnique /\ CountersOK /\ SwitchesOK
      /\ NamesWait /\ MatchedIsListed /\ PendingIsListed /\ StepIsAsked
  BY DEF DebuggerIInv
<1>1. RecordsOK'
  BY <1>0 DEF RecordsOK
<1>2. RecordsAreUnique'
  BY <1>0 DEF RecordsAreUnique
<1>3. CountersOK'
  BY <1>0 DEF CountersOK
<1>4. SwitchesOK'
  BY <1>0 DEF SwitchesOK
<1>5. NamesWait'
  BY <1>0 DEF NamesWait
<1>6. MatchedIsListed'
  BY <1>0 DEF MatchedIsListed
<1>7. PendingIsListed'
  BY <1>0 DEF PendingIsListed
<1>8. StepIsAsked'
  <2> DEFINE at == \E b \in breakpoints : b.kind = "line" /\ b.at = n
  <2>1. CASE ~byStep /\ at
    BY <1>0, <2>1 DEF StepIsAsked, SwitchesOK
  <2>2. CASE byStep /\ (into \/ depth <= level)
    <3>1. /\ phase' = "stopped" /\ byStep' /\ level' = depth' /\ ~into' /\ asked' = asked
          /\ due => due'
      BY <2>2
    <3>2. due \/ asked.cmd = "step" \/ (asked.cmd = "next" /\ depth <= asked.depth)
      <4>1. into => asked.cmd = "step"
        BY <1>0 DEF StepIsAsked
      <4>2. due \/ asked.cmd = "step" \/ (asked.cmd = "next" /\ level <= asked.depth)
        <5>1. byStep /\ phase = "running"
          BY <2>2
        <5> HIDE DEF ScriptStatement
        <5> QED
          BY <1>0, <5>1 DEF StepIsAsked
      <4>3. depth \in Nat /\ level \in Nat /\ asked.depth \in Nat
        BY <1>0 DEF CountersOK
      <4>4. depth <= level /\ level <= asked.depth => depth <= asked.depth
        BY <4>3
      <4>5. into \/ depth <= level
        BY <2>2
      <4> HIDE DEF ScriptStatement
      <4> QED
        BY <4>1, <4>2, <4>4, <4>5
    <3> QED
      BY <3>1, <3>2 DEF StepIsAsked
  <2>3. CASE ~(~byStep /\ at) /\ ~(byStep /\ (into \/ depth <= level))
    BY <1>0, <2>3 DEF StepIsAsked
  <2> QED
    BY <2>1, <2>2, <2>3
<1> QED
  BY <1>1, <1>2, <1>3, <1>4, <1>5, <1>6, <1>7, <1>8 DEF DebuggerIInv

(* A call stops at a marked function.                                      *)
LEMMA ScriptCallKeeps ==
    ASSUME DebuggerIInv, NEW f \in Funcs, ScriptCall(f)
    PROVE  DebuggerIInv'
<1> USE DebuggerAssumption DEF ScriptCall
<1>0. /\ RecordsOK /\ RecordsAreUnique /\ CountersOK /\ SwitchesOK
      /\ NamesWait /\ MatchedIsListed /\ PendingIsListed /\ StepIsAsked
  BY DEF DebuggerIInv
<1>1. RecordsOK'
  BY <1>0 DEF RecordsOK
<1>2. RecordsAreUnique'
  BY <1>0 DEF RecordsAreUnique
<1>3. CountersOK'
  BY <1>0 DEF CountersOK
<1>4. SwitchesOK'
  BY <1>0 DEF SwitchesOK
<1>5. NamesWait'
  BY <1>0 DEF NamesWait
<1>6. MatchedIsListed'
  BY <1>0 DEF MatchedIsListed
<1>7. PendingIsListed'
  BY <1>0 DEF PendingIsListed
<1>8. StepIsAsked'
  BY <1>0 DEF StepIsAsked
<1> QED
  BY <1>1, <1>2, <1>3, <1>4, <1>5, <1>6, <1>7, <1>8 DEF DebuggerIInv

(* A return goes back to the level of its caller.                          *)
LEMMA ScriptReturnKeeps ==
    ASSUME DebuggerIInv, ScriptReturn
    PROVE  DebuggerIInv'
<1> USE DebuggerAssumption DEF ScriptReturn
<1>0. /\ RecordsOK /\ RecordsAreUnique /\ CountersOK /\ SwitchesOK
      /\ NamesWait /\ MatchedIsListed /\ PendingIsListed /\ StepIsAsked
  BY DEF DebuggerIInv
<1>1. RecordsOK'
  BY <1>0 DEF RecordsOK
<1>2. RecordsAreUnique'
  BY <1>0 DEF RecordsAreUnique
<1>3. CountersOK'
  BY <1>0 DEF CountersOK
<1>4. SwitchesOK'
  BY <1>0 DEF SwitchesOK
<1>5. NamesWait'
  BY <1>0 DEF NamesWait
<1>6. MatchedIsListed'
  BY <1>0 DEF MatchedIsListed
<1>7. PendingIsListed'
  BY <1>0 DEF PendingIsListed
<1>8. StepIsAsked'
  BY <1>0 DEF StepIsAsked
<1> QED
  BY <1>1, <1>2, <1>3, <1>4, <1>5, <1>6, <1>7, <1>8 DEF DebuggerIInv

(* The definition of a function takes the breakpoints that wait for it.    *)
LEMMA DefineKeeps ==
    ASSUME DebuggerIInv, NEW f \in Funcs, Define(f)
    PROVE  DebuggerIInv'
<1> USE DebuggerAssumption DEF Define
<1> DEFINE waiting == {p \in pendings : p.name = f}
           open == {p \in waiting : p.open /\ \E b \in breakpoints : b.id = p.id}
           replaced(b) == IF \E p \in open : p.id = b.id THEN [b EXCEPT !.kind = "func"] ELSE b
           closed(p) == IF p \in open THEN [p EXCEPT !.open = FALSE] ELSE p
<1>0. /\ RecordsOK /\ RecordsAreUnique /\ CountersOK /\ SwitchesOK
      /\ NamesWait /\ MatchedIsListed /\ PendingIsListed /\ StepIsAsked
  BY DEF DebuggerIInv
<1>1. RecordsOK'
  <2>1. /\ breakpoints' = {replaced(b) : b \in breakpoints}
        /\ pendings' = {closed(p) : p \in pendings}
    OBVIOUS
  <2>2. ASSUME NEW b \in breakpoints
        PROVE  /\ replaced(b) \in [id : 1 .. lastId, kind : BreakKinds, at : Funcs \cup SourceLines]
               /\ replaced(b).id = b.id /\ replaced(b).at = b.at
               /\ replaced(b).kind = IF \E p \in open : p.id = b.id THEN "func" ELSE b.kind
    BY <1>0 DEF RecordsOK
  <2>3. ASSUME NEW p \in pendings
        PROVE  /\ closed(p) \in [name : Funcs, id : 1 .. lastId, open : BOOLEAN]
               /\ closed(p).name = p.name /\ closed(p).id = p.id
               /\ closed(p).open <=> p.open /\ p \notin open
    BY <1>0 DEF RecordsOK
  <2> HIDE DEF replaced, closed
  <2>4. matched' \subseteq defined' /\ defined' \subseteq Funcs
    BY <1>0 DEF RecordsOK
  <2>5. lastId' = lastId /\ lastId \in Nat
    BY <1>0 DEF RecordsOK
  <2>6. breakpoints' \subseteq [id : 1 .. lastId, kind : BreakKinds, at : Funcs \cup SourceLines]
    BY <2>1, <2>2
  <2>7. pendings' \subseteq [name : Funcs, id : 1 .. lastId, open : BOOLEAN]
    BY <2>1, <2>3
  <2> QED
    BY <2>4, <2>5, <2>6, <2>7 DEF RecordsOK
<1>2. RecordsAreUnique'
  <2>1. /\ breakpoints' = {replaced(b) : b \in breakpoints}
        /\ pendings' = {closed(p) : p \in pendings}
    OBVIOUS
  <2>2. ASSUME NEW b \in breakpoints
        PROVE  /\ replaced(b) \in [id : 1 .. lastId, kind : BreakKinds, at : Funcs \cup SourceLines]
               /\ replaced(b).id = b.id /\ replaced(b).at = b.at
               /\ replaced(b).kind = IF \E p \in open : p.id = b.id THEN "func" ELSE b.kind
    BY <1>0 DEF RecordsOK
  <2>3. ASSUME NEW p \in pendings
        PROVE  /\ closed(p) \in [name : Funcs, id : 1 .. lastId, open : BOOLEAN]
               /\ closed(p).name = p.name /\ closed(p).id = p.id
               /\ closed(p).open <=> p.open /\ p \notin open
    BY <1>0 DEF RecordsOK
  <2>4. ASSUME NEW p \in open, NEW b \in breakpoints, p.id = b.id
        PROVE  b.at = f /\ b.kind = "name"
    BY <1>0, <2>4 DEF PendingIsListed, RecordsAreUnique
  <2> HIDE DEF replaced, closed, open
  <2>5. \A b \in breakpoints : replaced(b).kind = "line" <=> b.kind = "line"
    BY <2>2, <2>4
  <2>6. \A a, b \in breakpoints :
            /\ replaced(a).id = replaced(b).id => a = b
            /\ replaced(a).at = replaced(b).at /\ replaced(a).at \in Funcs => a = b
            /\ replaced(a).kind = "line" <=> replaced(a).at \in SourceLines
    BY <1>0, <2>2, <2>5 DEF RecordsAreUnique
  <2>7. \A p, q \in pendings : closed(p).name = closed(q).name => p = q
    BY <1>0, <2>3 DEF RecordsAreUnique
  <2> QED
    BY <2>1, <2>6, <2>7 DEF RecordsAreUnique
<1>3. CountersOK'
  BY <1>0 DEF CountersOK
<1>4. SwitchesOK'
  BY <1>0 DEF SwitchesOK
<1>5. NamesWait'
  BY <1>0 DEF RecordsOK, RecordsAreUnique, NamesWait, PendingIsListed
<1>6. MatchedIsListed'
  <2>1. /\ breakpoints' = {replaced(b) : b \in breakpoints}
        /\ pendings' = {closed(p) : p \in pendings}
    OBVIOUS
  <2>2. ASSUME NEW b \in breakpoints
        PROVE  /\ replaced(b) \in [id : 1 .. lastId, kind : BreakKinds, at : Funcs \cup SourceLines]
               /\ replaced(b).id = b.id /\ replaced(b).at = b.at
               /\ replaced(b).kind = IF \E p \in open : p.id = b.id THEN "func" ELSE b.kind
    BY <1>0 DEF RecordsOK
  <2>3. ASSUME NEW p \in pendings
        PROVE  /\ closed(p) \in [name : Funcs, id : 1 .. lastId, open : BOOLEAN]
               /\ closed(p).name = p.name /\ closed(p).id = p.id
               /\ closed(p).open <=> p.open /\ p \notin open
    BY <1>0 DEF RecordsOK
  <2>4. ASSUME NEW g \in matched' PROVE \E b \in breakpoints : b.at = g
    <3>1. CASE g \in matched
      BY <1>0, <3>1 DEF MatchedIsListed
    <3>2. CASE g = f /\ waiting # {}
      BY <1>0, <3>2 DEF PendingIsListed
    <3> QED
      BY <3>1, <3>2
  <2> HIDE DEF replaced, closed
  <2>5. ASSUME NEW g \in matched' PROVE \E b \in breakpoints' : b.at = g
    <3>1. PICK b \in breakpoints : b.at = g
      BY <2>4, <2>5
    <3> QED
      BY SMTT(30), <2>1, <2>2, <3>1
  <2>6. phase' # "none"
    OBVIOUS
  <2> QED
    BY <2>5, <2>6 DEF MatchedIsListed
<1>7. PendingIsListed'
  <2>1. /\ breakpoints' = {replaced(b) : b \in breakpoints}
        /\ pendings' = {closed(p) : p \in pendings}
    OBVIOUS
  <2>2. ASSUME NEW b \in breakpoints
        PROVE  /\ replaced(b) \in [id : 1 .. lastId, kind : BreakKinds, at : Funcs \cup SourceLines]
               /\ replaced(b).id = b.id /\ replaced(b).at = b.at
               /\ replaced(b).kind = IF \E p \in open : p.id = b.id THEN "func" ELSE b.kind
    BY <1>0 DEF RecordsOK
  <2>3. ASSUME NEW p \in pendings
        PROVE  /\ closed(p) \in [name : Funcs, id : 1 .. lastId, open : BOOLEAN]
               /\ closed(p).name = p.name /\ closed(p).id = p.id
               /\ closed(p).open <=> p.open /\ p \notin open
    BY <1>0 DEF RecordsOK
  <2>4. ASSUME NEW p \in open, NEW b \in breakpoints, p.id = b.id
        PROVE  b.at = f /\ b.kind = "name"
    BY <1>0, <2>4 DEF PendingIsListed, RecordsAreUnique
  <2> SUFFICES ASSUME NEW p \in pendings
               PROVE  \E b \in breakpoints :
                          /\ replaced(b).id = p.id /\ replaced(b).at = p.name
                          /\ replaced(b).kind = (IF closed(p).open THEN "name" ELSE "func")
    <3> HIDE DEF replaced, closed
    <3> QED
      BY SMTT(30), <2>1, <2>3 DEF PendingIsListed
  <2>5. PICK b \in breakpoints : /\ b.id = p.id /\ b.at = p.name
                                 /\ b.kind = (IF p.open THEN "name" ELSE "func")
    BY <1>0 DEF PendingIsListed
  <2>6. (\E q \in open : q.id = b.id) <=> p \in open
    <3>1. ASSUME NEW q \in open, q.id = b.id PROVE q = p
      BY <1>0, <2>4, <2>5, <3>1 DEF RecordsAreUnique
    <3> QED
      BY <2>5, <3>1
  <2>7. p \in open => p.open
    OBVIOUS
  <2> HIDE DEF replaced, closed, open
  <2>8. replaced(b).id = p.id /\ replaced(b).at = p.name
    BY <2>2, <2>5
  <2>9. CASE p \in open
    BY <2>2, <2>3, <2>6, <2>8, <2>9
  <2>10. CASE p \notin open
    BY <2>2, <2>3, <2>5, <2>6, <2>8, <2>10
  <2> QED
    BY <2>9, <2>10
<1>8. StepIsAsked'
  BY <1>0 DEF StepIsAsked
<1> QED
  BY <1>1, <1>2, <1>3, <1>4, <1>5, <1>6, <1>7, <1>8 DEF DebuggerIInv

(* Every step of the debugger and its program keeps the invariant; a       *)
(* function gets one breakpoint at most.                                   *)
LEMMA NextKeeps ==
    ASSUME ~TargetsAreShared, DebuggerIInv, [DebuggerNext]_debuggerVars
    PROVE  DebuggerIInv'
<1>1. ASSUME NEW n \in SourceLines, BreakLine(n) \/ ScriptStatement(n) PROVE DebuggerIInv'
  BY <1>1, BreakLineKeeps, ScriptStatementKeeps
<1>2. ASSUME NEW f \in Funcs, BreakPending(f) \/ BreakFunc(f) \/ ScriptCall(f) \/ Define(f)
      PROVE  DebuggerIInv'
  BY <1>2, BreakPendingKeeps, BreakFuncKeeps, ScriptCallKeeps, DefineKeeps
<1>3. ASSUME NEW id \in 1 .. MaxBreakpoints, RemoveBreakpoint(id) PROVE DebuggerIInv'
  BY <1>3, RemoveBreakpointKeeps
<1>4. ASSUME NEW cmd \in {"next", "step", "continue"}, Resume(cmd) PROVE DebuggerIInv'
  BY <1>4, ResumeKeeps
<1>5. CASE Run \/ Finish \/ ScriptReturn
  BY <1>5, RunKeeps, FinishKeeps, ScriptReturnKeeps
<1>6. CASE UNCHANGED debuggerVars
  BY <1>6 DEF debuggerVars, DebuggerIInv, RecordsOK, RecordsAreUnique, CountersOK, SwitchesOK,
              NamesWait, MatchedIsListed, PendingIsListed, StepIsAsked
<1> QED
  BY <1>1, <1>2, <1>3, <1>4, <1>5, <1>6 DEF DebuggerNext

(* With one breakpoint on a function at most, the inductive invariant      *)
(* holds in every reachable state, whatever the program does and whatever  *)
(* commands it is stopped with.                                            *)
THEOREM DebuggerInvariant == ASSUME ~TargetsAreShared PROVE DebuggerSpec => []DebuggerIInv
BY InitEstablishes, NextKeeps, PTL DEF DebuggerSpec

(* A defined function stops the program exactly when a breakpoint on it is *)
(* listed, a stop is due to a breakpoint or to the last command, and a     *)
(* pending entry always has its breakpoint (cs_debugger_step_callback,     *)
(* cs_debugger_func_callback, breakpoint_recorder).                        *)
THEOREM DebuggerCorrect == ASSUME ~TargetsAreShared PROVE DebuggerSpec => []DebuggerInv
<1>1. DebuggerIInv => DebuggerInv
  <2> SUFFICES ASSUME DebuggerIInv PROVE DebuggerInv
    OBVIOUS
  <2>0. /\ RecordsOK /\ RecordsAreUnique /\ CountersOK
        /\ NamesWait /\ MatchedIsListed /\ PendingIsListed /\ StepIsAsked
    BY DEF DebuggerIInv
  <2>1. DebuggerTypeOK
    BY <2>0 DEF DebuggerTypeOK, RecordsOK, RecordsAreUnique, CountersOK
  <2>2. ListedBreakpointsStop
    BY <2>0, DebuggerAssumption
    DEF ListedBreakpointsStop, RecordsOK, RecordsAreUnique, NamesWait, MatchedIsListed
  <2>3. StopsAsAsked
    BY <2>0 DEF StopsAsAsked, StepIsAsked
  <2> QED
    BY <2>0, <2>1, <2>2, <2>3 DEF DebuggerInv
<1> QED
  BY <1>1, DebuggerInvariant, PTL
=============================================================================
