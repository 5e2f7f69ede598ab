--------------------------- MODULE SamplingProofs ---------------------------
(* Proofs about the log of the instrumented program and its reading, for   *)
(* runs of any length.                                                     *)
EXTENDS Sampling, SequenceTheorems, TLAPS

Numbers == 1 .. MaxCalls

(* The domain and the elements of a sequence.                              *)
LEMMA SeqDomain ==
    ASSUME NEW T, NEW s \in Seq(T)
    PROVE  DOMAIN s = 1..Len(s) /\ Len(s) \in Nat /\ \A i \in 1..Len(s) : s[i] \in T
  OBVIOUS

(* The first h elements of a sequence.                                     *)
LEMMA Prefix ==
    ASSUME NEW T, NEW s \in Seq(T), NEW h \in 0 .. Len(s)
    PROVE  /\ SubSeq(s, 1, h) \in Seq(T)
           /\ Len(SubSeq(s, 1, h)) = h
           /\ \A i \in 1 .. h : SubSeq(s, 1, h)[i] = s[i]
<1>1. h \in Nat /\ Len(s) \in Nat /\ \A i \in 1..h : s[i] \in T
  BY SeqDomain
<1>2. /\ SubSeq(s, 1, h) \in Seq(T)
      /\ Len(SubSeq(s, 1, h)) = IF 1 <= h THEN h - 1 + 1 ELSE 0
      /\ \A i \in 1..(h - 1 + 1) : SubSeq(s, 1, h)[i] = s[1 + i - 1]
  BY <1>1, SubSeqProperties
<1>3. \A i \in 1 .. h : 1 + i - 1 = i
  OBVIOUS
<1> QED BY <1>1, <1>2, <1>3

(* A sequence with one more element.                                       *)
LEMMA Longer ==
    ASSUME NEW T, NEW s \in Seq(T), NEW e \in T
    PROVE  /\ Append(s, e) \in Seq(T)
           /\ Len(Append(s, e)) = Len(s) + 1
           /\ \A i \in 1 .. Len(s) : Append(s, e)[i] = s[i]
           /\ Append(s, e)[Len(s) + 1] = e
  OBVIOUS

(* A sequence with another element in the place of the last.               *)
LEMMA Replaced ==
    ASSUME NEW T, NEW s \in Seq(T), NEW e \in T, Len(s) > 0
    PROVE  /\ [s EXCEPT ![Len(s)] = e] \in Seq(T)
           /\ Len([s EXCEPT ![Len(s)] = e]) = Len(s)
           /\ \A i \in 1 .. Len(s) : i # Len(s) => [s EXCEPT ![Len(s)] = e][i] = s[i]
           /\ [s EXCEPT ![Len(s)] = e][Len(s)] = e
  OBVIOUS

-----------------------------------------------------------------------------
(* The calls in progress: at most one probe, and then callflag is down; a  *)
(* call in the middle of its line has a probe on it or nothing; calls are  *)
(* numbered upwards.                                                       *)
StackInv ==
    pc = "run" =>
        /\ callflag => \A i \in 1 .. Len(stack) : stack[i].code # "probe"
        /\ \A i, j \in 1 .. Len(stack) :
               stack[i].code = "probe" /\ stack[j].code = "probe" => i = j
        /\ \A i \in 1 .. Len(stack) : stack[i].dumping =>
               /\ stack[i].code = "defined"
               /\ i < Len(stack) => stack[i + 1].code = "probe"
        /\ \A i \in 1 .. Len(stack) :
               IF stack[i].code = "probe" THEN ~stack[i].logged /\ stack[i].call = 0
               ELSE stack[i].call \in 1 .. calls
        /\ \A i, j \in 1 .. Len(stack) :
               i < j /\ stack[j].code # "probe" => stack[i].call < stack[j].call

CallInv == TypeOK /\ StackInv

(* What a prefix of the stack satisfies.                                   *)
LEMMA PopStack ==
    ASSUME CallInv, pc = "run", NEW h \in 0 .. Len(stack), stack' = SubSeq(stack, 1, h),
           callflag' = callflag \/ \A i \in 1 .. h : stack[i].code # "probe",
           calls' = calls
    PROVE  stack' \in Seq(Frame) /\ StackInv'
<1>1. stack' \in Seq(Frame) /\ Len(stack') = h /\ \A i \in 1 .. h : stack'[i] = stack[i]
  BY Prefix DEF CallInv, TypeOK
<1>2. Len(stack) \in Nat
  BY SeqDomain DEF CallInv, TypeOK
<1> QED BY <1>1, <1>2 DEF CallInv, StackInv

(* A call or a probe is put on the stack.                                  *)
LEMMA PushStack ==
    ASSUME CallInv, pc = "run", NEW e \in Frame, stack' = Append(stack, e),
           ~e.dumping,
           \A i \in 1 .. Len(stack) : i = Len(stack) /\ stack[i].dumping => e.code = "probe",
           e.code = "probe" => callflag /\ ~callflag' /\ ~e.logged /\ e.call = 0 /\ calls' = calls,
           e.code # "probe" => callflag' = callflag /\ e.call = calls' /\ calls' = calls + 1
    PROVE  stack' \in Seq(Frame) /\ StackInv'
<1>1. /\ stack' \in Seq(Frame) /\ Len(stack') = Len(stack) + 1
      /\ \A i \in 1 .. Len(stack) : stack'[i] = stack[i]
      /\ stack'[Len(stack) + 1] = e
  BY Longer DEF CallInv, TypeOK
<1>2. Len(stack) \in Nat /\ calls \in Nat /\ \A i \in 1 .. Len(stack) : stack[i] \in Frame
  BY SamplingAssumption, SeqDomain DEF CallInv, TypeOK
<1>3. callflag' => callflag
  BY Zenon DEF CallInv, TypeOK
<1>4. \A i \in 1 .. Len(stack) : stack[i].call \in Nat
  BY <1>2, SamplingAssumption DEF Frame
<1>5. \A i \in 1 .. Len(stack) : stack[i].call < calls + 1
  BY <1>2, <1>4 DEF CallInv, StackInv
<1>6. \A i \in 1 .. Len(stack') : i \in 1 .. Len(stack) \/ i = Len(stack) + 1
  BY <1>1, <1>2
<1> QED BY <1>1, <1>2, <1>3, <1>4, <1>5, <1>6 DEF CallInv, StackInv

-----------------------------------------------------------------------------
(* The type and the stack invariant hold initially.                        *)
LEMMA CallInit == Init => CallInv
<1> SUFFICES ASSUME Init PROVE CallInv
  OBVIOUS
<1>1. Len(stack) = 0 /\ 0 \in 0 .. MaxCalls
  BY SamplingAssumption DEF Init
<1>2. StackInv
  BY <1>1 DEF StackInv
<1>3. TypeOK
  <2>1. stack \in Seq(Frame) /\ log \in Seq({"env", "name"} \X (1 .. MaxCalls))
        /\ env_stack \in Seq(1 .. MaxCalls)
    BY DEF Init
  <2>2. samples \in SUBSET ((1 .. MaxCalls) \X (1 .. MaxCalls))
    BY DEF Init
  <2>3. /\ callflag \in BOOLEAN /\ orphan \in BOOLEAN /\ stale \in BOOLEAN
        /\ reachability \in BOOLEAN
    BY Zenon DEF Init
  <2> QED BY <1>1, <2>1, <2>2, <2>3 DEF Init, TypeOK
<1> QED BY <1>2, <1>3 DEF CallInv

(* Facts about the running call.                                           *)
LEMMA TopProps ==
    ASSUME CallInv, ~Idle
    PROVE  /\ Len(stack) \in Nat \ {0} /\ Top \in Frame /\ Top = stack[Len(stack)]
           /\ Len(stack) - 1 \in 0 .. Len(stack)
           /\ Below = SubSeq(stack, 1, Len(stack) - 1)
<1>1. Len(stack) \in Nat /\ \A i \in 1 .. Len(stack) : stack[i] \in Frame
  BY SeqDomain DEF CallInv, TypeOK
<1>2. Len(stack) # 0
  BY EmptySeq DEF CallInv, TypeOK, Idle
<1> QED BY <1>1, <1>2 DEF Top, Below

(* The number of a running function of the program.                        *)
LEMMA DefinedCall ==
    ASSUME CallInv, pc = "run", ~Idle, Top.code = "defined"
    PROVE  Top.call \in 1 .. MaxCalls
<1>1. Len(stack) \in 1 .. Len(stack) /\ Top = stack[Len(stack)]
  BY TopProps
<1>2. Top.call \in 1 .. calls
  BY <1>1 DEF CallInv, StackInv
<1> QED BY <1>2, SamplingAssumption DEF CallInv, TypeOK

(* What the end of a line adds to mixed.                                   *)
LEMMA ForeignType ==
    ASSUME CallInv, NEW kind \in {"env", "name"}, NEW call \in 1 .. MaxCalls
    PROVE  mixed \cup Foreign(kind, call) \in
               SUBSET ({"env", "name"} \X (1 .. MaxCalls) \X (1 .. MaxCalls))
  BY DEF Foreign, CallInv, TypeOK

(* A call is made.                                                         *)
LEMMA InvCall ==
    ASSUME CallInv, NEW code \in Code, Call(code)
    PROVE  CallInv'
<1>1. PICK logged \in MayLog(code) :
        /\ log' = IF logged THEN Append(log, <<"env", calls'>>) ELSE log
        /\ stack' = Append(stack, [code |-> code, call |-> calls',
                                   logged |-> logged, dumping |-> FALSE])
        /\ line' = IF logged THEN {} ELSE line
        /\ mixed' = IF logged THEN mixed \cup Foreign("env", calls') ELSE mixed
  BY DEF Call
<1> DEFINE e == [code |-> code, call |-> calls', logged |-> logged, dumping |-> FALSE]
<1>2. logged \in BOOLEAN /\ code # "probe" /\ calls \in Nat /\ calls' \in 1 .. MaxCalls
      /\ calls' = calls + 1 /\ calls' \in 0 .. MaxCalls
  <2>1. logged \in BOOLEAN
    BY Zenon DEF MayLog
  <2>2. code # "probe"
    BY DEF Code
  <2>3. calls \in 0 .. MaxCalls /\ calls' = calls + 1 /\ calls < MaxCalls
    BY DEF Call, CallInv, TypeOK
  <2> QED BY <2>1, <2>2, <2>3, SamplingAssumption
<1>3. e \in Frame
  BY <1>2 DEF Frame
<1>4. \A i \in 1 .. Len(stack) : ~(i = Len(stack) /\ stack[i].dumping)
  <2>1. CASE Idle
    BY <2>1 DEF Idle
  <2>2. CASE ~Idle
    BY <2>2, TopProps DEF Call
  <2> QED BY <2>1, <2>2
<1>5. stack' \in Seq(Frame) /\ StackInv'
  <2> HIDE DEF e
  <2>1. ~e.dumping /\ e.code # "probe" /\ e.call = calls'
    BY <1>2 DEF e
  <2>2. stack' = Append(stack, e) /\ pc = "run" /\ callflag' = callflag
    BY <1>1 DEF e, Call
  <2> QED BY <1>2, <1>3, <1>4, <2>1, <2>2, PushStack
<1>6. log' \in Seq({"env", "name"} \X (1 .. MaxCalls))
  <2>1. <<"env", calls'>> \in {"env", "name"} \X (1 .. MaxCalls)
    BY <1>2
  <2> QED BY <1>1, <2>1, Longer DEF CallInv, TypeOK
<1>7. /\ line' \in SUBSET (1 .. MaxCalls)
      /\ mixed' \in SUBSET ({"env", "name"} \X (1 .. MaxCalls) \X (1 .. MaxCalls))
  BY <1>1, <1>2, ForeignType DEF CallInv, TypeOK
<1> QED BY <1>2, <1>5, <1>6, <1>7 DEF Call, reader, CallInv, TypeOK

(* A call returns without a line.                                          *)
LEMMA InvReturn ==
    ASSUME CallInv, Return
    PROVE  CallInv'
<1>1. stack' \in Seq(Frame) /\ StackInv'
  BY TopProps, PopStack DEF Return
<1>2. Top.code = "defined" => Top.call \in 1 .. MaxCalls
  BY DefinedCall DEF Return
<1>3. line' \in SUBSET (1 .. MaxCalls)
  BY <1>2 DEF Return, MayWriteHeap, CallInv, TypeOK
<1> QED BY <1>1, <1>3 DEF Return, reader, CallInv, TypeOK

(* A name line is begun.                                                   *)
LEMMA InvBeginLine ==
    ASSUME CallInv, BeginLine
    PROVE  CallInv'
<1> DEFINE n == Len(stack)
<1>1. n \in Nat \ {0} /\ Top \in Frame /\ Top = stack[n] /\ Top.code = "defined"
  BY TopProps DEF BeginLine
<1>2. /\ stack' \in Seq(Frame) /\ Len(stack') = n
      /\ \A i \in 1 .. n : i # n => stack'[i] = stack[i]
      /\ stack'[n] = [Top EXCEPT !.dumping = TRUE]
  <2>1. [Top EXCEPT !.dumping = TRUE] \in Frame
    BY <1>1 DEF Frame
  <2>2. stack' = [stack EXCEPT ![n] = [Top EXCEPT !.dumping = TRUE]]
    BY <1>1 DEF BeginLine
  <2>3. stack \in Seq(Frame) /\ Len(stack) > 0
    BY <1>1 DEF CallInv, TypeOK
  <2> DEFINE e == [Top EXCEPT !.dumping = TRUE]
  <2>4. stack' = [stack EXCEPT ![Len(stack)] = e] /\ e \in Frame
    BY <2>1, <2>2
  <2> HIDE DEF e
  <2>5. /\ stack' \in Seq(Frame) /\ Len(stack') = Len(stack)
        /\ \A i \in 1 .. Len(stack) : i # Len(stack) => stack'[i] = stack[i]
        /\ stack'[Len(stack)] = e
    BY <2>3, <2>4, Replaced
  <2> QED BY <2>5 DEF e
<1>3. /\ stack'[n].code = Top.code /\ stack'[n].call = Top.call
      /\ stack'[n].logged = Top.logged
  BY <1>1, <1>2 DEF Frame
<1>4. \A i \in 1 .. n : /\ stack'[i].code = stack[i].code
                        /\ stack'[i].call = stack[i].call
                        /\ stack'[i].logged = stack[i].logged
  BY <1>1, <1>2, <1>3
<1>5. \A i \in 1 .. n : i < n => i + 1 \in 1 .. n
  BY <1>1
<1>6. StackInv'
  <2> HIDE DEF n
  <2>1. n = Len(stack)
    BY DEF n
  <2> QED BY <1>1, <1>2, <1>4, <1>5, <2>1 DEF CallInv, StackInv, BeginLine
<1>7. line' \in SUBSET (1 .. MaxCalls)
  BY DefinedCall DEF BeginLine, CallInv, TypeOK
<1> QED BY <1>2, <1>6, <1>7 DEF BeginLine, reader, CallInv, TypeOK

(* A name line is ended.                                                   *)
LEMMA InvEndLine ==
    ASSUME CallInv, EndLine
    PROVE  CallInv'
<1>1. stack' \in Seq(Frame) /\ StackInv'
  BY TopProps, PopStack DEF EndLine
<1>2. Top.code = "defined" /\ Top.call \in 1 .. MaxCalls
  <2>1. Top.code = "defined"
    BY TopProps DEF EndLine, CallInv, StackInv
  <2> QED BY <2>1, DefinedCall DEF EndLine
<1>3. log' \in Seq({"env", "name"} \X (1 .. MaxCalls))
  <2>1. <<"name", Top.call>> \in {"env", "name"} \X (1 .. MaxCalls)
    BY <1>2
  <2> QED BY <2>1, Longer DEF EndLine, CallInv, TypeOK
<1>4. mixed' \in SUBSET ({"env", "name"} \X (1 .. MaxCalls) \X (1 .. MaxCalls))
  BY <1>2, ForeignType DEF EndLine
<1> QED BY <1>1, <1>3, <1>4 DEF EndLine, reader, CallInv, TypeOK

(* A probe begins, or ends.                                                *)
LEMMA InvProbe ==
    ASSUME CallInv, Probe
    PROVE  CallInv'
<1>1. AProbe \in Frame /\ AProbe.code = "probe" /\ ~AProbe.dumping /\ ~AProbe.logged
      /\ AProbe.call = 0
  BY SamplingAssumption DEF AProbe, Frame
<1>2. stack' \in Seq(Frame) /\ StackInv'
  BY <1>1, PushStack DEF Probe
<1> QED BY <1>2 DEF Probe, reader, text, CallInv, TypeOK

LEMMA InvProbeEnd ==
    ASSUME CallInv, ProbeEnd
    PROVE  CallInv'
<1>1. \A i \in 1 .. Len(stack) - 1 : stack[i].code # "probe"
  BY TopProps DEF ProbeEnd, CallInv, StackInv
<1>2. stack' \in Seq(Frame) /\ StackInv'
  BY <1>1, TopProps, PopStack DEF ProbeEnd
<1> QED BY <1>2 DEF ProbeEnd, reader, text, CallInv, TypeOK

(* An exception is raised and caught, or ends the program.                 *)
LEMMA InvRaise ==
    ASSUME CallInv, Raise
    PROVE  CallInv'
<1>1. PICK h \in 0 .. Len(stack) - 1 :
        /\ stack' = SubSeq(stack, 1, h)
        /\ stale' = (stale \/ \E i \in h + 1 .. Len(stack) : stack[i].logged)
        /\ pc' = IF h = 0 THEN "read" ELSE "run"
  BY DEF Raise
<1>2. h \in 0 .. Len(stack)
  BY TopProps DEF Raise
<1>3. stack' \in Seq(Frame) /\ StackInv'
  BY <1>1, <1>2, PopStack DEF Raise
<1> QED BY <1>1, <1>3 DEF Raise, reader, text, CallInv, TypeOK

(* The reader's steps.                                                     *)
LEMMA InvRead ==
    ASSUME CallInv, EndRun \/ ReadEnv \/ ReadName \/ Starve \/ EndRead \/ Done
    PROVE  CallInv'
<1>1. CASE EndRun \/ Starve \/ EndRead \/ Done
  BY <1>1 DEF EndRun, Starve, EndRead, Done, vars, reader, text, CallInv, TypeOK, StackInv
<1>2. ASSUME log # <<>>
      PROVE  /\ Line \in {"env", "name"} \X (1 .. MaxCalls)
             /\ Tail(log) \in Seq({"env", "name"} \X (1 .. MaxCalls))
  BY <1>2, HeadTailProperties DEF Line, CallInv, TypeOK
<1>3. CASE ReadEnv
  <2>1. Line[2] \in 1 .. MaxCalls
    BY <1>2, <1>3 DEF ReadEnv
  <2>2. <<Line[2]>> \o env_stack \in Seq(1 .. MaxCalls)
    BY <2>1 DEF CallInv, TypeOK
  <2>3. StackInv'
    BY <1>3 DEF ReadEnv, StackInv
  <2> QED BY <1>2, <1>3, <2>2, <2>3 DEF ReadEnv, text, CallInv, TypeOK
<1>4. CASE ReadName
  <2>1. Line[2] \in 1 .. MaxCalls
    BY <1>2, <1>4 DEF ReadName
  <2>2. Head(env_stack) \in 1 .. MaxCalls /\ Tail(env_stack) \in Seq(1 .. MaxCalls)
    BY <1>4, HeadTailProperties DEF ReadName, CallInv, TypeOK
  <2>3. samples' \in SUBSET ((1 .. MaxCalls) \X (1 .. MaxCalls))
    BY <1>4, <2>1, <2>2 DEF ReadName, CallInv, TypeOK
  <2>4. StackInv'
    BY <1>4 DEF ReadName, StackInv
  <2> QED BY <1>2, <1>4, <2>2, <2>3, <2>4 DEF ReadName, text, CallInv, TypeOK
<1> QED BY <1>1, <1>3, <1>4

(* Every step keeps the type and the stack invariant.                      *)
LEMMA CallNext == CallInv /\ [Next]_vars => CallInv'
<1> SUFFICES ASSUME CallInv, [Next]_vars PROVE CallInv'
  OBVIOUS
<1>1. CASE UNCHANGED vars
  BY <1>1 DEF vars, reader, text, CallInv, TypeOK, StackInv
<1>2. ASSUME NEW code \in Code, Call(code) PROVE CallInv'
  BY <1>2, InvCall
<1> QED BY <1>1, <1>2, InvReturn, InvBeginLine, InvEndLine, InvProbe, InvProbeEnd,
           InvRaise, InvRead DEF Next

(* Every variable keeps its type.                                          *)
THEOREM TypeCorrect == Spec => []TypeOK
<1>1. Spec => []CallInv
  BY CallInit, CallNext, PTL DEF Spec
<1> QED BY <1>1, PTL DEF CallInv

-----------------------------------------------------------------------------
(* The unfinished line: no probe is under a line in progress, so there is  *)
(* one at most; while callflag is down it is below the running code; and   *)
(* it holds the text of its call or, under -reachability, of later ones.   *)
LineInv ==
    pc = "run" =>
        /\ \A i, j \in 1 .. Len(stack) : i < j /\ stack[j].dumping => stack[i].code # "probe"
        /\ ~callflag => \E i \in 1 .. Len(stack) : i < Len(stack) /\ stack[i].dumping
        /\ \A w \in line : \E i \in 1 .. Len(stack) :
               /\ stack[i].dumping
               /\ w = stack[i].call \/ (reachability /\ w > stack[i].call)

WholeInv == LineInv /\ LinesWhole

LEMMA WholeInit == Init => WholeInv
<1> SUFFICES ASSUME Init PROVE WholeInv
  OBVIOUS
<1>1. Len(stack) = 0 /\ line = {} /\ mixed = {} /\ pc = "run" /\ callflag = TRUE
  BY DEF Init
<1> QED BY <1>1 DEF WholeInv, LineInv, LinesWhole

(* A line in progress has a probe on it, or is that of the running call.   *)
LEMMA DumpProps ==
    ASSUME CallInv, LineInv, pc = "run"
    PROVE  /\ Len(stack) \in Nat
           /\ \A i \in 1 .. Len(stack) : stack[i].dumping /\ i # Len(stack) =>
                  i + 1 \in 1 .. Len(stack) /\ stack[i + 1].code = "probe" /\ ~callflag
           /\ \A i, j \in 1 .. Len(stack) : stack[i].dumping /\ stack[j].dumping => i = j
<1>1. Len(stack) \in Nat
  BY SeqDomain DEF CallInv, TypeOK
<1>2. \A i \in 1 .. Len(stack) : i # Len(stack) => i < Len(stack) /\ i + 1 \in 1 .. Len(stack)
  BY <1>1
<1>3. \A i \in 1 .. Len(stack) : stack[i].dumping /\ i # Len(stack) =>
          i + 1 \in 1 .. Len(stack) /\ stack[i + 1].code = "probe" /\ ~callflag
  BY <1>2 DEF CallInv, StackInv
<1>4. ASSUME NEW i \in 1 .. Len(stack), NEW j \in 1 .. Len(stack), i < j,
             stack[i].dumping, stack[j].dumping
      PROVE  FALSE
  <2>1. i + 1 \in 1 .. Len(stack) /\ stack[i + 1].code = "probe"
    BY <1>1, <1>3, <1>4
  <2>2. stack[j].code = "defined"
    BY <1>4 DEF CallInv, StackInv
  <2>3. i + 1 < j
    BY <1>1, <1>4, <2>1, <2>2
  <2> QED BY <1>4, <2>1, <2>3 DEF LineInv
<1>5. \A i, j \in 1 .. Len(stack) : i = j \/ i < j \/ j < i
  BY <1>1
<1> QED BY <1>1, <1>3, <1>4, <1>5

(* While callflag is up and the running call writes no line, there is none. *)
LEMMA NoLine ==
    ASSUME CallInv, LineInv, pc = "run", callflag, ~Idle => ~Top.dumping
    PROVE  line = {} /\ \A i \in 1 .. Len(stack) : ~stack[i].dumping
<1>1. \A i \in 1 .. Len(stack) : ~stack[i].dumping
  <2> SUFFICES ASSUME NEW i \in 1 .. Len(stack), stack[i].dumping PROVE FALSE
    OBVIOUS
  <2>1. i = Len(stack)
    BY DumpProps
  <2>2. ~Idle
    BY <2>1 DEF Idle
  <2> QED BY <2>1, <2>2 DEF Top
<1> QED BY <1>1 DEF LineInv

(* The calls above the h-th end, none of them writing a line.              *)
LEMMA WholePop ==
    ASSUME CallInv, LineInv, pc = "run",
           NEW h \in 0 .. Len(stack), stack' = SubSeq(stack, 1, h),
           \A i \in 1 .. Len(stack) : stack[i].dumping => i <= h,
           callflag' \/ \A i \in 1 .. Len(stack) : i < Len(stack) /\ stack[i].dumping => i < h,
           callflag' \/ ~callflag, reachability' = reachability,
           \A w \in line' : w \in line \/
               \E i \in 1 .. Len(stack) : stack[i].dumping /\ reachability /\ w > stack[i].call
    PROVE  LineInv' /\ (h = 0 => line' = {})
<1>1. Len(stack') = h /\ \A i \in 1 .. h : stack'[i] = stack[i]
  BY Prefix DEF CallInv, TypeOK
<1>2. Len(stack) \in Nat /\ \A i \in 1 .. h : i \in 1 .. Len(stack)
  BY DumpProps
<1>3. \A i, j \in 1 .. Len(stack') : i < j /\ stack'[j].dumping => stack'[i].code # "probe"
  BY <1>1, <1>2 DEF LineInv
<1>4. \A i \in 1 .. Len(stack) : stack[i].dumping => i \in 1 .. h
  BY <1>2
<1>5. ~callflag' => \E i \in 1 .. Len(stack') : i < Len(stack') /\ stack'[i].dumping
  BY <1>1, <1>4 DEF LineInv
<1>6. \A w \in line' : \E i \in 1 .. Len(stack') :
          /\ stack'[i].dumping
          /\ w = stack'[i].call \/ (reachability' /\ w > stack'[i].call)
  <2> SUFFICES ASSUME NEW w \in line'
               PROVE  \E i \in 1 .. Len(stack') :
                          /\ stack'[i].dumping
                          /\ w = stack'[i].call \/ (reachability' /\ w > stack'[i].call)
    OBVIOUS
  <2>1. PICK i \in 1 .. Len(stack) :
          stack[i].dumping /\ (w = stack[i].call \/ (reachability /\ w > stack[i].call))
    BY DEF LineInv
  <2> QED BY <1>1, <1>4, <2>1
<1>7. h = 0 => line' = {}
  BY <1>1, <1>6
<1> QED BY <1>3, <1>5, <1>6, <1>7 DEF LineInv

LEMMA WholeCall ==
    ASSUME CallInv, WholeInv, NEW code \in Code, Call(code)
    PROVE  WholeInv'
<1>1. PICK logged \in MayLog(code) :
        /\ stack' = Append(stack, [code |-> code, call |-> calls',
                                   logged |-> logged, dumping |-> FALSE])
        /\ line' = IF logged THEN {} ELSE line
        /\ mixed' = IF logged THEN mixed \cup Foreign("env", calls') ELSE mixed
  BY DEF Call
<1> DEFINE e == [code |-> code, call |-> calls', logged |-> logged, dumping |-> FALSE]
<1>2. e \in Frame /\ ~e.dumping
  <2>1. logged \in BOOLEAN
    BY Zenon DEF MayLog
  <2>2. calls' \in 0 .. MaxCalls
    BY InvCall DEF CallInv, TypeOK
  <2> QED BY <2>1, <2>2 DEF Frame
<1> HIDE DEF e
<1>3. /\ Len(stack') = Len(stack) + 1 /\ Len(stack) \in Nat
      /\ \A i \in 1 .. Len(stack) : stack'[i] = stack[i]
      /\ stack'[Len(stack) + 1] = e
  <2>1. stack \in Seq(Frame) /\ Len(stack) \in Nat
    BY SeqDomain DEF CallInv, TypeOK
  <2> QED BY <1>1, <1>2, <2>1, Longer DEF e
<1>4. logged => callflag
  BY Zenon DEF MayLog
<1>5. pc = "run" /\ pc' = "run" /\ UNCHANGED <<callflag, reachability>>
      /\ (~Idle => ~Top.dumping)
  BY DEF Call
<1>6. logged => line = {} /\ line' = {} /\ mixed' = mixed
  BY <1>1, <1>4, <1>5, NoLine DEF Foreign, WholeInv
<1>7. line' = line /\ mixed' = mixed
  BY <1>1, <1>6, Zenon
<1>8. \A i \in 1 .. Len(stack') : i \in 1 .. Len(stack) \/ i = Len(stack) + 1
  BY <1>3
<1>9. LineInv'
  <2>1. \A i, j \in 1 .. Len(stack') : i < j /\ stack'[j].dumping => stack'[i].code # "probe"
    <3> SUFFICES ASSUME NEW i \in 1 .. Len(stack'), NEW j \in 1 .. Len(stack'), i < j,
                        stack'[j].dumping
                 PROVE  stack'[i].code # "probe"
      OBVIOUS
    <3>1. i \in 1 .. Len(stack) /\ j \in 1 .. Len(stack)
      BY <1>2, <1>3, <1>8
    <3> QED BY <1>3, <1>5, <3>1 DEF WholeInv, LineInv
  <2>2. \A i \in 1 .. Len(stack) : i \in 1 .. Len(stack') /\ i < Len(stack')
    BY <1>3
  <2> QED BY <1>3, <1>5, <1>7, <2>1, <2>2 DEF WholeInv, LineInv
<1> QED BY <1>5, <1>7, <1>9 DEF WholeInv, LinesWhole

(* A function that ends in a probe was called after the probe's line was   *)
(* begun, by a call above that of the line.                                *)
LEMMA WholeReturn ==
    ASSUME CallInv, WholeInv, Return
    PROVE  WholeInv'
<1>1. /\ Len(stack) \in Nat \ {0} /\ Top = stack[Len(stack)]
      /\ Len(stack) - 1 \in 0 .. Len(stack) /\ Below = SubSeq(stack, 1, Len(stack) - 1)
      /\ Top.code # "probe" /\ ~Top.dumping
  BY TopProps DEF Return, Code
<1>2. pc = "run" /\ pc' = "run" /\ UNCHANGED <<callflag, reachability, mixed>> /\ stack' = Below
  BY DEF Return
<1>3. \A i \in 1 .. Len(stack) : stack[i].dumping => i < Len(stack) - 1
  <2> SUFFICES ASSUME NEW i \in 1 .. Len(stack), stack[i].dumping PROVE i < Len(stack) - 1
    OBVIOUS
  <2>1. i + 1 \in 1 .. Len(stack) /\ stack[i + 1].code = "probe"
    BY <1>1, <1>2, DumpProps DEF WholeInv
  <2> QED BY <1>1, <2>1
<1>4. \A w \in line' : w \in line \/
          \E i \in 1 .. Len(stack) : stack[i].dumping /\ reachability /\ w > stack[i].call
  <2> SUFFICES ASSUME NEW w \in line', w \notin line
               PROVE  \E i \in 1 .. Len(stack) :
                          stack[i].dumping /\ reachability /\ w > stack[i].call
    OBVIOUS
  <2>1. w = Top.call /\ reachability /\ Top.code = "defined"
    BY DEF Return, MayWriteHeap
  <2>2. ~callflag
    BY <2>1, Zenon DEF Return
  <2>3. PICK i \in 1 .. Len(stack) : i < Len(stack) /\ stack[i].dumping
    BY <1>2, <2>2 DEF WholeInv, LineInv
  <2>4. stack[i].call < stack[Len(stack)].call
    BY <1>1, <1>2, <2>3 DEF CallInv, StackInv
  <2>5. stack[i].call \in Nat /\ Top.call \in Nat
    <3>1. stack[i] \in Frame /\ Top \in Frame
      BY TopProps, SeqDomain DEF Return, CallInv, TypeOK
    <3> QED BY <3>1, SamplingAssumption DEF Frame
  <2> QED BY <1>1, <2>1, <2>3, <2>4, <2>5
<1>5. LineInv'
  <2>1. \A i \in 1 .. Len(stack) : stack[i].dumping =>
            i <= Len(stack) - 1 /\ (i < Len(stack) /\ stack[i].dumping => i < Len(stack) - 1)
    BY <1>1, <1>3
  <2>2. callflag' \/ ~callflag
    BY <1>2, Zenon DEF CallInv, TypeOK
  <2> QED BY <1>1, <1>2, <1>4, <2>1, <2>2, WholePop DEF WholeInv
<1> QED BY <1>2, <1>5 DEF WholeInv, LinesWhole

LEMMA WholeBeginLine ==
    ASSUME CallInv, WholeInv, BeginLine
    PROVE  WholeInv'
<1>1. /\ Len(stack) \in Nat \ {0} /\ Top \in Frame /\ Top = stack[Len(stack)]
      /\ pc = "run" /\ pc' = "run" /\ callflag /\ callflag' /\ ~Top.dumping
      /\ line' = line \cup {Top.call} /\ UNCHANGED <<reachability, mixed>>
  BY TopProps DEF BeginLine
<1>2. line = {}
  BY <1>1, NoLine DEF WholeInv
<1>3. /\ Len(stack') = Len(stack)
      /\ \A i \in 1 .. Len(stack) : stack'[i].code = stack[i].code
      /\ stack'[Len(stack)].dumping /\ stack'[Len(stack)].call = Top.call
  <2> DEFINE e == [Top EXCEPT !.dumping = TRUE]
  <2>1. e \in Frame /\ e.code = Top.code /\ e.call = Top.call /\ e.dumping
    BY <1>1 DEF Frame
  <2>2. stack' = [stack EXCEPT ![Len(stack)] = e]
    <3>1. DOMAIN stack = 1 .. Len(stack)
      BY SeqDomain DEF CallInv, TypeOK
    <3> QED BY <1>1, <3>1 DEF BeginLine
  <2> HIDE DEF e
  <2>3. stack \in Seq(Frame) /\ Len(stack) > 0
    BY <1>1 DEF CallInv, TypeOK
  <2> QED BY <1>1, <2>1, <2>2, <2>3, Replaced
<1>4. \A i \in 1 .. Len(stack) : stack[i].code # "probe"
  BY <1>1 DEF CallInv, StackInv
<1>5. Len(stack) \in 1 .. Len(stack)
  BY <1>1
<1> QED BY <1>1, <1>2, <1>3, <1>4, <1>5 DEF WholeInv, LineInv, LinesWhole

LEMMA WholeEndLine ==
    ASSUME CallInv, WholeInv, EndLine
    PROVE  WholeInv'
<1>1. /\ Len(stack) \in Nat \ {0} /\ Top = stack[Len(stack)]
      /\ Len(stack) - 1 \in 0 .. Len(stack) /\ Below = SubSeq(stack, 1, Len(stack) - 1)
      /\ pc = "run" /\ pc' = "run" /\ stack' = Below /\ line' = {} /\ Top.dumping
      /\ mixed' = mixed \cup Foreign("name", Top.call) /\ UNCHANGED <<callflag, reachability>>
  BY TopProps DEF EndLine
<1>2. \A i \in 1 .. Len(stack) : stack[i].dumping => i = Len(stack)
  <2>1. Len(stack) \in 1 .. Len(stack)
    BY <1>1
  <2> QED BY <1>1, <2>1, DumpProps DEF WholeInv
<1>3. callflag
  <2> SUFFICES ASSUME ~callflag PROVE FALSE
    OBVIOUS
  <2>1. PICK i \in 1 .. Len(stack) : i < Len(stack) /\ stack[i].dumping
    BY <1>1 DEF WholeInv, LineInv
  <2> QED BY <1>1, <1>2, <2>1
<1>4. LineInv'
  <2>1. Len(stack') = Len(stack) - 1
        /\ \A i \in 1 .. Len(stack) - 1 : stack'[i] = stack[i] /\ i \in 1 .. Len(stack)
    <3>1. Len(stack') = Len(stack) - 1
          /\ \A i \in 1 .. Len(stack) - 1 : stack'[i] = stack[i]
      BY <1>1, Prefix DEF CallInv, TypeOK
    <3>2. \A i \in 1 .. Len(stack) - 1 : i \in 1 .. Len(stack)
      BY <1>1
    <3> QED BY <3>1, <3>2
  <2>2. callflag'
    BY <1>1, <1>3
  <2> QED BY <1>1, <2>1, <2>2 DEF WholeInv, LineInv
<1>5. \A m \in Foreign("name", Top.call) : reachability /\ m[1] = "name" /\ m[3] > m[2]
  <2> SUFFICES ASSUME NEW w \in line, w # Top.call
               PROVE  reachability /\ w > Top.call
    BY DEF Foreign
  <2>1. PICK i \in 1 .. Len(stack) :
          stack[i].dumping /\ (w = stack[i].call \/ (reachability /\ w > stack[i].call))
    BY <1>1 DEF WholeInv, LineInv
  <2> QED BY <1>1, <1>2, <2>1
<1> QED BY <1>1, <1>4, <1>5 DEF WholeInv, LinesWhole

LEMMA WholeProbe ==
    ASSUME CallInv, WholeInv, Probe \/ ProbeEnd
    PROVE  WholeInv'
<1>1. /\ Len(stack) \in Nat \ {0} /\ Top = stack[Len(stack)]
      /\ Len(stack) - 1 \in 0 .. Len(stack) /\ Below = SubSeq(stack, 1, Len(stack) - 1)
      /\ pc = "run" /\ pc' = "run" /\ UNCHANGED <<reachability, line, mixed>>
  BY TopProps DEF Probe, ProbeEnd, text
<1>2. CASE Probe
  <2>1. AProbe \in Frame /\ ~AProbe.dumping
    BY SamplingAssumption DEF AProbe, Frame
  <2>2. /\ Len(stack') = Len(stack) + 1
        /\ \A i \in 1 .. Len(stack) : stack'[i] = stack[i]
        /\ stack'[Len(stack) + 1] = AProbe
    BY <1>2, <2>1, Longer DEF Probe, CallInv, TypeOK
  <2>3. \A i \in 1 .. Len(stack') : i \in 1 .. Len(stack) \/ i = Len(stack) + 1
    BY <1>1, <2>2
  <2>4. \A i, j \in 1 .. Len(stack') : i < j /\ stack'[j].dumping => stack'[i].code # "probe"
    <3> SUFFICES ASSUME NEW i \in 1 .. Len(stack'), NEW j \in 1 .. Len(stack'), i < j,
                        stack'[j].dumping
                 PROVE  stack'[i].code # "probe"
      OBVIOUS
    <3>1. i \in 1 .. Len(stack) /\ j \in 1 .. Len(stack)
      BY <1>1, <2>1, <2>2, <2>3
    <3> QED BY <1>1, <2>2, <3>1 DEF WholeInv, LineInv
  <2>5. Len(stack) \in 1 .. Len(stack') /\ Len(stack) < Len(stack') /\ stack'[Len(stack)].dumping
    <3>1. Top.dumping
      BY <1>2 DEF Probe
    <3> QED BY <1>1, <2>2, <3>1
  <2>6. \A i \in 1 .. Len(stack) : i \in 1 .. Len(stack')
    BY <1>1, <2>2
  <2> QED BY <1>1, <2>2, <2>4, <2>5, <2>6 DEF WholeInv, LineInv, LinesWhole
<1>3. CASE ProbeEnd
  <2>1. \A i \in 1 .. Len(stack) : stack[i].dumping => i <= Len(stack) - 1
    <3>1. stack[Len(stack)].code = "probe"
      BY <1>1, <1>3 DEF ProbeEnd
    <3>2. \A i \in 1 .. Len(stack) : stack[i].dumping => i # Len(stack)
      BY <1>1, <3>1 DEF CallInv, StackInv
    <3> QED BY <1>1, <3>2
  <2>2. callflag' /\ stack' = Below
    BY <1>3 DEF ProbeEnd
  <2>3. LineInv'
    BY <1>1, <2>1, <2>2, WholePop DEF WholeInv
  <2> QED BY <1>1, <2>3 DEF WholeInv, LinesWhole
<1> QED BY <1>2, <1>3

(* An exception leaves no line unfinished: the probe on it catches.        *)
LEMMA WholeRaise ==
    ASSUME CallInv, WholeInv, Raise
    PROVE  WholeInv'
<1>1. PICK h \in 0 .. Len(stack) - 1 :
        /\ \A i \in h + 1 .. Len(stack) : stack[i].code # "probe"
        /\ stack' = SubSeq(stack, 1, h)
        /\ pc' = IF h = 0 THEN "read" ELSE "run"
  BY DEF Raise
<1>2. /\ Len(stack) \in Nat \ {0} /\ Top = stack[Len(stack)] /\ ~Top.dumping /\ pc = "run"
      /\ UNCHANGED <<callflag, reachability, line, mixed>>
  BY TopProps DEF Raise, text
<1>3. \A i \in 1 .. Len(stack) : stack[i].dumping => i < h
  <2> SUFFICES ASSUME NEW i \in 1 .. Len(stack), stack[i].dumping PROVE i < h
    OBVIOUS
  <2>1. i + 1 \in 1 .. Len(stack) /\ stack[i + 1].code = "probe"
    BY <1>2, DumpProps DEF WholeInv
  <2> QED BY <1>1, <1>2, <2>1
<1>4. LineInv' /\ (h = 0 => line' = {})
  <2>1. h \in 0 .. Len(stack) /\ \A i \in 1 .. Len(stack) : stack[i].dumping => i <= h
    BY <1>2, <1>3
  <2>2. callflag' \/ ~callflag
    BY <1>2, Zenon DEF CallInv, TypeOK
  <2> QED BY <1>1, <1>2, <1>3, <2>1, <2>2, WholePop DEF WholeInv
<1> QED BY <1>1, <1>2, <1>4 DEF WholeInv, LinesWhole

LEMMA WholeNext == CallInv /\ WholeInv /\ [Next]_vars => WholeInv'
<1> SUFFICES ASSUME CallInv, WholeInv, [Next]_vars PROVE WholeInv'
  OBVIOUS
<1>1. CASE UNCHANGED vars
  BY <1>1 DEF vars, WholeInv, LineInv, LinesWhole
<1>2. ASSUME NEW code \in Code, Call(code) PROVE WholeInv'
  BY <1>2, WholeCall
<1>3. CASE EndRun
  <2>1. Len(stack) = 0
    BY <1>3 DEF EndRun, Idle
  <2>2. line = {}
    BY <1>3, <2>1 DEF EndRun, WholeInv, LineInv
  <2> QED BY <1>3, <2>2 DEF EndRun, text, WholeInv, LineInv, LinesWhole
<1>4. CASE ReadEnv \/ ReadName \/ Starve \/ EndRead \/ Done
  BY <1>4 DEF ReadEnv, ReadName, Starve, EndRead, Done, text, vars, WholeInv, LineInv,
              LinesWhole
<1> QED BY <1>1, <1>2, <1>3, <1>4, WholeReturn, WholeBeginLine, WholeEndLine, WholeProbe,
           WholeRaise DEF Next

(* A line holds the text of its own call and no other, but for what the    *)
(* functions run in a probe of a name line write under -reachability.      *)
THEOREM LinesAreWhole == Spec => []LinesWhole
<1>1. Spec => []CallInv
  BY CallInit, CallNext, PTL DEF Spec
<1>2. Spec => []WholeInv
  BY <1>1, WholeInit, WholeNext, PTL DEF Spec
<1> QED BY <1>2, PTL DEF WholeInv

-----------------------------------------------------------------------------
(* What read_dumpings holds is a sequence of calls, the latest first.      *)
Elems(s) == {s[i] : i \in 1 .. Len(s)}
Decreasing(s) == \A i, j \in 1 .. Len(s) : i < j => s[i] > s[j]

LEMMA ConsProps ==
    ASSUME NEW s \in Seq(Numbers), NEW c \in Numbers, Decreasing(s),
           \A e \in Elems(s) : e < c
    PROVE  /\ <<c>> \o s \in Seq(Numbers) /\ Decreasing(<<c>> \o s)
           /\ Elems(<<c>> \o s) = Elems(s) \cup {c}
<1> DEFINE t == <<c>> \o s
<1>1. /\ t \in Seq(Numbers) /\ Len(t) = Len(s) + 1 /\ t[1] = c
      /\ \A i \in 1 .. Len(s) : t[i + 1] = s[i]
  OBVIOUS
<1>2. Len(s) \in Nat /\ \A i \in 1 .. Len(s) : s[i] \in Nat
  BY SeqDomain, SamplingAssumption DEF Numbers
<1> HIDE DEF t
<1>3. \A i \in 1 .. Len(t) : i = 1 \/ (i - 1 \in 1 .. Len(s) /\ t[i] = s[i - 1])
  <2> TAKE i \in 1 .. Len(t)
  <2>1. CASE i # 1
    <3>1. i - 1 \in 1 .. Len(s) /\ (i - 1) + 1 = i
      BY <1>1, <1>2, <2>1
    <3> QED BY <1>1, <3>1
  <2> QED BY <2>1
<1>4. Decreasing(t)
  <2> SUFFICES ASSUME NEW i \in 1 .. Len(t), NEW j \in 1 .. Len(t), i < j
               PROVE  t[i] > t[j]
    BY DEF Decreasing
  <2>1. j - 1 \in 1 .. Len(s) /\ t[j] = s[j - 1] /\ s[j - 1] \in Elems(s)
    BY <1>3 DEF Elems
  <2>2. CASE i = 1
    BY <1>1, <1>2, <2>1, <2>2, SamplingAssumption DEF Numbers
  <2>3. CASE i # 1
    <3>1. i - 1 \in 1 .. Len(s) /\ t[i] = s[i - 1] /\ i - 1 < j - 1
      BY <1>3, <2>3
    <3> QED BY <2>1, <3>1 DEF Decreasing
  <2> QED BY <2>2, <2>3
<1>5. Elems(t) = Elems(s) \cup {c}
  <2>1. ASSUME NEW e \in Elems(t) PROVE e \in Elems(s) \cup {c}
    <3>1. PICK k \in 1 .. Len(t) : e = t[k]
      BY <2>1 DEF Elems
    <3>2. e = c \/ e \in Elems(s)
      BY <1>1, <1>3, <3>1 DEF Elems
    <3> QED BY <3>2
  <2>2. ASSUME NEW e \in Elems(s) PROVE e \in Elems(t)
    <3>1. PICK k \in 1 .. Len(s) : e = s[k]
      BY <2>2 DEF Elems
    <3>2. k + 1 \in 1 .. Len(t) /\ t[k + 1] = e
      BY <1>1, <1>2, <3>1
    <3> QED BY <3>2 DEF Elems
  <2>3. 1 \in 1 .. Len(t)
    BY <1>1, <1>2
  <2> QED BY <1>1, <2>1, <2>2, <2>3 DEF Elems
<1> QED BY <1>1, <1>4, <1>5 DEF t

LEMMA TailProps ==
    ASSUME NEW s \in Seq(Numbers), s # <<>>, Decreasing(s)
    PROVE  /\ Tail(s) \in Seq(Numbers) /\ Decreasing(Tail(s))
           /\ Elems(Tail(s)) = Elems(s) \ {Head(s)}
           /\ Head(s) \in Elems(s) /\ \A e \in Elems(s) : e <= Head(s)
<1>1. /\ Tail(s) \in Seq(Numbers) /\ Len(Tail(s)) = Len(s) - 1
      /\ \A i \in 1 .. Len(Tail(s)) : Tail(s)[i] = s[i + 1]
  BY HeadTailProperties
<1>2. Len(s) \in Nat /\ \A i \in 1 .. Len(s) : s[i] \in Nat
  BY SeqDomain, SamplingAssumption DEF Numbers
<1>3. Len(s) # 0 /\ Head(s) = s[1] /\ 1 \in 1 .. Len(s)
  BY <1>2, EmptySeq
<1>4. \A i \in 1 .. Len(Tail(s)) : i + 1 \in 1 .. Len(s) /\ i + 1 # 1
  BY <1>1, <1>2
<1>5. Decreasing(Tail(s))
  <2> SUFFICES ASSUME NEW i \in 1 .. Len(Tail(s)), NEW j \in 1 .. Len(Tail(s)), i < j
               PROVE  Tail(s)[i] > Tail(s)[j]
    BY DEF Decreasing
  <2>1. i + 1 < j + 1
    OBVIOUS
  <2> QED BY <1>1, <1>4, <2>1 DEF Decreasing
<1>6. \A i \in 1 .. Len(s) : i # 1 => s[i] < s[1]
  BY <1>2, <1>3 DEF Decreasing
<1>7. \A e \in Elems(s) : e <= Head(s)
  BY <1>2, <1>3, <1>6 DEF Elems
<1>8. ASSUME NEW e \in Elems(Tail(s)) PROVE e \in Elems(s) \ {Head(s)}
  <2>1. PICK i \in 1 .. Len(Tail(s)) : e = s[i + 1]
    BY <1>1, <1>8 DEF Elems
  <2>2. e # s[1]
    BY <1>2, <1>3, <1>4, <1>6, <2>1
  <2> QED BY <1>3, <1>4, <2>1, <2>2 DEF Elems
<1>9. ASSUME NEW e \in Elems(s), e # Head(s) PROVE e \in Elems(Tail(s))
  <2>1. PICK i \in 1 .. Len(s) : e = s[i] /\ i # 1
    BY <1>3, <1>9 DEF Elems
  <2>2. i - 1 \in 1 .. Len(Tail(s)) /\ (i - 1) + 1 = i
    BY <1>1, <1>2, <2>1
  <2> QED BY <1>1, <2>1, <2>2 DEF Elems
<1> QED BY <1>1, <1>3, <1>5, <1>7, <1>8, <1>9 DEF Elems

-----------------------------------------------------------------------------
(* Reading a line takes the stack of read_dumpings from s to t, without    *)
(* harm; tidy says that nothing was left behind.                           *)
Step(s, entry, t, tidy) ==
    IF entry[1] = "env"
    THEN (\A e \in Elems(s) : e < entry[2]) /\ t = <<entry[2]>> \o s
    ELSE /\ s # <<>> /\ t = Tail(s)
         /\ Head(s) >= entry[2] /\ (tidy => Head(s) = entry[2])

(* T is the course of that stack over all the lines, from s on.            *)
Reads(T, s, lines, tidy) ==
    /\ T \in [0 .. Len(lines) -> Seq(Numbers)] /\ T[0] = s
    /\ \A i \in 1 .. Len(lines) : Step(T[i - 1], lines[i], T[i], tidy)

LoggedIn(st) == {i \in 1 .. Len(st) : st[i].logged}

(* The stack of read_dumpings after all the lines that are written so far  *)
(* still holds, for each call in progress, an env line of its own that is  *)
(* as late as the call.                                                    *)
Matched(s, st, n, tidy) ==
    /\ Decreasing(s) /\ \A e \in Elems(s) : e <= n
    /\ \E f \in [LoggedIn(st) -> Elems(s)] :
          /\ \A i \in LoggedIn(st) : f[i] >= st[i].call
          /\ \A i, j \in LoggedIn(st) : f[i] = f[j] => i = j
    /\ tidy => Elems(s) = {st[i].call : i \in LoggedIn(st)}

PairInv ==
    ~orphan =>
        /\ pc # "starved"
        /\ Decreasing(env_stack)
        /\ \A p \in samples : p[1] >= p[2] /\ (~stale => p[1] = p[2])
        /\ \E T : /\ Reads(T, env_stack, log, ~stale)
                  /\ pc = "run" => Matched(T[Len(log)], stack, calls, ~stale)

LineType == {"env", "name"} \X Numbers

(* One more line at the end.                                               *)
LEMMA ReadsMore ==
    ASSUME NEW T, NEW s, NEW lines \in Seq(LineType), NEW tidy, Reads(T, s, lines, tidy),
           NEW entry \in LineType, NEW t \in Seq(Numbers), Step(T[Len(lines)], entry, t, tidy)
    PROVE  \E U : Reads(U, s, Append(lines, entry), tidy) /\ U[Len(Append(lines, entry))] = t
<1> DEFINE n == Len(lines)
           U == [i \in 0 .. n + 1 |-> IF i <= n THEN T[i] ELSE t]
<1>1. n \in Nat /\ Len(Append(lines, entry)) = n + 1
      /\ (\A i \in 1 .. n : Append(lines, entry)[i] = lines[i])
      /\ Append(lines, entry)[n + 1] = entry
  BY Longer, SeqDomain
<1>2. U \in [0 .. n + 1 -> Seq(Numbers)]
  BY <1>1 DEF Reads
<1>3. (\A i \in 0 .. n : U[i] = T[i]) /\ U[n + 1] = t
  BY <1>1
<1>4. n = Len(lines)
  OBVIOUS
<1> HIDE DEF n, U
<1>5. ASSUME NEW i \in 1 .. n + 1
      PROVE  Step(U[i - 1], Append(lines, entry)[i], U[i], tidy)
  <2>1. CASE i = n + 1
    <3>1. i - 1 = n /\ n \in 0 .. n
      BY <1>1, <2>1
    <3> QED BY <1>1, <1>3, <1>4, <2>1, <3>1
  <2>2. CASE i # n + 1
    <3>1. i \in 1 .. n /\ i - 1 \in 0 .. n /\ i \in 0 .. n
      BY <1>1, <2>2
    <3> QED BY <1>1, <1>3, <1>4, <3>1 DEF Reads
  <2> QED BY <2>1, <2>2
<1>6. 0 \in 0 .. n
  BY <1>1
<1>7. Reads(U, s, Append(lines, entry), tidy)
  BY <1>1, <1>2, <1>3, <1>5, <1>6 DEF Reads
<1> QED BY <1>1, <1>3, <1>7

(* The first line is read.                                                 *)
LEMMA ReadsLess ==
    ASSUME NEW T, NEW s, NEW lines \in Seq(LineType), NEW tidy, Reads(T, s, lines, tidy),
           lines # <<>>
    PROVE  /\ Step(s, Head(lines), T[1], tidy)
           /\ \E U : Reads(U, T[1], Tail(lines), tidy)
<1> DEFINE n == Len(lines)
           U == [i \in 0 .. n - 1 |-> T[i + 1]]
<1>1. n \in Nat \ {0} /\ Head(lines) = lines[1] /\ Len(Tail(lines)) = n - 1
      /\ (\A i \in 1 .. n - 1 : Tail(lines)[i] = lines[i + 1])
  BY HeadTailProperties, EmptySeq
<1>2. n = Len(lines) /\ (\A i \in 0 .. n - 1 : U[i] = T[i + 1]) /\ DOMAIN U = 0 .. n - 1
  OBVIOUS
<1>3. U \in [0 .. n - 1 -> Seq(Numbers)]
  <2>1. \A i \in 0 .. n - 1 : i + 1 \in 0 .. n
    BY <1>1
  <2>2. \A i \in 0 .. n - 1 : T[i + 1] \in Seq(Numbers)
    BY <2>1 DEF Reads
  <2> QED BY <2>2
<1> HIDE DEF n, U
<1>4. 1 \in 1 .. n /\ 1 - 1 = 0 /\ 0 \in 0 .. n - 1 /\ 0 + 1 = 1
  BY <1>1
<1>5. Step(s, Head(lines), T[1], tidy)
  <2>1. T[0] = s /\ Step(T[1 - 1], lines[1], T[1], tidy)
    BY <1>2, <1>4 DEF Reads
  <2> QED BY <1>1, <1>4, <2>1
<1>6. ASSUME NEW i \in 1 .. n - 1
      PROVE  Step(U[i - 1], Tail(lines)[i], U[i], tidy)
  <2>1. /\ i + 1 \in 1 .. n /\ (i + 1) - 1 = i /\ i - 1 \in 0 .. n - 1
        /\ i \in 0 .. n - 1 /\ (i - 1) + 1 = i
    BY <1>1
  <2>2. Step(T[i], lines[i + 1], T[i + 1], tidy)
    <3>1. Step(T[(i + 1) - 1], lines[i + 1], T[i + 1], tidy)
      BY <1>2, <2>1 DEF Reads
    <3> QED BY <2>1, <3>1
  <2>3. U[i - 1] = T[i] /\ U[i] = T[i + 1] /\ Tail(lines)[i] = lines[i + 1]
    BY <1>1, <1>2, <2>1
  <2> QED BY <2>2, <2>3
<1>7. Reads(U, T[1], Tail(lines), tidy)
  BY <1>1, <1>2, <1>3, <1>4, <1>6 DEF Reads
<1> QED BY <1>5, <1>7

(* What holds tidily holds.                                                *)
LEMMA ReadsWeaker ==
    ASSUME NEW T, NEW s, NEW lines, NEW tidy, NEW less, Reads(T, s, lines, tidy), less => tidy
    PROVE  Reads(T, s, lines, less)
BY Zenon DEF Reads, Step

(* Only what is logged counts, and calls to come may have later numbers.   *)
LEMMA MatchedSame ==
    ASSUME NEW s, NEW st, NEW su, NEW n \in Nat, NEW m \in Nat, NEW tidy,
           s \in Seq(Numbers), Matched(s, st, n, tidy), n <= m,
           LoggedIn(su) = LoggedIn(st), \A i \in LoggedIn(st) : su[i].call = st[i].call
    PROVE  Matched(s, su, m, tidy)
<1>1. Elems(s) \subseteq Nat
  BY SeqDomain, SamplingAssumption DEF Elems, Numbers
<1>2. \A e \in Elems(s) : e <= m
  BY <1>1 DEF Matched
<1>3. {su[i].call : i \in LoggedIn(su)} = {st[i].call : i \in LoggedIn(st)}
  OBVIOUS
<1>4. \E f \in [LoggedIn(su) -> Elems(s)] :
          /\ \A i \in LoggedIn(su) : f[i] >= su[i].call
          /\ \A i, j \in LoggedIn(su) : f[i] = f[j] => i = j
  BY Zenon DEF Matched
<1> QED BY <1>2, <1>3, <1>4 DEF Matched

(* Calls end without a name line.                                          *)
LEMMA MatchedPop ==
    ASSUME NEW s, NEW st \in Seq(Frame), NEW n, NEW h \in 0 .. Len(st), NEW tidy, NEW less,
           Matched(s, st, n, tidy),
           less => tidy /\ \A i \in h + 1 .. Len(st) : ~st[i].logged
    PROVE  Matched(s, SubSeq(st, 1, h), n, less)
<1> DEFINE su == SubSeq(st, 1, h)
<1>1. Len(su) = h /\ (\A i \in 1 .. h : su[i] = st[i]) /\ Len(st) \in Nat
  BY Prefix, SeqDomain
<1> HIDE DEF su
<1>2. LoggedIn(su) \subseteq LoggedIn(st) /\ \A i \in LoggedIn(su) : su[i] = st[i]
  BY <1>1 DEF LoggedIn
<1>3. PICK f \in [LoggedIn(st) -> Elems(s)] :
          /\ \A i \in LoggedIn(st) : f[i] >= st[i].call
          /\ \A i, j \in LoggedIn(st) : f[i] = f[j] => i = j
  BY DEF Matched
<1> DEFINE g == [i \in LoggedIn(su) |-> f[i]]
<1>4. g \in [LoggedIn(su) -> Elems(s)] /\ \A i \in LoggedIn(su) : g[i] = f[i]
  BY <1>2
<1>5. /\ \A i \in LoggedIn(su) : g[i] >= su[i].call
      /\ \A i, j \in LoggedIn(su) : g[i] = g[j] => i = j
  BY <1>2, <1>3, <1>4
<1>6. less => {su[i].call : i \in LoggedIn(su)} = {st[i].call : i \in LoggedIn(st)}
  <2> SUFFICES ASSUME less PROVE LoggedIn(su) = LoggedIn(st)
    BY <1>2
  <2>1. \A i \in LoggedIn(st) : i \in 1 .. h
    BY <1>1 DEF LoggedIn
  <2> QED BY <1>1, <1>2, <2>1 DEF LoggedIn
<1> HIDE DEF g
<1>7. Matched(s, su, n, less)
  BY <1>4, <1>5, <1>6 DEF Matched
<1> QED BY <1>7 DEF su

(* A call with an env line is made.                                        *)
LEMMA MatchedPush ==
    ASSUME NEW s \in Seq(Numbers), NEW st \in Seq(Frame), NEW n \in Nat, NEW tidy,
           Matched(s, st, n, tidy), NEW e \in Frame, e.logged, e.call = n + 1,
           n + 1 \in Numbers
    PROVE  Matched(<<n + 1>> \o s, Append(st, e), n + 1, tidy)
<1> DEFINE su == Append(st, e)
           t == <<n + 1>> \o s
           k == Len(st) + 1
<1>1. /\ Len(su) = k /\ (\A i \in 1 .. Len(st) : su[i] = st[i]) /\ su[k] = e
      /\ Len(st) \in Nat /\ k \in Nat /\ k \notin 1 .. Len(st) /\ k \in 1 .. k
      /\ \A i \in 1 .. k : i \in 1 .. Len(st) \/ i = k
  BY Longer, SeqDomain
<1>2. Elems(s) \subseteq Nat
  BY SeqDomain, SamplingAssumption DEF Elems, Numbers
<1>3. \A x \in Elems(s) : x < n + 1
  BY <1>2 DEF Matched
<1>4. Decreasing(t) /\ Elems(t) = Elems(s) \cup {n + 1}
  BY <1>3, ConsProps DEF Matched
<1> HIDE DEF su, t, k
<1>5. LoggedIn(su) = LoggedIn(st) \cup {k} /\ k \notin LoggedIn(st)
  <2>1. \A i \in LoggedIn(su) : i \in LoggedIn(st) \cup {k}
    BY <1>1 DEF LoggedIn
  <2>2. \A i \in LoggedIn(st) : i \in LoggedIn(su)
    BY <1>1 DEF LoggedIn, k
  <2>3. k \in LoggedIn(su) /\ k \notin LoggedIn(st)
    BY <1>1 DEF LoggedIn
  <2> QED BY <2>1, <2>2, <2>3
<1>6. \A i \in LoggedIn(st) : su[i] = st[i]
  BY <1>1 DEF LoggedIn
<1>7. PICK f \in [LoggedIn(st) -> Elems(s)] :
          /\ \A i \in LoggedIn(st) : f[i] >= st[i].call
          /\ \A i, j \in LoggedIn(st) : f[i] = f[j] => i = j
  BY DEF Matched
<1> DEFINE g == [i \in LoggedIn(su) |-> IF i = k THEN n + 1 ELSE f[i]]
<1>8. /\ g \in [LoggedIn(su) -> Elems(t)] /\ g[k] = n + 1
      /\ \A i \in LoggedIn(st) : g[i] = f[i] /\ f[i] \in Elems(s)
  BY <1>4, <1>5
<1> HIDE DEF g
<1>9. \A i \in LoggedIn(su) : g[i] >= su[i].call
  BY <1>1, <1>5, <1>6, <1>7, <1>8
<1>10. \A i, j \in LoggedIn(su) : g[i] = g[j] => i = j
  <2>1. \A i \in LoggedIn(st) : g[i] # n + 1
    BY <1>2, <1>3, <1>8
  <2> QED BY <1>5, <1>7, <1>8, <2>1
<1>11. {su[i].call : i \in LoggedIn(su)} = {st[i].call : i \in LoggedIn(st)} \cup {n + 1}
  BY <1>1, <1>5, <1>6
<1>12. \A x \in Elems(t) : x <= n + 1
  BY <1>2, <1>3, <1>4
<1>13. \E f1 \in [LoggedIn(su) -> Elems(t)] :
          /\ \A i \in LoggedIn(su) : f1[i] >= su[i].call
          /\ \A i, j \in LoggedIn(su) : f1[i] = f1[j] => i = j
  BY <1>8, <1>9, <1>10
<1>14. tidy => Elems(t) = {su[i].call : i \in LoggedIn(su)}
  BY <1>4, <1>11 DEF Matched
<1>15. Matched(t, su, n + 1, tidy)
  BY <1>4, <1>12, <1>13, <1>14 DEF Matched
<1> QED BY <1>15 DEF su, t

(* The running call, with an env line, writes its name line: the env line  *)
(* on top is its own or a later one; whoever counted on it takes the one   *)
(* the running call counted on.                                            *)
LEMMA MatchedEnd ==
    ASSUME NEW s \in Seq(Numbers), NEW st \in Seq(Frame), NEW n \in Nat, NEW tidy,
           Matched(s, st, n, tidy), Len(st) > 0, st[Len(st)].logged,
           \A i \in 1 .. Len(st) - 1 : st[i].call < st[Len(st)].call
    PROVE  /\ s # <<>> /\ Head(s) >= st[Len(st)].call
           /\ tidy => Head(s) = st[Len(st)].call
           /\ Tail(s) \in Seq(Numbers)
           /\ Matched(Tail(s), SubSeq(st, 1, Len(st) - 1), n, tidy)
<1> DEFINE k == Len(st)
           su == SubSeq(st, 1, k - 1)
           h == Head(s)
<1>1. k \in Nat \ {0} /\ k - 1 \in 0 .. k /\ (\A i \in 1 .. k : st[i] \in Frame)
      /\ k \in 1 .. k /\ k \notin 1 .. k - 1 /\ k = Len(st)
      /\ \A i \in 1 .. k : i \in 1 .. k - 1 \/ i = k
  BY SeqDomain
<1>2. Len(su) = k - 1 /\ \A i \in 1 .. k - 1 : su[i] = st[i]
  <2>1. Len(st) - 1 \in 0 .. Len(st)
    BY <1>1
  <2>2. \A j \in 0 .. Len(st) :
           Len(SubSeq(st, 1, j)) = j /\ \A i \in 1 .. j : SubSeq(st, 1, j)[i] = st[i]
    BY Prefix
  <2> QED BY <2>1, <2>2
<1>3. Elems(s) \subseteq Nat
  BY SeqDomain, SamplingAssumption DEF Elems, Numbers
<1>4. PICK f \in [LoggedIn(st) -> Elems(s)] :
          /\ \A i \in LoggedIn(st) : f[i] >= st[i].call
          /\ \A i, j \in LoggedIn(st) : f[i] = f[j] => i = j
  BY DEF Matched
<1> HIDE DEF k, su, h
<1>5. LoggedIn(st) = LoggedIn(su) \cup {k} /\ k \notin LoggedIn(su)
      /\ \A i \in LoggedIn(su) : su[i] = st[i] /\ i \in 1 .. k - 1
  BY <1>1, <1>2 DEF LoggedIn
<1>6. k \in LoggedIn(st) /\ f[k] \in Elems(s)
  BY <1>4, <1>5
<1>7. s # <<>>
  BY <1>6 DEF Elems
<1>8. /\ Tail(s) \in Seq(Numbers) /\ Decreasing(Tail(s)) /\ h \in Elems(s)
      /\ Elems(Tail(s)) = Elems(s) \ {h} /\ \A x \in Elems(s) : x <= h
  BY <1>7, TailProps DEF h, Matched
<1>9. \A i \in LoggedIn(st) : st[i].call \in Nat /\ f[i] \in Nat
  <2> TAKE i \in LoggedIn(st)
  <2>1. st[i] \in Frame
    BY <1>1 DEF LoggedIn
  <2>2. st[i].call \in Nat
    BY <2>1, SamplingAssumption DEF Frame
  <2>3. f[i] \in Nat
    BY <1>3
  <2> QED BY <2>2, <2>3
<1>10. h \in Nat /\ h >= f[k] /\ f[k] >= st[k].call
  BY <1>3, <1>4, <1>6, <1>8
<1>11. h >= st[k].call
  BY <1>6, <1>9, <1>10
<1>12. tidy => h = st[k].call
  <2> SUFFICES ASSUME tidy PROVE h = st[k].call
    OBVIOUS
  <2>1. PICK i \in LoggedIn(st) : h = st[i].call
    BY <1>8 DEF Matched
  <2>2. CASE i # k
    <3>1. st[i].call < st[k].call
      BY <1>1, <1>5, <2>2
    <3> QED BY <1>6, <1>9, <1>11, <2>1, <3>1
  <2> QED BY <2>1, <2>2
<1> DEFINE g == [i \in LoggedIn(su) |-> IF f[i] = h THEN f[k] ELSE f[i]]
<1>13. \A i \in LoggedIn(su) : i \in LoggedIn(st) /\ i # k /\ f[i] # f[k]
  BY <1>4, <1>5, <1>6
<1>14. \A i \in LoggedIn(su) : f[i] \in Elems(s)
  BY <1>4, <1>13
<1>15. /\ g \in [LoggedIn(su) -> Elems(Tail(s))]
       /\ \A i \in LoggedIn(su) : g[i] = IF f[i] = h THEN f[k] ELSE f[i]
  BY <1>6, <1>8, <1>13, <1>14
<1> HIDE DEF g
<1>16. \A i \in LoggedIn(su) : g[i] >= su[i].call
  <2> TAKE i \in LoggedIn(su)
  <2>1. i \in 1 .. k - 1 /\ su[i] = st[i] /\ st[i].call < st[k].call
    BY <1>1, <1>5
  <2>2. f[i] >= st[i].call
    BY <1>4, <1>13
  <2>3. f[k] >= st[i].call
    BY <1>6, <1>9, <1>10, <1>13, <2>1
  <2> QED BY <1>15, <2>1, <2>2, <2>3
<1>17. \A i, j \in LoggedIn(su) : g[i] = g[j] => i = j
  BY <1>4, <1>13, <1>15
<1>18. tidy => Elems(Tail(s)) = {su[i].call : i \in LoggedIn(su)}
  <2> SUFFICES ASSUME tidy PROVE Elems(Tail(s)) = {su[i].call : i \in LoggedIn(su)}
    OBVIOUS
  <2>1. Elems(s) = {st[i].call : i \in LoggedIn(st)} /\ h = st[k].call
    BY <1>12 DEF Matched
  <2>2. \A i \in LoggedIn(su) : su[i].call = st[i].call /\ st[i].call # st[k].call
    BY <1>1, <1>5, <1>6, <1>9, <1>13
  <2>3. \A x \in Elems(Tail(s)) : x \in {su[i].call : i \in LoggedIn(su)}
    BY <1>5, <1>8, <2>1, <2>2
  <2>4. \A i \in LoggedIn(su) : su[i].call \in Elems(Tail(s))
    BY <1>8, <1>13, <2>1, <2>2
  <2> QED BY <2>3, <2>4
<1>19. Matched(Tail(s), su, n, tidy)
  BY <1>8, <1>15, <1>16, <1>17, <1>18 DEF Matched
<1> QED BY <1>7, <1>8, <1>11, <1>12, <1>19 DEF su, h, k

-----------------------------------------------------------------------------
(* The part of PairInv about the lines that are not read yet.              *)
Course == \E T : /\ Reads(T, env_stack, log, ~stale)
                 /\ pc = "run" => Matched(T[Len(log)], stack, calls, ~stale)

LEMMA CourseStep ==
    ASSUME PairInv, orphan' = orphan, ~orphan, pc # "starved" => pc' # "starved",
           UNCHANGED <<env_stack, samples>>, stale \in BOOLEAN, ~stale' => ~stale, Course'
    PROVE  PairInv'
BY Zenon DEF PairInv, Course

(* What the invariants give in a state of the running program.             *)
LEMMA CourseProps ==
    ASSUME CallInv
    PROVE  /\ log \in Seq(LineType) /\ Len(log) \in Nat /\ calls \in Nat
           /\ stack \in Seq(Frame) /\ Len(stack) \in Nat /\ stale \in BOOLEAN
           /\ \A T : Reads(T, env_stack, log, ~stale) => T[Len(log)] \in Seq(Numbers)
<1>1. log \in Seq(LineType) /\ calls \in Nat /\ stack \in Seq(Frame) /\ stale \in BOOLEAN
  BY SamplingAssumption DEF CallInv, TypeOK, LineType, Numbers
<1>2. Len(log) \in Nat /\ Len(stack) \in Nat
  BY <1>1, SeqDomain
<1>3. \A T : Reads(T, env_stack, log, ~stale) => T[Len(log)] \in Seq(Numbers)
  BY <1>2 DEF Reads
<1> QED BY <1>1, <1>2, <1>3

LEMMA PairInit == Init => PairInv
<1> SUFFICES ASSUME Init PROVE PairInv
  OBVIOUS
<1> DEFINE T == [i \in 0 .. 0 |-> <<>>]
<1>1. Len(log) = 0 /\ Len(stack) = 0 /\ Len(env_stack) = 0 /\ env_stack = <<>> /\ calls = 0
  BY DEF Init
<1>2. T \in [0 .. 0 -> Seq(Numbers)] /\ T[0] = <<>>
  OBVIOUS
<1> HIDE DEF T
<1>3. Reads(T, env_stack, log, ~stale)
  BY <1>1, <1>2 DEF Reads
<1>4. Decreasing(env_stack) /\ Elems(env_stack) = {} /\ LoggedIn(stack) = {}
  BY <1>1 DEF Decreasing, Elems, LoggedIn
<1>5. \E f \in [LoggedIn(stack) -> Elems(env_stack)] : TRUE
  <2>1. [i \in {} |-> 0] \in [LoggedIn(stack) -> Elems(env_stack)]
    BY <1>4
  <2> QED BY <2>1
<1>6. {stack[i].call : i \in LoggedIn(stack)} = {}
  BY <1>4
<1>7. Matched(env_stack, stack, calls, ~stale)
  BY <1>4, <1>5, <1>6 DEF Matched
<1>8. T[Len(log)] = env_stack
  BY <1>1, <1>2
<1> QED BY <1>3, <1>4, <1>7, <1>8 DEF PairInv, Init

(* Steps that write no line and end no call.                               *)
LEMMA PairSame ==
    ASSUME CallInv, CallInv', PairInv, ~orphan, pc = "run", pc' = "run",
           UNCHANGED <<log, env_stack, samples, orphan, stale>>,
           calls <= calls', LoggedIn(stack') = LoggedIn(stack),
           \A i \in LoggedIn(stack) : stack'[i].call = stack[i].call
    PROVE  PairInv'
<1>1. PICK T : /\ Reads(T, env_stack, log, ~stale)
               /\ Matched(T[Len(log)], stack, calls, ~stale)
  BY DEF PairInv
<1>2. T[Len(log)] \in Seq(Numbers) /\ calls \in Nat /\ calls' \in Nat
  <2>1. calls' \in 0 .. MaxCalls
    BY DEF CallInv, TypeOK
  <2> QED BY <1>1, <2>1, CourseProps, SamplingAssumption
<1>3. Matched(T[Len(log)], stack', calls', ~stale)
  BY <1>1, <1>2, MatchedSame
<1>4. Course'
  BY <1>1, <1>3 DEF Course
<1> QED BY <1>4, CourseProps, CourseStep

(* Steps that end calls without a line.                                    *)
LEMMA PairPop ==
    ASSUME CallInv, PairInv, ~orphan, pc = "run", pc' \in {"run", "read"},
           UNCHANGED <<calls, log, env_stack, samples, orphan>>,
           NEW h \in 0 .. Len(stack), stack' = SubSeq(stack, 1, h),
           ~stale' => ~stale /\ \A i \in h + 1 .. Len(stack) : ~stack[i].logged
    PROVE  PairInv'
<1>1. PICK T : /\ Reads(T, env_stack, log, ~stale)
               /\ Matched(T[Len(log)], stack, calls, ~stale)
  BY DEF PairInv
<1>2. Reads(T, env_stack, log, ~stale')
  BY <1>1, ReadsWeaker
<1>3. Matched(T[Len(log)], stack', calls, ~stale')
  BY <1>1, CourseProps, MatchedPop
<1>4. Course'
  BY <1>2, <1>3 DEF Course
<1> QED BY <1>4, CourseProps, CourseStep

(* A line is added to the log.                                             *)
LEMMA PairLine ==
    ASSUME CallInv, CallInv', PairInv, ~orphan, pc' = "run",
           UNCHANGED <<env_stack, samples, orphan, stale>>,
           NEW T, Reads(T, env_stack, log, ~stale),
           NEW entry \in LineType, log' = Append(log, entry),
           NEW t \in Seq(Numbers), Step(T[Len(log)], entry, t, ~stale),
           Matched(t, stack', calls', ~stale)
    PROVE  PairInv'
<1>1. PICK U : Reads(U, env_stack, log', ~stale) /\ U[Len(log')] = t
  <2>1. log \in Seq(LineType)
    BY CourseProps
  <2>2. \E U : /\ Reads(U, env_stack, Append(log, entry), ~stale)
               /\ U[Len(Append(log, entry))] = t
    BY <2>1, ReadsMore
  <2> QED BY <2>2
<1>2. Course'
  BY <1>1 DEF Course
<1> QED BY <1>2, CourseProps, CourseStep

LEMMA PairCall ==
    ASSUME CallInv, CallInv', PairInv, ~orphan, NEW code \in Code, Call(code)
    PROVE  PairInv'
<1>1. PICK logged \in MayLog(code) :
        /\ log' = IF logged THEN Append(log, <<"env", calls'>>) ELSE log
        /\ stack' = Append(stack, [code |-> code, call |-> calls',
                                   logged |-> logged, dumping |-> FALSE])
  BY DEF Call
<1> DEFINE e == [code |-> code, call |-> calls', logged |-> logged, dumping |-> FALSE]
<1>2. /\ calls \in Nat /\ calls' = calls + 1 /\ calls' \in Numbers
      /\ pc = "run" /\ pc' = "run"
      /\ UNCHANGED <<env_stack, samples, orphan, stale>>
  BY SamplingAssumption DEF Call, reader, CallInv, TypeOK, Numbers
<1>3. e \in Frame /\ e.call = calls + 1 /\ e.logged = logged
  <2>1. logged \in BOOLEAN
    BY Zenon DEF MayLog
  <2>2. code \in Code \cup {"probe"} /\ calls' \in 0 .. MaxCalls
    BY <1>2, SamplingAssumption DEF Numbers
  <2> QED BY <1>2, <2>1, <2>2 DEF Frame
<1>4. stack' = Append(stack, e)
  BY <1>1
<1> HIDE DEF e
<1>5. PICK T : /\ Reads(T, env_stack, log, ~stale)
               /\ Matched(T[Len(log)], stack, calls, ~stale)
  BY <1>2 DEF PairInv
<1>6. CASE logged
  <2> DEFINE s == T[Len(log)]
             t == <<calls + 1>> \o s
  <2>1. s \in Seq(Numbers) /\ stack \in Seq(Frame)
    BY <1>5, CourseProps
  <2>2. t \in Seq(Numbers)
    BY <1>2, <2>1
  <2>3. Matched(t, stack', calls + 1, ~stale)
    <3> HIDE DEF s
    <3>1. calls + 1 \in Numbers /\ e.logged
      BY <1>2, <1>3, <1>6
    <3> QED BY <1>2, <1>3, <1>4, <1>5, <2>1, <3>1, MatchedPush DEF s
  <2>4. Elems(s) \subseteq Nat
    BY <2>1, SeqDomain, SamplingAssumption DEF Elems, Numbers
  <2>5. Step(s, <<"env", calls'>>, t, ~stale)
    <3> HIDE DEF s
    <3>1. \A x \in Elems(s) : x <= calls
      BY <1>5 DEF Matched, s
    <3> QED BY <1>2, <2>4, <3>1 DEF Step
  <2>6. <<"env", calls'>> \in LineType /\ log' = Append(log, <<"env", calls'>>)
    BY <1>1, <1>2, <1>6 DEF LineType
  <2> HIDE DEF s, t
  <2> QED BY <1>2, <1>5, <2>2, <2>3, <2>5, <2>6, PairLine DEF s
<1>7. CASE ~logged
  <2>1. /\ Len(stack') = Len(stack) + 1 /\ Len(stack) \in Nat
        /\ (\A i \in 1 .. Len(stack) : stack'[i] = stack[i])
        /\ stack'[Len(stack) + 1] = e
    BY <1>3, <1>4, CourseProps, Longer
  <2>2. LoggedIn(stack') = LoggedIn(stack)
    <3>1. ~stack'[Len(stack) + 1].logged
      BY <1>3, <1>7, <2>1
    <3>2. \A i \in 1 .. Len(stack) + 1 : i \in 1 .. Len(stack) \/ i = Len(stack) + 1
      BY <2>1
    <3> QED BY <2>1, <3>1, <3>2 DEF LoggedIn
  <2>3. \A i \in LoggedIn(stack) : stack'[i].call = stack[i].call
    BY <2>1 DEF LoggedIn
  <2>4. log' = log
    BY <1>1, <1>7, Zenon
  <2>5. calls <= calls'
    BY <1>2
  <2> QED BY <1>2, <2>2, <2>3, <2>4, <2>5, PairSame
<1> QED BY <1>6, <1>7

LEMMA PairEndLine ==
    ASSUME CallInv, CallInv', PairInv, ~orphan, ~orphan', EndLine
    PROVE  PairInv'
<1>1. PICK T : /\ Reads(T, env_stack, log, ~stale)
               /\ Matched(T[Len(log)], stack, calls, ~stale)
  BY DEF PairInv, EndLine
<1> DEFINE s == T[Len(log)]
           k == Len(stack)
<1>2. /\ s \in Seq(Numbers) /\ stack \in Seq(Frame) /\ calls \in Nat /\ k \in Nat \ {0}
      /\ Top = stack[k] /\ Below = SubSeq(stack, 1, k - 1) /\ k \in 1 .. k
  BY <1>1, CourseProps, TopProps DEF EndLine
<1>3. Top.logged
  BY Zenon DEF EndLine
<1>4. Top.code = "defined" /\ Top.call \in 1 .. calls
  BY <1>2 DEF EndLine, CallInv, StackInv
<1>5. \A i \in 1 .. k - 1 : stack[i].call < stack[k].call
  <2>1. \A i \in 1 .. k - 1 : i \in 1 .. k /\ i < k
    BY <1>2
  <2> QED BY <1>2, <1>4, <2>1 DEF EndLine, CallInv, StackInv
<1> HIDE DEF s
<1>6. /\ s # <<>> /\ Head(s) >= Top.call /\ (~stale => Head(s) = Top.call)
      /\ Tail(s) \in Seq(Numbers) /\ Matched(Tail(s), Below, calls, ~stale)
  <2>1. stack[Len(stack)].logged /\ Len(stack) > 0
    BY <1>2, <1>3
  <2>2. Matched(s, stack, calls, ~stale)
    BY <1>1 DEF s
  <2> QED BY <1>2, <1>5, <2>1, <2>2, MatchedEnd
<1>7. <<"name", Top.call>> \in LineType
  BY <1>4, SamplingAssumption DEF LineType, Numbers, CallInv, TypeOK
<1>8. Step(s, <<"name", Top.call>>, Tail(s), ~stale)
  BY <1>6 DEF Step
<1>9. /\ pc' = "run" /\ log' = Append(log, <<"name", Top.call>>) /\ stack' = Below
      /\ UNCHANGED <<calls, env_stack, samples, orphan, stale>>
  <2>1. orphan \in BOOLEAN /\ orphan' \in BOOLEAN
    BY Zenon DEF CallInv, TypeOK
  <2>2. orphan' = orphan
    BY <2>1, Zenon
  <2> QED BY <2>2 DEF EndLine, reader
<1> QED BY <1>1, <1>6, <1>7, <1>8, <1>9, PairLine DEF s

LEMMA PairRead ==
    ASSUME CallInv, PairInv, ~orphan, ReadEnv \/ ReadName \/ Starve
    PROVE  PairInv'
<1>1. PICK T : Reads(T, env_stack, log, ~stale)
  BY DEF PairInv
<1>2. log # <<>> /\ log \in Seq(LineType) /\ pc = "read"
  BY CourseProps DEF ReadEnv, ReadName, Starve
<1>3. /\ Step(env_stack, Line, T[1], ~stale)
      /\ \E U : Reads(U, T[1], Tail(log), ~stale)
  BY <1>1, <1>2, ReadsLess DEF Line
<1>4. PICK U : Reads(U, T[1], Tail(log), ~stale)
  BY <1>3
<1>5. Line[2] \in Numbers /\ env_stack \in Seq(Numbers) /\ Decreasing(env_stack)
  <2>1. Line \in LineType
    BY <1>2, HeadTailProperties DEF Line
  <2>2. env_stack \in Seq(Numbers)
    BY DEF CallInv, TypeOK, Numbers
  <2> QED BY <2>1, <2>2 DEF LineType, PairInv
<1>6. CASE ReadEnv
  <2>1. /\ \A e \in Elems(env_stack) : e < Line[2]
        /\ T[1] = <<Line[2]>> \o env_stack
    BY <1>3, <1>6 DEF ReadEnv, Step
  <2>2. Decreasing(T[1])
    BY <1>5, <2>1, ConsProps
  <2>3. env_stack' = T[1] /\ log' = Tail(log) /\ pc' = "read" /\ samples' = samples
        /\ stale' = stale
    BY <1>2, <1>6, <2>1 DEF ReadEnv
  <2> QED BY <1>4, <2>2, <2>3 DEF PairInv
<1>7. CASE ReadName
  <2>1. /\ T[1] = Tail(env_stack)
        /\ Head(env_stack) >= Line[2] /\ (~stale => Head(env_stack) = Line[2])
    BY <1>3, <1>7 DEF ReadName, Step
  <2>2. Decreasing(T[1])
    BY <1>5, <1>7, <2>1, TailProps DEF ReadName
  <2>3. env_stack' = T[1] /\ log' = Tail(log) /\ pc' = "read" /\ stale' = stale
        /\ samples' = samples \cup {<<Head(env_stack), Line[2]>>}
    BY <1>2, <1>7, <2>1 DEF ReadName
  <2>4. \A p \in samples' : p[1] >= p[2] /\ (~stale' => p[1] = p[2])
    BY <2>1, <2>3 DEF PairInv
  <2> QED BY <1>4, <2>2, <2>3, <2>4 DEF PairInv
<1>8. CASE Starve
  BY <1>3, <1>8 DEF Starve, Step
<1> QED BY <1>6, <1>7, <1>8

(* Every step keeps the reading of the log harmless.                       *)
LEMMA PairNext == CallInv /\ PairInv /\ [Next]_vars => PairInv'
<1> SUFFICES ASSUME CallInv, PairInv, [Next]_vars PROVE PairInv'
  OBVIOUS
<1>1. CallInv'
  BY CallNext
<1>2. SUFFICES ASSUME ~orphan' PROVE PairInv'
  BY Zenon DEF PairInv
<1>3. ~orphan
  BY <1>2 DEF Next, Call, Return, BeginLine, EndLine, Probe, ProbeEnd, Raise, EndRun,
              ReadEnv, ReadName, Starve, EndRead, Done, vars
<1>4. CASE UNCHANGED vars
  BY <1>4 DEF vars, PairInv
<1>5. ASSUME NEW code \in Code, Call(code) PROVE PairInv'
  BY <1>1, <1>3, <1>5, PairCall
<1>6. CASE Return
  <2>1. Len(stack) - 1 \in 0 .. Len(stack) /\ Below = SubSeq(stack, 1, Len(stack) - 1)
        /\ Top = stack[Len(stack)] /\ Len(stack) \in Nat
    BY <1>6, TopProps DEF Return
  <2>2. \A i \in (Len(stack) - 1) + 1 .. Len(stack) : i = Len(stack)
    BY <2>1
  <2>3. ~stale' => ~stale /\ ~Top.logged
    BY <1>6, Zenon DEF Return
  <2> QED BY <1>3, <1>6, <2>1, <2>2, <2>3, PairPop DEF Return, reader
<1>7. CASE BeginLine
  <2>1. Len(stack) \in Nat \ {0} /\ Top \in Frame /\ Top = stack[Len(stack)]
    BY <1>7, TopProps DEF BeginLine
  <2>2. DOMAIN stack = 1 .. Len(stack) /\ stack \in Seq(Frame)
    BY CourseProps, SeqDomain
  <2>3. /\ Len(stack') = Len(stack)
        /\ \A i \in 1 .. Len(stack) : /\ stack'[i].logged = stack[i].logged
                                      /\ stack'[i].call = stack[i].call
    <3> DEFINE e == [Top EXCEPT !.dumping = TRUE]
    <3>1. e \in Frame /\ e.logged = Top.logged /\ e.call = Top.call
      BY <2>1 DEF Frame
    <3>2. stack' = [stack EXCEPT ![Len(stack)] = e]
      BY <1>7, <2>1 DEF BeginLine
    <3> HIDE DEF e
    <3> QED BY <2>1, <2>2, <3>1, <3>2, Replaced
  <2>4. LoggedIn(stack') = LoggedIn(stack)
    BY <2>3 DEF LoggedIn
  <2>5. \A i \in LoggedIn(stack) : stack'[i].call = stack[i].call
    BY <2>3 DEF LoggedIn
  <2> QED BY <1>1, <1>3, <1>7, <2>4, <2>5, CourseProps, PairSame DEF BeginLine, reader
<1>8. CASE EndLine
  BY <1>1, <1>2, <1>3, <1>8, PairEndLine
<1>9. CASE Probe
  <2>1. AProbe \in Frame /\ ~AProbe.logged
    BY SamplingAssumption DEF AProbe, Frame
  <2>2. /\ Len(stack') = Len(stack) + 1 /\ Len(stack) \in Nat
        /\ (\A i \in 1 .. Len(stack) : stack'[i] = stack[i])
        /\ stack'[Len(stack) + 1] = AProbe
    BY <1>9, <2>1, CourseProps, Longer DEF Probe
  <2>3. LoggedIn(stack') = LoggedIn(stack)
    <3>1. \A i \in 1 .. Len(stack) + 1 : i \in 1 .. Len(stack) \/ i = Len(stack) + 1
      BY <2>2
    <3> QED BY <2>1, <2>2, <3>1 DEF LoggedIn
  <2>4. \A i \in LoggedIn(stack) : stack'[i].call = stack[i].call
    BY <2>2 DEF LoggedIn
  <2>5. calls <= calls'
    BY <1>9, CourseProps DEF Probe
  <2>6. pc = "run" /\ pc' = "run" /\ UNCHANGED <<log, env_stack, samples, orphan, stale>>
    BY <1>9 DEF Probe, reader
  <2> QED BY <1>1, <1>3, <2>3, <2>4, <2>5, <2>6, PairSame
<1>10. CASE ProbeEnd
  <2>1. Len(stack) - 1 \in 0 .. Len(stack) /\ Below = SubSeq(stack, 1, Len(stack) - 1)
        /\ Top = stack[Len(stack)] /\ Len(stack) \in Nat \ {0}
    BY <1>10, TopProps DEF ProbeEnd
  <2>2. \A i \in (Len(stack) - 1) + 1 .. Len(stack) : i = Len(stack)
    BY <2>1
  <2>3. ~stack[Len(stack)].logged
    BY <1>10, <2>1 DEF ProbeEnd, CallInv, StackInv
  <2> QED BY <1>3, <1>10, <2>1, <2>2, <2>3, PairPop DEF ProbeEnd, reader
<1>11. CASE Raise
  <2>1. PICK h \in 0 .. Len(stack) - 1 :
          /\ stack' = SubSeq(stack, 1, h)
          /\ stale' = (stale \/ \E i \in h + 1 .. Len(stack) : stack[i].logged)
          /\ pc' = IF h = 0 THEN "read" ELSE "run"
    BY <1>11 DEF Raise
  <2>2. h \in 0 .. Len(stack)
    BY <1>11, TopProps DEF Raise
  <2>3. ~stale' => ~stale /\ \A i \in h + 1 .. Len(stack) : ~stack[i].logged
    BY <2>1, Zenon
  <2> QED BY <1>3, <1>11, <2>1, <2>2, <2>3, PairPop DEF Raise, reader
<1>12. CASE EndRun \/ EndRead \/ Done
  BY <1>3, <1>12 DEF EndRun, EndRead, Done, vars, reader, PairInv
<1>13. CASE ReadEnv \/ ReadName \/ Starve
  BY <1>3, <1>13, PairRead
<1> QED BY <1>4, <1>5, <1>6, <1>7, <1>8, <1>9, <1>10, <1>11, <1>12, <1>13 DEF Next

LEMMA PairAlways == Spec => []PairInv
<1>1. Spec => []CallInv
  BY CallInit, CallNext, PTL DEF Spec
<1> QED BY <1>1, PairInit, PairNext, PTL DEF Spec

(* In a run that leaves nothing behind, a sample is the result of a call   *)
(* in the environment of that call.                                        *)
THEOREM SamplesOwnEnvironment == Spec => []OwnEnvironment
<1>1. PairInv => OwnEnvironment
  BY DEF PairInv, OwnEnvironment
<1> QED BY <1>1, PairAlways, PTL

(* Whatever is raised and caught, the reader finds an env line for every   *)
(* name line, of that call or of a later one.                              *)
THEOREM SamplesLaterEnvironment == Spec => []LaterEnvironment
<1>1. PairInv => LaterEnvironment
  BY DEF PairInv, LaterEnvironment
<1> QED BY <1>1, PairAlways, PTL
=============================================================================
