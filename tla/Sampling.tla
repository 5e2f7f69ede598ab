------------------------------ MODULE Sampling ------------------------------
(***************************************************************************)
(* One run of the instrumented program and the reading of its log:         *)
(* liquid/instrument.ml and liquid/run.ml.                                 *)
(*                                                                         *)
(* dump_app writes an "env" line before a function is applied, dump_fun a  *)
(* "name" line when a function of the program returns.  Nothing in the log *)
(* says which lines belong together: read_dumpings pairs a name line with  *)
(* the env line on top of a stack.  A name line is written piece by piece; *)
(* to show a function value, the code in between applies it to arguments   *)
(* of its own (synthesize), with callflag down so that what is run there   *)
(* logs nothing.                                                           *)
(*                                                                         *)
(* Running code is of one of three kinds: a function the program defines   *)
(* writes both lines, an anonymous one writes no name line but env lines   *)
(* for what it applies, and library code (List.iter and the like) writes   *)
(* none.                                                                   *)
(*                                                                         *)
(* One thing is written without a look at callflag: under -reachability a  *)
(* defined function that takes or returns a list writes "<x>_heap:" and a  *)
(* tab, also when it ends in a probe.                                      *)
(***************************************************************************)
EXTENDS Naturals, Sequences

CONSTANTS MaxCalls      \* calls in one run

ASSUME SamplingAssumption == MaxCalls \in Nat

VARIABLES
    pc,         \* "run", "read", "done", or "starved": Stack.pop failed
    stack,      \* the calls in progress, the running one last
    callflag,   \* may lines be written?
    calls,      \* calls made so far, which numbers them
    log,        \* lines of the log still to be read
    env_stack,  \* calls whose env line read_dumpings holds, the latest first
    samples,    \* pos_samples: <<call of the env line, call of the name line>>
    reachability,   \* was -reachability given?
    line,       \* calls whose text the unfinished last line holds
    mixed,      \* history: <<kind, call, writer>>, a line was ended with the
                \* text of another call in it
    orphan,     \* history: a name line was written for a call without env line
    stale       \* history: a call with an env line ended without a name line

vars == <<pc, stack, callflag, calls, log, env_stack, samples, reachability,
          line, mixed, orphan, stale>>
reader == <<env_stack, samples>>
text == <<reachability, line, mixed>>

Code == {"defined", "anonymous", "library"}

(* A probe is the code between the pieces of a name line.                  *)
Frame == [code : Code \cup {"probe"}, call : 0 .. MaxCalls,
          logged : BOOLEAN, dumping : BOOLEAN]

Top == stack[Len(stack)]
Below == SubSeq(stack, 1, Len(stack) - 1)

Init ==
    /\ pc = "run" /\ stack = <<>> /\ callflag = TRUE /\ calls = 0
    /\ log = <<>> /\ env_stack = <<>> /\ samples = {}
    /\ reachability \in BOOLEAN /\ line = {} /\ mixed = {}
    /\ orphan = FALSE /\ stale = FALSE

-----------------------------------------------------------------------------
(* The running program.                                                    *)

Idle == stack = <<>>
InText == Idle \/ Top.code \in {"defined", "anonymous"}

(* Is the application in the text of the program, and of something else    *)
(* than a library function by its name?                                    *)
MayLog(code) ==
    IF ~InText \/ ~callflag THEN {FALSE}
    ELSE IF code = "library" THEN BOOLEAN ELSE {TRUE}

(* The line that call ends here holds the text of these calls too.         *)
Foreign(kind, call) == {<<kind, call, writer>> : writer \in line \ {call}}

(* A function is applied; the top level applies those of the program.      *)
Call(code) ==
    /\ pc = "run" /\ calls < MaxCalls
    /\ Idle => code = "defined"
    /\ ~Idle => ~Top.dumping
    /\ calls' = calls + 1
    /\ \E logged \in MayLog(code) :
        /\ log' = IF logged THEN Append(log, <<"env", calls'>>) ELSE log
        /\ line' = IF logged THEN {} ELSE line
        /\ mixed' = IF logged THEN mixed \cup Foreign("env", calls') ELSE mixed
        /\ stack' = Append(stack, [code |-> code, call |-> calls',
                                   logged |-> logged, dumping |-> FALSE])
    /\ UNCHANGED <<pc, callflag, reader, reachability, orphan, stale>>

(* Does the running function take or return a list and write of its heap,  *)
(* whatever callflag says?                                                 *)
MayWriteHeap ==
    IF reachability /\ Top.code = "defined" THEN BOOLEAN ELSE {FALSE}

(* It returns without a line: no function of the program, or in a probe;   *)
(* there its heap goes into the line that is being written.                *)
Return ==
    /\ pc = "run" /\ ~Idle /\ Top.code \in Code /\ ~Top.dumping
    /\ Top.code = "defined" => ~callflag
    /\ \E heap \in MayWriteHeap :
        line' = IF heap THEN line \cup {Top.call} ELSE line
    /\ stack' = Below
    /\ stale' = (stale \/ Top.logged)
    /\ UNCHANGED <<pc, callflag, calls, log, reader, reachability, mixed, orphan>>

(* The body is done and the name line is begun.                            *)
BeginLine ==
    /\ pc = "run" /\ ~Idle /\ Top.code = "defined" /\ ~Top.dumping /\ callflag
    /\ stack' = [stack EXCEPT ![Len(stack)].dumping = TRUE]
    /\ line' = line \cup {Top.call}
    /\ UNCHANGED <<pc, callflag, calls, log, reader, reachability, mixed, orphan,
                   stale>>

EndLine ==
    /\ pc = "run" /\ ~Idle /\ Top.dumping
    /\ log' = Append(log, <<"name", Top.call>>)
    /\ mixed' = mixed \cup Foreign("name", Top.call)
    /\ line' = {}
    /\ stack' = Below
    /\ orphan' = (orphan \/ ~Top.logged)
    /\ UNCHANGED <<pc, callflag, calls, reader, reachability, stale>>

AProbe == [code |-> "probe", call |-> 0, logged |-> FALSE, dumping |-> FALSE]

(* Broken: the flag stays up.                                              *)
NoisyProbe ==
    /\ pc = "run" /\ ~Idle /\ Top.dumping /\ callflag
    /\ stack' = Append(stack, AProbe)
    /\ UNCHANGED <<pc, callflag, calls, log, reader, text, orphan, stale>>

(* synthesize: the flag is put down around the application of an argument  *)
(* or result, unless it is down already.                                   *)
Probe ==
    /\ pc = "run" /\ ~Idle /\ Top.dumping /\ callflag
    /\ callflag' = FALSE
    /\ stack' = Append(stack, AProbe)
    /\ UNCHANGED <<pc, calls, log, reader, text, orphan, stale>>

ProbeEnd ==
    /\ pc = "run" /\ ~Idle /\ Top.code = "probe"
    /\ callflag' = TRUE
    /\ stack' = Below
    /\ UNCHANGED <<pc, calls, log, reader, text, orphan, stale>>

(* An exception is caught by code of the program, by a probe ("try ...     *)
(* with _"), which lets none through, or by nobody; then the program is    *)
(* over, and the log is flushed and read all the same.                     *)
Raise ==
    /\ pc = "run" /\ ~Idle /\ Top.code \in Code /\ ~Top.dumping
    /\ \E h \in 0 .. Len(stack) - 1 :
        /\ h > 0 => stack[h].code # "library"
        /\ \A i \in h + 1 .. Len(stack) : stack[i].code # "probe"
        /\ stack' = SubSeq(stack, 1, h)
        /\ stale' = (stale \/ \E i \in h + 1 .. Len(stack) : stack[i].logged)
        /\ pc' = IF h = 0 THEN "read" ELSE "run"
    /\ UNCHANGED <<callflag, calls, log, reader, text, orphan>>

EndRun ==
    /\ pc = "run" /\ Idle
    /\ pc' = "read"
    /\ UNCHANGED <<stack, callflag, calls, log, reader, text, orphan, stale>>

-----------------------------------------------------------------------------
(* read_dumpings.                                                          *)

Line == Head(log)

ReadEnv ==
    /\ pc = "read" /\ log # <<>> /\ Line[1] = "env"
    /\ log' = Tail(log)
    /\ env_stack' = <<Line[2]>> \o env_stack
    /\ UNCHANGED <<pc, stack, callflag, calls, samples, text, orphan, stale>>

(* Broken: the oldest env line is taken.                                   *)
QueueReadName ==
    /\ pc = "read" /\ log # <<>> /\ Line[1] = "name" /\ env_stack # <<>>
    /\ log' = Tail(log)
    /\ samples' = samples \cup {<<env_stack[Len(env_stack)], Line[2]>>}
    /\ env_stack' = SubSeq(env_stack, 1, Len(env_stack) - 1)
    /\ UNCHANGED <<pc, stack, callflag, calls, text, orphan, stale>>

(* Broken: the env line stays on the stack.                                *)
PeekReadName ==
    /\ pc = "read" /\ log # <<>> /\ Line[1] = "name" /\ env_stack # <<>>
    /\ log' = Tail(log)
    /\ samples' = samples \cup {<<Head(env_stack), Line[2]>>}
    /\ UNCHANGED <<pc, stack, callflag, calls, env_stack, text, orphan, stale>>

ReadName ==
    /\ pc = "read" /\ log # <<>> /\ Line[1] = "name" /\ env_stack # <<>>
    /\ log' = Tail(log)
    /\ samples' = samples \cup {<<Head(env_stack), Line[2]>>}
    /\ env_stack' = Tail(env_stack)
    /\ UNCHANGED <<pc, stack, callflag, calls, text, orphan, stale>>

Starve ==
    /\ pc = "read" /\ log # <<>> /\ Line[1] = "name" /\ env_stack = <<>>
    /\ pc' = "starved"
    /\ UNCHANGED <<stack, callflag, calls, log, reader, text, orphan, stale>>

EndRead ==
    /\ pc = "read" /\ log = <<>>
    /\ pc' = "done"
    /\ UNCHANGED <<stack, callflag, calls, log, reader, text, orphan, stale>>

Done == pc \in {"done", "starved"} /\ UNCHANGED vars

Next ==
    \/ \E code \in Code : Call(code)
    \/ Return \/ BeginLine \/ EndLine \/ Probe \/ ProbeEnd \/ Raise \/ EndRun
    \/ ReadEnv \/ ReadName \/ Starve \/ EndRead \/ Done

Spec == Init /\ [][Next]_vars

-----------------------------------------------------------------------------
TypeOK ==
    /\ pc \in {"run", "read", "done", "starved"}
    /\ stack \in Seq(Frame) /\ callflag \in BOOLEAN
    /\ calls \in 0 .. MaxCalls
    /\ log \in Seq({"env", "name"} \X (1 .. MaxCalls))
    /\ env_stack \in Seq(1 .. MaxCalls)
    /\ samples \in SUBSET ((1 .. MaxCalls) \X (1 .. MaxCalls))
    /\ reachability \in BOOLEAN /\ line \in SUBSET (1 .. MaxCalls)
    /\ mixed \in SUBSET ({"env", "name"} \X (1 .. MaxCalls) \X (1 .. MaxCalls))
    /\ orphan \in BOOLEAN /\ stale \in BOOLEAN

(* A line holds the text of the call that writes it and of no other,       *)
(* whatever the functions that synthesize applies call, show or raise, and *)
(* none is left unfinished, however the run ends.  Under -reachability     *)
(* "<x>_heap:" of a function that ran in a probe may stand in a name line, *)
(* but never in an env line, and never text of an earlier call.            *)
LinesWhole ==
    /\ pc # "run" => line = {}
    /\ \A m \in mixed : reachability /\ m[1] = "name" /\ m[3] > m[2]

(* In a run without an exception and without a function that is applied    *)
(* or returns behind the instrumentation's back, every sample of           *)
(* read_dumpings pairs the result of a call with the environment of that   *)
(* call.                                                                   *)
OwnEnvironment == ~orphan /\ ~stale => \A s \in samples : s[1] = s[2]

(* Exceptions and returns without a line only ever do damage inwards: the  *)
(* stack of read_dumpings does not run dry, and a result that is not       *)
(* paired with its own environment is paired with that of a later call.    *)
LaterEnvironment ==
    ~orphan => pc # "starved" /\ \A s \in samples : s[1] >= s[2]
=============================================================================
