--------------------------- MODULE ConfigureProbes ---------------------------
(***************************************************************************)
(* Programs by which configure finds out what the platform does, and whose *)
(* exit status decides what the runtime is compiled with: dblalign and     *)
(* int64align (may 64-bit data be word-aligned?), signals (does a handler  *)
(* stay installed?) and async_io (does a socket send SIGIO to its owner?); *)
(* and align (may data be unaligned, and is that fast?), which is kept     *)
(* beside them.  Each is a process of its own; async_io has a child.       *)
(*                                                                         *)
(* The platform is chosen at the start.  A signal is pending until it is   *)
(* delivered, and pending signals of one kind are one.  A signal sent to   *)
(* oneself is delivered before kill returns, and one sent before a child   *)
(* ended is delivered before wait returns the child's status; any other    *)
(* may be delivered at any time.                                           *)
(***************************************************************************)
EXTENDS Naturals, Sequences, Functions

VARIABLES
  platform,   \* what the probes are to find out
  probe,      \* which of them runs
  pc,         \* where its process is
  handler,    \* what each signal does to it
  blocked,    \* the signals it does not get for now
  pending,    \* the signals sent to it
  count,      \* accesses made, signals sent
  caught,     \* counter, and signalled
  child,      \* the child of async_io
  status      \* the exit status, or Killed

vars == <<platform, probe, pc, handler, blocked, pending, count, caught, child, status>>

Probes == {"dblalign", "int64align", "align", "signals", "async_io"}
Signals == {"SIGSEGV", "SIGBUS", "SIGALRM", "SIGCHLD", "SIGIO"}
\* What align tries: a short and a long at an odd address, a long at an even one.
Tries == <<"short", "long", "half">>
\* How a misaligned access ends: the hardware or the kernel may put up with it.
Faults == {"none", "SIGSEGV", "SIGBUS"}

Platforms ==
  [word : {4, 8},                  \* sizeof(long)
   base : {0, 4},                  \* where the stack puts n, modulo 8
   fault : [{"dblalign", "int64align"} -> Faults],
   odd : SUBSET Range(Tries),      \* which of the accesses of align fault
   slow : BOOLEAN,                 \* unaligned ints take three times as long
   blocks : BOOLEAN,               \* a signal is blocked while its handler runs
   restores : BOOLEAN,             \* longjmp unblocks what setjmp found unblocked
   resets : BOOLEAN,               \* System V: a handler is gone when it is entered
   sigio : BOOLEAN,                \* a socket with FASYNC sends SIGIO
   hangup : BOOLEAN,               \* also when its peer is closed
   deadly : BOOLEAN,               \* SIGIO ends a process that has no handler
   restarts : BOOLEAN]             \* wait goes on after a handler

Relevant(p, q) ==
  /\ p.word = 8 => p.base = 0
  /\ q \notin {"dblalign", "int64align"} => p.word = 8 /\ p.fault["dblalign"] = "none" /\ p.fault["int64align"] = "none"
  /\ q # "align" => p.odd = {} /\ ~p.slow /\ ~p.blocks /\ ~p.restores
  /\ q \in {"dblalign", "int64align"} => ~p.resets
  /\ q # "async_io" => ~p.sigio /\ ~p.hangup /\ ~p.deadly /\ ~p.restarts

Init ==
  /\ probe \in Probes
  /\ platform \in {p \in Platforms : Relevant(p, probe)}
  /\ pc = "start"
  /\ handler = [s \in Signals |-> "default"]
  /\ blocked = {}
  /\ pending = {}
  /\ count = 0
  /\ caught = 0
  /\ child = "none"
  /\ status = 0

\* What the shell reports of a process that a signal ended.
Killed == 128
Over(st) == pc' = "over" /\ status' = st

-----------------------------------------------------------------------------
(* Signals.                                                                *)

\* signal(s, sig_handler), for each s of S.
Install(S) == handler' = [s \in Signals |-> IF s \in S THEN "own" ELSE handler[s]]

\* A handler counts and returns; wait may report the interruption.
Deliver ==
  /\ pc # "over"
  /\ \E s \in pending \ {"SIGALRM"} :
       /\ pending' = pending \ {s}
       /\ IF handler[s] = "own"
          THEN /\ caught' = caught + 1
               /\ handler' = IF platform.resets THEN [handler EXCEPT ![s] = "default"] ELSE handler
               /\ pc' = IF pc = "wait" /\ ~platform.restarts THEN "interrupted" ELSE pc
               /\ UNCHANGED status
          ELSE /\ IF s = "SIGIO" /\ platform.deadly THEN Over(Killed) ELSE UNCHANGED <<pc, status>>
               /\ UNCHANGED <<caught, handler>>
  /\ UNCHANGED <<platform, probe, blocked, count, child>>

-----------------------------------------------------------------------------
(* dblalign, int64align.                                                   *)

Catch ==
  /\ pc = "start"
  /\ Install({"SIGSEGV", "SIGBUS"})
  /\ pc' = "access"
  /\ UNCHANGED <<platform, probe, blocked, pending, count, caught, child, status>>

\* The word at n, then the one at n + 1; a fault longjmps out of its handler.
Address(k) == platform.base + k * platform.word

(* Broken: only the first of the two words is read. *)
OneAccess(fault) ==
  /\ pc = "access"
  /\ caught' = IF Address(0) % 8 # 0 /\ fault # "none" THEN 1 ELSE 0
  /\ pc' = "leave"
  /\ UNCHANGED <<platform, probe, blocked, handler, pending, count, child, status>>

Access(fault) ==
  /\ pc = "access"
  /\ IF Address(count) % 8 # 0 /\ fault # "none"
     THEN /\ IF handler[fault] = "own"
             THEN caught' = caught + 1 /\ pc' = "leave" /\ UNCHANGED status
             ELSE Over(Killed) /\ UNCHANGED caught
          /\ UNCHANGED count
     ELSE /\ count' = count + 1
          /\ pc' = IF count = 1 THEN "leave" ELSE "access"
          /\ UNCHANGED <<caught, status>>
  /\ UNCHANGED <<platform, probe, blocked, handler, pending, child>>

Leave ==
  /\ pc = "leave"
  /\ handler' = [handler EXCEPT !["SIGSEGV"] = "default", !["SIGBUS"] = "default"]
  /\ Over(IF caught = 0 THEN 0 ELSE 1)
  /\ UNCHANGED <<platform, probe, blocked, pending, count, caught, child>>

DblAlign == probe = "dblalign" /\ (Catch \/ Access(platform.fault["dblalign"]) \/ Leave)
Int64Align == probe = "int64align" /\ (Catch \/ Access(platform.fault["int64align"]) \/ Leave)

-----------------------------------------------------------------------------
(* align.                                                                  *)

\* test: handlers on, the access, handlers off.
Test ==
  /\ pc = "start" /\ count < Len(Tries)
  /\ IF Tries[count + 1] \in platform.odd
     THEN Over(1) /\ UNCHANGED count
     ELSE count' = count + 1 /\ UNCHANGED <<pc, status>>
  /\ UNCHANGED <<platform, probe, blocked, handler, pending, caught, child>>

\* speedtest, for aligned data and then for unaligned: an alarm in one second.
SpeedTest ==
  /\ pc = "start" /\ count >= Len(Tries)
  /\ Install({"SIGALRM"})
  /\ pc' = "loop"
  /\ UNCHANGED <<platform, probe, blocked, pending, count, caught, child, status>>

\* The kernel, after a second of the endless loop ...
Alarm ==
  /\ pc = "loop" /\ "SIGALRM" \notin pending
  /\ pending' = pending \cup {"SIGALRM"}
  /\ UNCHANGED <<platform, probe, blocked, pc, handler, count, caught, child, status>>

\* ... and the handler, which leaves the loop by longjmp.
AlarmHandler ==
  /\ pc = "loop" /\ "SIGALRM" \in pending \ blocked
  /\ pending' = pending \ {"SIGALRM"}
  /\ blocked' = IF platform.blocks /\ ~platform.restores THEN blocked \cup {"SIGALRM"} ELSE blocked
  /\ handler' = [handler EXCEPT !["SIGALRM"] = "default"]
  /\ count' = count + 1
  /\ pc' = IF count = Len(Tries) THEN "start" ELSE "tell"
  /\ UNCHANGED <<platform, probe, caught, child, status>>

Compare ==
  /\ pc = "tell"
  /\ Over(IF platform.slow THEN 1 ELSE 0)
  /\ UNCHANGED <<platform, probe, blocked, handler, pending, count, caught, child>>

Align == probe = "align" /\ (Test \/ SpeedTest \/ Alarm \/ AlarmHandler \/ Compare)

-----------------------------------------------------------------------------
(* signals: SIGCHLD, which does nothing by default, is sent twice.         *)

Count ==
  /\ pc = "start"
  /\ Install({"SIGCHLD"})
  /\ pc' = "kill"
  /\ UNCHANGED <<platform, probe, blocked, pending, count, caught, child, status>>

Kill ==
  /\ pc = "kill" /\ count < 2 /\ pending = {}
  /\ pending' = {"SIGCHLD"}
  /\ count' = count + 1
  /\ UNCHANGED <<platform, probe, blocked, pc, handler, caught, child, status>>

Tell ==
  /\ pc = "kill" /\ count = 2 /\ pending = {}
  /\ Over(IF caught = 2 THEN 0 ELSE 1)
  /\ UNCHANGED <<platform, probe, blocked, handler, pending, count, caught, child>>

SignalsProbe == probe = "signals" /\ (Count \/ Kill \/ Tell)

-----------------------------------------------------------------------------
(* async_io: a child writes to the socket its parent owns.                 *)

\* socketpair or fork may fail.
Fail ==
  /\ pc \in {"start", "fork"}
  /\ Over(1)
  /\ UNCHANGED <<platform, probe, blocked, handler, pending, count, caught, child>>

\* The handler, FASYNC and the owner are set before the fork.
Prepare ==
  /\ pc = "start"
  /\ Install({"SIGIO"})
  /\ pc' = "fork"
  /\ UNCHANGED <<platform, probe, blocked, pending, count, caught, child, status>>

Fork ==
  /\ pc = "fork"
  /\ child' = "write"
  /\ pc' = "wait"
  /\ UNCHANGED <<platform, probe, blocked, handler, pending, count, caught, status>>

Send == IF platform.sigio THEN pending' = pending \cup {"SIGIO"} ELSE UNCHANGED pending
Write ==
  /\ child = "write"
  /\ Send
  /\ child' = "sleep"
  /\ UNCHANGED <<platform, probe, blocked, pc, handler, count, caught, status>>

\* The end of the child closes its side of the socket.
Exit ==
  /\ child = "sleep"
  /\ IF platform.hangup THEN Send ELSE UNCHANGED pending
  /\ child' = "zombie"
  /\ UNCHANGED <<platform, probe, blocked, pc, handler, count, caught, status>>

Wait ==
  /\ pc = "wait" /\ child = "zombie" /\ pending = {}
  /\ child' = "reaped"
  /\ pc' = "tell"
  /\ UNCHANGED <<platform, probe, blocked, handler, pending, count, caught, status>>

(* Broken: wait is called only once. *)
HastyAgain ==
  /\ pc = "interrupted"
  /\ pc' = "tell"
  /\ UNCHANGED <<platform, probe, blocked, handler, pending, count, caught, child, status>>

\* wait returned -1 with EINTR: once more.
Again ==
  /\ pc = "interrupted"
  /\ pc' = "wait"
  /\ UNCHANGED <<platform, probe, blocked, handler, pending, count, caught, child, status>>

TellSignalled ==
  /\ pc = "tell"
  /\ Over(IF caught > 0 THEN 0 ELSE 1)
  /\ UNCHANGED <<platform, probe, blocked, handler, pending, count, caught, child>>

AsyncIO ==
  /\ probe = "async_io"
  /\ Fail \/ Prepare \/ Fork \/ Write \/ Exit \/ Wait \/ Again \/ TellSignalled

-----------------------------------------------------------------------------
Next == Deliver \/ DblAlign \/ Int64Align \/ Align \/ SignalsProbe \/ AsyncIO

\* The kernel runs both processes and delivers what is pending.
Fairness == /\ WF_vars(Deliver)
            /\ WF_vars(DblAlign \/ Int64Align \/ Align \/ SignalsProbe)
            /\ WF_vars(probe = "async_io" /\ (Prepare \/ Fork \/ Wait \/ Again \/ TellSignalled))
            /\ WF_vars(probe = "async_io" /\ (Write \/ Exit))
Spec == Init /\ [][Next]_vars /\ Fairness

-----------------------------------------------------------------------------
TypeOK ==
  /\ platform \in Platforms /\ probe \in Probes
  /\ pc \in {"start", "access", "leave", "kill", "fork", "loop", "wait", "interrupted", "tell", "over"}
  /\ handler \in [Signals -> {"default", "own"}]
  /\ blocked \subseteq {"SIGALRM"}
  /\ pending \subseteq {"SIGALRM", "SIGCHLD", "SIGIO"}
  /\ count \in 0 .. 5 /\ caught \in 0 .. 2
  /\ child \in {"none", "write", "sleep", "zombie", "reaped"}
  /\ status \in {0, 1, Killed}

(* Status 0 tells the truth.  Alignment: no access at a word boundary      *)
(* faults, wherever the stack put n.                                       *)
WordAligned(q) == platform.word = 8 \/ platform.fault[q] = "none"
(* SIGIO: a socket of this platform signals; and a socket that does is     *)
(* missed only if the probe could not be run, or if the signal of the      *)
(* hangup met a handler already reset and killed the probe.                *)
Missed == child = "none" \/ (platform.resets /\ platform.hangup /\ platform.deadly)

(* Whatever the order in which parent, child and signals run, the status a *)
(* probe ends with is what the platform does.                              *)
VerdictsRight ==
  pc = "over" =>
    CASE probe \in {"dblalign", "int64align"} -> (status = 0) = WordAligned(probe)
      [] probe = "align" -> (status = 0) = (platform.odd = {} /\ ~platform.slow)
      [] probe = "signals" -> (status = 0) = ~platform.resets
      [] probe = "async_io" -> IF status = 0 THEN platform.sigio ELSE platform.sigio => Missed

ProbeInv == TypeOK /\ VerdictsRight

(* Where a handler's signal is blocked and longjmp leaves it so, the second *)
(* alarm of align never rings.                                             *)
DeafToTheSecond == platform.blocks /\ ~platform.restores /\ platform.odd = {}

(* configure does not hang: every probe ends, async_io after its child     *)
(* unless it was killed or never had one, however often wait is            *)
(* interrupted; and align, except on the platforms where its second alarm  *)
(* is blocked.                                                             *)
ProbesEnd ==
  \/ probe = "align" /\ DeafToTheSecond
  \/ <>(pc = "over" /\ (child \in {"none", "reaped"} \/ status = Killed))

=============================================================================
