------------------------------- MODULE FastVM -------------------------------
(***************************************************************************)
(* The two chunked virtual machines, ethereum/fastvm.py and                *)
(* ethereum/experimental/fastvm.py, beside that of ethereum/vm.py.  They   *)
(* cut the code into chunks, check stack and gas once per chunk for the    *)
(* worst its instructions need, and then run it without looking.  The same *)
(* message is run by vm, then by fast, then by old.                        *)
(***************************************************************************)
EXTENDS VM

VARIABLES
  fast,         \* the machine of fastvm.py
  old           \* the machine of experimental/fastvm.py

fvars == <<vmVars, fast, old>>

INVALID == [name |-> "INVALID", ins |-> 0, outs |-> 0, fee |-> 0]
Info(b) == IF b \in DOMAIN Opcodes THEN Opcodes[b] ELSE INVALID

PushLength(b) == IF b \in \h60 .. \h7f THEN b - \h5f ELSE 0
Larger(m, n) == IF m > n THEN m ELSE n
Smaller(m, n) == IF m < n THEN m ELSE n

NoChunks == [start \in {} |-> {}]
\* A chunk: its instructions with what they push, the operands it needs, what
\* the stack grows by at most, its gas, and where the code goes on.
NewChunk(start) ==
  [start |-> start, ops |-> <<>>, stack |-> 0, minstack |-> 0, maxstack |-> 0, gas |-> 0]
Closed(chunks, c, next) == (c.start :> (c @@ [next |-> next])) @@ chunks

\* Wrong: what an instruction takes is not counted against what came before it.
WithOpShort(c, i) ==
  LET o == Info(code[i + 1])
  IN [c EXCEPT !.ops = Append(@, [b |-> code[i + 1], at |-> i]),
               !.minstack = Larger(o.ins, @),
               !.stack = @ + o.outs - o.ins,
               !.maxstack = Larger(c.stack + o.outs - o.ins, @),
               !.gas = @ + o.fee]
WithOp(c, i) ==
  LET o == Info(code[i + 1])
  IN [c EXCEPT !.ops = Append(@, [b |-> code[i + 1], at |-> i]),
               !.minstack = Larger(o.ins - c.stack, @),
               !.stack = @ + o.outs - o.ins,
               !.maxstack = Larger(c.stack + o.outs - o.ins, @),
               !.gas = @ + o.fee]

break_list == {"JUMP", "GAS", "JUMPI", "RETURN", "REVERT", "STOP", "INVALID"}

\* preprocess_code of fastvm.py
RECURSIVE FastChunksFrom(_, _, _)
FastChunksFrom(i, c, chunks) ==
  IF i >= Len(code) THEN IF c.ops = <<>> THEN chunks ELSE Closed(chunks, c, i)
  ELSE LET o == Info(code[i + 1])
           next == i + PushLength(code[i + 1]) + 1
           cut == i > c.start /\ o.name \in {"JUMPDEST", "PC"}
           before == IF cut THEN Closed(chunks, c, i) ELSE chunks
           d == WithOp(IF cut THEN NewChunk(i) ELSE c, i)
       IN IF o.name \in break_list
          THEN FastChunksFrom(next, NewChunk(next), Closed(before, d, next))
          ELSE FastChunksFrom(next, d, before)
FastChunks == FastChunksFrom(0, NewChunk(0), NoChunks)

end_breakpoints == {"JUMP", "JUMPI", "STOP", "RETURN", "INVALID", "GAS", "PC"}
start_breakpoints == {"JUMPDEST", "GAS", "PC"}

\* preprocess_code of experimental/fastvm.py; behind the code stands a STOP.
RECURSIVE OldChunksFrom(_, _, _)
OldChunksFrom(i, c, chunks) ==
  IF i >= Len(code)
  THEN Closed(chunks, [NewChunk(i) EXCEPT !.ops = <<[b |-> \h00, at |-> i]>>], i)
  ELSE LET o == Info(code[i + 1])
           next == i + PushLength(code[i + 1]) + 1
           d == WithOp(c, i)
       IN IF \/ o.name \in end_breakpoints
             \/ next >= Len(code)
             \/ Info(code[next + 1]).name \in start_breakpoints
          THEN OldChunksFrom(next, NewChunk(next), Closed(chunks, d, next))
          ELSE OldChunksFrom(next, d, chunks)
OldChunks == OldChunksFrom(0, NewChunk(0), NoChunks)

----------------------------------------------------------------------------
\* An exception of the language leaves vm_execute, and no result comes back.
NoResult == 2
Raised(s) == Ended(s, NoResult, s.gas, <<>>)

\* Pushes and the opcodes below 0x20 of fastvm.py. EXP asks the ext for
\* post_clearing_hardfork, which VMExt does not have: an AttributeError.
FastCompute(o, s) ==
  CASE PushLength(o.b) > 0 -> Push(s, Pushed(o.at))
    [] Opcodes[o.b].name = "EXP" -> Raised(s)
    [] o.b < \h10 /\ Opcodes[o.b].name # "EXP" -> OperateArithmetic(o.b, s)
    [] o.b \in \h10 .. \h1f -> OperateComparison(o.b, s)

\* What a slice assignment does: the new part may be longer or shorter.
Spliced(s, start, size, bytes) ==
  LET Within(i) == Smaller(i, Len(s.memory))
  IN [s EXCEPT !.memory = SubSeq(@, 1, Within(start)) \o bytes
                            \o SubSeq(@, Within(start + size) + 1, Len(@))]

\* RETURNDATACOPY puts all that was returned in the place of the part that was
\* asked for, which changes the length of the memory.
FastRead(o, s) ==
  LET op == Opcodes[o.b].name IN
  IF op = "RETURNDATACOPY"
  THEN LET start == Arg(s, 1)  from == Arg(s, 2)  size == Arg(s, 3)
       IN mem_extend(PopN(s, 3), start, size, LAMBDA t :
            eat_gas(t, 3 * Words(size), LAMBDA u :
              IF from + size > Len(u.last_returned) THEN vm_exception(u)
              ELSE Spliced(u, start, size, u.last_returned)))
  ELSE OperateEnvironment(op, s)

\* A jump looks only at the byte; the main loop finds out whether a chunk starts there.
FastJump(s, dest) ==
  IF CodeByte(dest) = \h5b THEN [s EXCEPT !.pc = dest] ELSE vm_exception(s)
FastMachine(o, s) ==
  LET op == Opcodes[o.b].name IN
  CASE op = "JUMP" -> FastJump(PopN(s, 1), Arg(s, 1))
    [] op = "JUMPI" -> IF Arg(s, 2) # 0 THEN FastJump(PopN(s, 2), Arg(s, 1)) ELSE PopN(s, 2)
    [] OTHER -> OperateMachine(op, s)

FastOther(o, s) ==
  LET op == Opcodes[o.b].name IN
  CASE op \in {"DUP", "SWAP"} -> OperateStack(o.b, s)
    [] op = "LOG" -> OperateLog(o.b, s)
    [] op = "REVERT" /\ "metropolis" \notin forks -> vm_exception(s)
    [] OTHER -> OperateReturn(op, s)

FastOperate(s, o) ==
  CASE s.done -> s
    [] ~s.done /\ (o.b < \h20 \/ PushLength(o.b) > 0) -> FastCompute(o, s)
    [] ~s.done /\ o.b \in \h20 .. \h4f -> FastRead(o, s)
    [] ~s.done /\ o.b \in \h50 .. \h5f -> FastMachine(o, s)
    [] ~s.done /\ o.b >= \h80 -> FastOther(o, s)

\* One round of the loop of vm_execute in fastvm.py.
FastRound(s) ==
  IF s.pc \notin DOMAIN FastChunks
  THEN IF s.pc >= Len(code) THEN peaceful_exit(s, <<>>) ELSE vm_exception(s)
  ELSE LET c == FastChunks[s.pc]
       IN IF \/ Len(s.stack) < c.minstack \/ Len(s.stack) > StackLimit - c.maxstack
             \/ c.gas > s.gas
             \/ Info(Last(c.ops).b) = INVALID
          THEN vm_exception(s)
          ELSE FoldLeft(FastOperate, [s EXCEPT !.gas = @ - c.gas, !.pc = c.next], c.ops)

----------------------------------------------------------------------------
\* The instructions of experimental/fastvm.py, which knows neither the later
\* forks nor static calls: below 0x20,
OldCompute(o, s) ==
  CASE PushLength(o.b) > 0 -> Push(s, Pushed(o.at))
    [] o.b < \h10 -> OperateArithmetic(o.b, s)
    [] o.b \in \h10 .. \h1f -> OperateComparison(o.b, s)

\* the environment; an instruction it does not know does nothing,
OldRead(o, s) ==
  IF Opcodes[o.b].name \in MetropolisOnly THEN s ELSE OperateEnvironment(Opcodes[o.b].name, s)

\* memory, storage and control; a jump goes to a chunk that starts with a JUMPDEST,
OldJump(s, dest) ==
  IF dest \in DOMAIN OldChunks /\ OldChunks[dest].ops[1].b = \h5b
  THEN [s EXCEPT !.pc = dest] ELSE vm_exception(s)
OldMachine(o, s) ==
  LET op == Opcodes[o.b].name IN
  CASE op = "JUMP" -> OldJump(PopN(s, 1), Arg(s, 1))
    [] op = "JUMPI" -> IF Arg(s, 2) # 0 THEN OldJump(PopN(s, 2), Arg(s, 1)) ELSE PopN(s, 2)
    [] OTHER -> OperateMachine(op, s)

\* and the rest.
OldOther(o, s) ==
  LET op == Opcodes[o.b].name IN
  CASE op \in {"DUP", "SWAP"} -> OperateStack(o.b, s)
    [] op = "LOG" -> OperateLog(o.b, s)
    [] op = "RETURN" -> OperateReturn(op, s)
    [] op = "REVERT" -> s

OldOperate(s, o) ==
  CASE s.done -> s
    [] ~s.done /\ Info(o.b) = INVALID -> vm_exception(s)
    [] ~s.done /\ (o.b < \h20 \/ PushLength(o.b) > 0) -> OldCompute(o, s)
    [] ~s.done /\ o.b \in \h20 .. \h4f -> OldRead(o, s)
    [] ~s.done /\ o.b \in \h50 .. \h5f -> OldMachine(o, s)
    [] ~s.done /\ o.b \in DOMAIN Opcodes /\ o.b >= \h80 -> OldOther(o, s)

\* One round of the loop of vm_execute in experimental/fastvm.py.
OldRound(s) ==
  IF s.pc \notin DOMAIN OldChunks THEN vm_exception(s)
  ELSE LET c == OldChunks[s.pc]
       IN IF \/ c.gas > s.gas
             \/ Len(s.stack) < c.minstack \/ Len(s.stack) > StackLimit - c.maxstack
          THEN vm_exception(s)
          ELSE FoldLeft(OldOperate, [s EXCEPT !.gas = @ - c.gas, !.pc = c.next], c.ops)

----------------------------------------------------------------------------
FInit == Init /\ fast = vm /\ old = vm

FastStep ==
  /\ vm.done /\ ~fast.done
  /\ fast' = FastRound(fast)
  /\ UNCHANGED <<vmVars, old>>

\* The old machine is for the first rules only.
OldStep ==
  /\ fast.done /\ ~old.done /\ forks = {} /\ ~static
  /\ old' = OldRound(old)
  /\ UNCHANGED <<vmVars, fast>>

FNext == (Step /\ UNCHANGED <<fast, old>>) \/ FastStep \/ OldStep

FSpec == FInit /\ [][FNext]_fvars

----------------------------------------------------------------------------
\* Properties

\* What a message leaves behind: a failed one only its gas and its data.
Outcome(s) ==
  [res |-> s.res, gas |-> s.gas, data |-> s.data,
   effects |-> IF s.res = 1 THEN <<s.storage, s.refunds, s.logs>> ELSE <<>>]

\* Codes the chunked machines treat otherwise on purpose or by mistake: they
\* do not know that an instruction comes with a later fork, and inside a
\* longer chunk PC pushes where the chunk ends.
Plain ==
  \A i \in InstructionsFrom(0) :
    LET o == Info(code[i + 1])
    IN o.name # "PC" /\ (o.name \in MetropolisOnly => "metropolis" \in forks)

\* A message has one outcome, whichever machine runs it: checking stack and
\* gas for a whole chunk at once (preprocess_code, vm_execute) rejects exactly
\* what vm.py rejects at some instruction.  Left out: a LOG whose data was not
\* paid for, which no machine notices before its next check; an EXP that
\* fastvm.py comes to, which raises there; and what a call returned, as there
\* are none (RETURNDATACOPY of fastvm.py would differ).
FastAgrees ==
  vm.done /\ vm.gas >= 0 /\ Plain =>
    /\ fast.done /\ fast.gas >= 0 /\ fast.res # NoResult => Outcome(fast) = Outcome(vm)
    /\ old.done /\ old.gas >= 0 => Outcome(old) = Outcome(vm)

\* What the signed instructions of the elif chain of vm_execute owe to the
\* integers their words stand for: quotient and remainder make up the dividend
\* with the remainder on its side of zero, an extended sign keeps the value of
\* the low bytes, and a power is the last power times the base.
Lawful(op, a, b, r) ==
  LET n == to_signed(a)  d == to_signed(b)  v == to_signed(r) IN
  CASE op = "SDIV" /\ d # 0 /\ ~(n = -TT255 /\ d = -1) ->
         LET rest == n - v * d
         IN Abs(rest) < Abs(d) /\ (rest = 0 \/ (rest < 0) = (n < 0))
    [] op = "SMOD" /\ d # 0 ->
         Abs(v) < Abs(d) /\ (v = 0 \/ (v < 0) = (n < 0)) /\ (n - v) % Abs(d) = 0
    [] op = "SIGNEXTEND" /\ a < WordBytes ->
         LET half == 2 ^ (a * ByteBits + ByteBits - 1)
         IN v \in -half .. half - 1 /\ (v - d) % (2 * half) = 0
    [] op = "EXP" /\ b > 0 -> r = (a * Power[a, b - 1]) % TT256
    [] OTHER -> TRUE

ArithmeticLaws ==
  [][~vm.done /\ ~vm'.done /\ code[vm.pc + 1] \in \h01 .. \h0b =>
       Lawful(Opcodes[code[vm.pc + 1]].name, Arg(vm, 1), Arg(vm, 2), Last(vm'.stack))]_fvars
=============================================================================
