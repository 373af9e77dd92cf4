--------------------------------- MODULE VM ---------------------------------
(***************************************************************************)
(* vm_execute of ethereum/vm.py within one message: the stack machine, its *)
(* gas and its memory.  Calls and creations are in module Messages.        *)
(*                                                                         *)
(* Code is a sequence of bytes with the numbers of ethereum/opcodes.py, so *)
(* that data of a PUSH may be the byte of an instruction.  A word is       *)
(* narrower than 32 bytes; a pushed byte is cut to it.                     *)
(***************************************************************************)
EXTENDS Words, Sequences, FiniteSets, SequencesExt, TLC

CONSTANTS
  StackLimit,   \* 1024 in the code
  GQUADRATICMEMDENOM, \* 512 in the code
  Calls,        \* [code, gas, static, forks]: what may be called, and the forks that
                \* have happened, of {"anti_dos", "spurious_dragon", "metropolis"}
  CallData,     \* msg.data, bytes
  Env           \* external: what the block, the accounts and hashing answer

VARIABLES
  code, forks, static,
  vm            \* the compustate, what it has done to the account, and how it has ended

vmVars == <<code, forks, static, vm>>

----------------------------------------------------------------------------
\* opcodes.py: name, operands, results and gas of every byte that has a meaning.
Row(first, names, ins, outs, fee) ==
  [b \in first .. first + Len(names) - 1 |->
     [name |-> names[b - first + 1], ins |-> ins, outs |-> outs, fee |-> fee]]

Opcodes ==
  Row(\h00, <<"STOP">>, 0, 0, 0) @@ Row(\h01, <<"ADD">>, 2, 1, 3)
  @@ Row(\h02, <<"MUL">>, 2, 1, 5) @@ Row(\h03, <<"SUB">>, 2, 1, 3)
  @@ Row(\h04, <<"DIV", "SDIV", "MOD", "SMOD">>, 2, 1, 5)
  @@ Row(\h08, <<"ADDMOD", "MULMOD">>, 3, 1, 8)
  @@ Row(\h0a, <<"EXP">>, 2, 1, 10) @@ Row(\h0b, <<"SIGNEXTEND">>, 2, 1, 5)
  @@ Row(\h10, <<"LT", "GT", "SLT", "SGT", "EQ">>, 2, 1, 3)
  @@ Row(\h15, <<"ISZERO">>, 1, 1, 3)
  @@ Row(\h16, <<"AND", "OR", "XOR">>, 2, 1, 3) @@ Row(\h19, <<"NOT">>, 1, 1, 3)
  @@ Row(\h1a, <<"BYTE">>, 2, 1, 3) @@ Row(\h20, <<"SHA3">>, 2, 1, 30)
  @@ Row(\h30, <<"ADDRESS">>, 0, 1, 2) @@ Row(\h31, <<"BALANCE">>, 1, 1, 20)
  @@ Row(\h32, <<"ORIGIN", "CALLER", "CALLVALUE">>, 0, 1, 2)
  @@ Row(\h35, <<"CALLDATALOAD">>, 1, 1, 3) @@ Row(\h36, <<"CALLDATASIZE">>, 0, 1, 2)
  @@ Row(\h37, <<"CALLDATACOPY">>, 3, 0, 3) @@ Row(\h38, <<"CODESIZE">>, 0, 1, 2)
  @@ Row(\h39, <<"CODECOPY">>, 3, 0, 3) @@ Row(\h3a, <<"GASPRICE">>, 0, 1, 2)
  @@ Row(\h3b, <<"EXTCODESIZE">>, 1, 1, 20) @@ Row(\h3c, <<"EXTCODECOPY">>, 4, 0, 20)
  @@ Row(\h3d, <<"RETURNDATASIZE">>, 0, 1, 2)
  @@ Row(\h3e, <<"RETURNDATACOPY">>, 3, 0, 3) @@ Row(\h40, <<"BLOCKHASH">>, 1, 1, 20)
  @@ Row(\h41, <<"COINBASE", "TIMESTAMP", "NUMBER", "DIFFICULTY", "GASLIMIT">>, 0, 1, 2)
  @@ Row(\h50, <<"POP">>, 1, 0, 2) @@ Row(\h51, <<"MLOAD">>, 1, 1, 3)
  @@ Row(\h52, <<"MSTORE", "MSTORE8">>, 2, 0, 3) @@ Row(\h54, <<"SLOAD">>, 1, 1, 50)
  @@ Row(\h55, <<"SSTORE">>, 2, 0, 0) @@ Row(\h56, <<"JUMP">>, 1, 0, 8)
  @@ Row(\h57, <<"JUMPI">>, 2, 0, 10) @@ Row(\h58, <<"PC", "MSIZE", "GAS">>, 0, 1, 2)
  @@ Row(\h5b, <<"JUMPDEST">>, 0, 0, 1) @@ Row(\h60, [i \in 1 .. 32 |-> "PUSH"], 0, 1, 3)
  @@ [b \in \h80 .. \h8f |-> [name |-> "DUP", ins |-> b - \h7f, outs |-> b - \h7e, fee |-> 3]]
  @@ [b \in \h90 .. \h9f |-> [name |-> "SWAP", ins |-> b - \h8e, outs |-> b - \h8e, fee |-> 3]]
  @@ [b \in \ha0 .. \ha4 |-> [name |-> "LOG", ins |-> b - \h9e, outs |-> 0, fee |-> 375 * (b - \h9f)]]
  @@ Row(\hf3, <<"RETURN">>, 2, 0, 0) @@ Row(\hfd, <<"REVERT">>, 2, 0, 0)

MetropolisOnly == {"RETURNDATASIZE", "RETURNDATACOPY", "REVERT"}
GMEMORY == 3

Valid(b) == b \in DOMAIN Opcodes /\ (Opcodes[b].name \in MetropolisOnly => "metropolis" \in forks)

----------------------------------------------------------------------------
\* preprocess_code: the places of instructions, which lie behind pushed data.
RECURSIVE InstructionsFrom(_)
InstructionsFrom(i) ==
  IF i >= Len(code) THEN {}
  ELSE {i} \union InstructionsFrom(IF code[i + 1] \in \h60 .. \h7f
                                  THEN i + code[i + 1] - \h5e ELSE i + 1)

\* Wrong: a JUMPDEST among pushed data counts.
JumpDestsAnywhere == {i \in 0 .. Len(code) - 1 : code[i + 1] = \h5b}
JumpDests == {i \in InstructionsFrom(0) : code[i + 1] = \h5b}

CodeByte(i) == IF i < Len(code) THEN code[i + 1] ELSE 0

RECURSIVE BigEndian(_, _)
BigEndian(bytes, base) ==
  IF bytes = <<>> THEN 0 ELSE (BigEndian(Front(bytes), base) * base + Last(bytes)) % TT256

\* pushcache: what the PUSH at i pushes; behind the code there are zeros.
Pushed(i) == BigEndian([j \in 1 .. code[i + 1] - \h5f |-> CodeByte(i + j)], 256)

----------------------------------------------------------------------------
\* The ends of a run.
Ended(s, res, gas, data) == [s EXCEPT !.done = TRUE, !.res = res, !.gas = gas, !.data = data]
vm_exception(s) == Ended(s, 0, 0, <<>>)
peaceful_exit(s, data) == Ended(s, 1, s.gas, data)
revert(s, data) == Ended(s, 0, s.gas, data)

Push(s, w) == [s EXCEPT !.stack = Append(@, w)]
PopN(s, n) == [s EXCEPT !.stack = SubSeq(@, 1, Len(@) - n)]
\* The i-th operand, from the top.
Arg(s, i) == s.stack[Len(s.stack) + 1 - i]

\* eat_gas
Paid(s, amount) ==
  IF s.gas < amount THEN vm_exception(s) ELSE [s EXCEPT !.gas = @ - amount]
eat_gas(s, amount, Go(_)) ==
  LET t == Paid(s, amount) IN IF t.done THEN t ELSE Go(t)

Words(size) == (size + WordBytes - 1) \div WordBytes
MemoryFee(words) == words * GMEMORY + (words * words) \div GQUADRATICMEMDENOM

\* mem_extend
Extended(s, start, size) ==
  IF size = 0 \/ start + size <= Len(s.memory) THEN s
  ELSE LET old == Len(s.memory) \div WordBytes
           new == Words(start + size)
       IN Paid([s EXCEPT !.memory = @ \o [i \in 1 .. (new - old) * WordBytes |-> 0]],
               MemoryFee(new) - MemoryFee(old))
mem_extend(s, start, size, Go(_)) ==
  LET t == Extended(s, start, size) IN IF t.done THEN t ELSE Go(t)

Slice(bytes, start, size) == [i \in 1 .. size |-> bytes[start + i]]
Padded(bytes, start, size) ==
  [i \in 1 .. size |-> IF start + i <= Len(bytes) THEN bytes[start + i] % ByteBase ELSE 0]
Written(s, start, bytes) ==
  [s EXCEPT !.memory = [i \in DOMAIN @ |-> IF i > start /\ i <= start + Len(bytes)
                                           THEN bytes[i - start] ELSE @[i]]]
WordToBytes(w) == [i \in 1 .. WordBytes |-> (w \div ByteBase ^ (WordBytes - i)) % ByteBase]

\* data_copy of a source into memory (CALLDATACOPY, CODECOPY, EXTCODECOPY).
Copy(s, source) ==
  LET start == Arg(s, 1)  from == Arg(s, 2)  size == Arg(s, 3)
  IN mem_extend(PopN(s, 3), start, size, LAMBDA t :
       eat_gas(t, (3 * Words(size) * WordBytes) \div WordBytes, LAMBDA u :
         Written(u, start, Padded(source, from, size))))

----------------------------------------------------------------------------
\* The opcodes below 0x20.
OperateArithmetic(b, s) ==
  LET op == Opcodes[b].name
      n == Opcodes[b].ins
      arg(i) == IF i <= n THEN Arg(s, i) ELSE 0
      nbytes == IF arg(2) = 0 THEN 0 ELSE IF arg(2) < ByteBase THEN 1 ELSE WordBytes
      expfee == nbytes * (10 + (IF "spurious_dragon" \in forks THEN 40 ELSE 0))
  IN CASE op = "STOP" -> peaceful_exit(s, <<>>)
       [] op = "EXP" -> eat_gas(s, expfee, LAMBDA t :
                          Push(PopN(t, n), Arithmetic(op, arg(1), arg(2), arg(3))))
       [] OTHER -> Push(PopN(s, n), Arithmetic(op, arg(1), arg(2), arg(3)))

OperateComparison(b, s) ==
  LET n == Opcodes[b].ins
  IN Push(PopN(s, n), Comparison(Opcodes[b].name, Arg(s, 1), IF n = 2 THEN Arg(s, 2) ELSE 0))

\* The opcodes 0x20 to 0x45: the environment.
OperateEnvironment(op, s) ==
  CASE op = "SHA3" ->
         LET start == Arg(s, 1)  size == Arg(s, 2)
         IN eat_gas(PopN(s, 2), 6 * Words(size), LAMBDA t :
              mem_extend(t, start, size, LAMBDA u :
                Push(u, (Env[op] + BigEndian(Slice(u.memory, start, size), ByteBase)) % TT256)))
    [] op \in {"BALANCE", "EXTCODESIZE"} ->
         eat_gas(s, IF "anti_dos" \notin forks THEN 0 ELSE IF op = "BALANCE" THEN 380 ELSE 680,
                 LAMBDA t : Push(PopN(t, 1), (Env[op] + Arg(t, 1)) % TT256))
    [] op = "BLOCKHASH" -> Push(PopN(s, 1), (Env[op] + Arg(s, 1)) % TT256)
    [] op = "CALLDATALOAD" ->
         Push(PopN(s, 1), BigEndian(Padded(CallData, Arg(s, 1), WordBytes), ByteBase))
    [] op = "CALLDATASIZE" -> Push(s, Len(CallData) % TT256)
    [] op = "CALLDATACOPY" -> Copy(s, CallData)
    [] op = "CODESIZE" -> Push(s, Len(code) % TT256)
    [] op = "CODECOPY" -> Copy(s, code)
    [] op = "EXTCODECOPY" ->
         eat_gas(s, IF "anti_dos" \in forks THEN 680 ELSE 0, LAMBDA t : Copy(PopN(t, 1), Env[op]))
    [] op = "RETURNDATASIZE" -> Push(s, Len(s.last_returned))
    [] op = "RETURNDATACOPY" ->
         LET start == Arg(s, 1)  from == Arg(s, 2)  size == Arg(s, 3)
         IN mem_extend(PopN(s, 3), start, size, LAMBDA t :
              eat_gas(t, 3 * Words(size), LAMBDA u :
                IF from + size > Len(u.last_returned) THEN vm_exception(u)
                ELSE Written(u, start, Slice(u.last_returned, from, size))))
    [] OTHER -> Push(s, Env[op])

\* SSTORE; msg.static forbids it.
StorageGas(old, new) ==
  IF old # 0 THEN 5000 ELSE IF new # 0 THEN 20000 ELSE 5000

Jump(s, dest) ==
  IF dest \in JumpDests THEN [s EXCEPT !.pc = dest] ELSE vm_exception(s)

\* The opcodes 0x50 to 0x5b: memory, storage and control.
OperateMachine(op, s) ==
  CASE op = "POP" -> PopN(s, 1)
    [] op = "MLOAD" ->
         mem_extend(PopN(s, 1), Arg(s, 1), WordBytes, LAMBDA t :
           Push(t, BigEndian(Slice(t.memory, Arg(s, 1), WordBytes), ByteBase)))
    [] op = "MSTORE" ->
         mem_extend(PopN(s, 2), Arg(s, 1), WordBytes, LAMBDA t :
           Written(t, Arg(s, 1), WordToBytes(Arg(s, 2))))
    [] op = "MSTORE8" ->
         mem_extend(PopN(s, 2), Arg(s, 1), 1, LAMBDA t :
           Written(t, Arg(s, 1), <<Arg(s, 2) % ByteBase>>))
    [] op = "SLOAD" ->
         eat_gas(s, IF "anti_dos" \in forks THEN 150 ELSE 0, LAMBDA t :
           Push(PopN(t, 1), t.storage[Arg(t, 1)]))
    [] op = "SSTORE" ->
         LET old == s.storage[Arg(s, 1)]  new == Arg(s, 2) IN
         IF static THEN vm_exception(s)
         ELSE eat_gas(PopN(s, 2), StorageGas(old, new), LAMBDA t :
                [t EXCEPT !.storage[Arg(s, 1)] = new,
                          !.refunds = @ + (IF old # 0 /\ new = 0 THEN 15000 ELSE 0)])
    [] op = "JUMP" -> Jump(PopN(s, 1), Arg(s, 1))
    [] op = "JUMPI" -> IF Arg(s, 2) # 0 THEN Jump(PopN(s, 2), Arg(s, 1)) ELSE PopN(s, 2)
    [] op = "PC" -> Push(s, (s.pc - 1) % TT256)
    [] op = "MSIZE" -> Push(s, Len(s.memory))
    [] op = "GAS" -> Push(s, s.gas % TT256)
    [] op = "JUMPDEST" -> s

\* LOG: the gas for the data is taken without a look at what is left.
OperateLog(b, s) ==
  LET topics == b - \ha0
      start == Arg(s, 1)  size == Arg(s, 2)
      paid == [PopN(s, topics + 2) EXCEPT !.gas = @ - 8 * size]
  IN IF static THEN vm_exception(s)
     ELSE mem_extend(paid, start, size, LAMBDA t :
            [t EXCEPT !.logs = Append(@, [topics |-> [i \in 1 .. topics |-> Arg(s, i + 2)],
                                          data |-> Slice(t.memory, start, size)])])

OperateStack(b, s) ==
  LET n == Opcodes[b].ins
      top == Len(s.stack)
  IN CASE Opcodes[b].name = "DUP" -> Push(s, Arg(s, n))
       [] Opcodes[b].name = "SWAP" -> 
            [s EXCEPT !.stack[top] = Arg(s, n), !.stack[top + 1 - n] = Arg(s, 1)]

\* RETURN and REVERT
OperateReturn(op, s) ==
  LET start == Arg(s, 1)  size == Arg(s, 2)
  IN mem_extend(PopN(s, 2), start, size, LAMBDA t :
       IF op = "RETURN" THEN peaceful_exit(t, Slice(t.memory, start, size))
       ELSE revert(t, Slice(t.memory, start, size)))

\* One instruction, behind whose byte the pc stands.
Operate(b, s) ==
  LET op == Opcodes[b].name IN
  CASE b \in \h60 .. \h7f -> [Push(s, Pushed(s.pc - 1)) EXCEPT !.pc = @ + b - \h5f]
    [] b < \h10 -> OperateArithmetic(b, s)
    [] b \in \h10 .. \h1f -> OperateComparison(b, s)
    [] b \in \h20 .. \h4f -> OperateEnvironment(op, s)
    [] b \in \h50 .. \h5f -> OperateMachine(op, s)
    [] op \in {"DUP", "SWAP"} -> OperateStack(b, s)
    [] op = "LOG" -> OperateLog(b, s)
    [] op \in {"RETURN", "REVERT"} -> OperateReturn(op, s)

\* One round of the loop of vm_execute.
Execute(s) ==
  IF s.pc >= Len(code) THEN peaceful_exit(s, <<>>)
  ELSE LET b == code[s.pc + 1]
           o == Opcodes[b]
       IN IF ~Valid(b) \/ s.gas < o.fee \/ Len(s.stack) < o.ins
             \/ Len(s.stack) - o.ins + o.outs > StackLimit
          THEN vm_exception(s)
          ELSE Operate(b, [s EXCEPT !.gas = @ - o.fee, !.pc = @ + 1])

\* Compustate.__init__ and the account as the message finds it.
Fresh(gas) ==
  [pc |-> 0, stack |-> <<>>, memory |-> <<>>, gas |-> gas, last_returned |-> <<>>,
   storage |-> [w \in Word |-> w % 2], refunds |-> 0, logs |-> <<>>,
   done |-> FALSE, res |-> 0, data |-> <<>>]

Init ==
  \E call \in Calls :
    /\ code = call.code /\ forks = call.forks /\ static = call.static
    /\ vm = Fresh(call.gas)

Step ==
  /\ ~vm.done
  /\ vm' = Execute(vm)
  /\ UNCHANGED <<code, forks, static>>

Spec == Init /\ [][Step]_vmVars
=============================================================================
