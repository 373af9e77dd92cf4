------------------------------ MODULE MCFastVM ------------------------------
(***************************************************************************)
(* Programs for FastVM: families of short codes, each about one part of    *)
(* the instruction set, with every operand that matters.                   *)
(***************************************************************************)
EXTENDS FastVM

PUSH(n) == <<\h60, n>>

\* Two operands and the result returned.
Computing ==
  {PUSH(b) \o PUSH(a) \o <<op>> \o PUSH(0) \o <<\h52>> \o PUSH(WordBytes) \o PUSH(0) \o <<\hf3>> :
     a \in Word, b \in Word, op \in \h01 .. \h07 \union \h0a .. \h0b \union \h10 .. \h14
                                    \union \h16 .. \h18 \union {\h1a}}
  \union {PUSH(c) \o PUSH(b) \o PUSH(a) \o <<op, neg>> \o PUSH(0) \o <<\h52>> \o PUSH(WordBytes)
            \o PUSH(0) \o <<\hf3>> :
            a \in {0, 7, 8, 15}, b \in {1, 9, 15}, c \in {0, 1, 5, 15}, op \in {\h08, \h09},
            neg \in {\h15, \h19}}

\* A PUSH of a place, then anything: JUMPDEST, JUMP, JUMPI, ISZERO, GAS, DUP1,
\* PUSH1 (whose data may be any of these) and a byte without meaning.
Branching ==
  {PUSH(d) \o t : d \in 2 .. 4,
                  t \in [1 .. 4 -> {\h5b, \h56, \h57, \h15, \h5a, \h80, \h60, \h0c}]}

\* Something stored, then something that reads, copies, hashes, logs or ends.
Remembering ==
  {PUSH(v) \o PUSH(a) \o <<store>> \o PUSH(z) \o PUSH(y) \o PUSH(x) \o <<use>> \o end :
     v \in {0, 6}, a \in {0, 1, 3}, store \in {\h52, \h53, \h55}, z \in {0, 2}, y \in {0, 2},
     x \in {0, 1, 5}, use \in {\h20, \h31, \h35, \h37, \h39, \h3e, \h51, \h54, \h55, \ha0, \ha1, \hfd, \h40, \h3b},
     end \in {<<\h59, \h5a>>, <<\h55>>, <<\h01, \h00>>, <<\hf3>>, <<\h90, \hf3>>, <<\h3d>>}}

Rules == {{}, {"anti_dos", "spurious_dragon", "metropolis"}}
Messages ==
  [code : Computing, gas : {30000}, static : {FALSE}, forks : {{}, {"spurious_dragon"}}]
  \union [code : Branching, gas : {45}, static : {FALSE}, forks : {{}}]
  \union [code : Remembering, gas : {45, 30000}, static : {FALSE}, forks : Rules]
  \union [code : Remembering, gas : {30000}, static : {TRUE}, forks : {{"metropolis"}}]

Environment ==
  [op \in {"SHA3", "BALANCE", "EXTCODESIZE", "BLOCKHASH", "ADDRESS", "ORIGIN", "CALLER",
           "CALLVALUE", "GASPRICE", "COINBASE", "TIMESTAMP", "NUMBER", "DIFFICULTY", "GASLIMIT"} |-> 3]
  @@ ("EXTCODECOPY" :> <<1, 2, 3>>)

Input == <<1, 3, 2>>
=============================================================================
