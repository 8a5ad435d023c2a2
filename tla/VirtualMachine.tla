-------------------------- MODULE VirtualMachine --------------------------
(* The stack machine of src/emulator: the loader of the binary format       *)
(* (vm_loader.cpp), the executor (emulator.cpp, repeated in                 *)
(* vm_executor.cpp) and the Emulator with the host that drives it           *)
(* (emulator.cpp, vm_machine.cpp).  One step of the machine is one          *)
(* instruction; `activations' is the C++ stack of executeFunction, because  *)
(* a CALL runs the callee in a loop nested in the caller's.                 *)
EXTENDS Integers, Sequences, FiniteSets

CONSTANTS
  Images,       \* the files the host may load: sequences of bytes
  Main,         \* the name execute() looks for, as a sequence of bytes
  Names,        \* the names the host may call
  MaxInt,       \* an int is in -(MaxInt + 1)..MaxInt
  MaxHostCalls, \* bound: loads, runs and resets of one host
  MaxDepth,     \* bound: nested executeFunction calls, return addresses
  MaxOperands   \* bound: operands under a call

ASSUME MachineAssumption ==
  /\ MaxInt \in Nat /\ MaxHostCalls \in Nat /\ MaxDepth \in Nat \ {0} /\ MaxOperands \in Nat
  /\ Main \in Names

VARIABLES
  program,          \* Emulator::program, or Null
  executor,         \* Emulator::executor: the program it was made for and
                    \* whether that program has been deleted; or Null
  operandStack, localVariables, globalVariables, callStack,
  programCounter, halted,
  activations,      \* functions whose loop is running, innermost last
  dummy,            \* the static VMValue behind invalid local and global
                    \* references, shared by every executor
  fault,            \* undefined behaviour the machine has run into, or "none"
  hostCalls,        \* bound
  fresh,            \* history: "cleared" by a load or a reset, in a "clean run"
                    \* that began there, or "used"
  touched,          \* history: what outlives a reset and has been written:
                    \* "none", "globals" or "dummy"
  calledName,       \* history: the function the host asked for
  results           \* history: what clean runs left

contextVars == <<operandStack, localVariables, globalVariables, callStack,
                 programCounter, halted, activations>>
hostVars == <<program, executor, hostCalls, calledName, results>>
vmVars == <<program, executor, contextVars, dummy, fault, hostCalls, fresh,
            touched, calledName, results>>

Null == [globals |-> 0, functions |-> <<>>, absent |-> TRUE]
NoFunction == 0

(* ------------------------------- values --------------------------------- *)

\* A signed int of the machine's width.
Wrap(n) == ((n + MaxInt + 1) % (2 * (MaxInt + 1))) - (MaxInt + 1)

IntValue(n) == [type |-> "INT", val |-> n]
BoolValue(b) == [type |-> "BOOL", val |-> IF b THEN 1 ELSE 0]
Void == [type |-> "VOID", val |-> 0]

ToBool(v) == v.type # "VOID" /\ v.val # 0

(* ------------------------------- loader --------------------------------- *)

Opcodes == << "PUSH", "POP", "DUP", "SWAP", "ADD", "SUB", "MUL", "DIV", "MOD",
  "AND", "OR", "XOR", "NOT", "SHL", "SHR", "EQ", "NE", "LT", "LE", "GT", "GE",
  "JMP", "JZ", "JNZ", "JGT", "JLT", "CALL", "RET", "LOAD", "STORE",
  "LOAD_GLOBAL", "STORE_GLOBAL", "ARRAY_LOAD", "ARRAY_STORE", "NOP", "HALT",
  "PRINT", "PRINTLN" >>

OpcodeOf(byte) == IF byte < Len(Opcodes) THEN Opcodes[byte + 1] ELSE "UNKNOWN"
ByteOf(op) == (CHOOSE i \in DOMAIN Opcodes : Opcodes[i] = op) - 1

HasOperand == {"PUSH", "LOAD", "STORE", "LOAD_GLOBAL", "STORE_GLOBAL"}
HasLabel == {"JMP", "JZ", "JNZ", "JGT", "JLT", "CALL"}

\* Four bytes, the highest first; the images use one byte of them.
Word(b, at) == b[at + 4]

Instruction(op, n, label) == [type |-> op, operand |-> n, label |-> label]

\* readInstruction: at most what is there.  `at' is the number of bytes read.
ReadInstruction(b, at) ==
  LET op == OpcodeOf(b[at + 1])
      left == Len(b) - at - 1
  IN  CASE op \in HasOperand /\ left >= 4 ->
             [inst |-> Instruction(op, Wrap(Word(b, at + 1)), <<>>), at |-> at + 5]
        [] op \in HasLabel /\ left >= 1 ->
             LET n == b[at + 2]
             IN  IF left - 1 >= n
                 THEN [inst |-> Instruction(op, 0, SubSeq(b, at + 3, at + 2 + n)),
                       at |-> at + 2 + n]
                 ELSE [inst |-> Instruction(op, 0, <<>>), at |-> at + 2]
        [] OTHER -> [inst |-> Instruction(op, 0, <<>>), at |-> at + 1]

Refused == [ok |-> FALSE]

\* A name and the position behind it.
ReadName(b, at) ==
  IF at >= Len(b) \/ at + 1 + b[at + 1] > Len(b) THEN Refused
  ELSE [ok |-> TRUE, name |-> SubSeq(b, at + 2, at + 1 + b[at + 1]),
        at |-> at + 1 + b[at + 1]]

\* The n instructions at a position.
ReadCode(b, start, n) ==
  LET upTo[i \in 0..n] ==
        IF i = 0 THEN [ok |-> TRUE, code |-> <<>>, at |-> start]
        ELSE LET prev == upTo[i - 1]
             IN  IF ~prev.ok \/ prev.at >= Len(b) THEN Refused
                 ELSE LET r == ReadInstruction(b, prev.at)
                      IN  [ok |-> TRUE, code |-> Append(prev.code, r.inst), at |-> r.at]
  IN  upTo[n]

\* One entry of the function table.
ReadFunction(b, at) ==
  LET name == ReadName(b, at)
  IN  IF ~name.ok \/ name.at + 6 > Len(b) THEN Refused
      ELSE LET code == ReadCode(b, name.at + 6, Word(b, name.at + 2))
           IN  IF ~code.ok THEN Refused
               ELSE [ok |-> TRUE, at |-> code.at,
                     func |-> [name |-> name.name, instructions |-> code.code,
                               localVarCount |-> b[name.at + 2]]]

ReadGlobals(b, n) ==
  LET upTo[i \in 0..n] ==
        IF i = 0 THEN [ok |-> TRUE, at |-> 16]
        ELSE IF ~upTo[i - 1].ok THEN Refused ELSE ReadName(b, upTo[i - 1].at)
  IN  upTo[n]

ReadFunctions(b, start, n) ==
  LET upTo[i \in 0..n] ==
        IF i = 0 THEN [ok |-> TRUE, at |-> start, functions |-> <<>>]
        ELSE LET prev == upTo[i - 1]
                 f == IF prev.ok THEN ReadFunction(b, prev.at) ELSE Refused
             IN  IF ~f.ok THEN Refused
                 ELSE [ok |-> TRUE, at |-> f.at,
                       functions |-> Append(prev.functions, f.func)]
  IN  upTo[n]

Magic == <<86, 77, 66, 67>>

\* loadFromBinary.  No byte of the file says where a label is.
LoadFromBinary(b) ==
  IF Len(b) < 16 \/ SubSeq(b, 1, 4) # Magic \/ Word(b, 4) # 1 THEN Null
  ELSE LET globals == ReadGlobals(b, Word(b, 8))
           functions == IF globals.ok
                        THEN ReadFunctions(b, globals.at, Word(b, 12)) ELSE Refused
       IN  IF ~functions.ok THEN Null
           ELSE [globals |-> Word(b, 8), functions |-> functions.functions,
                 absent |-> FALSE]

(* addFunction keeps in functionMap a pointer to the element it has just    *)
(* appended to a vector, and the vector moves its elements when it grows    *)
(* past a power of two.                                                     *)
Capacity(n) == CHOOSE c \in {0, 1, 2, 4, 8, 16} :
                 c >= n /\ \A d \in {0, 1, 2, 4, 8, 16} : d >= n => d >= c

\* getFunction: the index the name is mapped to (a later one replaces it).
GetFunction(p, name) ==
  LET named == {i \in DOMAIN p.functions : p.functions[i].name = name}
  IN  IF named = {} THEN NoFunction
      ELSE CHOOSE i \in named : \A j \in named : j <= i

Moved(p, i) == Capacity(i) # Capacity(Len(p.functions))

(* ---------------------------- the executor ------------------------------ *)

Running == activations # <<>> /\ fault = "none"
Idle == activations = <<>> /\ fault = "none"

CurrentFunction == executor.program.functions[activations[Len(activations)]]
Instructions == CurrentFunction.instructions
LoopGoesOn == ~halted /\ programCounter < Len(Instructions)
AtInstruction == Running /\ LoopGoesOn
Inst == Instructions[programCounter + 1]

\* The operand stack has its top at the end; an empty one pops void.
Top(s) == IF s = <<>> THEN Void ELSE s[Len(s)]
Popped(s) == IF s = <<>> THEN s ELSE SubSeq(s, 1, Len(s) - 1)

\* vector::resize.
Resize(s, n) == [i \in 1..n |-> IF i <= Len(s) THEN s[i] ELSE Void]

\* executeFunction up to its loop, for the host and for CALL.
Enter(name, p) ==
  LET f == GetFunction(p, name)
  IN  CASE f # NoFunction /\ ~Moved(p, f) ->
             /\ programCounter' = 0
             /\ halted' = FALSE
             /\ localVariables' = Resize(localVariables, p.functions[f].localVarCount)
             /\ activations' = Append(activations, f)
             /\ UNCHANGED fault
        [] f # NoFunction /\ Moved(p, f) ->
             /\ fault' = "moved function"
             /\ UNCHANGED <<programCounter, halted, localVariables, activations>>

\* The instruction is done: the loop counts on.
Continue == programCounter' = programCounter + 1

\* The instruction leaves a new operand stack and nothing else.
Leave(stack) ==
  /\ operandStack' = stack
  /\ Continue
  /\ UNCHANGED <<localVariables, globalVariables, callStack, halted, activations,
                 dummy, fault, fresh, touched, hostVars>>

Moves == {"PUSH", "POP", "DUP", "SWAP"}

\* What a stack instruction makes of the operand stack.
Moving(inst, s) ==
  LET a == Top(s)
      rest == Popped(s)
  IN  CASE inst.type = "PUSH" -> Append(s, IntValue(inst.operand))
        [] inst.type = "POP" -> rest
        [] inst.type = "DUP" -> rest \o <<a, a>>
        [] inst.type = "SWAP" -> Popped(rest) \o <<a, Top(rest)>>

ExecuteStack ==
  /\ AtInstruction
  /\ Inst.type \in Moves
  /\ Leave(Moving(Inst, operandStack))

Arithmetic == {"ADD", "SUB", "MUL", "DIV", "MOD", "AND", "OR", "NOT"}

Magnitude(n) == IF n < 0 THEN -n ELSE n
\* Division of C++: towards zero, and the remainder has the dividend's sign.
Quotient(a, b) == (IF (a < 0) = (b < 0) THEN 1 ELSE -1) * (Magnitude(a) \div Magnitude(b))
Remainder(a, b) == a - b * Quotient(a, b)

\* Integers only: what other operands give is the default value, void.
IntResult(op, a, b) ==
  IF ~(a.type = "INT" /\ b.type = "INT") THEN Void
  ELSE IntValue(Wrap(CASE op = "ADD" -> a.val + b.val
                  [] op = "SUB" -> a.val - b.val
                  [] op = "MUL" -> a.val * b.val
                  [] op = "DIV" -> Quotient(a.val, b.val)
                  [] op = "MOD" -> Remainder(a.val, b.val)))

ByZero(op, a, b) ==
  op \in {"DIV", "MOD"} /\ a.type = "INT" /\ b.type = "INT" /\ b.val = 0
\* The quotient does not fit: the processor traps.
Traps(op, a, b) ==
  /\ op \in {"DIV", "MOD"} /\ a.type = "INT" /\ b.type = "INT"
  /\ b.val = -1 /\ a.val = -(MaxInt + 1)

\* The stack under the second operand; NOT has only one.
Under(op, s) == IF op = "NOT" THEN s ELSE Popped(s)

\* A division by zero takes its operands and leaves nothing.
Computing(op, s) ==
  LET b == Top(s)
      rest == Under(op, s)
      a == Top(rest)
      result == CASE op = "AND" -> BoolValue(ToBool(a) /\ ToBool(b))
                  [] op = "OR" -> BoolValue(ToBool(a) \/ ToBool(b))
                  [] op = "NOT" -> BoolValue(~ToBool(a))
                  [] OTHER -> IntResult(op, a, b)
  IN  IF ByZero(op, a, b) THEN Popped(rest) ELSE Append(Popped(rest), result)

\* executeArithmetic.
ExecuteArithmetic ==
  /\ AtInstruction
  /\ Inst.type \in Arithmetic
  /\ IF Traps(Inst.type, Top(Under(Inst.type, operandStack)), Top(operandStack))
     THEN fault' = "trap" /\ UNCHANGED <<contextVars, dummy, fresh, touched, hostVars>>
     ELSE Leave(Computing(Inst.type, operandStack))

\* executeComparison.  Values of different types are neither equal nor unequal.
Compare(op, a, b) ==
  IF op \in {"EQ", "NE"}
  THEN a.type = b.type /\ a.type # "VOID" /\ ((a.val = b.val) = (op = "EQ"))
  ELSE /\ a.type = "INT" /\ b.type = "INT"
       /\ CASE op = "LT" -> a.val < b.val
            [] op = "LE" -> a.val <= b.val
            [] op = "GT" -> a.val > b.val
            [] op = "GE" -> a.val >= b.val

Comparisons == {"EQ", "NE", "LT", "LE", "GT", "GE"}

Comparing(op, s) ==
  LET rest == Popped(s) IN Append(Popped(rest), BoolValue(Compare(op, Top(rest), Top(s))))

ExecuteComparison ==
  /\ AtInstruction
  /\ Inst.type \in Comparisons
  /\ Leave(Comparing(Inst.type, operandStack))

Jumps == {"JMP", "JZ", "JNZ", "JGT", "JLT"}

\* Faulty variant: a label that is not found is address 0.
JumpToStart ==
  /\ AtInstruction
  /\ Inst.type \in Jumps
  /\ operandStack' = IF Inst.type = "JMP" THEN operandStack ELSE Popped(operandStack)
  /\ programCounter' = 0
  /\ UNCHANGED <<localVariables, globalVariables, callStack, halted, activations,
                 dummy, fault, fresh, touched, hostVars>>

\* The operand stack without the condition.
Jumping(op, s) == IF op = "JMP" THEN s ELSE Popped(s)

\* executeJump.  The loaded functions have no labels, so the label is never
\* found: the condition is taken and the next instruction follows.
ExecuteJump ==
  /\ AtInstruction
  /\ Inst.type \in Jumps
  /\ Leave(Jumping(Inst.type, operandStack))

Loads == {"LOAD", "LOAD_GLOBAL"}

\* getLocalVariable and getGlobalVariable: an offset without a variable is the
\* dummy's.
IsOffset(n, variables) == 0 <= n /\ n < Len(variables)
ValueAt(variables, n, invalid) == IF IsOffset(n, variables) THEN variables[n + 1] ELSE invalid
Loading(inst, s, locals, globals, invalid) ==
  Append(s, IF inst.type = "LOAD" THEN ValueAt(locals, inst.operand, invalid.local)
            ELSE ValueAt(globals, inst.operand, invalid.global))

ExecuteLoad ==
  /\ AtInstruction
  /\ Inst.type \in Loads
  /\ Leave(Loading(Inst, operandStack, localVariables, globalVariables, dummy))

ExecuteStore ==
  /\ AtInstruction
  /\ Inst.type \in {"STORE", "STORE_GLOBAL"}
  /\ LET n == Inst.operand
         value == Top(operandStack)
     IN  /\ operandStack' = Popped(operandStack)
         /\ CASE Inst.type = "STORE" /\ IsOffset(n, localVariables) ->
                   /\ localVariables' = [localVariables EXCEPT ![n + 1] = value]
                   /\ UNCHANGED <<globalVariables, dummy, touched>>
              [] Inst.type = "STORE" /\ ~IsOffset(n, localVariables) ->
                   /\ dummy' = [dummy EXCEPT !.local = value]
                   /\ touched' = "dummy"
                   /\ UNCHANGED <<localVariables, globalVariables>>
              [] Inst.type = "STORE_GLOBAL" /\ IsOffset(n, globalVariables) ->
                   /\ globalVariables' = [globalVariables EXCEPT ![n + 1] = value]
                   /\ touched' = IF touched = "dummy" THEN touched ELSE "globals"
                   /\ UNCHANGED <<localVariables, dummy>>
              [] OTHER ->
                   /\ dummy' = [dummy EXCEPT !.global = value]
                   /\ touched' = "dummy"
                   /\ UNCHANGED <<localVariables, globalVariables>>
  /\ Continue
  /\ UNCHANGED <<callStack, halted, activations, fault, fresh, hostVars>>

\* executeCall, CALL: the callee's loop runs before the counter goes on.
Call ==
  /\ AtInstruction
  /\ Inst.type = "CALL"
  /\ Len(activations) < MaxDepth /\ Len(callStack) < MaxDepth
  /\ Len(operandStack) <= MaxOperands
  /\ callStack' = Append(callStack, programCounter)
  /\ IF GetFunction(executor.program, Inst.label) = NoFunction
     THEN Continue /\ UNCHANGED <<halted, localVariables, activations, fault>>
     ELSE Enter(Inst.label, executor.program)
  /\ UNCHANGED <<operandStack, globalVariables, dummy, fresh, touched, hostVars>>

\* executeCall, RET: the address is the caller's, the loop is the callee's.
Return ==
  /\ AtInstruction
  /\ Inst.type = "RET"
  /\ IF callStack = <<>>
     THEN halted' = TRUE /\ Continue /\ UNCHANGED callStack
     ELSE /\ programCounter' = callStack[Len(callStack)] + 1
          /\ callStack' = Popped(callStack)
          /\ UNCHANGED halted
  /\ UNCHANGED <<operandStack, localVariables, globalVariables, activations,
                 dummy, fault, fresh, touched, hostVars>>

Halt ==
  /\ AtInstruction
  /\ Inst.type = "HALT"
  /\ halted' = TRUE
  /\ Continue
  /\ UNCHANGED <<operandStack, localVariables, globalVariables, callStack,
                 activations, dummy, fault, fresh, touched, hostVars>>

\* Prints show the top of the stack and leave it there; arrays, bit operations
\* and unknown opcodes are reported and skipped.
Unsupported == {"XOR", "SHL", "SHR", "PRINT", "PRINTLN", "NOP", "ARRAY_LOAD",
                "ARRAY_STORE", "UNKNOWN"}

ExecuteNothing ==
  /\ AtInstruction
  /\ Inst.type \in Unsupported
  /\ Leave(operandStack)

\* Faulty variant: a nested loop that ends clears the flag its caller tests.
EndFunctionResuming ==
  /\ Running /\ ~LoopGoesOn
  /\ activations' = SubSeq(activations, 1, Len(activations) - 1)
  /\ IF activations' = <<>> THEN UNCHANGED <<programCounter, halted>> ELSE Continue /\ halted' = FALSE
  /\ fresh' = "used"
  /\ UNCHANGED <<operandStack, localVariables, globalVariables, callStack, results,
                 dummy, fault, touched, program, executor, hostCalls, calledName>>

\* The loop of executeFunction ends; a caller's loop counts on.
EndFunction ==
  /\ Running /\ ~LoopGoesOn
  /\ activations' = SubSeq(activations, 1, Len(activations) - 1)
  /\ IF activations' = <<>>
     THEN /\ results' = IF fresh = "clean run" /\ touched = "none"
                        THEN results \cup {[program |-> program, name |-> calledName,
                                           operands |-> operandStack, calls |-> callStack,
                                           locals |-> localVariables, ok |-> ~halted]}
                        ELSE results
          /\ fresh' = "used"
          /\ UNCHANGED programCounter
     ELSE Continue /\ UNCHANGED <<results, fresh>>
  /\ UNCHANGED <<operandStack, localVariables, globalVariables, callStack, halted,
                 dummy, fault, touched, program, executor, hostCalls, calledName>>

(* ------------------------------ the host -------------------------------- *)

HostCall == Idle /\ hostCalls < MaxHostCalls /\ hostCalls' = hostCalls + 1

NewContext(p) ==
  /\ operandStack' = <<>> /\ localVariables' = <<>> /\ callStack' = <<>>
  /\ programCounter' = 0 /\ halted' = FALSE /\ activations' = <<>>
  /\ globalVariables' = [i \in 1..p.globals |-> Void]

\* loadProgram: the old program is deleted first, the old executor replaced
\* only when the new program is there.
LoadProgram(image) ==
  /\ HostCall
  /\ program' = LoadFromBinary(image)
  /\ IF program'.absent
     THEN /\ executor' = [executor EXCEPT !.deleted = TRUE]
          /\ UNCHANGED <<contextVars, fresh, touched>>
     ELSE /\ executor' = [program |-> program', deleted |-> FALSE]
          /\ NewContext(program')
          /\ fresh' = "cleared"
          /\ touched' = IF touched = "dummy" THEN touched ELSE "none"
  /\ UNCHANGED <<dummy, fault, calledName, results>>

\* execute and executeFunction of Emulator and VMExecutor.
Execute(name) ==
  /\ HostCall
  /\ calledName' = name
  /\ LET p == executor.program
     IN  CASE ~p.absent /\ executor.deleted ->
                fault' = "deleted program" /\ UNCHANGED <<contextVars, fresh>>
           [] ~executor.deleted /\ GetFunction(p, name) # NoFunction ->
                /\ Enter(name, p)
                /\ fresh' = IF fresh = "cleared" THEN "clean run" ELSE "used"
                /\ UNCHANGED <<operandStack, globalVariables, callStack>>
           [] OTHER -> UNCHANGED <<contextVars, fault, fresh>>
  /\ UNCHANGED <<program, executor, dummy, touched, results>>

\* Faulty variant: reset forgets the return addresses.
ResetKeepingCalls ==
  /\ HostCall
  /\ operandStack' = <<>> /\ localVariables' = <<>>
  /\ programCounter' = 0 /\ halted' = FALSE
  /\ fresh' = "cleared"
  /\ UNCHANGED <<globalVariables, callStack, activations, dummy, fault, touched,
                 program, executor, calledName, results>>

\* Emulator::reset: everything but the globals.
Reset ==
  /\ HostCall
  /\ operandStack' = <<>> /\ localVariables' = <<>> /\ callStack' = <<>>
  /\ programCounter' = 0 /\ halted' = FALSE
  /\ fresh' = "cleared"
  /\ UNCHANGED <<globalVariables, activations, dummy, fault, touched, program,
                 executor, calledName, results>>


(* --------------------------- specification ------------------------------ *)

Init ==
  /\ program = Null /\ executor = [program |-> Null, deleted |-> FALSE]
  /\ operandStack = <<>> /\ localVariables = <<>> /\ globalVariables = <<>>
  /\ callStack = <<>> /\ programCounter = 0 /\ halted = FALSE /\ activations = <<>>
  /\ dummy = [local |-> Void, global |-> Void]
  /\ fault = "none" /\ hostCalls = 0
  /\ fresh = "used" /\ touched = "none" /\ calledName = Main /\ results = {}

ExecuteInstruction ==
  \/ ExecuteStack \/ ExecuteArithmetic \/ ExecuteComparison \/ ExecuteJump
  \/ ExecuteLoad \/ ExecuteStore \/ Call \/ Return \/ Halt \/ ExecuteNothing

Host ==
  \/ \E image \in Images : LoadProgram(image)
  \/ \E name \in Names : Execute(name)
  \/ Reset

Next == ExecuteInstruction \/ EndFunction \/ Host

Fairness == WF_vmVars(ExecuteInstruction) /\ WF_vmVars(EndFunction)

Spec == Init /\ [][Next]_vmVars /\ Fairness

(* ----------------------------- properties ------------------------------- *)

\* A run that begins with a fresh or reset executor and writes nothing that
\* outlives a reset ends the same way every time: reset (emulator.cpp:137)
\* clears everything a run can leave behind and the program can see.
Repeatable ==
  \A r1, r2 \in results : r1.program = r2.program /\ r1.name = r2.name => r1 = r2

\* HALT and a RET without a caller stop the machine through every nested
\* executeFunction loop: after it no instruction has an effect until the host
\* runs the machine again.
HaltStopsAllLoops ==
  [][halted /\ activations # <<>> =>
       halted' /\ UNCHANGED <<operandStack, localVariables, globalVariables, callStack, dummy>>]_vmVars

NoCalls ==
  \A f \in DOMAIN executor.program.functions :
    \A i \in DOMAIN executor.program.functions[f].instructions :
      executor.program.functions[f].instructions[i].type # "CALL"

\* A loaded program that calls nothing always comes to an end: the binary
\* format has no labels, so no jump goes back.
RunsEnd == (activations # <<>> /\ NoCalls) ~> (activations = <<>> \/ fault # "none")
===========================================================================
