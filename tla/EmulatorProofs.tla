--------------------------- MODULE EmulatorProofs ---------------------------
(***************************************************************************)
(* What the stack machine guarantees for every binary.  A run that begins  *)
(* with a cleared context and writes nothing that outlives a reset is the  *)
(* run of a function from contexts to contexts: it has no choice, so two   *)
(* such runs of one program and one name leave the same.                   *)
(***************************************************************************)
EXTENDS VirtualMachine, Mmio, SequenceLemmas

----------------------------------------------------------------------------
(* A halt.                                                                 *)

\* Once HALT, or a RET without a caller, has set the flag, the only step left is
\* the end of a loop of executeFunction, until the last of them is gone
\* (emulator.cpp:130).
THEOREM HaltCorrect == Spec => HaltStopsAllLoops
<1> DEFINE Stops == halted /\ activations # <<>> =>
       halted' /\ UNCHANGED <<operandStack, localVariables, globalVariables, callStack, dummy>>
<1>1. [Next]_vmVars => Stops
  <2> SUFFICES ASSUME [Next]_vmVars, halted, activations # <<>>
               PROVE  halted' /\ UNCHANGED <<operandStack, localVariables, globalVariables,
                                             callStack, dummy>>
    OBVIOUS
  <2>1. CASE ExecuteInstruction
    BY <2>1 DEF ExecuteInstruction, ExecuteStack, ExecuteArithmetic, ExecuteComparison,
                ExecuteJump, ExecuteLoad, ExecuteStore, Call, Return, Halt, ExecuteNothing,
                AtInstruction, LoopGoesOn
  <2>2. CASE EndFunction
    BY <2>2 DEF EndFunction
  <2>3. CASE Host
    BY <2>3 DEF Host, LoadProgram, Execute, Reset, HostCall, Idle
  <2>4. CASE UNCHANGED vmVars
    BY <2>4 DEF vmVars, contextVars
  <2> QED BY <2>1, <2>2, <2>3, <2>4 DEF Next
<1>2. [Next]_vmVars => [Stops]_vmVars
  BY <1>1
<1> QED BY <1>2, PTL DEF Spec, HaltStopsAllLoops

----------------------------------------------------------------------------
(* The machine as a function.                                              *)

InvalidValues == [local |-> Void, global |-> Void]
NewGlobals(p) == [i \in 1..p.globals |-> Void]

\* What a reset clears.
Of(ops, locals, calls, counter, stopped, functions) ==
  [operands |-> ops, locals |-> locals, calls |-> calls, counter |-> counter,
   halted |-> stopped, activations |-> functions]

Context == Of(operandStack, localVariables, callStack, programCounter, halted, activations)
ClearContext == Of(<<>>, <<>>, <<>>, 0, FALSE, <<>>)

Entering(p, name, m) ==
  LET f == GetFunction(p, name)
  IN  Of(m.operands, Resize(m.locals, p.functions[f].localVarCount), m.calls, 0, FALSE,
         Append(m.activations, f))

CodeAt(p, m) == p.functions[m.activations[Len(m.activations)]].instructions
GoesOn(p, m) == ~m.halted /\ m.counter < Len(CodeAt(p, m))

Ending(m) ==
  LET callers == SubSeq(m.activations, 1, Len(m.activations) - 1)
  IN  Of(m.operands, m.locals, m.calls, IF callers = <<>> THEN m.counter ELSE m.counter + 1,
         m.halted, callers)

Leaving(m, stack) == Of(stack, m.locals, m.calls, m.counter + 1, m.halted, m.activations)
Halting(m) == Of(m.operands, m.locals, m.calls, m.counter + 1, TRUE, m.activations)
Storing(m, n) ==
  Of(Popped(m.operands), [m.locals EXCEPT ![n + 1] = Top(m.operands)], m.calls,
     m.counter + 1, m.halted, m.activations)
Calling(p, m, name) ==
  LET called == Of(m.operands, m.locals, Append(m.calls, m.counter), m.counter, m.halted,
                   m.activations)
  IN  IF GetFunction(p, name) = NoFunction THEN Leaving(called, m.operands)
      ELSE Entering(p, name, called)
Returning(m) ==
  IF m.calls = <<>> THEN Halting(m)
  ELSE Of(m.operands, m.locals, Popped(m.calls), m.calls[Len(m.calls)] + 1, m.halted,
          m.activations)

\* What an instruction does that reads only what a reset sets and writes nothing
\* that outlives one.
Executing(p, m, inst) ==
  CASE inst.type \in Moves -> Leaving(m, Moving(inst, m.operands))
    [] inst.type \in Arithmetic -> Leaving(m, Computing(inst.type, m.operands))
    [] inst.type \in Comparisons -> Leaving(m, Comparing(inst.type, m.operands))
    [] inst.type \in Jumps -> Leaving(m, Jumping(inst.type, m.operands))
    [] inst.type \in Loads ->
         Leaving(m, Loading(inst, m.operands, m.locals, NewGlobals(p), InvalidValues))
    [] inst.type = "STORE" -> Storing(m, inst.operand)
    [] inst.type = "CALL" -> Calling(p, m, inst.label)
    [] inst.type = "RET" -> Returning(m)
    [] inst.type = "HALT" -> Halting(m)
    [] inst.type \in Unsupported -> Leaving(m, m.operands)

Stepping(p, m) ==
  IF GoesOn(p, m) THEN Executing(p, m, CodeAt(p, m)[m.counter + 1]) ELSE Ending(m)

\* The first n contexts of a run are s[0], ..., s[n].
IsRun(p, name, s, n) ==
  /\ s = [i \in 0..n |-> s[i]]
  /\ s[0] = Entering(p, name, ClearContext)
  /\ \A i \in 1..n : s[i - 1].activations # <<>> /\ s[i] = Stepping(p, s[i - 1])

Leaves(p, name, m) == \E n \in Nat : \E s : IsRun(p, name, s, n) /\ s[n] = m

\* A step more.
LEMMA RunGoesOn ==
  ASSUME NEW p, NEW name, NEW m, Leaves(p, name, m), m.activations # <<>>
  PROVE  Leaves(p, name, Stepping(p, m))
<1>0. PICK n \in Nat : \E s : IsRun(p, name, s, n) /\ s[n] = m
  BY DEF Leaves
<1>1. PICK s : IsRun(p, name, s, n) /\ s[n] = m
  BY <1>0
<1> DEFINE next == Stepping(p, m)
           t == [i \in 0..(n + 1) |-> IF i = n + 1 THEN next ELSE s[i]]
<1> HIDE DEF next
<1>2. /\ t = [i \in 0..(n + 1) |-> t[i]]
      /\ \A i \in 0..n : t[i] = s[i]
      /\ t[n + 1] = next
  <2>1. t = [i \in 0..(n + 1) |-> t[i]]
    OBVIOUS
  <2>2. ASSUME NEW i \in 0..n PROVE t[i] = s[i]
    <3>1. i \in 0..(n + 1) /\ i # n + 1
      OBVIOUS
    <3> QED BY <3>1
  <2>3. n + 1 \in 0..(n + 1)
    OBVIOUS
  <2> QED BY <2>1, <2>2, <2>3
<1> HIDE DEF t
<1>3. 0 \in 0..n /\ t[0] = Entering(p, name, ClearContext)
  BY <1>1, <1>2 DEF IsRun
<1>4. ASSUME NEW i \in 1..(n + 1)
      PROVE  t[i - 1].activations # <<>> /\ t[i] = Stepping(p, t[i - 1])
  <2>1. i - 1 \in 0..n
    OBVIOUS
  <2> DEFINE j == i - 1
  <2>4. t[j] = s[j]
    <3> HIDE DEF j
    <3> QED BY <1>2, <2>1 DEF j
  <2>2. CASE i = n + 1
    <3>1. i - 1 = n
      BY <2>2
    <3> QED BY <1>1, <1>2, <2>4, <2>2, <3>1 DEF next
  <2>3. CASE i # n + 1
    <3>1. i \in 1..n /\ i \in 0..n
      BY <1>4, <2>3
    <3> QED BY <1>1, <1>2, <2>4, <3>1 DEF IsRun
  <2> QED BY <2>2, <2>3
<1>5. IsRun(p, name, t, n + 1) /\ t[n + 1] = next
  BY <1>2, <1>3, <1>4 DEF IsRun
<1> QED BY <1>5 DEF Leaves, next

\* Two runs are the same as far as both go: there is no first difference.
LEMMA RunsAgree ==
  ASSUME NEW p, NEW name, NEW s, NEW t, NEW n \in Nat, NEW k \in Nat,
         IsRun(p, name, s, n), IsRun(p, name, t, k)
  PROVE  \A i \in 0..n : i <= k => s[i] = t[i]
<1> DEFINE Differ == {i \in 0..n : i <= k /\ s[i] # t[i]}
<1>1. SUFFICES ASSUME Differ # {} PROVE FALSE
  OBVIOUS
<1>2. Differ \subseteq Nat
  OBVIOUS
<1>3. PICK i \in Differ : \A j \in Differ : i <= j
  <2> HIDE DEF Differ
  <2> QED BY <1>1, <1>2, SmallestOf
<1>4. i \in 0..n /\ i <= k /\ s[i] # t[i]
  BY <1>3
<1>5. i # 0
  BY <1>4 DEF IsRun
<1>6. i \in 1..n /\ i \in 1..k /\ i - 1 \in 0..n /\ i - 1 <= k /\ ~(i <= i - 1)
  BY <1>4, <1>5
<1>7. s[i - 1] = t[i - 1]
  BY <1>3, <1>6
<1>8. s[i] = Stepping(p, s[i - 1]) /\ t[i] = Stepping(p, t[i - 1])
  BY <1>6 DEF IsRun
<1> QED BY <1>4, <1>7, <1>8

\* So there is one context that a run can end in.
LEMMA OneEnd ==
  ASSUME NEW p, NEW name, NEW m1, NEW m2, Leaves(p, name, m1), Leaves(p, name, m2),
         m1.activations = <<>>, m2.activations = <<>>
  PROVE  m1 = m2
<1>10. PICK n \in Nat : \E s : IsRun(p, name, s, n) /\ s[n] = m1
  BY DEF Leaves
<1>1. PICK s : IsRun(p, name, s, n) /\ s[n] = m1
  BY <1>10
<1>20. PICK k \in Nat : \E t : IsRun(p, name, t, k) /\ t[k] = m2
  BY DEF Leaves
<1>2. PICK t : IsRun(p, name, t, k) /\ t[k] = m2
  BY <1>20
<1>3. ~(n < k)
  <2> SUFFICES ASSUME n < k PROVE FALSE
    OBVIOUS
  <2>1. n \in 0..n /\ n <= k /\ n + 1 \in 1..k /\ (n + 1) - 1 = n
    OBVIOUS
  <2>2. s[n] = t[n]
    BY <1>1, <1>2, <2>1, RunsAgree
  <2>3. t[n].activations # <<>>
    BY <1>2, <2>1 DEF IsRun
  <2> QED BY <1>1, <2>2, <2>3
<1>4. ~(k < n)
  <2> SUFFICES ASSUME k < n PROVE FALSE
    OBVIOUS
  <2>1. k \in 0..k /\ k <= n /\ k + 1 \in 1..n /\ (k + 1) - 1 = k
    OBVIOUS
  <2>2. t[k] = s[k]
    BY <1>1, <1>2, <2>1, RunsAgree
  <2>3. s[k].activations # <<>>
    BY <1>1, <2>1 DEF IsRun
  <2> QED BY <1>2, <2>2, <2>3
<1>5. n = k /\ n \in 0..n /\ n <= k
  BY <1>3, <1>4
<1> QED BY <1>1, <1>2, <1>5, RunsAgree

----------------------------------------------------------------------------
(* The steps of the machine.                                               *)

\* The executor runs the program that is loaded, and has written nothing that
\* outlives a reset.
Untouched ==
  /\ executor.program = program
  /\ globalVariables = NewGlobals(program)
  /\ dummy = InvalidValues
  /\ touched = "none"

\* The fields of the context.
LEMMA Fields ==
  /\ Context.operands = operandStack /\ Context.locals = localVariables
  /\ Context.calls = callStack /\ Context.counter = programCounter
  /\ Context.halted = halted /\ Context.activations = activations
BY DEF Context, Of

\* The function and the machine are at the same instruction.
LEMMA AtItsPlace ==
  ASSUME executor.program = program
  PROVE  /\ GoesOn(program, Context) <=> LoopGoesOn
         /\ CodeAt(program, Context)[Context.counter + 1] = Inst
<1>1. CodeAt(program, Context) = Instructions
  BY Fields DEF CodeAt, Instructions, CurrentFunction
<1> QED BY <1>1, Fields DEF GoesOn, LoopGoesOn, Inst

\* Leave is Leaving.
LEMMA LeaveLeaves ==
  ASSUME NEW stack, Leave(stack)
  PROVE  Context' = Leaving(Context, stack)
<1>1. /\ operandStack' = stack /\ programCounter' = programCounter + 1
      /\ localVariables' = localVariables /\ callStack' = callStack
      /\ halted' = halted /\ activations' = activations
  BY DEF Leave, Continue
<1> QED BY <1>1, Fields DEF Context, Leaving

\* Instructions that change the operand stack alone.
LEMMA PlainInstruction ==
  ASSUME Untouched,
         ExecuteStack \/ ExecuteArithmetic \/ ExecuteComparison \/ ExecuteJump \/ ExecuteLoad
           \/ ExecuteNothing,
         fault' = "none"
  PROVE  Context' = Stepping(program, Context)
<1>1. LoopGoesOn
  BY DEF ExecuteStack, ExecuteArithmetic, ExecuteComparison, ExecuteJump, ExecuteLoad,
         ExecuteNothing, AtInstruction
<1>2. PICK stack : Leave(stack) /\ Executing(program, Context, Inst) = Leaving(Context, stack)
  <2>1. Context.operands = operandStack /\ Context.locals = localVariables
    BY Fields
  <2>2. CASE ExecuteStack
    <3>1. Executing(program, Context, Inst) = Leaving(Context, Moving(Inst, operandStack))
      BY <2>1, <2>2 DEF Executing, ExecuteStack, Moves, Arithmetic, Comparisons,
                        Jumps, Loads, Unsupported
    <3> QED BY <2>2, <3>1 DEF ExecuteStack
  <2>3. CASE ExecuteArithmetic
    <3>1. Executing(program, Context, Inst) = Leaving(Context, Computing(Inst.type, operandStack))
      BY <2>1, <2>3 DEF Executing, ExecuteArithmetic, Moves, Arithmetic, Comparisons,
                        Jumps, Loads, Unsupported
    <3> QED BY <2>3, <3>1 DEF ExecuteArithmetic
  <2>4. CASE ExecuteComparison
    <3>1. Executing(program, Context, Inst) = Leaving(Context, Comparing(Inst.type, operandStack))
      BY <2>1, <2>4 DEF Executing, ExecuteComparison, Moves, Arithmetic, Comparisons,
                        Jumps, Loads, Unsupported
    <3> QED BY <2>4, <3>1 DEF ExecuteComparison
  <2>5. CASE ExecuteJump
    <3>1. Executing(program, Context, Inst) = Leaving(Context, Jumping(Inst.type, operandStack))
      BY <2>1, <2>5 DEF Executing, ExecuteJump, Moves, Arithmetic, Comparisons,
                        Jumps, Loads, Unsupported
    <3> QED BY <2>5, <3>1 DEF ExecuteJump
  <2>6. CASE ExecuteLoad
    <3>1. Executing(program, Context, Inst)
            = Leaving(Context, Loading(Inst, operandStack, localVariables, globalVariables, dummy))
      BY <2>1, <2>6 DEF Executing, ExecuteLoad, Untouched, Moves, Arithmetic, Comparisons,
                        Jumps, Loads, Unsupported
    <3> QED BY <2>6, <3>1 DEF ExecuteLoad
  <2>7. CASE ExecuteNothing
    <3>1. Executing(program, Context, Inst) = Leaving(Context, operandStack)
      BY <2>1, <2>7 DEF Executing, ExecuteNothing, Moves, Arithmetic, Comparisons,
                        Jumps, Loads, Unsupported
    <3> QED BY <2>7, <3>1 DEF ExecuteNothing
  <2> QED BY <2>2, <2>3, <2>4, <2>5, <2>6, <2>7
<1> QED BY <1>1, <1>2, AtItsPlace, LeaveLeaves DEF Stepping, Untouched

\* A store that leaves `touched' alone goes to a local variable.
LEMMA StoreSteps ==
  ASSUME Untouched, ExecuteStore, touched' = "none"
  PROVE  Context' = Stepping(program, Context)
<1>1. LoopGoesOn /\ Inst.type = "STORE"
  BY DEF ExecuteStore, AtInstruction, Untouched
<1>2. /\ operandStack' = Popped(operandStack)
      /\ localVariables' = [localVariables EXCEPT ![Inst.operand + 1] = Top(operandStack)]
      /\ programCounter' = programCounter + 1
      /\ UNCHANGED <<callStack, halted, activations>>
  BY <1>1 DEF ExecuteStore, Continue, Untouched
<1>3. Context' = Storing(Context, Inst.operand)
  BY <1>2, Fields DEF Context, Storing
<1>4. Executing(program, Context, Inst) = Storing(Context, Inst.operand)
  BY <1>1 DEF Executing, Moves, Arithmetic, Comparisons, Jumps, Loads, Unsupported
<1> QED BY <1>1, <1>3, <1>4, AtItsPlace DEF Stepping, Untouched

\* A call pushes its address, and enters the function if there is one.
LEMMA CallSteps ==
  ASSUME Untouched, Call, fault' = "none"
  PROVE  Context' = Stepping(program, Context)
<1>1. LoopGoesOn /\ Inst.type = "CALL" /\ fault = "none"
  BY DEF Call, AtInstruction, Running
<1>2. callStack' = Append(callStack, programCounter) /\ operandStack' = operandStack
  BY DEF Call
<1> DEFINE called == Of(operandStack, localVariables, callStack', programCounter, halted,
                        activations)
<1>3. /\ called.operands = operandStack /\ called.locals = localVariables
      /\ called.calls = callStack' /\ called.counter = programCounter
      /\ called.halted = halted /\ called.activations = activations
  BY DEF Of
<1>4. Context' = Calling(program, Context, Inst.label)
  <2>1. CASE GetFunction(program, Inst.label) = NoFunction
    <3>1. /\ programCounter' = programCounter + 1
          /\ UNCHANGED <<halted, localVariables, activations>>
      BY <2>1 DEF Call, Continue, Untouched
    <3>2. Context' = Leaving(called, operandStack)
      BY <1>2, <1>3, <3>1 DEF Context, Leaving
    <3> QED BY <1>2, <2>1, <3>2, Fields DEF Calling
  <2>2. CASE GetFunction(program, Inst.label) # NoFunction
    <3> DEFINE f == GetFunction(program, Inst.label)
    <3>1. Enter(Inst.label, program)
      BY <2>2 DEF Call, Untouched
    <3>2. /\ programCounter' = 0 /\ halted' = FALSE
          /\ localVariables' = Resize(localVariables, program.functions[f].localVarCount)
          /\ activations' = Append(activations, f)
      BY <1>1, <2>2, <3>1 DEF Enter
    <3>3. Context' = Entering(program, Inst.label, called)
      BY <1>2, <1>3, <3>2 DEF Context, Entering
    <3> QED BY <1>2, <2>2, <3>3, Fields DEF Calling
  <2> QED BY <2>1, <2>2
<1>5. Executing(program, Context, Inst) = Calling(program, Context, Inst.label)
  BY <1>1 DEF Executing, Moves, Arithmetic, Comparisons, Jumps, Loads, Unsupported
<1> QED BY <1>1, <1>4, <1>5, AtItsPlace DEF Stepping, Untouched

\* A return goes behind the call, or halts.
LEMMA ReturnSteps ==
  ASSUME Untouched, Return
  PROVE  Context' = Stepping(program, Context)
<1>1. LoopGoesOn /\ Inst.type = "RET"
  BY DEF Return, AtInstruction
<1>2. Context' = Returning(Context)
  BY Fields DEF Context, Returning, Halting, Return, Continue
<1>3. Executing(program, Context, Inst) = Returning(Context)
  BY <1>1 DEF Executing, Moves, Arithmetic, Comparisons, Jumps, Loads, Unsupported
<1> QED BY <1>1, <1>2, <1>3, AtItsPlace DEF Stepping, Untouched

\* HALT sets the flag, and the loop counts on.
LEMMA HaltSteps ==
  ASSUME Untouched, Halt
  PROVE  Context' = Stepping(program, Context)
<1>1. LoopGoesOn /\ Inst.type = "HALT"
  BY DEF Halt, AtInstruction
<1>2. Context' = Halting(Context)
  BY Fields DEF Context, Halting, Halt, Continue
<1>3. Executing(program, Context, Inst) = Halting(Context)
  BY <1>1 DEF Executing, Moves, Arithmetic, Comparisons, Jumps, Loads, Unsupported
<1> QED BY <1>1, <1>2, <1>3, AtItsPlace DEF Stepping, Untouched

\* The loop of a function ends; its caller counts on.
LEMMA EndSteps ==
  ASSUME Untouched, EndFunction
  PROVE  Context' = Stepping(program, Context)
<1>1. ~LoopGoesOn
  BY DEF EndFunction
<1>2. /\ activations' = SubSeq(activations, 1, Len(activations) - 1)
      /\ programCounter' = IF activations' = <<>> THEN programCounter ELSE programCounter + 1
      /\ UNCHANGED <<operandStack, localVariables, callStack, halted>>
  BY DEF EndFunction, Continue
<1>3. Context' = Ending(Context)
  BY <1>2, Fields DEF Context, Ending
<1> QED BY <1>1, <1>3, AtItsPlace DEF Stepping, Untouched

\* Every step of the machine that writes nothing that outlives a reset.
LEMMA MachineSteps ==
  ASSUME Untouched, ExecuteInstruction \/ EndFunction, fault' = "none", touched' = "none"
  PROVE  Context' = Stepping(program, Context)
BY PlainInstruction, StoreSteps, CallSteps, ReturnSteps, HaltSteps, EndSteps
   DEF ExecuteInstruction

----------------------------------------------------------------------------
(* The invariant.                                                          *)

ExecutorInv ==
  /\ executor \in [program : {executor.program}, deleted : BOOLEAN]
  /\ ~executor.deleted => executor.program = program
  /\ activations # <<>> => ~executor.deleted
  /\ \E S : activations \in Seq(S)

\* What is left of earlier runs.
RemainsInv ==
  /\ touched # "dummy" => dummy = InvalidValues
  /\ touched = "none" => globalVariables = NewGlobals(executor.program)
  /\ fresh = "cleared" => Context = ClearContext

CleanRunInv ==
  fresh = "clean run" /\ fault = "none" =>
    /\ activations # <<>>
    /\ touched = "none" => Leaves(program, calledName, Context)

ResultsInv ==
  \A r \in results :
    \E m : /\ Leaves(r.program, r.name, m) /\ m.activations = <<>>
          /\ r = [program |-> r.program, name |-> r.name, operands |-> m.operands,
                  calls |-> m.calls, locals |-> m.locals, ok |-> ~m.halted]

MachineInv == ExecutorInv /\ RemainsInv /\ CleanRunInv /\ ResultsInv

\* No program, nothing on any stack, no result.
LEMMA MachineInitially == Init => MachineInv
<1> SUFFICES ASSUME Init PROVE MachineInv
  OBVIOUS
<1>1. ExecutorInv
  <2>1. activations \in Seq({})
    BY DEF Init
  <2>2. executor = [program |-> Null, deleted |-> FALSE] /\ program = Null /\ activations = <<>>
    BY DEF Init
  <2> QED BY <2>1, <2>2 DEF ExecutorInv
<1>2. RemainsInv
  <2>1. Null.globals = 0 /\ executor.program = Null /\ globalVariables = <<>>
    BY DEF Init, Null
  <2>2. NewGlobals(executor.program) = <<>>
    BY <2>1 DEF NewGlobals
  <2> QED BY <2>1, <2>2 DEF Init, RemainsInv, InvalidValues
<1>3. CleanRunInv /\ ResultsInv
  BY DEF Init, CleanRunInv, ResultsInv
<1> QED BY <1>1, <1>2, <1>3 DEF MachineInv

\* The program, the executor and the results are the host's, except that the end
\* of the last function adds what it leaves.
LEMMA InstructionKeeps ==
  ASSUME MachineInv, ExecuteInstruction
  PROVE  MachineInv'
<1> USE DEF MachineInv
<1>1. /\ UNCHANGED <<program, executor, calledName, results, fresh>>
      /\ Running
      /\ touched' = "none" => touched = "none"
  BY DEF ExecuteInstruction, ExecuteStack, ExecuteArithmetic, ExecuteComparison, ExecuteJump,
         ExecuteLoad, ExecuteStore, Call, Return, Halt, ExecuteNothing, Leave, hostVars,
         AtInstruction
<1>2. activations # <<>> /\ fault = "none" /\ executor.program = program
  BY <1>1 DEF Running, ExecutorInv
<1>3. (\E S : activations' \in Seq(S)) /\ activations' # <<>>
  <2>1. PICK S : activations \in Seq(S)
    BY DEF ExecutorInv
  <2>2. CASE UNCHANGED activations
    BY <1>2, <2>1, <2>2
  <2>3. ASSUME NEW f, activations' = Append(activations, f)
        PROVE  (\E R : activations' \in Seq(R)) /\ activations' # <<>>
    <3>1. activations \in Seq(S \cup {f}) /\ f \in S \cup {f}
      BY <2>1
    <3>2. activations' \in Seq(S \cup {f}) /\ activations' # <<>>
      BY <2>3, <3>1
    <3> QED BY <3>2
  <2>4. UNCHANGED activations \/ \E f : activations' = Append(activations, f)
    BY <1>2 DEF ExecuteInstruction, ExecuteStack, ExecuteArithmetic, ExecuteComparison,
                ExecuteJump, ExecuteLoad, ExecuteStore, Call, Return, Halt, ExecuteNothing,
                Leave, Enter, contextVars
  <2> QED BY <2>2, <2>3, <2>4
<1>4. ExecutorInv'
  BY <1>1, <1>2, <1>3 DEF ExecutorInv
<1>5. RemainsInv'
  <2>1. fresh # "cleared"
    <3>1. Context.activations # ClearContext.activations
      BY <1>2, Fields DEF ClearContext, Of
    <3> QED BY <3>1 DEF RemainsInv
  <2>2. touched' # "dummy" => touched # "dummy" /\ dummy' = dummy
    BY DEF ExecuteInstruction, ExecuteStack, ExecuteArithmetic, ExecuteComparison, ExecuteJump,
           ExecuteLoad, ExecuteStore, Call, Return, Halt, ExecuteNothing, Leave
  <2>3. touched' = "none" => globalVariables' = globalVariables
    BY DEF ExecuteInstruction, ExecuteStack, ExecuteArithmetic, ExecuteComparison, ExecuteJump,
           ExecuteLoad, ExecuteStore, Call, Return, Halt, ExecuteNothing, Leave, contextVars
  <2> QED BY <1>1, <2>1, <2>2, <2>3 DEF RemainsInv
<1>6. CleanRunInv'
  <2> SUFFICES ASSUME fresh = "clean run", fault' = "none", touched' = "none"
               PROVE  Leaves(program, calledName, Context')
    BY <1>1, <1>3 DEF CleanRunInv
  <2>1. Untouched /\ Leaves(program, calledName, Context)
    BY <1>1, <1>2 DEF Untouched, RemainsInv, CleanRunInv
  <2>2. Context' = Stepping(program, Context)
    BY <2>1, MachineSteps
  <2> QED BY <1>2, <2>1, <2>2, Fields, RunGoesOn
<1>7. ResultsInv'
  BY <1>1 DEF ResultsInv
<1> QED BY <1>4, <1>5, <1>6, <1>7

\* The end of a function; that of the last one leaves a result.
LEMMA EndKeeps ==
  ASSUME MachineInv, EndFunction
  PROVE  MachineInv'
<1> USE DEF MachineInv
<1>1. /\ UNCHANGED <<program, executor, calledName, globalVariables, dummy, fault, touched>>
      /\ activations # <<>> /\ fault = "none"
      /\ activations' = SubSeq(activations, 1, Len(activations) - 1)
  BY DEF EndFunction, Running
<1>2. executor.program = program
  BY <1>1 DEF ExecutorInv
<1>3. ExecutorInv'
  <2>1. PICK S : activations \in Seq(S)
    BY DEF ExecutorInv
  <2>2. activations' \in Seq(S)
    BY <1>1, <2>1
  <2> QED BY <1>1, <2>2 DEF ExecutorInv
<1>4. fresh # "cleared"
  <2>1. Context.activations # ClearContext.activations
    BY <1>1, Fields DEF ClearContext, Of
  <2> QED BY <2>1 DEF RemainsInv
<1>5. RemainsInv'
  <2>1. fresh' # "cleared"
    BY <1>4 DEF EndFunction
  <2> QED BY <1>1, <2>1 DEF RemainsInv
<1>6. ASSUME fresh = "clean run", touched = "none"
      PROVE  Leaves(program, calledName, Context')
  <2>1. Untouched /\ Leaves(program, calledName, Context)
    BY <1>1, <1>2, <1>6 DEF Untouched, RemainsInv, CleanRunInv
  <2>2. Context' = Stepping(program, Context)
    BY <2>1, EndSteps
  <2> QED BY <1>1, <2>1, <2>2, Fields, RunGoesOn
<1>7. CASE activations' = <<>>
  <2>1. fresh' = "used"
    BY <1>7 DEF EndFunction
  <2>2. CleanRunInv'
    BY <2>1 DEF CleanRunInv
  <2>3. ASSUME NEW r \in results'
        PROVE  \E m : /\ Leaves(r.program, r.name, m) /\ m.activations = <<>>
                     /\ r = [program |-> r.program, name |-> r.name, operands |-> m.operands,
                             calls |-> m.calls, locals |-> m.locals, ok |-> ~m.halted]
    <3>1. CASE r \in results
      BY <3>1 DEF ResultsInv
    <3>2. CASE r \notin results
      <4>1. /\ fresh = "clean run" /\ touched = "none"
            /\ r = [program |-> program, name |-> calledName, operands |-> operandStack,
                    calls |-> callStack, locals |-> localVariables, ok |-> ~halted]
        BY <1>7, <2>3, <3>2 DEF EndFunction
      <4>2. /\ Context'.operands = operandStack /\ Context'.calls = callStack
            /\ Context'.locals = localVariables /\ Context'.halted = halted
            /\ Context'.activations = <<>>
        BY <1>7 DEF EndFunction, Context, Of
      <4>3. Leaves(r.program, r.name, Context')
        BY <1>6, <4>1
      <4>4. r = [program |-> r.program, name |-> r.name, operands |-> Context'.operands,
                 calls |-> Context'.calls, locals |-> Context'.locals, ok |-> ~Context'.halted]
        BY <4>1, <4>2
      <4> QED BY <4>2, <4>3, <4>4
    <3> QED BY <3>1, <3>2
  <2>4. ResultsInv'
    BY <2>3 DEF ResultsInv
  <2> QED BY <1>3, <1>5, <2>2, <2>4
<1>8. CASE activations' # <<>>
  <2>1. UNCHANGED <<results, fresh>>
    BY <1>8 DEF EndFunction
  <2>2. CleanRunInv'
    BY <1>1, <1>6, <1>8, <2>1 DEF CleanRunInv
  <2>3. ResultsInv'
    BY <2>1 DEF ResultsInv
  <2> QED BY <1>3, <1>5, <2>2, <2>3
<1> QED BY <1>7, <1>8

\* A program that loads gets a new executor; one that does not leaves the old one.
LEMMA LoadKeeps ==
  ASSUME MachineInv, NEW image \in Images, LoadProgram(image)
  PROVE  MachineInv'
<1> USE DEF MachineInv
<1>1. activations = <<>> /\ fault = "none" /\ fresh # "clean run"
  BY DEF LoadProgram, HostCall, Idle, CleanRunInv
<1>2. UNCHANGED <<dummy, fault, calledName, results>>
  BY DEF LoadProgram
<1>3. ResultsInv'
  BY <1>2 DEF ResultsInv
<1>4. CASE program'.absent
  <2>1. /\ executor' = [executor EXCEPT !.deleted = TRUE]
        /\ UNCHANGED <<contextVars, fresh, touched>>
    BY <1>4 DEF LoadProgram
  <2>2. executor' \in [program : {executor.program}, deleted : BOOLEAN]
        /\ executor'.deleted /\ executor'.program = executor.program
    BY <2>1 DEF ExecutorInv
  <2>3. ExecutorInv'
    BY <1>1, <2>1, <2>2 DEF ExecutorInv, contextVars
  <2>4. RemainsInv' /\ CleanRunInv'
    BY <1>1, <1>2, <2>1, <2>2 DEF RemainsInv, CleanRunInv, Context, contextVars
  <2> QED BY <1>3, <2>3, <2>4
<1>5. CASE ~program'.absent
  <2>1. /\ executor' = [program |-> program', deleted |-> FALSE]
        /\ NewContext(program') /\ fresh' = "cleared"
        /\ touched' = IF touched = "dummy" THEN touched ELSE "none"
    BY <1>5 DEF LoadProgram
  <2>2. activations' = <<>> /\ activations' \in Seq({})
    BY <2>1 DEF NewContext
  <2>3. ExecutorInv'
    BY <2>1, <2>2 DEF ExecutorInv
  <2>4. RemainsInv'
    BY <1>2, <2>1 DEF RemainsInv, NewContext, NewGlobals, Context, ClearContext
  <2>5. CleanRunInv'
    BY <2>1 DEF CleanRunInv
  <2> QED BY <1>3, <2>3, <2>4, <2>5
<1> QED BY <1>4, <1>5

\* The host runs a function: a clean run starts from a cleared context.
LEMMA ExecuteKeeps ==
  ASSUME MachineInv, NEW name \in Names, Execute(name)
  PROVE  MachineInv'
<1> USE DEF MachineInv
<1> DEFINE p == executor.program
           f == GetFunction(p, name)
<1>1. activations = <<>> /\ fault = "none" /\ fresh # "clean run"
  BY DEF Execute, HostCall, Idle, CleanRunInv
<1>2. UNCHANGED <<program, executor, dummy, touched, results>> /\ calledName' = name
  BY DEF Execute
<1>3. ResultsInv'
  BY <1>2 DEF ResultsInv
<1>4. \/ UNCHANGED <<contextVars, fresh>>
      \/ /\ ~executor.deleted /\ f # NoFunction /\ Enter(name, p)
         /\ fresh' = IF fresh = "cleared" THEN "clean run" ELSE "used"
         /\ UNCHANGED <<operandStack, globalVariables, callStack>>
  BY DEF Execute
<1>5. CASE UNCHANGED <<contextVars, fresh>>
  BY <1>1, <1>2, <1>3, <1>5 DEF ExecutorInv, RemainsInv, CleanRunInv, Context, contextVars
<1>6. CASE /\ ~executor.deleted /\ f # NoFunction /\ Enter(name, p)
           /\ fresh' = IF fresh = "cleared" THEN "clean run" ELSE "used"
           /\ UNCHANGED <<operandStack, globalVariables, callStack>>
  <2>1. p = program
    BY <1>6 DEF ExecutorInv
  <2>2. RemainsInv'
    BY <1>2, <1>6 DEF RemainsInv
  <2>3. CASE fault' # "none"
    <3>1. UNCHANGED activations
      BY <1>1, <1>6, <2>3 DEF Enter
    <3>2. ExecutorInv' /\ CleanRunInv'
      BY <1>1, <1>2, <2>3, <3>1 DEF ExecutorInv, CleanRunInv
    <3> QED BY <1>3, <2>2, <3>2
  <2>4. CASE fault' = "none"
    <3>1. /\ programCounter' = 0 /\ halted' = FALSE
          /\ localVariables' = Resize(localVariables, p.functions[f].localVarCount)
          /\ activations' = Append(activations, f)
      BY <1>6, <2>4 DEF Enter
    <3>2. activations' \in Seq({f}) /\ activations' # <<>>
      <4> HIDE DEF f
      <4>1. <<>> \in Seq({f}) /\ f \in {f}
        OBVIOUS
      <4>2. Append(<<>>, f) \in Seq({f}) /\ Append(<<>>, f) # <<>>
        BY <4>1
      <4> QED BY <1>1, <3>1, <4>2
    <3>3. ExecutorInv'
      BY <1>2, <1>6, <3>2 DEF ExecutorInv
    <3>4. ASSUME fresh' = "clean run" PROVE Leaves(program, name, Context')
      <4>1. Context = ClearContext
        BY <1>6, <3>4 DEF RemainsInv
      <4>2. Context' = Entering(program, name, ClearContext)
        BY <1>6, <2>1, <3>1, <4>1, Fields DEF Context, Entering
      <4> DEFINE s == [i \in 0..0 |-> Context']
      <4>3. IsRun(program, name, s, 0) /\ s[0] = Context'
        BY <4>2 DEF IsRun
      <4> QED BY <4>3 DEF Leaves
    <3>5. CleanRunInv'
      BY <1>2, <3>2, <3>4 DEF CleanRunInv
    <3> QED BY <1>3, <2>2, <3>3, <3>5
  <2> QED BY <2>3, <2>4
<1> QED BY <1>4, <1>5, <1>6

\* A reset clears the context.
LEMMA ResetKeeps ==
  ASSUME MachineInv, Reset
  PROVE  MachineInv'
<1> USE DEF MachineInv
<1>1. activations = <<>> /\ fresh' = "cleared"
      /\ UNCHANGED <<globalVariables, activations, dummy, touched, program, executor, results>>
  BY DEF Reset, HostCall, Idle
<1>2. ExecutorInv' /\ CleanRunInv' /\ ResultsInv'
  BY <1>1 DEF ExecutorInv, CleanRunInv, ResultsInv
<1>3. Context' = ClearContext
  BY <1>1 DEF Reset, Context, ClearContext
<1>4. RemainsInv'
  BY <1>1, <1>3 DEF RemainsInv
<1> QED BY <1>2, <1>4

\* The invariant holds.
LEMMA MachineCorrect == Spec => []MachineInv
<1>1. MachineInv /\ UNCHANGED vmVars => MachineInv'
  BY DEF MachineInv, ExecutorInv, RemainsInv, CleanRunInv, ResultsInv, Context, vmVars,
         contextVars
<1>2. MachineInv /\ [Next]_vmVars => MachineInv'
  BY <1>1, InstructionKeeps, EndKeeps, LoadKeeps, ExecuteKeeps, ResetKeeps DEF Next, Host
<1> QED BY <1>2, MachineInitially, PTL DEF Spec

\* A run that begins with a fresh or reset executor and writes nothing that
\* outlives a reset ends the same way every time, for every binary the loader
\* takes (emulator.cpp:137).
THEOREM RepeatableCorrect == Spec => []Repeatable
<1>1. MachineInv => Repeatable
  <2> SUFFICES ASSUME ResultsInv, NEW r1 \in results, NEW r2 \in results,
                      r1.program = r2.program, r1.name = r2.name
               PROVE  r1 = r2
    BY DEF MachineInv, Repeatable
  <2>1. PICK m1 : /\ Leaves(r1.program, r1.name, m1) /\ m1.activations = <<>>
                  /\ r1 = [program |-> r1.program, name |-> r1.name, operands |-> m1.operands,
                           calls |-> m1.calls, locals |-> m1.locals, ok |-> ~m1.halted]
    BY DEF ResultsInv
  <2>2. PICK m2 : /\ Leaves(r2.program, r2.name, m2) /\ m2.activations = <<>>
                  /\ r2 = [program |-> r2.program, name |-> r2.name, operands |-> m2.operands,
                           calls |-> m2.calls, locals |-> m2.locals, ok |-> ~m2.halted]
    BY DEF ResultsInv
  <2>3. m1 = m2
    BY <2>1, <2>2, OneEnd
  <2> QED BY <2>1, <2>2, <2>3
<1> QED BY <1>1, MachineCorrect, PTL

----------------------------------------------------------------------------
(* The connections of the network device.                                  *)

NetworkFields == {"connections", "nextConnectionId", "status", "command", "data", "address",
                  "port", "result"}

\* The ids given out are different and below the next one.
ConnectionsInv ==
  /\ DOMAIN network = NetworkFields
  /\ network.nextConnectionId \in Nat
  /\ issued \in Seq(Nat)
  /\ IsInjective(issued)
  /\ \A i \in 1..Len(issued) : issued[i] < network.nextConnectionId

\* The empty sequence of ids.
LEMMA NothingIssued == <<>> \in Seq(Nat) /\ Len(<<>>) = 0 /\ IsInjective(<<>>)
<1>1. <<>> \in Seq(Nat) /\ Len(<<>>) = 0
  OBVIOUS
<1>2. DOMAIN <<>> = {}
  OBVIOUS
<1>3. IsInjective(<<>>)
  BY <1>2 DEF IsInjective
<1> QED BY <1>1, <1>3

\* A new device has given out nothing.
LEMMA NewConnections ==
  ASSUME network' = NewNetwork, issued' = <<>>
  PROVE  ConnectionsInv'
<1>1. DOMAIN NewNetwork = NetworkFields /\ NewNetwork.nextConnectionId = 1
  BY DEF NewNetwork, NetworkFields
<1>2. <<>> \in Seq(Nat) /\ Len(<<>>) = 0 /\ IsInjective(<<>>)
  BY NothingIssued
<1> QED BY <1>1, <1>2 DEF ConnectionsInv

\* What leaves the next id alone leaves the ids as they are.
LEMMA SameConnections ==
  ASSUME ConnectionsInv, DOMAIN network' = DOMAIN network, issued' = issued,
         network'.nextConnectionId = network.nextConnectionId
  PROVE  ConnectionsInv'
BY DEF ConnectionsInv

\* CONNECT gives out the next id.
LEMMA Connects ==
  ASSUME ConnectionsInv, network' = ExecuteNetworkCommand(1),
         issued' = Append(issued, network'.result)
  PROVE  ConnectionsInv'
<1> DEFINE next == network.nextConnectionId
<1>1. /\ DOMAIN network' = NetworkFields /\ network'.nextConnectionId = next + 1
      /\ network'.result = next
  <2> DEFINE n == [network EXCEPT !.command = 1, !.status = 2]
  <2>1. /\ DOMAIN n = NetworkFields /\ n.nextConnectionId = next
    BY DEF ConnectionsInv, NetworkFields
  <2>2. network' = [n EXCEPT !.connections = @ \cup {n.nextConnectionId},
                             !.nextConnectionId = @ + 1, !.result = n.nextConnectionId]
    BY DEF ExecuteNetworkCommand
  <2> HIDE DEF n
  <2>3. DOMAIN network' = DOMAIN n
    BY <2>2
  <2>4. network'.nextConnectionId = n.nextConnectionId + 1
    BY <2>1, <2>2 DEF NetworkFields
  <2>5. network'.result = n.nextConnectionId
    BY <2>1, <2>2 DEF NetworkFields
  <2> QED BY <2>1, <2>3, <2>4, <2>5
<1>2. next \in Nat /\ issued \in Seq(Nat) /\ \A i \in 1..Len(issued) : issued[i] < next
  BY DEF ConnectionsInv
<1> HIDE DEF next
<1>3. /\ issued' \in Seq(Nat) /\ Len(issued') = Len(issued) + 1
      /\ issued'[Len(issued) + 1] = next
      /\ \A i \in 1..Len(issued) : issued'[i] = issued[i]
      /\ Len(issued) \in Nat
  BY <1>1, <1>2
<1>4. \A i \in 1..Len(issued') : issued'[i] < next + 1
  BY <1>2, <1>3
<1>5. IsInjective(issued')
  <2>1. DOMAIN issued' = 1..(Len(issued) + 1) /\ DOMAIN issued = 1..Len(issued)
    BY <1>2, <1>3
  <2>2. \A i, j \in 1..Len(issued) : issued[i] = issued[j] => i = j
    BY <2>1 DEF ConnectionsInv, IsInjective
  <2>3. ASSUME NEW i \in 1..(Len(issued) + 1), NEW j \in 1..(Len(issued) + 1),
               issued'[i] = issued'[j]
        PROVE  i = j
    <3>1. CASE i = Len(issued) + 1 /\ j # Len(issued) + 1
      <4>1. j \in 1..Len(issued)
        BY <1>3, <3>1
      <4>2. issued[j] < next /\ issued[j] = next
        BY <1>2, <1>3, <2>3, <3>1, <4>1
      <4> QED BY <1>2, <4>2
    <3>2. CASE j = Len(issued) + 1 /\ i # Len(issued) + 1
      <4>1. i \in 1..Len(issued)
        BY <1>3, <3>2
      <4>2. issued[i] < next /\ issued[i] = next
        BY <1>2, <1>3, <2>3, <3>2, <4>1
      <4> QED BY <1>2, <4>2
    <3>3. CASE i # Len(issued) + 1 /\ j # Len(issued) + 1
      <4>1. i \in 1..Len(issued) /\ j \in 1..Len(issued)
        BY <1>3, <3>3
      <4> QED BY <1>3, <2>2, <2>3, <4>1
    <3> QED BY <3>1, <3>2, <3>3
  <2> QED BY <2>1, <2>3 DEF IsInjective
<1> QED BY <1>1, <1>2, <1>3, <1>4, <1>5 DEF ConnectionsInv

\* A write to the network device: CONNECT alone moves the next id.
LEMMA NetworkWritten ==
  ASSUME ConnectionsInv, NEW offset, NEW value, WriteNetwork(offset, value),
         issued' = IF offset = 0 /\ value = 1 THEN Append(issued, network'.result) ELSE issued
  PROVE  ConnectionsInv'
<1>1. CASE offset = 0 /\ value = 1
  BY <1>1, Connects DEF WriteNetwork
<1>2. CASE ~(offset = 0 /\ value = 1)
  <2>1. network' = network \/ network'.nextConnectionId = network.nextConnectionId
    BY <1>2 DEF WriteNetwork, ExecuteNetworkCommand, ConnectionsInv, NetworkFields
  <2>2. DOMAIN network' = DOMAIN network
    BY <1>2 DEF WriteNetwork, ExecuteNetworkCommand
  <2> QED BY <1>2, <2>1, <2>2, SameConnections
<1> QED BY <1>1, <1>2

\* Every step keeps the ids apart.
LEMMA ConnectionsKept == ConnectionsInv /\ [MmioNext]_mmioVars => ConnectionsInv'
<1> SUFFICES ASSUME ConnectionsInv, [MmioNext]_mmioVars PROVE ConnectionsInv'
  OBVIOUS
<1>1. CASE UNCHANGED <<network, issued>>
  BY <1>1 DEF ConnectionsInv
<1>2. CASE Initialize
  <2>1. CASE "network" \in devices
    <3>1. network' = InitializedNetwork(network) /\ issued' = issued
      BY <1>2, <2>1 DEF Initialize
    <3>2. DOMAIN network' = DOMAIN network
          /\ network'.nextConnectionId = network.nextConnectionId
      BY <3>1 DEF InitializedNetwork, ConnectionsInv, NetworkFields
    <3> QED BY <3>1, <3>2, SameConnections
  <2>2. CASE "network" \notin devices
    BY <1>2, <2>2, NewConnections DEF Initialize
  <2> QED BY <2>1, <2>2
<1>3. ASSUME NEW gone, Remove(gone) PROVE ConnectionsInv'
  BY <1>1, <1>3, NewConnections DEF Remove
<1>4. CASE Manage
  BY <1>1, <1>2, <1>3, <1>4 DEF Manage, Shutdown, UnregisterDevice, RegisterDevice, SetEnabled
<1>5. ASSUME NEW width, NEW name, NEW offset, NEW value, Write(width, name, offset, value)
      PROVE  ConnectionsInv'
  <2> DEFINE v == Truncated(value, width)
  <2>1. issued' = IF name = "network" /\ offset = 0 /\ v = 1
                  THEN Append(issued, network'.result) ELSE issued
    BY <1>5 DEF Write
  <2>2. CASE name = "network"
    <3>1. WriteNetwork(offset, v)
      BY <1>5, <2>2 DEF Write
    <3> HIDE DEF v
    <3> QED BY <2>1, <2>2, <3>1, NetworkWritten
  <2>3. CASE name # "network"
    <3>1. network' = network
      BY <1>5, <2>3 DEF Write
    <3> QED BY <1>1, <2>1, <2>3, <3>1
  <2> QED BY <2>2, <2>3
<1>6. ASSUME NEW name, NEW offset, Read(name, offset) PROVE ConnectionsInv'
  BY <1>1, <1>6 DEF Read
<1>7. CASE DumpDeviceRegisters \/ Tick \/ UNCHANGED mmioVars
  BY <1>1, <1>7 DEF DumpDeviceRegisters, Tick, mmioVars
<1> QED BY <1>4, <1>5, <1>6, <1>7 DEF MmioNext

\* At first nothing has been given out.
LEMMA ConnectionsInitially == MmioInit => ConnectionsInv
<1>1. DOMAIN NewNetwork = NetworkFields /\ NewNetwork.nextConnectionId = 1
  BY DEF NewNetwork, NetworkFields
<1>2. <<>> \in Seq(Nat) /\ Len(<<>>) = 0 /\ IsInjective(<<>>)
  BY NothingIssued
<1> QED BY <1>1, <1>2 DEF ConnectionsInv, MmioInit

\* A network device gives out no connection id a second time, whatever is written
\* to it and however often the manager is initialized (mmio.cpp:499).
THEOREM ConnectionsCorrect == MmioSpec => []ConnectionsNotReused
<1>1. ConnectionsInv => ConnectionsNotReused
  BY DEF ConnectionsInv, ConnectionsNotReused
<1> QED BY <1>1, ConnectionsInitially, ConnectionsKept, PTL DEF MmioSpec

----------------------------------------------------------------------------
(* The memory: numbers written with the digits of ByteBase.                *)

ByteValues == 0..(ByteBase - 1)

MemoryInv == memory \in [0..(MemorySize - 1) -> ByteValues]

\* The place values of the bytes.
LEMMA UnitValues ==
  /\ ByteBase \in Nat \ {0, 1}
  /\ Square = ByteBase * ByteBase /\ Square \in Nat \ {0}
  /\ Units[1] = 1 /\ Units[2] = ByteBase /\ Units[3] = Square
  /\ Units[4] = Square * ByteBase /\ Units[5] = Square * Square
  /\ \A i \in 1..5 : Units[i] \in Nat \ {0}
<1>1. ByteBase \in Nat \ {0, 1}
  BY MmioAssumption
<1>2. Square = ByteBase * ByteBase /\ Square \in Nat \ {0}
  BY <1>1 DEF Square
<1>3. Square * ByteBase \in Nat \ {0} /\ Square * Square \in Nat \ {0}
  BY <1>1, <1>2
<1>4. /\ Units[1] = 1 /\ Units[2] = ByteBase /\ Units[3] = Square
      /\ Units[4] = Square * ByteBase /\ Units[5] = Square * Square
  BY DEF Units
<1>5. ASSUME NEW i \in 1..5 PROVE Units[i] \in Nat \ {0}
  <2>1. i \in {1, 2, 3, 4, 5}
    OBVIOUS
  <2> QED BY <1>1, <1>2, <1>3, <1>4, <2>1
<1> QED BY <1>1, <1>2, <1>4, <1>5

\* How many bytes each width has.
LEMMA WidthValues ==
  /\ DOMAIN Widths = {"byte", "word", "long"}
  /\ Widths["byte"] = 1 /\ Widths["word"] = 2 /\ Widths["long"] = 4
BY DEF Widths

\* A byte of a value is a byte.
LEMMA BytesAreBytes ==
  ASSUME NEW value \in Nat, NEW n \in 1..4, NEW i \in 1..n
  PROVE  Bytes(value, n)[i] \in ByteValues
<1>1. n - i + 1 \in 1..5
  OBVIOUS
<1>2. Units[n - i + 1] \in Nat \ {0}
  BY <1>1, UnitValues
<1> DEFINE u == Units[n - i + 1]
<1>3. value \div u \in Nat
  <2> HIDE DEF u
  <2>1. u \in Nat \ {0}
    BY <1>2 DEF u
  <2> QED BY <2>1
<1>4. Bytes(value, n)[i] = (value \div u) % ByteBase
  BY DEF Bytes
<1> HIDE DEF u
<1> QED BY <1>3, <1>4, UnitValues DEF ByteValues

\* Quotients by a product.
LEMMA DivideTwice ==
  ASSUME NEW x \in Nat, NEW a \in Nat \ {0}, NEW b \in Nat \ {0}
  PROVE  x \div (a * b) = (x \div a) \div b
OBVIOUS

\* Quotient and remainder.
LEMMA Division ==
  ASSUME NEW x \in Nat, NEW y \in Nat \ {0}
  PROVE  x \div y \in Nat /\ x % y \in 0..(y - 1) /\ x % y = x - y * (x \div y)
<1>1. x \div y \in Nat
  OBVIOUS
<1>2. x % y \in 0..(y - 1)
  OBVIOUS
<1>3. x % y = x - y * (x \div y)
  OBVIOUS
<1> QED BY <1>1, <1>2, <1>3

\* There is one quotient and one remainder.
LEMMA DivisionIsUnique ==
  ASSUME NEW x \in Nat, NEW y \in Nat \ {0}, NEW q \in Nat, NEW r \in 0..(y - 1),
         x = y * q + r
  PROVE  x \div y = q /\ x % y = r
<1>1. x \div y = q
  OBVIOUS
<1>2. x % y = r
  OBVIOUS
<1> QED BY <1>1, <1>2

\* The digits of a number are the number again.
LEMMA TwoDigits ==
  ASSUME NEW v \in Nat, v < Square
  PROVE  Bytes(v, 2)[1] * ByteBase + Bytes(v, 2)[2] = v
<1> DEFINE q == v \div ByteBase
<1>1. Bytes(v, 2)[1] = q % ByteBase /\ Bytes(v, 2)[2] = (v \div 1) % ByteBase
  BY UnitValues DEF Bytes
<1>2. v \div 1 = v
  OBVIOUS
<1>3. q \in Nat /\ v % ByteBase = v - ByteBase * q /\ v % ByteBase \in Nat
  <2>1. ByteBase \in Nat \ {0}
    BY UnitValues
  <2>2. q \in Nat /\ v % ByteBase = v - ByteBase * q /\ v % ByteBase \in 0..(ByteBase - 1)
    BY <2>1, Division, Zenon
  <2> QED BY <2>1, <2>2
<1> HIDE DEF q
<1>4. q < ByteBase
  <2> SUFFICES ASSUME q >= ByteBase PROVE FALSE
    BY <1>3, UnitValues
  <2>1. ByteBase * q >= ByteBase * ByteBase
    BY <1>3, UnitValues
  <2> QED BY <1>3, <2>1, UnitValues
<1>5. q % ByteBase = q
  BY <1>3, <1>4, UnitValues
<1>6. q * ByteBase = ByteBase * q /\ ByteBase * q \in Nat /\ ByteBase \in Nat
  BY <1>3, UnitValues
<1>7. ByteBase * q + (v - ByteBase * q) = v
  BY <1>6
<1> QED BY <1>1, <1>2, <1>3, <1>5, <1>6, <1>7

\* Four digits are two digits of two digits.
LEMMA FourDigits ==
  ASSUME NEW v \in Nat, v < Square * Square
  PROVE  Bytes(v, 4)[1] * Units[4] + Bytes(v, 4)[2] * Units[3]
           + Bytes(v, 4)[3] * ByteBase + Bytes(v, 4)[4] = v
<1> DEFINE h == v \div Square
           l == v % Square
<1>1. h \in Nat /\ l \in Nat /\ l < Square /\ l = v - Square * h
  <2>1. Square \in Nat \ {0}
    BY UnitValues
  <2>2. h \in Nat /\ l \in 0..(Square - 1) /\ l = v - Square * h
    BY <2>1, Division, Zenon
  <2> QED BY <2>1, <2>2
<1>2. h < Square
  <2> SUFFICES ASSUME h >= Square PROVE FALSE
    BY <1>1, UnitValues
  <2> HIDE DEF h, l
  <2>1. Square * h >= Square * Square
    BY <1>1, UnitValues
  <2> QED BY <1>1, <2>1, UnitValues
<1>3. Bytes(v, 4)[1] = Bytes(h, 2)[1] /\ Bytes(v, 4)[2] = Bytes(h, 2)[2]
  <2>1. /\ Bytes(v, 4)[1] = (v \div (Square * ByteBase)) % ByteBase
        /\ Bytes(v, 4)[2] = (v \div Square) % ByteBase
    BY UnitValues DEF Bytes
  <2>2. /\ Bytes(h, 2)[1] = (h \div ByteBase) % ByteBase
        /\ Bytes(h, 2)[2] = (h \div 1) % ByteBase
    BY UnitValues DEF Bytes
  <2>3. v \div (Square * ByteBase) = h \div ByteBase
    BY UnitValues, DivideTwice
  <2>4. h \div 1 = h
    <3> HIDE DEF h
    <3> QED BY <1>1
  <2> QED BY <2>1, <2>2, <2>3, <2>4
<1>4. Bytes(v, 4)[3] = Bytes(l, 2)[1] /\ Bytes(v, 4)[4] = Bytes(l, 2)[2]
  <2>1. /\ Bytes(v, 4)[3] = (v \div ByteBase) % ByteBase
        /\ Bytes(v, 4)[4] = (v \div 1) % ByteBase
    BY UnitValues DEF Bytes
  <2>2. /\ Bytes(l, 2)[1] = (l \div ByteBase) % ByteBase
        /\ Bytes(l, 2)[2] = (l \div 1) % ByteBase
    BY UnitValues DEF Bytes
  <2>3. v = ByteBase * (ByteBase * h) + l /\ ByteBase * h \in Nat
    <3> HIDE DEF h, l
    <3>1. Square * h = ByteBase * (ByteBase * h)
      BY <1>1, UnitValues
    <3> QED BY <1>1, <3>1, UnitValues
  <2> HIDE DEF h, l
  <2>4. /\ v \div ByteBase = ByteBase * h + (l \div ByteBase)
        /\ v % ByteBase = l % ByteBase
    <3> DEFINE q == l \div ByteBase
               r == l % ByteBase
    <3>1. q \in Nat /\ r \in 0..(ByteBase - 1) /\ r = l - ByteBase * q
      BY <1>1, UnitValues, Division
    <3> HIDE DEF q, r
    <3>2. v = ByteBase * (ByteBase * h + q) + r
      BY <1>1, <2>3, <3>1, UnitValues
    <3>3. ByteBase * h + q \in Nat
      BY <2>3, <3>1
    <3>4. v \div ByteBase = ByteBase * h + q /\ v % ByteBase = r
      <4>1. ByteBase \in Nat \ {0}
        BY UnitValues
      <4> QED BY <3>1, <3>2, <3>3, <4>1, DivisionIsUnique, Zenon
    <3> QED BY <3>4 DEF q, r
  <2>5. (ByteBase * h + (l \div ByteBase)) % ByteBase = (l \div ByteBase) % ByteBase
    <3> DEFINE q == l \div ByteBase
               m == q \div ByteBase
               r == q % ByteBase
    <3>1. q \in Nat
      BY <1>1, UnitValues, Division
    <3>2. m \in Nat /\ r \in 0..(ByteBase - 1) /\ r = q - ByteBase * m
      <4> HIDE DEF q
      <4> QED BY <3>1, UnitValues, Division
    <3> HIDE DEF q, m, r
    <3>3. ByteBase * h + q = ByteBase * (h + m) + r /\ h + m \in Nat /\ ByteBase * h + q \in Nat
      BY <1>1, <2>3, <3>1, <3>2, UnitValues
    <3>4. (ByteBase * h + q) % ByteBase = r
      BY <3>2, <3>3, UnitValues, DivisionIsUnique
    <3> QED BY <3>4 DEF q, r
  <2>6. v \div 1 = v /\ l \div 1 = l
    BY <1>1
  <2> QED BY <2>1, <2>2, <2>4, <2>5, <2>6
<1> HIDE DEF h, l
<1>5. /\ Bytes(h, 2)[1] * ByteBase + Bytes(h, 2)[2] = h
      /\ Bytes(l, 2)[1] * ByteBase + Bytes(l, 2)[2] = l
  BY <1>1, <1>2, TwoDigits
<1>6. /\ Bytes(h, 2)[1] \in Nat /\ Bytes(h, 2)[2] \in Nat
      /\ Bytes(l, 2)[1] \in Nat /\ Bytes(l, 2)[2] \in Nat
  BY <1>1, BytesAreBytes, UnitValues DEF ByteValues
<1> DEFINE a == Bytes(h, 2)[1]
           b == Bytes(h, 2)[2]
<1>7. a * (Square * ByteBase) + b * Square = Square * h
  <2>1. a \in Nat /\ b \in Nat /\ a * ByteBase + b = h
    BY <1>5, <1>6
  <2> HIDE DEF a, b
  <2>2. Square * (a * ByteBase + b) = a * (Square * ByteBase) + b * Square
    BY <2>1, UnitValues
  <2> QED BY <2>1, <2>2
<1> QED BY <1>1, <1>3, <1>4, <1>5, <1>6, <1>7, UnitValues

\* A store in range puts the bytes in their places and leaves the others.
LEMMA StorePuts ==
  ASSUME MemoryInv, NEW address \in Nat, NEW width \in DOMAIN Widths, NEW v \in Nat
  PROVE  LET n == Widths[width]
             mem == Stored(memory, address, width, v)
         IN  /\ mem \in [0..(MemorySize - 1) -> ByteValues]
             /\ \A b \in 0..(MemorySize - 1) \ (address..(address + n - 1)) : mem[b] = memory[b]
             /\ address + n - 1 < MemorySize =>
                  /\ InMemory(address, width)
                  /\ \A i \in 1..n : mem[address + i - 1] = Bytes(v, n)[i]
             /\ address + n - 1 >= MemorySize => mem = memory /\ ~InMemory(address, width)
<1> DEFINE n == Widths[width]
           mem == Stored(memory, address, width, v)
<1>1. n \in 1..4 /\ MemorySize \in Nat
  BY WidthValues, MmioAssumption
<1>2. InMemory(address, width) <=> address + n - 1 < MemorySize
  <2> HIDE DEF n
  <2> QED BY <1>1 DEF InMemory, n
<1>3. DOMAIN memory = 0..(MemorySize - 1)
  BY DEF MemoryInv
<1>4. CASE ~InMemory(address, width)
  <2>1. mem = memory
    BY <1>4 DEF Stored
  <2> HIDE DEF mem, n
  <2> QED BY <1>1, <1>2, <1>4, <2>1 DEF MemoryInv, mem, n
<1>5. CASE InMemory(address, width)
  <2>1. mem = [a \in 0..(MemorySize - 1) |->
                 IF a \in address..(address + n - 1)
                 THEN Bytes(v, n)[a - address + 1] ELSE memory[a]]
    BY <1>3, <1>5 DEF Stored
  <2> HIDE DEF mem, n
  <2>2. ASSUME NEW a \in 0..(MemorySize - 1), a \in address..(address + n - 1)
        PROVE  a - address + 1 \in 1..n
    BY <1>1, <2>2
  <2>3. ASSUME NEW a \in 0..(MemorySize - 1) PROVE mem[a] \in ByteValues
    <3>1. CASE a \in address..(address + n - 1)
      <4>1. Bytes(v, n)[a - address + 1] \in ByteValues
        BY <1>1, <2>2, <3>1, BytesAreBytes
      <4> QED BY <2>1, <3>1, <4>1
    <3>2. CASE a \notin address..(address + n - 1)
      BY <2>1, <3>2 DEF MemoryInv
    <3> QED BY <3>1, <3>2
  <2>4. mem \in [0..(MemorySize - 1) -> ByteValues]
    BY <2>1, <2>3
  <2>5. \A b \in 0..(MemorySize - 1) \ (address..(address + n - 1)) : mem[b] = memory[b]
    BY <2>1
  <2>6. ASSUME NEW i \in 1..n PROVE mem[address + i - 1] = Bytes(v, n)[i]
    <3> DEFINE a == address + i - 1
    <3>1. a \in 0..(MemorySize - 1) /\ a \in address..(address + n - 1) /\ a - address + 1 = i
      BY <1>1, <1>2, <1>5
    <3> HIDE DEF a
    <3>2. mem[a] = Bytes(v, n)[i]
      BY <2>1, <3>1
    <3> QED BY <3>2 DEF a
  <2>7. ~(address + n - 1 >= MemorySize)
    BY <1>1, <1>2, <1>5
  <2> QED BY <1>5, <2>4, <2>5, <2>6, <2>7 DEF mem, n
<1> QED BY <1>4, <1>5

\* A truncated value fits its width.
LEMMA TruncatedFits ==
  ASSUME NEW value \in Nat, NEW width \in DOMAIN Widths
  PROVE  /\ Truncated(value, width) \in Nat
         /\ Truncated(value, width) < Units[Widths[width] + 1]
<1> DEFINE u == Units[Widths[width] + 1]
<1>1. Widths[width] + 1 \in 1..5
  BY WidthValues
<1>2. u \in Nat \ {0}
  BY <1>1, UnitValues, Zenon
<1> HIDE DEF u
<1>3. value % u \in 0..(u - 1)
  BY <1>2, Division, Zenon
<1>4. value % u \in Nat /\ value % u < u
  BY <1>2, <1>3
<1> QED BY <1>4 DEF Truncated, u

\* What is stored is loaded.
LEMMA LoadsBack ==
  ASSUME MemoryInv, NEW a \in Nat, NEW width \in DOMAIN Widths, NEW v \in Nat,
         v < Units[Widths[width] + 1], a + Widths[width] - 1 < MemorySize
  PROVE  LET mem == Stored(memory, a, width, v)
         IN  /\ Loaded(mem, a, width) = v
             /\ Loaded(mem, a + Widths[width] - 1, "byte") = v % ByteBase
<1> DEFINE mem == Stored(memory, a, width, v)
           n == Widths[width]
<1>1. /\ InMemory(a, width)
      /\ \A i \in 1..n : mem[a + i - 1] = Bytes(v, n)[i]
  BY StorePuts, Zenon
<1> HIDE DEF mem
<1>2. n \in 1..4 /\ MemorySize \in Nat
  BY WidthValues, MmioAssumption
<1>3. Loaded(mem, a + n - 1, "byte") = v % ByteBase
  <2>1. InMemory(a + n - 1, "byte")
    <3>1. a + n - 1 < MemorySize
      OBVIOUS
    <3> HIDE DEF n
    <3> QED BY <1>2, <3>1, WidthValues DEF InMemory
  <2>2. Loaded(mem, a + n - 1, "byte") = mem[a + n - 1]
    BY <2>1 DEF Loaded
  <2>3. mem[a + n - 1] = Bytes(v, n)[n]
    <3> HIDE DEF n
    <3> QED BY <1>1, <1>2 DEF n
  <2>4. Bytes(v, n)[n] = (v \div 1) % ByteBase
    <3> HIDE DEF n
    <3>1. n - n + 1 = 1 /\ n \in 1..n
      BY <1>2
    <3> QED BY <3>1, UnitValues DEF Bytes
  <2>5. v \div 1 = v
    OBVIOUS
  <2> QED BY <2>2, <2>3, <2>4, <2>5
<1>4. CASE width = "byte"
  <2>1. n = 1 /\ a + 1 - 1 = a
    BY <1>4, WidthValues
  <2>2. v < ByteBase
    BY <1>4, WidthValues, UnitValues
  <2>3. Loaded(mem, a, width) = v % ByteBase
    BY <1>3, <1>4, <2>1
  <2>4. v % ByteBase = v
    BY <2>2, UnitValues
  <2> QED BY <1>3, <2>3, <2>4 DEF mem
<1>5. CASE width = "word"
  <2>1. n = 2 /\ v < Square
    BY <1>5, WidthValues, UnitValues
  <2>2. mem[a] = Bytes(v, 2)[1] /\ mem[a + 1] = Bytes(v, 2)[2]
    <3>1. 1 \in 1..2 /\ 2 \in 1..2 /\ a + 1 - 1 = a /\ a + 2 - 1 = a + 1
      OBVIOUS
    <3>2. \A i \in 1..2 : mem[a + i - 1] = Bytes(v, 2)[i]
      BY <1>1, <2>1
    <3> QED BY <3>1, <3>2
  <2>3. Loaded(mem, a, width) = mem[a] * ByteBase + mem[a + 1]
    BY <1>1, <1>5 DEF Loaded
  <2>4. Loaded(mem, a, width) = v
    BY <2>1, <2>2, <2>3, TwoDigits
  <2> QED BY <1>3, <2>4 DEF mem
<1>6. CASE width = "long"
  <2>1. n = 4 /\ v < Square * Square
    BY <1>6, WidthValues, UnitValues
  <2>2. /\ mem[a] = Bytes(v, 4)[1] /\ mem[a + 1] = Bytes(v, 4)[2]
        /\ mem[a + 2] = Bytes(v, 4)[3] /\ mem[a + 3] = Bytes(v, 4)[4]
    <3>1. /\ 1 \in 1..4 /\ 2 \in 1..4 /\ 3 \in 1..4 /\ 4 \in 1..4
          /\ a + 1 - 1 = a /\ a + 2 - 1 = a + 1 /\ a + 3 - 1 = a + 2 /\ a + 4 - 1 = a + 3
      OBVIOUS
    <3>2. \A i \in 1..4 : mem[a + i - 1] = Bytes(v, 4)[i]
      BY <1>1, <2>1
    <3> QED BY <3>1, <3>2
  <2>3. Loaded(mem, a, width) = mem[a] * Units[4] + mem[a + 1] * Units[3]
                                  + mem[a + 2] * ByteBase + mem[a + 3]
    BY <1>1, <1>6 DEF Loaded
  <2>4. Loaded(mem, a, width) = v
    BY <2>1, <2>2, <2>3, FourDigits
  <2> QED BY <1>3, <2>4 DEF mem
<1> QED BY <1>4, <1>5, <1>6, WidthValues

\* Every step leaves bytes in the memory.
LEMMA MemoryKept == MemoryInv /\ [MmioNext]_mmioVars => MemoryInv'
<1> SUFFICES ASSUME MemoryInv, [MmioNext]_mmioVars PROVE MemoryInv'
  OBVIOUS
<1>1. CASE UNCHANGED memory
  BY <1>1 DEF MemoryInv
<1>2. CASE Manage
  BY <1>1, <1>2 DEF Manage, Initialize, Remove, Shutdown, UnregisterDevice, RegisterDevice,
                    SetEnabled
<1>3. ASSUME NEW width \in DOMAIN Widths, NEW name, NEW offset \in Nat, NEW value \in Register,
             Write(width, name, offset, value)
      PROVE  MemoryInv'
  <2>1. UNCHANGED memory \/ memory' = Stored(memory, offset, width, Truncated(value, width))
    BY <1>3 DEF Write
  <2>2. value \in Nat
    BY UnitValues DEF Register
  <2>3. Truncated(value, width) \in Nat
    BY <2>2, TruncatedFits
  <2>4. Stored(memory, offset, width, Truncated(value, width))
          \in [0..(MemorySize - 1) -> ByteValues]
    BY <2>3, StorePuts, Zenon
  <2> QED BY <1>1, <2>1, <2>4 DEF MemoryInv
<1>4. ASSUME NEW name, NEW offset, Read(name, offset) PROVE MemoryInv'
  BY <1>1, <1>4 DEF Read
<1>5. CASE DumpDeviceRegisters \/ Tick \/ UNCHANGED mmioVars
  BY <1>1, <1>5 DEF DumpDeviceRegisters, Tick, mmioVars
<1> QED BY <1>2, <1>3, <1>4, <1>5 DEF MmioNext

\* At first every byte is zero.
LEMMA MemoryInitially == MmioInit => MemoryInv
<1>1. 0 \in ByteValues
  BY UnitValues DEF ByteValues
<1> QED BY <1>1 DEF MmioInit, MemoryInv

\* Whatever a client has written, a value written in one width is read back in it,
\* byte by byte and as a whole, and a write past the end changes nothing, for
\* every size of the memory (mmio.cpp:579).
THEOREM WritesCorrect == MmioSpec => []WritesReadBack
<1>1. MemoryInv => WritesReadBack
  <2> SUFFICES ASSUME MemoryInv, NEW width \in DOMAIN Widths, NEW a \in 0..MemorySize,
                      NEW value \in {0, 1, ByteBase, Units[3] + 1, Units[4]}
               PROVE  LET v == Truncated(value, width)
                          mem == Stored(memory, a, width, v)
                          last == a + Widths[width] - 1
                      IN  /\ \A b \in DOMAIN memory \ (a..last) : mem[b] = memory[b]
                          /\ last < MemorySize =>
                               /\ Loaded(mem, a, width) = v
                               /\ Loaded(mem, last, "byte") = v % ByteBase
                          /\ last >= MemorySize => mem = memory /\ Loaded(mem, a, width) = 0
    BY DEF WritesReadBack
  <2> DEFINE v == Truncated(value, width)
             mem == Stored(memory, a, width, v)
             last == a + Widths[width] - 1
  <2>1. value \in Nat /\ a \in Nat
    BY UnitValues, MmioAssumption
  <2>2. v \in Nat /\ v < Units[Widths[width] + 1]
    BY <2>1, TruncatedFits, Zenon
  <2> HIDE DEF v
  <2>3. /\ \A b \in 0..(MemorySize - 1) \ (a..last) : mem[b] = memory[b]
        /\ last >= MemorySize => mem = memory /\ ~InMemory(a, width)
    <3>1. /\ \A b \in 0..(MemorySize - 1) \ (a..(a + Widths[width] - 1)) :
               Stored(memory, a, width, v)[b] = memory[b]
          /\ a + Widths[width] - 1 >= MemorySize =>
               Stored(memory, a, width, v) = memory /\ ~InMemory(a, width)
      BY <2>1, <2>2, StorePuts
    <3> QED BY <3>1
  <2>4. last < MemorySize =>
          Loaded(mem, a, width) = v /\ Loaded(mem, last, "byte") = v % ByteBase
    BY <2>1, <2>2, LoadsBack, Zenon
  <2>5. last >= MemorySize => Loaded(mem, a, width) = 0
    BY <2>3 DEF Loaded
  <2>6. DOMAIN memory = 0..(MemorySize - 1)
    BY DEF MemoryInv
  <2> QED BY <2>3, <2>4, <2>5, <2>6 DEF v
<1> QED BY <1>1, MemoryInitially, MemoryKept, PTL DEF MmioSpec

=============================================================================
