-------------------------- MODULE MCVirtualMachine --------------------------
(* VirtualMachine on small images, assembled here byte by byte.             *)
EXTENDS VirtualMachine, SequencesExt

MCMain == <<1>>
Helper == <<2>>
Other == <<3>>
Pad == <<4>>

Quad(n) == <<0, 0, 0, n>>
NameBytes(name) == <<Len(name)>> \o name

\* An instruction as the bytes of the format; a call names its function.
Op(op) == <<ByteOf(op)>>
OpOf(op, n) == <<ByteOf(op)>> \o Quad(n)
OpTo(op, name) == <<ByteOf(op)>> \o NameBytes(name)

FunctionBytes(name, code) ==
  NameBytes(name) \o <<0, 1>> \o Quad(Len(code)) \o FlattenSeq(code)
\* A file with one global and these functions.
Image(functions) ==
  Magic \o Quad(1) \o Quad(1) \o Quad(Len(functions)) \o NameBytes(<<9>>)
    \o FlattenSeq(functions)

\* Of four functions the last two stay where they are added: one calls the
\* other.  Of two functions the first has moved.
Nested(helper, main) ==
  Image(<<FunctionBytes(Pad, <<>>), FunctionBytes(Pad, <<>>),
          FunctionBytes(Helper, helper), FunctionBytes(MCMain, main)>>)

UpTo(S, n) == UNION {[1..k -> S] : k \in 0..n}

Operators == {"ADD", "SUB", "MUL", "DIV", "MOD", "AND", "OR", "XOR", "NOT",
              "EQ", "NE", "LT", "LE", "GT", "GE", "SWAP"}
Calculations ==
  {<<OpOf("PUSH", a), OpOf("PUSH", b), Op(op)>> : a \in {0, 3}, b \in {0, 1}, op \in Operators}
  \cup {<<OpOf("PUSH", 0), OpOf("PUSH", 3), Op("SUB"), OpOf("PUSH", 1), Op("SUB"),
          OpOf("PUSH", 0), OpOf("PUSH", 1), Op("SUB"), Op("DIV")>>}

Steps == {OpOf("PUSH", 1), OpOf("LOAD", 0), OpOf("STORE", 0), OpOf("LOAD", 7),
          OpOf("STORE", 7), OpOf("LOAD_GLOBAL", 0), OpOf("STORE_GLOBAL", 0),
          OpOf("STORE_GLOBAL", 7), OpTo("JZ", Other), OpTo("JMP", <<>>), Op("DUP"),
          Op("RET"), Op("HALT"), Op("PRINT")}
HelperSteps == {OpOf("PUSH", 1), Op("RET"), Op("HALT"), OpTo("CALL", Helper), Op("POP")}
CallerSteps == {OpTo("CALL", Helper), OpTo("CALL", Other), OpOf("STORE", 0), Op("RET")}

Calling == Image(<<FunctionBytes(Helper, <<Op("RET")>>),
                   FunctionBytes(MCMain, <<OpTo("CALL", Helper), OpOf("PUSH", 1)>>)>>)

MCImages ==
  {Image(<<FunctionBytes(MCMain, code)>>) : code \in Calculations \cup UpTo(Steps, 2)}
  \cup {Nested(h, m) : h \in UpTo(HelperSteps, 2), m \in UpTo(CallerSteps, 2)}
  \cup {Image(<<FunctionBytes(Helper, <<>>), FunctionBytes(MCMain, <<m>>)>>) : m \in CallerSteps}
  \cup {Image(<<FunctionBytes(MCMain, <<Op("NOP")>>), FunctionBytes(Helper, <<>>)>>)}
  \cup {SubSeq(Calling, 1, n) : n \in 0..Len(Calling)}
MCNames == {MCMain, Helper}

\* The host keeps to one file, and to one that does not load.
VARIABLE image

MCInit == Init /\ image \in MCImages
MCNext ==
  /\ \/ ExecuteInstruction \/ EndFunction
     \/ LoadProgram(image) \/ LoadProgram(<<>>)
     \/ \E name \in Names : Execute(name)
     \/ Reset
  /\ UNCHANGED image
MCSpec == MCInit /\ [][MCNext]_<<vmVars, image>> /\ Fairness
=============================================================================
