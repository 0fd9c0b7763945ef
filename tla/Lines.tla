------------------------------- MODULE Lines -------------------------------
(* What the terminal types, up to its answer: a behaviour is one of the      *)
(* parser, which makes a line of characters, or of the execution of a line.  *)
EXTENDS Execution

\* The constants of Parser; its MaxLine is the size of a buffer.
CONSTANTS BufferSize, MaxLength, Printable

VARIABLES
  stage,
  length, oldlength, memory, ret, plen    \* see Parser

typingVars == <<length, oldlength, memory, ret, plen>>

Typing == INSTANCE Parser WITH MaxLine <- BufferSize

ASSUME LinesAssumption ==
  LineAssumption /\ BankAssumption /\ Typing!SizeAssumption /\ Typing!CharAssumption

LinesInit ==
  /\ Typing!Init /\ AllInit
  /\ \/ stage = "typing" /\ line = <<>>
     \/ stage = "running" /\ memory[0] = "A"

LinesNext ==
  \/ stage = "typing" /\ Typing!Next /\ UNCHANGED <<stage, allVars>>
  \/ stage = "running" /\ AllNext /\ UNCHANGED <<stage, typingVars>>

LinesSpec == LinesInit /\ [][LinesNext]_<<stage, typingVars, allVars>>

\* The property of the parser, stated in its module.
EditorSpec == Typing!EditorSpec
=============================================================================
