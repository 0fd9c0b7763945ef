----------------------------- MODULE Execution -----------------------------
(***************************************************************************)
(* A command line from the terminal to its answer: process_line() in       *)
(* src/at_modem.c cuts it into commands (CommandLine) and gives each to    *)
(* at_commands_execute() in src/commands.c, which looks an extended one up *)
(* in the bank (CommandBank) and a basic one in the tables of the bank.    *)
(***************************************************************************)
EXTENDS CommandLine

CONSTANTS
  Names, Plugins, NameMax,   \* see CommandBank
  Basics                     \* the basic commands that have a handler, as slots

\* Names are letters and digits but for the first character, and none is another one with a
\* digit after it: "=" and "?" come after the digits in the order of characters, so that a
\* tree with both would lose requests for the shorter one.
BankAssumption ==
  /\ NameMax \in Nat /\ Names \subseteq Seq(Chars)
  /\ \A x \in Names : x # <<>> /\ \A i \in 2..Len(x) : x[i] \in Letters \cup {"1"}
  /\ \A x \in Names, y \in Names :
       (Len(y) > Len(x) /\ SubSeq(y, 1, Len(x)) = x) => y[Len(x) + 1] # "1"

VARIABLES bank, request, subtree, node, call    \* see CommandBank

lineVars == vars
bankVars == <<bank, request, subtree, node, call>>
allVars == <<lineVars, bankVars>>

Bank == INSTANCE CommandBank WITH Requests <- UNION {[1..k -> Chars] : k \in 1..MaxLine}

Last == ran[Len(ran)]
Command == SubSeq(line, Last[1], Last[2])

\* Letters and the ampersand are not looked up among the extended commands.
Basic(cmd) == cmd[1] \in Letters \cup {"&"}

\* The table entry of a basic command: a dial command is a voice call if it has a semicolon.
Slot(cmd) ==
  CASE cmd[1] = "D" -> IF \E i \in DOMAIN cmd : cmd[i] = ";" THEN <<"D", ";">> ELSE <<"D">>
    [] cmd[1] = "&" /\ Len(cmd) > 1 -> SubSeq(cmd, 1, 2)
    [] OTHER -> <<cmd[1]>>

\* What sscanf() makes of an S command without its spaces: S1? and S1=1 are complete.
Complete(cmd) ==
  LET Shown(c) == c # " "
      s == SelectSeq(cmd, Shown)
  IN  cmd[1] = "S" => /\ Len(s) >= 3 /\ s[2] = "1"
                      /\ s[Len(s)] = "?" \/ (s[Len(s)] = "1" /\ \E i \in DOMAIN s : s[i] = "=")

Register(p, name) ==
  /\ phase = "run" /\ ran = <<>>
  /\ Bank!at_register_ext(p, name)
  /\ UNCHANGED lineVars

ExecuteBasic == Run /\ Basic(Command') /\ UNCHANGED bankVars

ExecuteExtended == Run /\ ~Basic(Command') /\ Bank!Execute(Command')

Search(name) == Bank!Search(name) /\ UNCHANGED lineVars

Call == Bank!Call /\ UNCHANGED lineVars

\* The result of a handler is any; without a handler it is an error (NO DIALTONE is one).
ReturnBasic ==
  /\ request = <<>> /\ Return
  /\ ~(Slot(Command) \in Basics /\ Complete(Command)) => res' = "ERROR"
  /\ UNCHANGED bankVars

\* Mutated: that a command is not known goes unnoticed.
ReturnExtended_Unknown == Return /\ Bank!Return

ReturnExtended ==
  /\ Return /\ Bank!Return
  /\ call = "error" => res' = "ERROR"

AllInit == Init /\ Bank!Init

AllNext ==
  \/ \E p \in Plugins, name \in Names : Register(p, name)
  \/ ExecuteBasic \/ ExecuteExtended
  \/ \E name \in Names : Search(name)
  \/ Call \/ ReturnBasic \/ ReturnExtended
  \/ (Failed \/ Over) /\ UNCHANGED bankVars

AllSpec == AllInit /\ [][AllNext]_allVars

-----------------------------------------------------------------------------
\* Whatever is registered and whatever shape the tree has, the search for an extended
\* command finds the handler that is named, and none only if there is none
\* (commands.c:186-202 against 159-184).
LookupFinds == Bank!LookupFinds

\* A command starts with a name that no letter or digit continues.
Starts(cmd, name) ==
  /\ Len(name) <= Len(cmd) /\ SubSeq(cmd, 1, Len(name)) = name
  /\ Len(cmd) > Len(name) => cmd[Len(name) + 1] \notin Letters \cup {"1"}

\* From i on, spaces apart, it asks, sets, or ends.
Asks(cmd, i) ==
  \E j \in i..(Len(cmd) + 1) :
    /\ \A k \in i..(j - 1) : cmd[k] = " "
    /\ j = Len(cmd) + 1 \/ cmd[j] \in {"?", "="}

\* A basic command that has a handler; or a registered name, with or without other characters
\* attached to it, and after it a question, a value or nothing.
Known(cmd) ==
  \/ \E slot \in Basics : Len(slot) <= Len(cmd) /\ SubSeq(cmd, 1, Len(slot)) = slot
  \/ cmd[1] = "D" /\ <<"D", ";">> \in Basics /\ \E i \in DOMAIN cmd : cmd[i] = ";"
  \/ /\ \E name \in DOMAIN bank : Starts(cmd, name)
     /\ \E i \in 1..(Len(cmd) + 1) : (\A k \in 1..(i - 1) : cmd[k] \notin {"?", "=", " "}) /\ Asks(cmd, i)

\* OK is answered only if every character of the line was run or was a separator, and each
\* command, whatever its kind and wherever the line was cut, starts with what somebody has
\* registered and is not continued by a letter or a digit into another name; one with anything
\* but "?" or "=" after its name and a space is refused. It does not say that nothing is attached
\* to the name: AT+CHUP! is run as AT+CHUP (sscanf() at commands.c:412), although the comment at
\* 436 calls that an error (at_modem.c:551-576, commands.c:403-441).
OkIsHandled ==
  (phase = "over" /\ res = "OK") =>
    pos = n /\ \A k \in DOMAIN ran : Known(SubSeq(line, ran[k][1], ran[k][2]))
=============================================================================
