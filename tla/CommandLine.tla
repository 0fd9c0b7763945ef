---------------------------- MODULE CommandLine ----------------------------
(***************************************************************************)
(* A command line, once it has been typed: at_iterate_first() and          *)
(* at_iterate_next() cut it into commands (src/parser.c) and process_line()*)
(* runs them until one fails (src/at_modem.c).                             *)
(* The characters are representatives of what the code tells apart: "Z" is *)
(* any other letter, "1" any digit, "+" anything else.                     *)
(***************************************************************************)
EXTENDS Naturals, Sequences, FiniteSets

CONSTANTS
  MaxLine,   \* bound: characters after "AT"
  Adjacent   \* the characters that the linker has put after the literal " ;", which
             \* memchr() reads on a line of more than three characters

Letters == {"D", "S", "Z"}
Digits == {"1"}
Spaces == {" "}
Quote == "\""
Chars == Letters \cup Digits \cup Spaces \cup {"&", "+", "=", "?", ";", Quote}

LineAssumption == MaxLine \in Nat /\ Adjacent \in Seq(Chars)

VARIABLES
  line,      \* the command line after "AT"
  pos,       \* the cursor: characters of line that are behind it
  ran,       \* the commands that were run, as <<first, last>> positions
  res,       \* result of the last command
  phase      \* "run", "busy" while a command runs, or "over" once the result is known

vars == <<line, pos, ran, res, phase>>

n == Len(line)
Least(S) == CHOOSE i \in S : \A j \in S : i <= j

\* The first position from i on at which the line has no character of set.
Past(set, i) == Least({j \in i..(n + 1) : j = n + 1 \/ line[j] \notin set})

\* count_digits(): spaces, then digits; the position after them.
PastDigits(i) == Past(Digits, Past(Spaces, i))

At(i, c) == i <= n /\ line[i] = c

\* basic_command_length(): the position after a basic command at i, or i if there is none.
\* A dial command takes the rest of the line.
BasicEnd(i) ==
  LET arg == Past(Spaces, PastDigits(i + 1))        \* S number: what follows
      name == IF At(i, "&") THEN i + 1 ELSE i
  IN  IF i > n THEN i
      ELSE IF line[i] = "D" THEN n + 1
      ELSE IF line[i] = "S"
           THEN IF At(arg, "=") THEN PastDigits(arg + 1)
                ELSE IF At(arg, "?") THEN arg + 1 ELSE arg
      ELSE IF name <= n /\ line[name] \in Letters THEN PastDigits(name + 1) ELSE i

\* Mutated: a semicolon ends the command even in a string.
ExtendedEnd_Unquoted(i) == Past(Chars \ {";"}, i)

\* The loop of extended_command_length() from j on: the first semicolon that is not in a
\* string, or the end; 0 if a string is not terminated.
Closing(j) == Past(Chars \ {Quote}, j + 1)
Scan[j \in 1..(n + 1)] ==
  IF j = n + 1 \/ line[j] = ";" THEN j
  ELSE IF line[j] # Quote THEN Scan[j + 1]
  ELSE IF Closing(j) > n THEN 0 ELSE Scan[Closing(j) + 1]

\* extended_command_length(): the position after an extended command at i, or i if there is none.
ExtendedEnd(i) == IF Scan[i] = 0 THEN i ELSE Scan[i]

\* The loop at the start of at_iterate_next(): memchr() looks for the character in as many
\* characters of " ;" as are left of the line, then in what follows them in memory.
Skipped(i) ==
  LET left == n - i + 1
  IN  {" "} \cup (IF left >= 2 THEN {";"} ELSE {})
      \cup {Adjacent[k] : k \in {k \in DOMAIN Adjacent : k + 3 <= left}}

\* Mutated: a command takes one more character with it.
CommandStart_Late(i) ==
  LET start == Least({j \in i..(n + 1) : j = n + 1 \/ line[j] \notin Skipped(j)})
  IN  IF start <= n THEN start + 1 ELSE start

CommandStart(i) == Least({j \in i..(n + 1) : j = n + 1 \/ line[j] \notin Skipped(j)})

CommandEnd(i) == IF BasicEnd(i) > i THEN BasicEnd(i) ELSE ExtendedEnd(i)

\* at_iterate_next() yields a command, which process_line() runs...
Run ==
  /\ phase = "run" /\ res = "OK"
  /\ LET first == CommandStart(pos + 1)
         end == CommandEnd(first)
     IN  /\ end > first
         /\ pos' = end - 1
         /\ ran' = Append(ran, <<first, end - 1>>)
  /\ phase' = "busy"
  /\ UNCHANGED <<line, res>>

\* ... and the result of which it gets.
Return ==
  /\ phase = "busy"
  /\ phase' = "run" /\ res' \in {"OK", "ERROR"}
  /\ UNCHANGED <<line, pos, ran>>

\* A command failed: the rest of the line is dropped.
Failed ==
  /\ phase = "run" /\ res = "ERROR"
  /\ phase' = "over"
  /\ UNCHANGED <<line, pos, ran, res>>

\* at_iterate_next() yields none: the end of the line, or a syntax error.
Over ==
  /\ phase = "run" /\ res = "OK"
  /\ LET first == CommandStart(pos + 1)
     IN  CommandEnd(first) = first /\ pos' = first - 1
  /\ phase' = "over"
  /\ res' = IF pos' < n THEN "ERROR" ELSE "OK"
  /\ UNCHANGED <<line, ran>>

Init ==
  /\ line \in UNION {[1..k -> Chars] : k \in 0..MaxLine}
  /\ pos = 0 /\ ran = <<>> /\ res = "OK" /\ phase = "run"

Next == Run \/ Return \/ Failed \/ Over

Spec == Init /\ [][Next]_vars

-----------------------------------------------------------------------------
\* What has been passed and is not part of a command that was run.
Gaps == {i \in 1..pos : \A k \in DOMAIN ran : i < ran[k][1] \/ i > ran[k][2]}

\* No character of the line is lost and none is run twice: commands follow one another
\* in the line, and only spaces and semicolons are between them (parser.c:305-309).
OnlySeparatorsSkipped ==
  /\ \A k \in 1..(Len(ran) - 1) : ran[k][2] < ran[k + 1][1]
  /\ \A i \in Gaps : line[i] \in {" ", ";"}

\* A string is never cut in two: an extended command has an even number of quotes.
Quotes(k) == {i \in ran[k][1]..ran[k][2] : line[i] = Quote}
Extended(k) == BasicEnd(ran[k][1]) = ran[k][1]
StringsWhole ==
  \A k \in DOMAIN ran : Extended(k) => Cardinality(Quotes(k)) % 2 = 0
=============================================================================
