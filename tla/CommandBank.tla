---------------------------- MODULE CommandBank ----------------------------
(***************************************************************************)
(* The bank of extended commands of one modem (src/commands.c): plugins    *)
(* register handlers in a binary search tree ordered by ext_cmp(), and a   *)
(* request is looked up in it with another comparison, ext_match(), that   *)
(* has to agree with the first one. The tree may have any shape: at every  *)
(* step of a search any handler that is still possible may be the node.    *)
(* Names and requests are sequences of characters without case, those that *)
(* the module CommandLine has.                                             *)
(***************************************************************************)
EXTENDS Integers, Sequences

CONSTANTS
  Names,      \* names that plugins register
  Requests,   \* command lines' extended commands
  Plugins,    \* who registers them
  NameMax     \* AT_NAME_MAX

\* The characters in the order of strncasecmp(), which folds letters to lower case.
Order == <<" ", "\"", "&", "+", "1", ";", "=", "?", "D", "S", "Z">>
Rank(c) == CHOOSE i \in DOMAIN Order : Order[i] = c
Alnum == {"1", "D", "S", "Z"}

VARIABLES
  bank,       \* the handlers, as a function from names to plugins
  request,    \* the request being executed, or <<>> while plugins register
  subtree,    \* the names that the search has not excluded
  node,       \* the handler that was found, or <<>>
  call        \* what is called: "none" before, then "set0", "set", "get", "test", "error"

vars == <<bank, request, subtree, node, call>>

Smaller(a, b) == IF a < b THEN a ELSE b

\* strncasecmp(a, b, k): negative, zero or positive. The nul counts as the least character.
CharAt(s, i) == IF i <= Len(s) THEN Rank(s[i]) ELSE 0
Compare(a, b, k) ==
  LET diff == {i \in 1..k : CharAt(a, i) # CharAt(b, i)}
  IN  IF diff = {} THEN 0
      ELSE LET i == CHOOSE i \in diff : \A j \in diff : i <= j
           IN  CharAt(a, i) - CharAt(b, i)

\* The order of the tree: a name comes after its own beginnings.
ext_cmp(a, b) ==
  LET val == Compare(a, b, Smaller(Len(a), Len(b)))
  IN  IF val # 0 THEN val ELSE Len(a) - Len(b)

\* Mutated: a longer command is taken to come first.
ext_match_Before(cmd, name) ==
  LET val == Compare(cmd, name, Len(name))
  IN  IF val # 0 THEN val
      ELSE IF Len(cmd) > Len(name) /\ cmd[Len(name) + 1] \in Alnum THEN -1 ELSE 0

\* The order of a request and a name: a request goes after a name that it continues.
ext_match(cmd, name) ==
  LET val == Compare(cmd, name, Len(name))
  IN  IF val # 0 THEN val
      ELSE IF Len(cmd) > Len(name) /\ cmd[Len(name) + 1] \in Alnum THEN 1 ELSE 0

\* A name that is taken, or too long, is not registered.
at_register_ext(p, name) ==
  /\ request = <<>>
  /\ Len(name) < NameMax
  /\ \A x \in DOMAIN bank : ext_cmp(name, x) # 0
  /\ bank' = [x \in DOMAIN bank \cup {name} |-> IF x = name THEN p ELSE bank[x]]
  /\ UNCHANGED <<request, subtree, node, call>>

\* at_commands_execute(): a request that starts with neither a letter nor "&".
Execute(req) ==
  /\ request = <<>>
  /\ request' = req
  /\ subtree' = DOMAIN bank
  /\ UNCHANGED <<bank, node, call>>

\* tfind(): one node.
Search(name) ==
  /\ request # <<>> /\ call = "none" /\ node = <<>>
  /\ name \in subtree
  /\ LET val == ext_match(request, name)
     IN  IF val = 0 THEN node' = name /\ UNCHANGED subtree
         ELSE /\ subtree' = {x \in subtree : IF val < 0 THEN ext_cmp(x, name) < 0
                                                       ELSE ext_cmp(x, name) > 0}
              /\ UNCHANGED node
  /\ UNCHANGED <<bank, request, call>>

\* The position of the first character from i on that is not in set.
Past(set, i) ==
  CHOOSE j \in i..(Len(request) + 1) :
    /\ j = Len(request) + 1 \/ request[j] \notin set
    /\ \A k \in i..(j - 1) : request[k] \in set

\* sscanf() twice: what follows the name, spaces apart, says which callback is meant.
Operator == Past({" "}, Past({Order[i] : i \in DOMAIN Order} \ {"?", "=", " "}, 1))
Form ==
  LET value == Past({" "}, Operator + 1)
  IN  IF Operator > Len(request) THEN "set0"
      ELSE IF request[Operator] = "?" THEN "get"
      ELSE IF request[Operator] # "=" THEN "error"
      ELSE IF value > Len(request) THEN "set0"
      ELSE IF request[value] = "?" THEN "test" ELSE "set"

\* The handler is called, or there is none.
Call ==
  /\ request # <<>> /\ call = "none"
  /\ node # <<>> \/ subtree = {}
  /\ call' = IF node = <<>> THEN "error" ELSE Form
  /\ UNCHANGED <<bank, request, subtree, node>>

\* The next request.
Return ==
  /\ call # "none"
  /\ request' = <<>> /\ subtree' = {} /\ node' = <<>> /\ call' = "none"
  /\ UNCHANGED bank

Init ==
  /\ bank = [x \in {} |-> "none"]
  /\ request = <<>> /\ subtree = {} /\ node = <<>> /\ call = "none"

Next ==
  \/ \E p \in Plugins, name \in Names : at_register_ext(p, name)
  \/ \E req \in Requests : Execute(req)
  \/ \E name \in Names : Search(name)
  \/ Call \/ Return

Spec == Init /\ [][Next]_vars

-----------------------------------------------------------------------------
\* The name in a request, up to the first character that no name has.
Named(name) ==
  /\ Len(name) <= Len(request) /\ SubSeq(request, 1, Len(name)) = name
  /\ Len(request) > Len(name) => request[Len(name) + 1] \notin Alnum

\* Whatever is registered and whatever shape the tree has, the search finds the handler
\* whose name the request starts with, and finds none only if there is none: names that
\* start with one another ("+Z" and "+ZS", like "+CR" and "+CRC") do not hide one another.
LookupFinds ==
  call # "none" =>
    IF node # <<>> THEN Named(node) ELSE \A name \in DOMAIN bank : ~Named(name)
=============================================================================
