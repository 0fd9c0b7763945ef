------------------------------ MODULE OfonoSim ------------------------------
(***************************************************************************)
(* Commands for the codes of the SIM (src/plugins/ofono/sim.c): AT+CPIN,   *)
(* AT+CPINR, AT+CLCK and AT+CPWD. A wrong code costs one of a few tries,   *)
(* and the SIM is blocked after the last. The code that is required is     *)
(* asked for in one D-Bus call and entered in another.                     *)
(***************************************************************************)
EXTENDS OfonoCommand

CONSTANTS
  Codes,     \* codes that are typed, or are those of the SIM
  Patterns,  \* names of codes that AT+CPINR is given
  Facs,      \* names of facilities that AT+CLCK and AT+CPWD are given, known or not
  MaxTries   \* tries for a code; three and ten on real cards

TriesAssumption == MaxTries \in Nat \ {0}

VARIABLES
  sim,    \* oFono: whether it is there, what it requires, for "pin" and "puk": codes, tries, locks;
          \* and the network's password for call barring
  read,   \* the code that was required when the handler asked
  spent,  \* history: the tries that this command has cost
  before  \* history: the SIM when the command was given

vars == <<commandVars, sim, read, spent, before>>

\* pins[]: names of the facility, the answer of AT+CPIN? (its spaces as hyphens), the code in oFono.
pins == {
  <<"none",  "READY",      "none">>,  <<"SC",   "SIM-PIN",    "pin">>,
  <<"none",  "SIM-PUK",    "puk">>,   <<"PS",   "PH-SIM-PIN", "phone">>,
  <<"P2",    "SIM-PIN2",   "pin2">>,  <<"none", "SIM-PUK2",   "puk2">>,
  <<"PN",    "PH-NET-PIN", "network">>}

ofono_to_code(name) == (CHOOSE p \in pins : p[3] = name)[2]
IsFacility(fac) == fac # "none" /\ \E p \in pins : p[1] = fac
fac_to_ofono(fac) == (CHOOSE p \in pins : p[1] = fac)[3]

-----------------------------------------------------------------------------
(***************************************************************************)
(* The handlers.                                                           *)
(***************************************************************************)
\* Mutated: the other way round.
lock_pin_Swapped(type, pass, lock) ==
  Ask([do |-> IF lock THEN "UnlockPin" ELSE "LockPin", type |-> type, code |-> pass])

lock_pin(type, pass, lock) ==
  Ask([do |-> IF lock THEN "LockPin" ELSE "UnlockPin", type |-> type, code |-> pass])

set_clck(c) ==
  IF c.mode > 2 THEN Return("invalid")
  ELSE IF ~IsFacility(c.fac) THEN Return("unsupported")
  ELSE IF c.mode = 2 THEN Ask(GetProperties)
  ELSE lock_pin(fac_to_ofono(c.fac), c.code, c.mode = 1)

set_cpwd(c) ==
  IF IsFacility(c.fac)
  THEN Ask([do |-> "ChangePin", type |-> fac_to_ofono(c.fac), code |-> c.code, new |-> c.new])
  ELSE IF c.fac = "AB" THEN Ask([do |-> "ChangePassword", code |-> c.code, new |-> c.new])
  ELSE Return("unsupported")

Begin(c) ==
  CASE c.at = "CLCK" -> set_clck(c)
    [] c.at = "CPWD" -> set_cpwd(c)
    [] c.at \in {"CPIN", "CPINR"} -> Ask(GetProperties)

\* set_cpin() with the properties; with two codes, the first unblocks and the second is the new PIN.
set_cpin(c) ==
  IF ~sim.present THEN Return("no-SIM")
  ELSE IF sim.required = "none" THEN Return("invalid")
  ELSE IF c.new # Null THEN Ask([do |-> "ResetPin", type |-> sim.required, code |-> c.code, new |-> c.new])
  ELSE Ask([do |-> "EnterPin", type |-> sim.required, code |-> c.code])

get_cpin == IF sim.present THEN Show(<<ofono_to_code(sim.required)>>) ELSE Return("no-SIM")

\* query_pin()
query_pin(type) == Show(<<IF type \in sim.locked THEN 1 ELSE 0>>)

\* query_pinr(); the pattern is one code or all.
query_pinr(c) ==
  Show(<<{<<ofono_to_code(type), sim.tries[type]>> : type \in
          {t \in DOMAIN sim.tries : c.pattern \in {Null, ofono_to_code(t)}}}>>)

Properties(c) ==
  CASE c.at = "CPIN" /\ c.do = "set" -> set_cpin(c)
    [] c.at = "CPIN" /\ c.do = "get" -> get_cpin
    [] c.at = "CLCK"  -> query_pin(fac_to_ofono(c.fac))
    [] c.at = "CPINR" -> query_pinr(c)

\* "failed" is taken for a wrong code.
Refusal(e) == Return(IF e = "failed" THEN "password" ELSE e)

\* Without the properties.
NoProperties(c) == Return(IF c.at \in {"CLCK", "CPINR"} THEN "failed" ELSE "unknown")

-----------------------------------------------------------------------------
(***************************************************************************)
(* oFono and the SIM.                                                      *)
(***************************************************************************)
\* A password of call barring is the network's: a wrong one costs no try of a code.
Barring == call.do = "ChangePassword"
Right == call.code = IF Barring THEN sim.barring ELSE sim.code[call.type]
Spent == IF Barring THEN {} ELSE {call.type}

\* A call for another code than that required, or one that the SIM does not have.
Malformed ==
  \/ call.do = "EnterPin" /\ ~(call.type = "pin" /\ sim.required = "pin")
  \/ call.do = "ResetPin" /\ ~(call.type = "puk" /\ sim.required = "puk")
  \/ call.do \in {"LockPin", "UnlockPin", "ChangePin"} /\ ~(call.type = "pin" /\ sim.required = "none" /\ sim.present)

Granted ==
  CASE call.do = "EnterPin"  -> [sim EXCEPT !.required = "none", !.tries["pin"] = MaxTries]
    [] call.do = "ResetPin"  -> [sim EXCEPT !.required = "none", !.code["pin"] = call.new,
                                            !.tries = [t \in {"pin", "puk"} |-> MaxTries]]
    [] call.do = "LockPin"   -> [sim EXCEPT !.locked = @ \cup {"pin"}, !.tries["pin"] = MaxTries]
    [] call.do = "UnlockPin" -> [sim EXCEPT !.locked = @ \ {"pin"}, !.tries["pin"] = MaxTries]
    [] call.do = "ChangePin" -> [sim EXCEPT !.code["pin"] = call.new, !.tries["pin"] = MaxTries]
    [] Barring -> [sim EXCEPT !.barring = call.new]

\* The last try blocks the code: the PUK is required, or the SIM is of no more use.
Denied ==
  IF Barring THEN sim
  ELSE LET left == sim.tries[call.type] - 1
       IN  [sim EXCEPT !.tries[call.type] = left,
                       !.required = IF left > 0 THEN @ ELSE IF call.type = "pin" THEN "puk" ELSE "none",
                       !.present = left > 0 \/ call.type = "pin"]

Commands ==
  [at : {"CPIN"}, do : {"set"}, code : Codes, new : Codes \cup {Null}]
  \cup [at : {"CPIN"}, do : {"get"}]
  \cup [at : {"CPINR"}, pattern : Patterns \cup {Null}]
  \cup [at : {"CLCK"}, fac : Facs, mode : 0..3, code : Codes]
  \cup [at : {"CPWD"}, fac : Facs, code : Codes, new : Codes]

Enters == call.do \notin {"none", "GetProperties"}

Give(c) ==
  /\ Start(c)
  /\ Go(Begin(c))
  /\ read' = Null /\ spent' = {} /\ before' = sim
  /\ UNCHANGED sim

Fetched ==
  /\ Replied /\ call.do = "GetProperties"
  /\ Go(Properties(cmd))
  /\ read' = sim.required
  /\ UNCHANGED <<sim, spent, before>>

Accepted ==
  /\ Replied /\ Enters /\ ~Malformed /\ Right
  /\ sim' = Granted
  /\ Go(Return("OK"))
  /\ UNCHANGED <<read, spent, before>>

Wrong ==
  /\ Replied /\ Enters /\ ~Malformed /\ ~Right
  /\ sim' = Denied /\ spent' = spent \cup Spent
  /\ Go(Refusal("failed"))
  /\ UNCHANGED <<read, before>>

\* A code that is malformed, or that a SIM that is not there cannot have, costs nothing;
\* which passwords are well formed is left open.
Rejected ==
  /\ Replied /\ Enters /\ (Malformed \/ Barring)
  /\ Go(Refusal(Error("InvalidFormat")))
  /\ UNCHANGED <<sim, read, spent, before>>

\* The call fails, or is carried out and not answered in time.
Fails ==
  /\ Fault
  /\ \/ UNCHANGED <<sim, spent>>
     \/ Enters /\ ~Malformed
        /\ sim' = (IF Right THEN Granted ELSE Denied)
        /\ spent' = IF Right THEN spent ELSE spent \cup Spent
  /\ Go(IF Enters THEN Refusal("failed") ELSE NoProperties(cmd))
  /\ UNCHANGED <<read, before>>

\* The user takes the SIM out, puts a new one in, or enters the PIN on the telephone.
Change ==
  /\ Other
  /\ \/ sim.present /\ sim' = [sim EXCEPT !.present = FALSE, !.required = "none"]
     \/ ~sim.present /\ sim' = [sim EXCEPT !.present = TRUE, !.required = "pin",
                                            !.tries = [t \in {"pin", "puk"} |-> MaxTries]]
     \/ sim.required = "pin" /\ sim' = [sim EXCEPT !.required = "none", !.tries["pin"] = MaxTries]
  /\ UNCHANGED <<read, spent, before>>

Init ==
  /\ CommandInit
  /\ \E required \in {"none", "pin", "puk", "network"}, pin, puk, barring \in Codes :
       sim = [present |-> TRUE, required |-> required, locked |-> IF required = "none" THEN {} ELSE {"pin"},
              code |-> [pin |-> pin, puk |-> puk], barring |-> barring,
              tries |-> [pin |-> IF required = "puk" THEN 0 ELSE MaxTries, puk |-> MaxTries]]
  /\ read = Null /\ spent = {} /\ before = sim

Next ==
  \/ \E c \in Commands : Give(c)
  \/ Fetched \/ Accepted \/ Wrong \/ Rejected \/ Fails
  \/ Change

Spec == Init /\ [][Next]_vars

-----------------------------------------------------------------------------
Tries(card) == card.tries["pin"] + card.tries["puk"]

OfBarring == cmd.at = "CPWD" /\ cmd.fac = "AB"

\* What OK says of the SIM, and of the password for call barring.
Fulfilled ==
  /\ cmd.at = "CPIN" /\ cmd.do = "set" => sim.required = "none" /\ (cmd.new # Null => sim.code["pin"] = cmd.new)
  /\ cmd.at = "CPIN" /\ cmd.do = "get" => ((shown = <<"READY">>) <=> (sim.required = "none"))
  /\ cmd.at = "CLCK" /\ cmd.mode = 2   => ((shown = <<1>>) <=> (fac_to_ofono(cmd.fac) \in sim.locked))
  /\ cmd.at = "CLCK" /\ cmd.mode # 2   => (("pin" \in sim.locked) <=> (cmd.mode = 1))
  /\ cmd.at = "CPWD" /\ cmd.fac = "SC" => sim.code["pin"] = cmd.new
  /\ OfBarring => sim = [before EXCEPT !.barring = cmd.new]

\* A command costs one try at most, also if its answer is lost, and if it asked which code was
\* required, of that code only. OK means that the SIM, or the network, has done as it was told;
\* "incorrect password" that a try of a code is gone or, when it was the password for call
\* barring, that this was wrong and nothing has changed; any other error that nothing has
\* (sim.c:281-315, 430-441, 531-551).
TriesSpared ==
  /\ \A type, other \in spent : type = other
  /\ read # Null => spent \subseteq {read}
  /\ ~disturbed /\ ~failed /\ Ended =>
       /\ res = "OK" => Fulfilled /\ spent = {}
       /\ res = "password" => IF OfBarring THEN sim = before /\ cmd.code # before.barring
                               ELSE Tries(sim) = Tries(before) - 1
       /\ res \notin {"OK", "password"} => sim = before
=============================================================================
