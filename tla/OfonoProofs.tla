---------------------------- MODULE OfonoProofs ----------------------------
(***************************************************************************)
(* Proofs about the commands of the oFono plug-in: for the codes of the    *)
(* SIM, those that pass a text on, and those that set or ask for settings, *)
(* under the names that Ofono gives their modules.                         *)
(***************************************************************************)
EXTENDS Ofono, Integers, WellFoundedInduction, TLAPS

USE DEF Sim!Idle, Sim!GetProperties, Typed!Idle, Typed!GetProperties
USE DEF Settings!Idle, Settings!GetProperties

-----------------------------------------------------------------------------
(***************************************************************************)
(* OfonoSim, for any codes, facilities and patterns, and any number of     *)
(* commands, changes and faults.                                           *)
(***************************************************************************)
Requirements == {"none", "pin", "puk", "network"}
CodeTypes == {"pin", "puk"}

Cards == [present : BOOLEAN, required : Requirements, locked : SUBSET CodeTypes,
          code : [CodeTypes -> Codes], barring : Codes, tries : [CodeTypes -> Nat]]

\* A code with no tries left is not one that is required, or that can be entered.
HasTries(card) ==
  /\ card.required # "none" => card.present
  /\ card.present => card.tries["puk"] > 0 /\ (card.required = "puk" \/ card.tries["pin"] > 0)

CardOK == sim \in Cards /\ HasTries(sim)

\* The calls with a code, and those of them with a code of the SIM.
EnteringPin == {"EnterPin", "ResetPin", "LockPin", "UnlockPin", "ChangePin"}
Entering == EnteringPin \cup {"ChangePassword"}

\* Codes can be tried.
LEMMA HasAnyTries == MaxTries \in Nat /\ MaxTries > 0
  BY CommandsAssumption DEF Sim!TriesAssumption

LEMMA SimInitOK == ASSUME Sim!Init PROVE CardOK
  BY HasAnyTries DEF Sim!Init, CardOK, Cards, HasTries, Requirements, CodeTypes

\* What oFono does with a right code, and with a wrong one.
LEMMA SimGranted ==
  ASSUME CardOK, ~Sim!Malformed, sim' = Sim!Granted, call.do \in Entering,
         call.do \in {"ResetPin", "ChangePin", "ChangePassword"} => call.new \in Codes
  PROVE CardOK'
<1>a. [sim.tries EXCEPT !["pin"] = MaxTries] \in [CodeTypes -> Nat]
  BY HasAnyTries DEF CardOK, Cards, CodeTypes
<1>b. [t \in {"pin", "puk"} |-> MaxTries] \in [CodeTypes -> Nat]
  BY HasAnyTries DEF CodeTypes
<1>c. call.new \in Codes => [sim.code EXCEPT !["pin"] = call.new] \in [CodeTypes -> Codes]
  BY DEF CardOK, Cards, CodeTypes
<1>. USE DEF Entering, EnteringPin
<1>1. CASE call.do = "EnterPin"
  <2>1. sim' = [sim EXCEPT !.required = "none", !.tries["pin"] = MaxTries]
    BY <1>1 DEF Sim!Granted, Sim!Barring
  <2>2. sim' \in Cards
    BY <2>1, <1>a DEF CardOK, Cards, Requirements, CodeTypes
  <2>3. /\ sim'.tries["pin"] = MaxTries /\ sim'.tries["puk"] = sim.tries["puk"]
        /\ sim'.present = sim.present /\ sim'.required = "none"
    BY <2>1 DEF CardOK, Cards, CodeTypes
  <2>. QED
    BY <2>2, <2>3, <1>1, HasAnyTries DEF CardOK, HasTries, Sim!Malformed
<1>2. CASE call.do = "ResetPin"
  <2>1. sim' = [sim EXCEPT !.required = "none", !.code["pin"] = call.new,
                     !.tries = [t \in {"pin", "puk"} |-> MaxTries]]
    BY <1>2 DEF Sim!Granted, Sim!Barring
  <2>2. sim' \in Cards
    BY <1>2, <1>b, <1>c, <2>1, <1>a DEF CardOK, Cards, Requirements, CodeTypes
  <2>3. /\ sim'.tries["pin"] = MaxTries /\ sim'.tries["puk"] = MaxTries
        /\ sim'.present = sim.present /\ sim'.required = "none"
    BY <2>1 DEF CardOK, Cards, CodeTypes
  <2>. QED
    BY <2>2, <2>3, <1>2, HasAnyTries DEF CardOK, HasTries, Sim!Malformed
<1>3. CASE call.do = "LockPin"
  <2>1. sim' = [sim EXCEPT !.locked = @ \cup {"pin"}, !.tries["pin"] = MaxTries]
    BY <1>3 DEF Sim!Granted, Sim!Barring
  <2>2. sim' \in Cards
    <3>. DEFINE locked == sim.locked \cup {"pin"}
                tries == [sim.tries EXCEPT !["pin"] = MaxTries]
    <3>1. locked \in SUBSET CodeTypes
      BY DEF CardOK, Cards, CodeTypes
    <3>2. tries \in [CodeTypes -> Nat]
      BY <1>a DEF CardOK, Cards
    <3>3. sim' = [sim EXCEPT !.locked = locked, !.tries = tries]
      BY <2>1
    <3>. HIDE DEF locked, tries
    <3>. QED
      BY <3>1, <3>2, <3>3 DEF CardOK, Cards
  <2>3. /\ sim'.tries["pin"] = MaxTries /\ sim'.tries["puk"] = sim.tries["puk"]
        /\ sim'.present = sim.present /\ sim'.required = sim.required
    BY <2>1 DEF CardOK, Cards, CodeTypes
  <2>. QED
    BY <2>2, <2>3, <1>3, HasAnyTries DEF CardOK, HasTries, Sim!Malformed
<1>4. CASE call.do = "UnlockPin"
  <2>1. sim' = [sim EXCEPT !.locked = @ \ {"pin"}, !.tries["pin"] = MaxTries]
    BY <1>4 DEF Sim!Granted, Sim!Barring
  <2>2. sim' \in Cards
    <3>. DEFINE locked == sim.locked \ {"pin"}
                tries == [sim.tries EXCEPT !["pin"] = MaxTries]
    <3>1. locked \in SUBSET CodeTypes /\ tries \in [CodeTypes -> Nat]
      BY <1>a DEF CardOK, Cards
    <3>2. sim' = [sim EXCEPT !.locked = locked, !.tries = tries]
      BY <2>1
    <3>. HIDE DEF locked, tries
    <3>. QED
      BY <3>1, <3>2 DEF CardOK, Cards
  <2>3. /\ sim'.tries["pin"] = MaxTries /\ sim'.tries["puk"] = sim.tries["puk"]
        /\ sim'.present = sim.present /\ sim'.required = sim.required
    BY <2>1 DEF CardOK, Cards, CodeTypes
  <2>. QED
    BY <2>2, <2>3, <1>4, HasAnyTries DEF CardOK, HasTries, Sim!Malformed
<1>5. CASE call.do = "ChangePin"
  <2>1. sim' = [sim EXCEPT !.code["pin"] = call.new, !.tries["pin"] = MaxTries]
    BY <1>5 DEF Sim!Granted, Sim!Barring
  <2>2. sim' \in Cards
    BY <1>5, <1>c, <2>1, <1>a DEF CardOK, Cards, Requirements, CodeTypes
  <2>3. /\ sim'.tries["pin"] = MaxTries /\ sim'.tries["puk"] = sim.tries["puk"]
        /\ sim'.present = sim.present /\ sim'.required = sim.required
    BY <2>1 DEF CardOK, Cards, CodeTypes
  <2>. QED
    BY <2>2, <2>3, <1>5, HasAnyTries DEF CardOK, HasTries, Sim!Malformed
<1>6. CASE call.do = "ChangePassword"
  <2>1. sim' = [sim EXCEPT !.barring = call.new]
    BY <1>6 DEF Sim!Granted, Sim!Barring
  <2>. QED
    BY <1>6, <2>1 DEF CardOK, Cards, HasTries
<1>. QED
  BY <1>1, <1>2, <1>3, <1>4, <1>5, <1>6

LEMMA SimDenied ==
  ASSUME CardOK, Sim!Enters, ~Sim!Malformed, sim' = Sim!Denied,
         call.do \in EnteringPin
  PROVE  CardOK'
<1>. USE DEF EnteringPin
<1>. DEFINE left == sim.tries[call.type] - 1
<1>1. /\ call.type \in CodeTypes /\ sim.present
      /\ call.type = "puk" => sim.required = "puk"
      /\ call.type = "pin" => sim.required \in {"none", "pin"}
  BY DEF Sim!Malformed, CardOK, HasTries, CodeTypes
<1>2. left \in Nat
  BY <1>1 DEF CardOK, HasTries, Cards, CodeTypes
<1>3. PICK required \in Requirements :
        required = IF left > 0 THEN sim.required ELSE IF call.type = "pin" THEN "puk" ELSE "none"
  BY DEF CardOK, Cards, Requirements
<1>4. PICK present \in BOOLEAN : present <=> left > 0 \/ call.type = "pin"
  OBVIOUS
<1>5. [sim.tries EXCEPT ![call.type] = left] \in [CodeTypes -> Nat]
  BY <1>1, <1>2 DEF CardOK, Cards
<1>6. sim' = [sim EXCEPT !.tries = [sim.tries EXCEPT ![call.type] = left], !.required = required, !.present = present]
  BY <1>3, <1>4 DEF Sim!Denied, Sim!Barring
<1>. HIDE DEF left
<1>7. sim' \in Cards
  BY <1>5, <1>6 DEF CardOK, Cards
<1>8. /\ sim'.required = required /\ sim'.present = present
      /\ sim'.tries[call.type] = left
      /\ \A t \in CodeTypes \ {call.type} : sim'.tries[t] = sim.tries[t]
  BY <1>1, <1>6 DEF CardOK, Cards
<1>. QED
  BY <1>1, <1>2, <1>3, <1>4, <1>7, <1>8 DEF CardOK, HasTries, CodeTypes

\* What others do to the card.
LEMMA SimChange ==
  ASSUME CardOK, Sim!Change
  PROVE CardOK'
<1>1. CASE sim' = [sim EXCEPT !.present = FALSE, !.required = "none"]
  BY <1>1 DEF CardOK, Cards, HasTries, Requirements
<1>2. CASE sim' = [sim EXCEPT !.present = TRUE, !.required = "pin",
                              !.tries = [t \in {"pin", "puk"} |-> MaxTries]]
  <2>1. [t \in {"pin", "puk"} |-> MaxTries] \in [CodeTypes -> Nat]
    BY HasAnyTries DEF CodeTypes
  <2>2. sim' \in Cards
    BY <1>2, <2>1 DEF CardOK, Cards, Requirements
  <2>3. sim'.present /\ sim'.tries["pin"] = MaxTries /\ sim'.tries["puk"] = MaxTries
    BY <1>2 DEF CardOK, Cards
  <2>. QED
    BY <2>2, <2>3, HasAnyTries DEF CardOK, HasTries
<1>3. CASE sim.required = "pin" /\ sim' = [sim EXCEPT !.required = "none", !.tries["pin"] = MaxTries]
  <2>1. [sim.tries EXCEPT !["pin"] = MaxTries] \in [CodeTypes -> Nat]
    BY HasAnyTries DEF CardOK, Cards, CodeTypes
  <2>2. sim' \in Cards
    BY <1>3, <2>1 DEF CardOK, Cards, Requirements
  <2>3. /\ sim'.tries["pin"] = MaxTries /\ sim'.tries["puk"] = sim.tries["puk"]
        /\ sim'.present = sim.present /\ sim'.required = "none"
    BY <1>3 DEF CardOK, Cards, CodeTypes
  <2>. QED
    BY <1>3, <2>2, <2>3, HasAnyTries DEF CardOK, HasTries
<1>. QED
  BY <1>1, <1>2, <1>3 DEF Sim!Change

\* What a command has to ask of oFono, now that it knows which code is required, or before.
SimAsks ==
  \/ /\ cmd.at \in {"CPIN", "CPINR"} \/ (cmd.at = "CLCK" /\ cmd.mode = 2)
     /\ call = Sim!GetProperties
  \/ /\ cmd.at = "CPIN" /\ cmd.do = "set" /\ cmd.new = Null
     /\ call = [do |-> "EnterPin", type |-> read, code |-> cmd.code]
  \/ /\ cmd.at = "CPIN" /\ cmd.do = "set" /\ cmd.new # Null
     /\ call = [do |-> "ResetPin", type |-> read, code |-> cmd.code, new |-> cmd.new]
  \/ /\ cmd.at = "CLCK" /\ cmd.mode \in 0..1 /\ read = Null
     /\ call = [do |-> IF cmd.mode = 1 THEN "LockPin" ELSE "UnlockPin",
                type |-> Sim!fac_to_ofono(cmd.fac), code |-> cmd.code]
  \/ /\ cmd.at = "CPWD" /\ Sim!IsFacility(cmd.fac) /\ read = Null
     /\ call = [do |-> "ChangePin", type |-> Sim!fac_to_ofono(cmd.fac), code |-> cmd.code, new |-> cmd.new]
  \/ /\ cmd.at = "CPWD" /\ cmd.fac = "AB" /\ read = Null
     /\ call = [do |-> "ChangePassword", code |-> cmd.code, new |-> cmd.new]

CountOK == count \in [commands : Nat, changes : Nat, faults : Nat]

\* While a command is waiting, it has cost nothing, and the card is as it was but for others.
SimInv ==
  /\ CardOK /\ CountOK
  /\ call # Sim!Idle \/ count.commands > 0 => cmd \in Sim!Commands
  /\ call # Sim!Idle => SimAsks /\ spent = {} /\ (~disturbed => sim = before)
  /\ Sim!TriesSpared

\* "READY" is the answer when no code is required.
LEMMA ReadyMeansNone ==
  ASSUME NEW name \in Requirements
  PROVE  (Sim!ofono_to_code(name) = "READY") <=> (name = "none")
<1>. DEFINE pin == CHOOSE p \in Sim!pins : p[3] = name
<1>1. \E p \in Sim!pins : p[3] = name
  BY DEF Sim!pins, Requirements
<1>2. pin \in Sim!pins /\ pin[3] = name
  BY <1>1
<1>3. Sim!ofono_to_code(name) = pin[2]
  BY DEF Sim!ofono_to_code
<1>4. \A p \in Sim!pins : (p[2] = "READY") <=> (p[3] = "none")
  BY DEF Sim!pins
<1>. QED
  BY <1>2, <1>3, <1>4

\* A handler that returns is not waiting.
LEMMA SimReturns ==
  ASSUME NEW e, Sim!Go(Sim!Return(e))
  PROVE  call' = Sim!Idle /\ res' = e
  BY DEF Sim!Go, Sim!Return

\* A new command asks for what it has to ask, or returns at once.
LEMMA SimGiveKeeps ==
  ASSUME SimInv, NEW c \in Sim!Commands, Sim!Give(c)
  PROVE  SimInv'
<1>1. /\ cmd' = c /\ ~disturbed' /\ read' = Null /\ spent' = {} /\ before' = sim /\ sim' = sim
      /\ count' = [count EXCEPT !.commands = @ + 1]
      /\ Sim!Go(Sim!Begin(c))
  BY DEF Sim!Give, Sim!Start
<1>2. CountOK' /\ CardOK'
  BY <1>1 DEF SimInv, CountOK, CardOK, HasTries
<1>3. \/ call' = Sim!Idle /\ res' \notin {"OK", "password"}
      \/ call' # Sim!Idle /\ SimAsks'
  <2>1. CASE c.at \in {"CPIN", "CPINR"}
    BY <1>1, <2>1 DEF Sim!Begin, Sim!Go, Sim!Ask, SimAsks
  <2>2. CASE c.at = "CLCK"
    <3>1. c.mode \in 0..3
      BY <2>2 DEF Sim!Commands
    <3>2. Sim!Begin(c) = Sim!set_clck(c)
      BY <2>2 DEF Sim!Begin
    <3>3. CASE c.mode > 2 \/ ~Sim!IsFacility(c.fac)
      <4>1. PICK e \in {"invalid", "unsupported"} : Sim!Begin(c) = Sim!Return(e)
        BY <3>2, <3>3 DEF Sim!set_clck
      <4>. QED
        BY <1>1, <4>1, SimReturns
    <3>4. CASE c.mode = 2 /\ Sim!IsFacility(c.fac)
      BY <1>1, <2>2, <3>2, <3>4 DEF Sim!set_clck, Sim!Go, Sim!Ask, SimAsks
    <3>5. CASE c.mode \in 0..1 /\ Sim!IsFacility(c.fac)
      <4>1. Sim!Begin(c) = Sim!lock_pin(Sim!fac_to_ofono(c.fac), c.code, c.mode = 1)
        BY <3>2, <3>5 DEF Sim!set_clck
      <4>2. call' = [do |-> IF c.mode = 1 THEN "LockPin" ELSE "UnlockPin",
                     type |-> Sim!fac_to_ofono(c.fac), code |-> c.code]
        BY <1>1, <4>1 DEF Sim!lock_pin, Sim!Go, Sim!Ask
      <4>3. SimAsks'
        BY <1>1, <2>2, <3>5, <4>2 DEF SimAsks
      <4>. QED
        BY <4>2, <4>3
    <3>. QED
      BY <3>1, <3>3, <3>4, <3>5
  <2>3. CASE c.at = "CPWD"
    <3>1. Sim!Begin(c) = Sim!set_cpwd(c)
      BY <2>3 DEF Sim!Begin
    <3>2. CASE Sim!IsFacility(c.fac)
      <4>1. call' = [do |-> "ChangePin", type |-> Sim!fac_to_ofono(c.fac), code |-> c.code, new |-> c.new]
        BY <1>1, <3>1, <3>2 DEF Sim!set_cpwd, Sim!Go, Sim!Ask
      <4>. QED
        BY <1>1, <2>3, <3>2, <4>1 DEF SimAsks
    <3>3. CASE ~Sim!IsFacility(c.fac) /\ c.fac = "AB"
      <4>1. call' = [do |-> "ChangePassword", code |-> c.code, new |-> c.new]
        BY <1>1, <3>1, <3>3 DEF Sim!set_cpwd, Sim!Go, Sim!Ask
      <4>. QED
        BY <1>1, <2>3, <3>3, <4>1 DEF SimAsks
    <3>4. CASE ~Sim!IsFacility(c.fac) /\ c.fac # "AB"
      <4>1. Sim!Begin(c) = Sim!Return("unsupported")
        BY <3>1, <3>4 DEF Sim!set_cpwd
      <4>. QED
        BY <1>1, <4>1, SimReturns
    <3>. QED
      BY <3>2, <3>3, <3>4
  <2>. QED
    BY <2>1, <2>2, <2>3 DEF Sim!Commands
<1>4. Sim!TriesSpared'
  BY <1>1, <1>3 DEF Sim!TriesSpared, Sim!Ended
<1>. QED
  BY <1>1, <1>2, <1>3, <1>4 DEF SimInv

\* What the properties lead to.
LEMMA SimFetchedKeeps ==
  ASSUME SimInv, Sim!Fetched
  PROVE  SimInv'
<1>1. /\ UNCHANGED <<cmd, disturbed, call_failed, count, sim, spent, before>>
      /\ call = Sim!GetProperties /\ read' = sim.required
      /\ Sim!Go(Sim!Properties(cmd))
  <2>1. SimAsks /\ call.do = "GetProperties"
    BY DEF Sim!Fetched, Sim!Replied, SimInv
  <2>2. call = Sim!GetProperties
    BY <2>1 DEF SimAsks
  <2>. QED
    BY <2>2 DEF Sim!Fetched, Sim!Replied
<1>2. /\ CardOK /\ CountOK /\ cmd \in Sim!Commands /\ spent = {} /\ (~disturbed => sim = before)
      /\ cmd.at \in {"CPIN", "CPINR"} \/ (cmd.at = "CLCK" /\ cmd.mode = 2)
  BY <1>1 DEF SimInv, SimAsks
<1>3. CountOK' /\ CardOK'
  BY <1>1, <1>2 DEF CountOK, CardOK, HasTries
<1>4. \/ call' = Sim!Idle /\ res' \notin {"OK", "password"}
      \/ call' = Sim!Idle /\ res' = "OK" /\ Sim!Fulfilled'
      \/ call' # Sim!Idle /\ SimAsks'
  <2>1. CASE cmd.at = "CPIN" /\ cmd.do = "set"
    <3>1. Sim!Properties(cmd) = Sim!set_cpin(cmd)
      BY <2>1 DEF Sim!Properties
    <3>2. CASE ~sim.present \/ sim.required = "none"
      <4>1. PICK e \in {"no-SIM", "invalid"} : Sim!Properties(cmd) = Sim!Return(e)
        BY <3>1, <3>2 DEF Sim!set_cpin
      <4>. QED
        BY <1>1, <4>1, SimReturns
    <3>3. CASE sim.present /\ sim.required # "none" /\ cmd.new # Null
      <4>1. call' = [do |-> "ResetPin", type |-> sim.required, code |-> cmd.code, new |-> cmd.new]
        BY <1>1, <3>1, <3>3 DEF Sim!set_cpin, Sim!Go, Sim!Ask
      <4>. QED
        BY <1>1, <2>1, <3>3, <4>1 DEF SimAsks
    <3>4. CASE sim.present /\ sim.required # "none" /\ cmd.new = Null
      <4>1. call' = [do |-> "EnterPin", type |-> sim.required, code |-> cmd.code]
        BY <1>1, <3>1, <3>4 DEF Sim!set_cpin, Sim!Go, Sim!Ask
      <4>. QED
        BY <1>1, <2>1, <3>4, <4>1 DEF SimAsks
    <3>. QED
      BY <3>2, <3>3, <3>4
  <2>2. CASE cmd.at = "CPIN" /\ cmd.do = "get"
    <3>1. Sim!Properties(cmd) = Sim!get_cpin
      BY <2>2 DEF Sim!Properties
    <3>2. CASE ~sim.present
      <4>1. Sim!Properties(cmd) = Sim!Return("no-SIM")
        BY <3>1, <3>2 DEF Sim!get_cpin
      <4>. QED
        BY <1>1, <4>1, SimReturns
    <3>3. CASE sim.present
      <4>1. call' = Sim!Idle /\ res' = "OK" /\ shown' = <<Sim!ofono_to_code(sim.required)>>
        BY <1>1, <3>1, <3>3 DEF Sim!get_cpin, Sim!Go, Sim!Show
      <4>2. (Sim!ofono_to_code(sim.required) = "READY") <=> (sim.required = "none")
        BY <1>2, ReadyMeansNone DEF CardOK, Cards
      <4>3. (shown' = <<"READY">>) <=> (sim.required = "none")
        BY <4>1, <4>2
      <4>. QED
        BY <1>1, <2>2, <4>1, <4>3 DEF Sim!Fulfilled, Sim!OfBarring
    <3>. QED
      BY <3>2, <3>3
  <2>3. CASE cmd.at = "CLCK" /\ cmd.mode = 2
    <3>1. call' = Sim!Idle /\ res' = "OK"
          /\ shown' = <<IF Sim!fac_to_ofono(cmd.fac) \in sim.locked THEN 1 ELSE 0>>
      BY <1>1, <2>3 DEF Sim!Properties, Sim!query_pin, Sim!Go, Sim!Show
    <3>2. (shown' = <<1>>) <=> Sim!fac_to_ofono(cmd.fac) \in sim.locked
      BY <3>1
    <3>. QED
      BY <1>1, <2>3, <3>1, <3>2 DEF Sim!Fulfilled, Sim!OfBarring
  <2>4. CASE cmd.at = "CPINR"
    <3>1. call' = Sim!Idle /\ res' = "OK"
      BY <1>1, <2>4 DEF Sim!Properties, Sim!query_pinr, Sim!Go, Sim!Show
    <3>. QED
      BY <1>1, <2>4, <3>1 DEF Sim!Fulfilled, Sim!OfBarring
  <2>. QED
    BY <1>2, <2>1, <2>2, <2>3, <2>4 DEF Sim!Commands
<1>5. Sim!TriesSpared'
  BY <1>1, <1>2, <1>4 DEF Sim!TriesSpared, Sim!Ended
<1>. QED
  BY <1>1, <1>2, <1>3, <1>4, <1>5 DEF SimInv

\* A call of a command that enters a code, with the codes that it has been given.
LEMMA SimCallEnters ==
  ASSUME SimInv, call # Sim!Idle, call.do # "GetProperties"
  PROVE  /\ call.do \in {"ResetPin", "ChangePin", "ChangePassword"} => call.new \in Codes
         /\ call.do \in Entering
         /\ read # Null => call.type = read
         /\ Sim!Barring <=> Sim!OfBarring
         /\ Sim!Barring => call.code = cmd.code /\ call.new = cmd.new
<1>. USE DEF Entering, EnteringPin, Sim!Barring, Sim!OfBarring
<1>1. SimAsks /\ cmd \in Sim!Commands
  BY DEF SimInv
<1>2. CASE cmd.at = "CPIN"
  BY <1>1, <1>2 DEF SimAsks, Sim!Commands
<1>3. CASE cmd.at = "CLCK"
  BY <1>1, <1>3 DEF SimAsks
<1>4. CASE cmd.at = "CPWD" /\ Sim!IsFacility(cmd.fac)
  <2>1. cmd.fac # "AB"
    BY <1>4 DEF Sim!IsFacility, Sim!pins
  <2>. QED
    BY <1>1, <1>4, <2>1 DEF SimAsks, Sim!Commands
<1>5. CASE cmd.at = "CPWD" /\ ~Sim!IsFacility(cmd.fac)
  BY <1>1, <1>5 DEF SimAsks, Sim!Commands
<1>. QED
  BY <1>1, <1>2, <1>3, <1>4, <1>5 DEF SimAsks

\* The ends of a command.
LEMMA SimAcceptedKeeps ==
  ASSUME SimInv, Sim!Accepted
  PROVE  SimInv'
<1>1. /\ UNCHANGED <<cmd, disturbed, call_failed, count, read, spent, before>>
      /\ call # Sim!Idle /\ call.do # "GetProperties" /\ ~Sim!Malformed /\ sim' = Sim!Granted
      /\ Sim!Go(Sim!Return("OK"))
  BY DEF Sim!Accepted, Sim!Replied, Sim!Enters
<1>2. SimAsks /\ CardOK /\ CountOK /\ cmd \in Sim!Commands /\ spent = {}
  BY <1>1 DEF SimInv
<1>3. call' = Sim!Idle /\ res' = "OK"
  BY <1>1 DEF Sim!Go, Sim!Return
<1>4. CountOK' /\ CardOK'
  BY <1>1, <1>2, SimCallEnters, SimGranted DEF CountOK
<1>5. ~disturbed => Sim!Fulfilled'
  <2>. USE DEF Sim!OfBarring
  <2>1. CASE cmd.at = "CPIN" /\ call.do = "EnterPin"
    <3>1. cmd.do = "set" /\ cmd.new = Null
      BY <1>1, <1>2, <2>1 DEF SimAsks
    <3>2. sim'.required = "none"
      BY <1>1, <1>2, <2>1 DEF Sim!Granted, Sim!Barring, CardOK, Cards
    <3>. QED
      BY <1>1, <2>1, <3>1, <3>2 DEF Sim!Fulfilled
  <2>2. CASE cmd.at = "CPIN" /\ call.do = "ResetPin"
    <3>1. cmd.do = "set" /\ call.new = cmd.new
      BY <1>1, <1>2, <2>2 DEF SimAsks
    <3>2. sim'.required = "none" /\ sim'.code["pin"] = call.new
      BY <1>1, <1>2, <2>2 DEF Sim!Granted, Sim!Barring, CardOK, Cards, CodeTypes
    <3>. QED
      BY <1>1, <2>2, <3>1, <3>2 DEF Sim!Fulfilled
  <2>3. CASE cmd.at = "CLCK" /\ cmd.mode = 1
    <3>1. call.do = "LockPin"
      BY <1>1, <1>2, <2>3 DEF SimAsks
    <3>2. "pin" \in sim'.locked
      BY <1>1, <1>2, <3>1 DEF Sim!Granted, Sim!Barring, CardOK, Cards, CodeTypes
    <3>. QED
      BY <1>1, <2>3, <3>2 DEF Sim!Fulfilled
  <2>4. CASE cmd.at = "CLCK" /\ cmd.mode # 1
    <3>1. call.do = "UnlockPin" /\ cmd.mode = 0
      BY <1>1, <1>2, <2>4 DEF SimAsks
    <3>2. "pin" \notin sim'.locked
      BY <1>1, <1>2, <3>1 DEF Sim!Granted, Sim!Barring, CardOK, Cards, CodeTypes
    <3>. QED
      BY <1>1, <2>4, <3>1, <3>2 DEF Sim!Fulfilled
  <2>5. CASE cmd.at = "CPWD" /\ cmd.fac = "SC"
    <3>1. call.do = "ChangePin" /\ call.new = cmd.new
      BY <1>1, <1>2, <2>5 DEF SimAsks
    <3>2. sim'.code["pin"] = call.new
      BY <1>1, <1>2, <3>1 DEF Sim!Granted, Sim!Barring, CardOK, Cards, CodeTypes
    <3>. QED
      BY <1>1, <2>5, <3>1, <3>2 DEF Sim!Fulfilled
  <2>6. CASE cmd.at = "CPWD" /\ cmd.fac = "AB"
    <3>1. call.do = "ChangePassword" /\ call.new = cmd.new
      BY <1>1, <2>6, SimCallEnters DEF Sim!OfBarring, Sim!Barring
    <3>2. ~disturbed => sim' = [before EXCEPT !.barring = cmd.new]
      BY <1>1, <3>1 DEF Sim!Granted, Sim!Barring, SimInv
    <3>. QED
      BY <1>1, <2>6, <3>2 DEF Sim!Fulfilled
  <2>7. CASE cmd.at = "CPWD" /\ cmd.fac \notin {"SC", "AB"}
    BY <1>1, <2>7 DEF Sim!Fulfilled, Sim!OfBarring
  <2>. QED
    BY <1>1, <1>2, <2>1, <2>2, <2>3, <2>4, <2>5, <2>6, <2>7 DEF SimAsks
<1>6. Sim!TriesSpared'
  BY <1>1, <1>2, <1>3, <1>5 DEF Sim!TriesSpared
<1>. QED
  BY <1>1, <1>2, <1>3, <1>4, <1>6 DEF SimInv

LEMMA SimWrongKeeps ==
  ASSUME SimInv, Sim!Wrong
  PROVE  SimInv'
<1>1. /\ UNCHANGED <<cmd, disturbed, call_failed, count, read, before>>
      /\ call # Sim!Idle /\ call.do # "GetProperties" /\ ~Sim!Right
      /\ ~Sim!Malformed /\ Sim!Enters /\ sim' = Sim!Denied /\ spent' = spent \cup Sim!Spent
      /\ Sim!Go(Sim!Refusal("failed"))
  BY DEF Sim!Wrong, Sim!Replied, Sim!Enters
<1>2. CardOK /\ CountOK /\ cmd \in Sim!Commands /\ spent = {} /\ (~disturbed => sim = before)
  BY <1>1 DEF SimInv
<1>3. call' = Sim!Idle /\ res' = "password"
  BY <1>1 DEF Sim!Go, Sim!Refusal, Sim!Return
<1>4. /\ call.do \in Entering /\ (read # Null => call.type = read)
      /\ Sim!Barring <=> Sim!OfBarring
      /\ Sim!Barring => call.code = cmd.code
  BY <1>1, SimCallEnters
<1>5. CASE Sim!Barring
  <2>1. sim' = sim /\ spent' = {} /\ cmd.code # sim.barring
    BY <1>1, <1>2, <1>4, <1>5 DEF Sim!Denied, Sim!Spent, Sim!Right
  <2>2. CountOK' /\ CardOK'
    BY <1>1, <1>2, <2>1 DEF CountOK, CardOK, HasTries
  <2>3. Sim!TriesSpared'
    BY <1>1, <1>2, <1>3, <1>4, <1>5, <2>1 DEF Sim!TriesSpared, Sim!OfBarring
  <2>. QED
    BY <1>1, <1>2, <1>3, <2>2, <2>3 DEF SimInv
<1>6. CASE ~Sim!Barring
  <2>1. call.do \in EnteringPin /\ spent' = {call.type}
    BY <1>1, <1>2, <1>4, <1>6 DEF Entering, Sim!Barring, Sim!Spent
  <2>2. CountOK' /\ CardOK'
    BY <1>1, <1>2, <2>1, SimDenied DEF CountOK
  <2>3. Sim!Tries(sim') = Sim!Tries(sim) - 1
    <3>1. call.type \in CodeTypes
      BY <1>1, <2>1 DEF Sim!Malformed, CodeTypes, EnteringPin
    <3>2. sim'.tries = [sim.tries EXCEPT ![call.type] = @ - 1]
      BY <1>1, <1>2, <1>6, <3>1 DEF Sim!Denied, CardOK, Cards
    <3>3. sim.tries \in [CodeTypes -> Nat]
      BY <1>2 DEF CardOK, Cards
    <3>. QED
      BY <3>1, <3>2, <3>3 DEF Sim!Tries, CodeTypes
  <2>4. Sim!TriesSpared'
    BY <1>1, <1>2, <1>3, <1>4, <1>6, <2>1, <2>3 DEF Sim!TriesSpared, Sim!OfBarring
  <2>. QED
    BY <1>1, <1>2, <1>3, <2>2, <2>4 DEF SimInv
<1>. QED
  BY <1>5, <1>6

LEMMA SimRejectedKeeps ==
  ASSUME SimInv, Sim!Rejected
  PROVE  SimInv'
<1>1. /\ UNCHANGED <<cmd, disturbed, call_failed, count, sim, read, spent, before>>
      /\ call # Sim!Idle /\ Sim!Go(Sim!Refusal("format"))
  BY DEF Sim!Rejected, Sim!Replied, Sim!Error
<1>2. CardOK /\ CountOK /\ cmd \in Sim!Commands /\ spent = {} /\ (~disturbed => sim = before)
  BY <1>1 DEF SimInv
<1>3. call' = Sim!Idle /\ res' = "format"
  BY <1>1 DEF Sim!Go, Sim!Refusal, Sim!Return
<1>4. CountOK' /\ CardOK'
  BY <1>1, <1>2 DEF CountOK, CardOK, HasTries
<1>5. Sim!TriesSpared'
  BY <1>1, <1>2, <1>3 DEF Sim!TriesSpared
<1>. QED
  BY <1>1, <1>2, <1>3, <1>4, <1>5 DEF SimInv

LEMMA SimFailsKeeps ==
  ASSUME SimInv, Sim!Fails
  PROVE  SimInv'
<1>1. /\ UNCHANGED <<cmd, disturbed, read, before>> /\ call_failed' = TRUE
      /\ call # Sim!Idle /\ count' = [count EXCEPT !.faults = @ + 1]
      /\ Sim!Go(IF Sim!Enters THEN Sim!Refusal("failed") ELSE Sim!NoProperties(cmd))
  BY DEF Sim!Fails, Sim!Fault
<1>2. CardOK /\ CountOK /\ cmd \in Sim!Commands /\ spent = {} /\ SimAsks
  BY <1>1 DEF SimInv
<1>3. call' = Sim!Idle
  BY <1>1 DEF Sim!Go, Sim!Refusal, Sim!NoProperties, Sim!Return
<1>4. CountOK'
  BY <1>1, <1>2 DEF CountOK
<1>5. CASE UNCHANGED <<sim, spent>>
  <2>1. CardOK'
    BY <1>2, <1>5 DEF CardOK, HasTries
  <2>2. Sim!TriesSpared'
    BY <1>1, <1>2, <1>5 DEF Sim!TriesSpared
  <2>. QED
    BY <1>1, <1>2, <1>3, <1>4, <2>1, <2>2 DEF SimInv
<1>6. CASE /\ Sim!Enters /\ ~Sim!Malformed
           /\ sim' = (IF Sim!Right THEN Sim!Granted ELSE Sim!Denied)
           /\ spent' = IF Sim!Right THEN spent ELSE spent \cup Sim!Spent
  <2>1. /\ call.do \in {"ResetPin", "ChangePin", "ChangePassword"} => call.new \in Codes
        /\ call.do \in Entering
        /\ read # Null => call.type = read
    BY <1>1, <1>6, SimCallEnters DEF Sim!Enters
  <2>2. CardOK'
    <3>1. CASE sim' = Sim!Granted
      BY <1>2, <1>6, <2>1, <3>1, SimGranted
    <3>2. CASE sim' = Sim!Denied /\ Sim!Barring
      BY <1>2, <3>2 DEF Sim!Denied, CardOK, HasTries
    <3>3. CASE sim' = Sim!Denied /\ ~Sim!Barring
      BY <1>2, <1>6, <2>1, <3>3, SimDenied DEF Entering, Sim!Barring
    <3>. QED
      BY <1>6, <3>1, <3>2, <3>3
  <2>3. Sim!TriesSpared'
    BY <1>1, <1>2, <1>6, <2>1 DEF Sim!TriesSpared, Sim!Spent
  <2>. QED
    BY <1>1, <1>2, <1>3, <1>4, <2>2, <2>3 DEF SimInv
<1>. QED
  BY <1>5, <1>6 DEF Sim!Fails

\* After a change by others, nothing is said of how the command ends.
LEMMA SimChangeKeeps ==
  ASSUME SimInv, Sim!Change
  PROVE  SimInv'
<1>1. /\ UNCHANGED <<cmd, call, res, shown, call_failed, read, spent, before>> /\ disturbed' = TRUE
      /\ count' = [count EXCEPT !.changes = @ + 1]
  BY DEF Sim!Change, Sim!Other
<1>2. CardOK'
  BY SimChange DEF SimInv
<1>3. CountOK' /\ count'.commands = count.commands
  BY <1>1 DEF SimInv, CountOK
<1>4. Sim!TriesSpared'
  BY <1>1 DEF SimInv, Sim!TriesSpared
<1>5. SimAsks => SimAsks'
  BY <1>1 DEF SimAsks
<1>. QED
  BY <1>1, <1>2, <1>3, <1>4, <1>5 DEF SimInv

LEMMA SimInitial ==
  ASSUME Sim!Init
  PROVE  SimInv
<1>1. call = Sim!Idle /\ count = [commands |-> 0, changes |-> 0, faults |-> 0] /\ spent = {}
  BY DEF Sim!Init, Sim!CommandInit
<1>2. CountOK /\ count.commands = 0
  BY <1>1 DEF CountOK
<1>3. Sim!TriesSpared
  BY <1>1, <1>2 DEF Sim!TriesSpared, Sim!Ended
<1>. QED
  BY <1>1, <1>2, <1>3, SimInitOK DEF SimInv

LEMMA SimKeeps ==
  ASSUME SimInv, [Sim!Next]_(Sim!vars)
  PROVE  SimInv'
<1>1. CASE UNCHANGED Sim!vars
  <2>1. UNCHANGED <<cmd, call, res, shown, disturbed, call_failed, count, sim, read, spent, before>>
    BY <1>1 DEF Sim!vars, Sim!commandVars
  <2>. QED
    BY <2>1 DEF SimInv, CardOK, HasTries, CountOK, SimAsks, Sim!TriesSpared, Sim!Ended, Sim!Fulfilled, Sim!OfBarring
<1>. QED
  BY <1>1, SimGiveKeeps, SimFetchedKeeps, SimAcceptedKeeps, SimWrongKeeps,
      SimRejectedKeeps, SimFailsKeeps, SimChangeKeeps
  DEF Sim!Next

\* A command for a code costs at most one try, of the code that it found to be required. OK means
\* that the SIM, or the network, has done as it was told; "incorrect password" that a try is gone
\* or, of the password for call barring, that it was wrong and nothing has changed; any other error
\* that nothing has (sim.c:259-318, 430-555).
THEOREM CodesAreSpared == AllSpec => []TriesSpared
<1>1. AllInit => (kind = "sim" => SimInv)
  BY SimInitial DEF AllInit
<1>2. (kind = "sim" => SimInv) /\ [AllNext]_allVars => (kind = "sim" => SimInv)'
  <2>. SUFFICES ASSUME kind = "sim" => SimInv, [AllNext]_allVars, kind' = "sim"
                PROVE  SimInv'
    OBVIOUS
  <2>1. kind = "sim" /\ [Sim!Next]_(Sim!vars)
    BY DEF AllNext, allVars, Sim!vars, Sim!commandVars, callVars, simVars
  <2>. QED
    BY <2>1, SimKeeps
<1>3. (kind = "sim" => SimInv) => TriesSpared
  BY DEF SimInv, TriesSpared
<1>. QED
  BY <1>1, <1>2, <1>3, PTL DEF AllSpec

-----------------------------------------------------------------------------
(***************************************************************************)
(* OfonoTexts, for any texts, numbers, PDUs and tones, any lengths, and    *)
(* any number of commands, changes and faults.                             *)
(***************************************************************************)
\* What is known of a call that passes a text on.
PassesMeant ==
  /\ cmd.at = "CUSD" /\ cmd.n < 2 => Typed!Accepts
  /\ Typed!IsUcs \/ Typed!TooLong \/ (~Typed!Nothing /\ call = Typed!Meant)

TextAsks ==
  \/ /\ cmd.at = "CUSD" /\ cmd.n \in 0..1 /\ cmd.dcs \in Typed!Bits /\ cmd.text # Null
     /\ Typed!cb_decode(cmd.dcs, cmd.text) # Null
     /\ call = Typed!GetProperties
  \/ Typed!Passes /\ (~disturbed => PassesMeant)

\* While a command is waiting, nothing has been passed on, and the session is as it was but for others.
TextInv ==
  /\ CountOK /\ mode \in 0..1 /\ session \in Typed!Sessions
  /\ call # Typed!Idle => TextAsks /\ sent = <<>> /\ (~disturbed => session = first)
  /\ Typed!TextsArrive

LEMMA TextReturns ==
  ASSUME NEW e, Typed!Go(Typed!Return(e))
  PROVE  call' = Typed!Idle /\ res' = e
  BY DEF Typed!Go, Typed!Return

LEMMA TextAsked ==
  ASSUME NEW request, Typed!Go(Typed!Ask(request))
  PROVE  call' = request
  BY DEF Typed!Go, Typed!Ask

LEMMA TextsAreValues ==
  Null \notin Texts /\ Null \notin Pdus /\ \A text \in Texts : <<"utf8", text>> # Null
  BY CommandsAssumption DEF Typed!TextsAssumption

\* Bits of the data coding schemes.
LEMMA BitsOfSchemes ==
  ASSUME NEW text, NEW dcs \in Typed!Bits, dcs # 72
  PROVE  Typed!cb_decode(dcs, text) = IF dcs = 15 THEN Typed!to_utf8(text) ELSE Null
<1>1. CASE dcs = 15
  <2>1. dcs \div 16 = 0
    BY <1>1
  <2>2. Typed!cb_dcs(dcs) = 7
    BY <2>1 DEF Typed!cb_dcs
  <2>. QED
    BY <1>1, <2>2 DEF Typed!cb_decode
<1>2. CASE dcs = 68
  <2>1. dcs \div 16 = 4 /\ dcs % 16 = 4 /\ 4 \div 4 = 1
    BY <1>2
  <2>2. Typed!cb_dcs(dcs) = 8
    BY <2>1 DEF Typed!cb_dcs
  <2>. QED
    BY <1>2, <2>2 DEF Typed!cb_decode
<1>. QED
  BY <1>1, <1>2 DEF Typed!Bits

\* How a handler may go on.
Refused ==
  /\ call = Typed!Idle /\ res # "OK"
  /\ cmd.at = "CUSD" /\ cmd.n < 2 /\ ~Typed!IsUcs /\ first # "active" => cmd.text \in Foreign \/ cmd.dcs = 68
Done == call = Typed!Idle /\ res = "OK" /\ (Typed!IsUcs \/ Typed!TooLong \/ Typed!Nothing)
Asking == call # Typed!Idle /\ TextAsks
Outcome == Refused \/ Done \/ Asking

\* A call to pass on what is meant.
LEMMA TextWaits ==
  ASSUME NEW method, NEW text, Typed!Go(Typed!Ask(Typed!Pass(method, text))),
         method \notin {"none", "GetProperties"},
         (cmd.at = "CUSD" /\ cmd.n < 2)' => Typed!Accepts',
         (Typed!IsUcs \/ Typed!TooLong \/ (~Typed!Nothing /\ Typed!Meant = Typed!Pass(method, text)))'
  PROVE  Outcome'
<1>1. call' = Typed!Pass(method, text)
  BY TextAsked
<1>2. call'.do = method
  BY <1>1 DEF Typed!Pass
<1>3. Typed!Passes' /\ call' # Typed!Idle
  BY <1>2 DEF Typed!Passes
<1>4. PassesMeant'
  BY <1>1 DEF PassesMeant, Typed!Pass
<1>. QED
  BY <1>3, <1>4 DEF Outcome, Asking, TextAsks

LEMMA UssdGiven ==
  ASSUME NEW c \in Typed!Commands, Typed!Give(c), c.at = "CUSD"
  PROVE  Outcome'
<1>1. cmd' = c /\ Typed!Go(Typed!set_ussd(c)) /\ UNCHANGED session /\ first' = session /\ sent' = <<>>
  BY DEF Typed!Give, Typed!Start, Typed!Begin
<1>2. c.n \in 0..3 /\ c.dcs \in Typed!Bits
  BY DEF Typed!Commands, Typed!Bits
<1>3. CASE c.n > 2 \/ (c.n = 2 /\ c.text # Null)
  <2>1. Typed!set_ussd(c) = Typed!Return("unsupported")
    BY <1>2, <1>3 DEF Typed!set_ussd
  <2>2. call' = Typed!Idle /\ res' # "OK"
    BY <1>1, <2>1, TextReturns
  <2>3. ~(c.n < 2)
    BY <1>2, <1>3
  <2>. QED
    BY <1>1, <2>2, <2>3 DEF Outcome, Refused
<1>4. CASE c.n = 2 /\ c.text = Null
  <2>1. Typed!set_ussd(c) = Typed!Ask(Typed!Pass("Cancel", Null))
    BY <1>4 DEF Typed!set_ussd
  <2>2. ~Typed!Nothing' /\ Typed!Meant' = Typed!Pass("Cancel", Null)
    BY <1>1, <1>4 DEF Typed!Nothing, Typed!Meant, Typed!Pass
  <2>. QED
    BY <1>1, <1>4, <2>1, <2>2, TextWaits
<1>5. CASE c.n < 2 /\ c.text = Null
  <2>1. call' = Typed!Idle /\ res' = "OK"
    BY <1>1, <1>2, <1>5 DEF Typed!set_ussd, Typed!Go, Typed!Return
  <2>. QED
    BY <1>1, <1>5, <2>1 DEF Outcome, Done, Typed!Nothing
<1>6. CASE c.n < 2 /\ c.text # Null /\ Typed!cb_decode(c.dcs, c.text) = Null
  <2>1. Typed!set_ussd(c) = Typed!Return("unsupported")
    BY <1>2, <1>6 DEF Typed!set_ussd
  <2>2. call' = Typed!Idle /\ res' # "OK"
    BY <1>1, <2>1, TextReturns
  <2>3. c.dcs # 72 => c.text \in Foreign \/ c.dcs = 68
    BY <1>2, <1>6, BitsOfSchemes, TextsAreValues DEF Typed!to_utf8, Typed!Bits, Typed!Commands
  <2>. QED
    BY <1>1, <2>2, <2>3 DEF Outcome, Refused, Typed!IsUcs
<1>7. CASE c.n < 2 /\ c.text # Null /\ Typed!cb_decode(c.dcs, c.text) # Null
  <2>1. call' = Typed!GetProperties
    BY <1>1, <1>2, <1>7, TextAsked DEF Typed!set_ussd
  <2>. QED
    BY <1>1, <1>2, <1>7, <2>1 DEF Outcome, Asking, TextAsks
<1>. QED
  BY <1>2, <1>3, <1>4, <1>5, <1>6, <1>7

\* A handler that refuses, of a command other than AT+CUSD.
LEMMA TextRefused ==
  ASSUME NEW e, Typed!Go(Typed!Return(e)), e # "OK", cmd'.at # "CUSD"
  PROVE  Outcome'
<1>1. call' = Typed!Idle /\ res' # "OK"
  BY TextReturns
<1>. QED
  BY <1>1 DEF Outcome, Refused

\* A number that is not too long is not cut.
LEMMA CutKeepsShort ==
  ASSUME NEW number \in Seq({"1", "+"}), Len(number) <= MaxNumber
  PROVE  Typed!Cut(number) = number
<1>1. ~(Len(number) > MaxNumber)
  BY CommandsAssumption DEF Typed!TextsAssumption
<1>. QED
  BY <1>1 DEF Typed!Cut

LEMMA TextGiven ==
  ASSUME TextInv, NEW c \in Typed!Commands, Typed!Give(c), c.at = "CMGS", mode = 1
  PROVE  Outcome'
<1>1. cmd' = c /\ Typed!Go(Typed!send_text(c))
  BY DEF Typed!Give, Typed!Start, Typed!Begin
<1>2. c \in [at : {"CMGS"}, number : Numbers, type : {Null, 129, 145}, text : Texts \cup {Null}]
  BY DEF Typed!Commands
<1>3. "number" \in DOMAIN c /\ "pdu" \notin DOMAIN c
  BY <1>2
<1>4. CASE Typed!send_text(c) = Typed!Return("unsupported") \/ Typed!send_text(c) = Typed!Return("text")
  BY <1>1, <1>2, <1>4, TextRefused
<1>5. CASE c.text = Null /\ Typed!send_text(c) = Typed!Return("OK")
  <2>1. call' = Typed!Idle /\ res' = "OK"
    BY <1>1, <1>5 DEF Typed!Go, Typed!Return
  <2>. QED
    BY <1>1, <1>2, <1>3, <1>5, <2>1 DEF Outcome, Done, Typed!Nothing
<1>6. CASE /\ c.text # Null /\ Typed!to_utf8(c.text) # Null
           /\ Typed!send_text(c) =
               Typed!Ask(Typed!Pass("SendMessage", <<Typed!Cut(c.number), Typed!to_utf8(c.text)>>))
  <2>1. Typed!to_utf8(c.text) = <<"utf8", c.text>>
    BY <1>6 DEF Typed!to_utf8
  <2>2. ~Typed!Nothing'
    BY <1>1, <1>2, <1>3, <1>6 DEF Typed!Nothing
  <2>3. Typed!Meant' = Typed!Pass("SendMessage", <<c.number, <<"utf8", c.text>>>>)
    BY <1>1, <1>2, <1>3 DEF Typed!Meant, Typed!Pass
  <2>4. CASE Typed!TooLong'
    BY <1>1, <1>2, <1>6, <2>4, TextWaits
  <2>5. CASE ~Typed!TooLong'
    <3>1. Typed!Cut(c.number) = c.number
      BY <1>1, <1>2, <1>3, <2>5, CutKeepsShort, CommandsAssumption DEF Typed!TooLong, Typed!TextsAssumption
    <3>. QED
      BY <1>1, <1>2, <1>6, <2>1, <2>2, <2>3, <3>1, TextWaits
  <2>. QED
    BY <2>4, <2>5
<1>. QED
  BY <1>4, <1>5, <1>6 DEF Typed!send_text

\* The least of a set of numbers.
Below == {p \in Nat \X Nat : p[1] < p[2]}

LEMMA LeastIs ==
  ASSUME NEW S \in SUBSET Nat, S # {}
  PROVE  \E i \in S : \A j \in S : i <= j
<1>1. IsWellFoundedOn(Below, Nat)
  BY NatLessThanWellFounded DEF OpToRel, Below
<1>2. PICK i \in S : \A j \in S : <<j, i>> \notin Below
  BY <1>1, WFMin
<1>3. \A j \in S : ~(j < i)
  BY <1>2 DEF Below
<1>. QED
  BY <1>2, <1>3

\* There is a number of digits before the first other character.
LEMMA LeadingIs ==
  ASSUME NEW pdu \in Seq(-1..15)
  PROVE  /\ Typed!Leading(pdu) \in 0..Len(pdu)
         /\ \A i \in 1..Typed!Leading(pdu) : pdu[i] >= 0
         /\ Typed!Leading(pdu) < Len(pdu) => pdu[Typed!Leading(pdu) + 1] < 0
<1>. DEFINE Digits(n) == (\A i \in 1..n : pdu[i] >= 0) /\ (n < Len(pdu) => pdu[n + 1] < 0)
            others == {i \in 1..Len(pdu) : pdu[i] < 0}
<1>1. CASE others = {}
  <2>1. \A i \in 1..Len(pdu) : pdu[i] \in -1..15 /\ ~(pdu[i] < 0)
    BY <1>1
  <2>2. Digits(Len(pdu))
    BY <2>1
  <2>. QED
    BY <2>2 DEF Typed!Leading
<1>2. CASE others # {}
  <2>0. others \in SUBSET Nat
    OBVIOUS
  <2>1. PICK i \in others : \A j \in others : i <= j
    <3>. HIDE DEF others
    <3>. QED
      BY <1>2, <2>0, LeastIs
  <2>2. i \in 1..Len(pdu) /\ i - 1 \in 0..Len(pdu) /\ pdu[i] < 0
    OBVIOUS
  <2>3. ASSUME NEW j \in 1..(i - 1) PROVE pdu[j] >= 0
    <3>1. j \in 1..Len(pdu) /\ pdu[j] \in -1..15 /\ ~(i <= j)
      BY <2>2
    <3>. QED
      BY <2>1, <3>1
  <2>4. PICK n \in 0..Len(pdu) : n = i - 1
    BY <2>2
  <2>5. Digits(n)
    BY <2>2, <2>3, <2>4
  <2>. QED
    BY <2>5 DEF Typed!Leading
<1>. QED
  BY <1>1, <1>2

\* The octets that send_pdu() makes are the digits in pairs.
LEMMA OctetsArePairs ==
  ASSUME NEW pdu \in Seq(-1..15)
  PROVE  Typed!Octets(pdu) = Typed!Pairs(pdu)
<1>. DEFINE whole == {k \in 1..Len(pdu) \div 2 : \A i \in 1..2 * k : pdu[i] # -1}
<1>1. PICK n \in 0..Len(pdu) : n = Typed!Leading(pdu)
  BY LeadingIs
<1>2. (\A i \in 1..n : pdu[i] >= 0) /\ (n < Len(pdu) => pdu[n + 1] < 0)
  BY <1>1, LeadingIs
<1>3. \A i \in 1..Len(pdu) : pdu[i] \in -1..15
  OBVIOUS
<1>4. ASSUME NEW k \in 1..(n \div 2) PROVE k \in whole
  BY <1>2, <1>3
<1>5. ASSUME NEW k \in whole PROVE k \in 1..(n \div 2)
  <2>1. 2 * k <= Len(pdu) /\ \A i \in 1..2 * k : pdu[i] # -1
    OBVIOUS
  <2>2. ASSUME 2 * k > n PROVE FALSE
    <3>1. n + 1 \in 1..2 * k /\ n + 1 \in 1..Len(pdu) /\ n < Len(pdu)
      BY <2>1, <2>2
    <3>2. PICK m \in 1..Len(pdu) : m = n + 1
      BY <3>1
    <3>3. pdu[m] < 0 /\ pdu[m] \in -1..15 /\ pdu[m] # -1
      BY <1>2, <1>3, <2>1, <3>1, <3>2
    <3>. QED
      BY <3>3
  <2>. QED
    BY <2>2
<1>6. 1..(n \div 2) = whole
  BY <1>4, <1>5
<1>. HIDE DEF whole
<1>7. Typed!Octets(pdu) = [k \in whole |-> pdu[2 * k - 1] * 16 + pdu[2 * k]]
  BY <1>1, <1>6 DEF Typed!Octets
<1>. QED
  BY <1>7 DEF Typed!Pairs, whole

LEMMA PduGiven ==
  ASSUME TextInv, NEW c \in Typed!Commands, Typed!Give(c), c.at = "CMGS", mode # 1
  PROVE  Outcome'
<1>1. cmd' = c /\ Typed!Go(Typed!send_pdu(c))
  BY DEF Typed!Give, Typed!Start, Typed!Begin
<1>2. c \in [at : {"CMGS"}, pdu : Pdus \cup {Null}, len : 0..2]
  BY DEF Typed!Commands
<1>3. "pdu" \in DOMAIN c /\ "number" \notin DOMAIN c
  BY <1>2
<1>4. CASE Typed!send_pdu(c) = Typed!Return("pdu")
  BY <1>1, <1>2, <1>4, TextRefused
<1>5. CASE c.pdu = Null
  <2>1. call' = Typed!Idle /\ res' = "OK"
    BY <1>1, <1>5 DEF Typed!send_pdu, Typed!Go, Typed!Return
  <2>. QED
    BY <1>1, <1>2, <1>3, <1>5, <2>1 DEF Outcome, Done, Typed!Nothing
<1>6. CASE c.pdu # Null /\ Typed!send_pdu(c) = Typed!Ask(Typed!Pass("SendMessagePDU", Typed!Octets(c.pdu)))
  <2>1. ~Typed!Nothing'
    BY <1>1, <1>2, <1>3, <1>6 DEF Typed!Nothing
  <2>2. Typed!Octets(c.pdu) = Typed!Pairs(c.pdu)
    BY <1>2, <1>6, OctetsArePairs, CommandsAssumption DEF Typed!TextsAssumption
  <2>3. Typed!Meant' = Typed!Pass("SendMessagePDU", Typed!Pairs(c.pdu))
    BY <1>1, <1>2, <1>3 DEF Typed!Meant, Typed!Pass
  <2>. QED
    BY <1>1, <1>2, <1>6, <2>1, <2>2, <2>3, TextWaits
<1>. QED
  BY <1>4, <1>5, <1>6 DEF Typed!send_pdu

LEMMA ElementGiven ==
  ASSUME NEW c \in Typed!Commands, Typed!Give(c), c.at = "CPOS"
  PROVE  Outcome'
<1>1. cmd' = c /\ Typed!Go(Typed!do_cpos(c))
  BY DEF Typed!Give, Typed!Start, Typed!Begin
<1>2. CASE Typed!do_cpos(c) = Typed!Return("ERROR") \/ Typed!do_cpos(c) = Typed!Return("invalid")
  BY <1>1, <1>2, TextRefused
<1>3. CASE Typed!do_cpos(c) = Typed!Ask(Typed!Pass("SendPositioningElement", <<"utf8", c.text>>))
  <2>1. ~Typed!Nothing' /\ Typed!Meant' = Typed!Pass("SendPositioningElement", <<"utf8", c.text>>)
    BY <1>1 DEF Typed!Nothing, Typed!Meant, Typed!Pass
  <2>. QED
    BY <1>1, <1>3, <2>1, TextWaits
<1>. QED
  BY <1>2, <1>3 DEF Typed!do_cpos

\* The first of the results that is one, if any is.
LEMMA FirstOfIs ==
  ASSUME NEW n \in Nat, NEW R, DOMAIN R = 1..n
  PROVE  Typed!FirstOf(R) = "OK" => \A i \in 1..n : R[i] = "OK"
<1>. DEFINE refused == {i \in 1..n : R[i] # "OK"}
<1>. SUFFICES ASSUME refused # {} PROVE Typed!FirstOf(R) # "OK"
  OBVIOUS
<1>1. refused \in SUBSET Nat
  OBVIOUS
<1>2. PICK i \in refused : \A j \in refused : i <= j
  <2>. HIDE DEF refused
  <2>. QED
    BY <1>1, LeastIs
<1>3. i \in 1..n /\ R[i] # "OK"
  OBVIOUS
<1>4. ASSUME NEW j \in 1..i - 1 PROVE R[j] = "OK"
  <2>1. j \in 1..n /\ ~(i <= j)
    BY <1>3
  <2>. QED
    BY <1>2, <2>1
<1>. QED
  BY <1>3, <1>4 DEF Typed!FirstOf

LEMMA DialGiven ==
  ASSUME NEW c \in Typed!Commands, Typed!Give(c), c.at = "D"
  PROVE  Outcome'
<1>. DEFINE R == [i \in 1..Len(c.str) |-> Typed!Refuses(c.str, i)]
            refusal == Typed!FirstOf(R)
            digits == Typed!Places(c.str, Typed!Keys)
            others == {i \in 1..Len(c.str) : c.str[i] \notin {"I", "i", "-"}}
<1>1. cmd' = c /\ Typed!Go(Typed!handle_dial(c))
  BY DEF Typed!Give, Typed!Start, Typed!Begin
<1>2. c.str \in Seq({"1", "*", "+", "A", "I", "i", "-", "G", ">"})
  BY CommandsAssumption DEF Typed!Commands, Typed!TextsAssumption
<1>3. CASE refusal # "OK"
  <2>1. Typed!handle_dial(c) = Typed!Return(refusal)
    BY <1>3 DEF Typed!handle_dial
  <2>. HIDE DEF refusal
  <2>. QED
    BY <1>1, <1>3, <2>1, TextRefused
<1>4. CASE refusal = "OK"
  <2>1. Typed!handle_dial(c) = Typed!Ask(Typed!Pass("Dial", <<Typed!Picked(c.str, digits), Typed!CallerId(c.str)>>))
    BY <1>4 DEF Typed!handle_dial
  <2>2. ASSUME NEW i \in 1..Len(c.str) PROVE c.str[i] \notin {"G", ">"}
    <3>1. R[i] = "OK"
      BY <1>2, <1>4, FirstOfIs
    <3>. QED
      BY <3>1 DEF Typed!Refuses
  <2>3. digits = others
    BY <1>2, <2>2 DEF Typed!Places, Typed!Keys
  <2>4. ~Typed!Nothing'
    BY <1>1 DEF Typed!Nothing
  <2>5. Typed!Meant' = Typed!Pass("Dial", <<Typed!Picked(c.str, others), Typed!CallerId(c.str)>>)
    BY <1>1 DEF Typed!Meant, Typed!Pass
  <2>. HIDE DEF digits, others
  <2>. QED
    BY <1>1, <2>1, <2>3, <2>4, <2>5, TextWaits
<1>. QED
  BY <1>3, <1>4

LEMMA TonesGiven ==
  ASSUME NEW c \in Typed!Commands, Typed!Give(c), c.at = "VTS"
  PROVE  Outcome'
<1>. DEFINE refusal == Typed!FirstOf([i \in 1..Len(c.items) |-> Typed!ToneRefused(c, i)])
            tones == [i \in DOMAIN c.items |-> c.items[i].char]
<1>1. cmd' = c /\ Typed!Go(Typed!set_vts(c))
  BY DEF Typed!Give, Typed!Start, Typed!Begin
<1>2. CASE refusal # "OK"
  <2>1. Typed!set_vts(c) = Typed!Return(refusal)
    BY <1>2 DEF Typed!set_vts
  <2>. HIDE DEF refusal
  <2>. QED
    BY <1>1, <1>2, <2>1, TextRefused
<1>3. CASE refusal = "OK"
  <2>1. Typed!set_vts(c) = Typed!Ask(Typed!Pass("SendTones", tones))
    BY <1>3 DEF Typed!set_vts
  <2>2. ~Typed!Nothing'
    BY <1>1 DEF Typed!Nothing
  <2>3. Typed!Meant' = Typed!Pass("SendTones", tones)
    BY <1>1 DEF Typed!Meant, Typed!Pass
  <2>. HIDE DEF tones
  <2>. QED
    BY <1>1, <2>1, <2>2, <2>3, TextWaits
<1>. QED
  BY <1>2, <1>3

LEMMA RedialGiven ==
  ASSUME NEW c \in Typed!Commands, Typed!Give(c), c.at = "BLDN"
  PROVE  Outcome'
<1>1. cmd' = c /\ Typed!Go(Typed!handle_redial(c))
  BY DEF Typed!Give, Typed!Start, Typed!Begin
<1>2. CASE Typed!handle_redial(c) = Typed!Return("invalid")
  BY <1>1, <1>2, TextRefused
<1>3. CASE Typed!handle_redial(c) = Typed!Ask(Typed!Pass("Redial", Null))
  <2>1. ~Typed!Nothing' /\ Typed!Meant' = Typed!Pass("Redial", Null)
    BY <1>1 DEF Typed!Nothing, Typed!Meant, Typed!Pass
  <2>. QED
    BY <1>1, <1>3, <2>1, TextWaits
<1>. QED
  BY <1>2, <1>3 DEF Typed!handle_redial

LEMMA TextGiveKeeps ==
  ASSUME TextInv, NEW c \in Typed!Commands, Typed!Give(c)
  PROVE  TextInv'
<1>1. /\ cmd' = c /\ UNCHANGED session /\ first' = session /\ sent' = <<>>
      /\ count' = [count EXCEPT !.commands = @ + 1]
      /\ mode' = IF c.at = "CMGF" THEN c.n ELSE mode
  BY DEF Typed!Give, Typed!Start
<1>2. Outcome'
  <2>1. CASE c.at = "CMGF"
    <3>1. call' = Typed!Idle /\ res' = "OK"
      BY <2>1 DEF Typed!Give, Typed!Begin, Typed!Go, Typed!Return
    <3>. QED
      BY <1>1, <2>1, <3>1 DEF Outcome, Done, Typed!Nothing
  <2>2. CASE c.at = "CMGS"
    BY <2>2, TextGiven, PduGiven
  <2>. QED
    BY <2>1, <2>2, UssdGiven, ElementGiven, DialGiven, TonesGiven, RedialGiven DEF Typed!Commands
<1>3. CountOK' /\ session' \in Typed!Sessions /\ mode' \in 0..1
  <2>1. c.at = "CMGF" => c.n \in 0..1
    BY DEF Typed!Commands
  <2>. QED
    BY <1>1, <2>1 DEF TextInv, CountOK
<1>4. Typed!TextsArrive'
  <2>1. Len(sent') <= 1
    BY <1>1
  <2>2. CASE Refused'
    BY <1>1, <2>1, <2>2 DEF Refused, Typed!TextsArrive
  <2>3. CASE Done'
    BY <1>1, <2>1, <2>3 DEF Done, Typed!TextsArrive
  <2>4. CASE Asking'
    BY <1>1, <2>1, <2>4 DEF Asking, Typed!TextsArrive, Typed!Ended
  <2>. QED
    BY <1>2, <2>2, <2>3, <2>4 DEF Outcome
<1>. QED
  BY <1>1, <1>2, <1>3, <1>4 DEF TextInv, Outcome, Refused, Done, Asking

LEMMA TextFetchedKeeps ==
  ASSUME TextInv, Typed!Fetched
  PROVE  TextInv'
<1>1. /\ UNCHANGED <<cmd, disturbed, call_failed, count, mode, session, sent, first>>
      /\ call # Typed!Idle /\ call.do = "GetProperties"
      /\ Typed!Go(Typed!ussd_state(cmd))
  BY DEF Typed!Fetched, Typed!Replied
<1>2. /\ CountOK /\ mode \in 0..1 /\ session \in Typed!Sessions /\ sent = <<>>
      /\ ~disturbed => session = first
  BY <1>1 DEF TextInv
<1>3. /\ cmd.at = "CUSD" /\ cmd.n \in 0..1 /\ cmd.dcs \in Typed!Bits /\ cmd.text # Null
      /\ Typed!cb_decode(cmd.dcs, cmd.text) # Null
  BY <1>1 DEF TextInv, TextAsks, Typed!Passes
<1>. DEFINE text == Typed!cb_decode(cmd.dcs, cmd.text)
            method == IF session = "idle" THEN "Command" ELSE "Respond"
<1>4. CASE session = "active"
  <2>1. call' = Typed!Idle /\ res' = "busy"
    BY <1>1, <1>4 DEF Typed!ussd_state, Typed!Go, Typed!Return
  <2>2. Typed!TextsArrive'
    BY <1>1, <1>2, <1>4, <2>1 DEF Typed!TextsArrive
  <2>. QED
    BY <1>1, <1>2, <2>1, <2>2 DEF TextInv, CountOK
<1>5. CASE session # "active"
  <2>1. Typed!ussd_state(cmd) = Typed!Ask(Typed!Pass(method, text))
    BY <1>2, <1>5 DEF Typed!ussd_state, Typed!Sessions
  <2>2. call' = Typed!Pass(method, text)
    BY <1>1, <2>1, TextAsked
  <2>3. Typed!Passes' /\ call' # Typed!Idle /\ Typed!Accepts'
    BY <1>1, <1>2, <1>5, <2>2 DEF Typed!Passes, Typed!Pass, Typed!Accepts, Typed!Sessions
  <2>4. ASSUME ~disturbed, ~Typed!IsUcs
        PROVE  ~Typed!Nothing' /\ call' = Typed!Meant'
    <3>1. text = <<"utf8", cmd.text>>
      BY <1>3, <2>4, BitsOfSchemes DEF Typed!to_utf8, Typed!IsUcs
    <3>2. ~Typed!Nothing'
      BY <1>1, <1>3 DEF Typed!Nothing
    <3>3. Typed!Meant' = Typed!Pass(IF first = "idle" THEN "Command" ELSE "Respond", <<"utf8", cmd.text>>)
      BY <1>1, <1>3 DEF Typed!Meant
    <3>. QED
      BY <1>2, <2>2, <2>4, <3>1, <3>2, <3>3
  <2>5. TextAsks'
    BY <1>1, <2>3, <2>4 DEF TextAsks, PassesMeant, Typed!IsUcs
  <2>6. Typed!TextsArrive'
    BY <1>1, <1>2, <2>3 DEF Typed!TextsArrive, Typed!Ended
  <2>. QED
    BY <1>1, <1>2, <2>3, <2>5, <2>6 DEF TextInv, CountOK
<1>. QED
  BY <1>4, <1>5

\* What is carried out is passed on once, and leaves the session in one of its states.
LEMMA TextCarriedOut ==
  ASSUME sent = <<>>, session \in Typed!Sessions, Typed!CarriedOut
  PROVE  sent' = <<call>> /\ session' \in Typed!Sessions /\ Typed!Accepts
  BY DEF Typed!CarriedOut, Typed!After, Typed!Sessions

LEMMA TextAcceptedKeeps ==
  ASSUME TextInv, Typed!Accepted
  PROVE  TextInv'
<1>1. /\ UNCHANGED <<cmd, disturbed, call_failed, count, mode, first>>
      /\ call # Typed!Idle /\ Typed!Passes /\ Typed!CarriedOut /\ Typed!Go(Typed!Return("OK"))
  BY DEF Typed!Accepted, Typed!Replied
<1>2. /\ CountOK /\ mode \in 0..1 /\ session \in Typed!Sessions /\ sent = <<>>
      /\ ~disturbed => PassesMeant
  BY <1>1 DEF TextInv, TextAsks, Typed!Passes
<1>3. call' = Typed!Idle /\ res' = "OK"
  BY <1>1 DEF Typed!Go, Typed!Return
<1>4. sent' = <<call>> /\ session' \in Typed!Sessions
  BY <1>1, <1>2, TextCarriedOut
<1>5. Typed!TextsArrive'
  <2>1. Len(sent') <= 1
    BY <1>4
  <2>2. UNCHANGED <<Typed!IsUcs, Typed!TooLong, Typed!Nothing, Typed!Meant>>
    BY <1>1 DEF Typed!IsUcs, Typed!TooLong, Typed!Nothing, Typed!Meant
  <2>. QED
    BY <1>1, <1>2, <1>3, <1>4, <2>1, <2>2 DEF Typed!TextsArrive, PassesMeant
<1>. QED
  BY <1>1, <1>2, <1>3, <1>4, <1>5 DEF TextInv, CountOK

LEMMA TextRejectedKeeps ==
  ASSUME TextInv, Typed!Rejected
  PROVE  TextInv'
<1>1. /\ UNCHANGED <<cmd, disturbed, call_failed, count, mode, session, sent, first>>
      /\ call # Typed!Idle /\ Typed!Passes /\ ~Typed!Accepts /\ Typed!Go(Typed!Return("failed"))
  BY DEF Typed!Rejected, Typed!Replied
<1>2. /\ CountOK /\ mode \in 0..1 /\ session \in Typed!Sessions /\ sent = <<>>
      /\ ~disturbed => PassesMeant
  BY <1>1 DEF TextInv, TextAsks, Typed!Passes
<1>3. call' = Typed!Idle /\ res' = "failed"
  BY <1>1 DEF Typed!Go, Typed!Return
<1>4. Typed!TextsArrive'
  BY <1>1, <1>2, <1>3 DEF Typed!TextsArrive, PassesMeant
<1>. QED
  BY <1>1, <1>2, <1>3, <1>4 DEF TextInv, CountOK

LEMMA TextFailsKeeps ==
  ASSUME TextInv, Typed!Fails
  PROVE  TextInv'
<1>1. /\ UNCHANGED <<cmd, disturbed, mode, first>> /\ call_failed' = TRUE
      /\ call # Typed!Idle /\ count' = [count EXCEPT !.faults = @ + 1]
      /\ call' = Typed!Idle
  BY DEF Typed!Fails, Typed!Fault, Typed!Go, Typed!Return
<1>2. CountOK /\ mode \in 0..1 /\ session \in Typed!Sessions /\ sent = <<>>
  BY <1>1 DEF TextInv
<1>3. CountOK'
  BY <1>1, <1>2 DEF CountOK
<1>4. (sent' = <<>> \/ sent' = <<call>>) /\ session' \in Typed!Sessions
  BY <1>2, TextCarriedOut DEF Typed!Fails
<1>5. Typed!TextsArrive'
  <2>1. Len(sent') <= 1
    BY <1>4
  <2>. QED
    BY <1>1, <2>1 DEF Typed!TextsArrive
<1>. QED
  BY <1>1, <1>2, <1>3, <1>4, <1>5 DEF TextInv

LEMMA TextChangeKeeps ==
  ASSUME TextInv, Typed!Change
  PROVE  TextInv'
<1>1. /\ UNCHANGED <<cmd, call, res, shown, call_failed, mode, sent, first>> /\ disturbed' = TRUE
      /\ count' = [count EXCEPT !.changes = @ + 1] /\ session' \in Typed!Sessions
  BY DEF Typed!Change, Typed!Other
<1>2. CountOK' /\ mode' \in 0..1
  BY <1>1 DEF TextInv, CountOK
<1>3. TextAsks => TextAsks'
  BY <1>1 DEF TextAsks, Typed!Passes
<1>4. Typed!TextsArrive'
  BY <1>1 DEF TextInv, Typed!TextsArrive
<1>. QED
  BY <1>1, <1>2, <1>3, <1>4 DEF TextInv

LEMMA TextInitial ==
  ASSUME Typed!Init
  PROVE  TextInv
<1>1. /\ call = Typed!Idle /\ count = [commands |-> 0, changes |-> 0, faults |-> 0]
      /\ mode \in 0..1 /\ session \in Typed!Sessions /\ sent = <<>>
  BY DEF Typed!Init, Typed!CommandInit
<1>2. CountOK /\ count.commands = 0
  BY <1>1 DEF CountOK
<1>3. Typed!TextsArrive
  BY <1>1, <1>2 DEF Typed!TextsArrive, Typed!Ended
<1>. QED
  BY <1>1, <1>2, <1>3 DEF TextInv

LEMMA TextKeeps ==
  ASSUME TextInv, [Typed!Next]_(Typed!vars)
  PROVE  TextInv'
<1>1. CASE UNCHANGED Typed!vars
  <2>1. UNCHANGED <<cmd, call, res, shown, disturbed, call_failed, count, mode, session, sent, first>>
    BY <1>1 DEF Typed!vars, Typed!commandVars
  <2>2. UNCHANGED <<Typed!IsUcs, Typed!TooLong, Typed!Nothing, Typed!Meant, Typed!Accepts, Typed!Passes>>
    BY <2>1 DEF Typed!IsUcs, Typed!TooLong, Typed!Nothing, Typed!Meant, Typed!Accepts, Typed!Passes
  <2>. QED
    BY <2>1, <2>2 DEF TextInv, CountOK, TextAsks, PassesMeant, Typed!TextsArrive, Typed!Ended
<1>. QED
  BY <1>1, TextGiveKeeps, TextFetchedKeeps, TextAcceptedKeeps, TextRejectedKeeps, TextFailsKeeps, TextChangeKeeps
  DEF Typed!Next

\* A text is never passed on twice; after OK it has been passed on as it was typed, whole and to the
\* right end, and after an error nothing has been, if no call failed (ss.c:219-296, sms.c:216-378,
\* agps.c:56-78, voicecall.c:178-213, 740-799).
THEOREM TextsAreWhole == AllSpec => []TextsArrive
<1>1. AllInit => (kind = "texts" => TextInv)
  BY TextInitial DEF AllInit
<1>2. (kind = "texts" => TextInv) /\ [AllNext]_allVars => (kind = "texts" => TextInv)'
  <2>. SUFFICES ASSUME kind = "texts" => TextInv, [AllNext]_allVars, kind' = "texts"
                PROVE  TextInv'
    OBVIOUS
  <2>1. kind = "texts" /\ [Typed!Next]_(Typed!vars)
    BY DEF AllNext, allVars, Typed!vars, Typed!commandVars, callVars, textVars
  <2>. QED
    BY <2>1, TextKeeps
<1>3. (kind = "texts" => TextInv) => TextsArrive
  BY DEF TextInv, TextsArrive
<1>. QED
  BY <1>1, <1>2, <1>3, PTL DEF AllSpec

-----------------------------------------------------------------------------
(***************************************************************************)
(* OfonoSettings, for any groups of commands, any values, and any number   *)
(* of commands, changes and faults.                                        *)
(***************************************************************************)
\* A command that changes nothing of oFono.
Reads(c) == c.do \in {"get", "test"} \/ (c.at = "CCWA" /\ c.do = "set" /\ c.mode = 2)

\* What OK says of a command and of what it has shown: of the plug-in,
Held(c, fields) == c.at \in Settings!Flags /\ c.do = "set" => fields[c.at] = c.n
Kept(c, text, fields) ==
  /\ Held(c, fields)
  /\ c.at \in Settings!Flags /\ c.do = "get" => text[1] = fields[c.at]
  /\ c.do = "format" => fields["COPS"] = c.n
  /\ c.at = "COPS" /\ c.do = "get" /\ Len(text) = 3 => text[2] = fields["COPS"]

\* and of oFono: what has been set, what has been read, and of several properties what is needed to compare them.
SetIs(c, p) ==
  /\ c.at = "CLIR"  => c.n \in 0..2 /\ p["HideCallerId"] = Settings!Hide[c.n + 1]
  /\ c.at = "S0"    =>
       /\ c.n \in 0..1 /\ p["AutoAnswer"] # Null
       /\ c.n = 0 => p["AutoAnswer"] = FALSE
       /\ c.n = 1 => p["AutoAnswer"] = TRUE
  /\ c.at = "CGSMS" => c.n \in 0..3 /\ p["Bearer"] = Settings!Bearers[c.n + 1]
  /\ c.at = "CSCA"  => p["ServiceCenterAddress"] = c.n
  /\ c.at = "CAMM"  => p["AccumulatedCallMeterMaximum"] = c.n
  /\ c.at = "CCWA" /\ c.mode \in 0..1 => p["VoiceCallWaiting"] = IF c.mode = 1 THEN "enabled" ELSE "disabled"

GetIs(c, text, p) ==
  /\ c.at = "CLIR"  => text[1] = Settings!Hidden(p["HideCallerId"])
  /\ c.at = "S0"    =>
       /\ p["AutoAnswer"] = TRUE => text[1] = 1
       /\ p["AutoAnswer"] = FALSE /\ p["AutoAnswer"] # Null => text[1] = 0
  /\ c.at = "CGSMS" => text[1] = Settings!Index(Settings!Bearers, p["Bearer"]) - 1
  /\ c.at = "CSCA"  => text[1] = p["ServiceCenterAddress"]
  /\ c.at = "CAMM"  => text[1] = p["AccumulatedCallMeterMaximum"]
  /\ c.at = "WS46"  =>
       \/ text = <<25>>
       \/ text = <<12>> /\ p["Technology"] \in {"gsm", "edge"}
       \/ text = <<22>> /\ p["Technology"] \in {"umts", "hsdpa", "hsupa", "hspa"}
       \/ text = <<28>> /\ p["Technology"] = "lte"
  /\ c.at = "COPS" /\ Len(text) = 3 /\ p["Technology"] \in Settings!ToSet(Settings!tes) =>
       text[3] = Settings!Index(Settings!tes, p["Technology"]) - 1
  /\ c.at = "CNTI1" => text = Settings!list_available(p).shown
  /\ c.at = "CPAS"  =>
       \/ text = <<0>> /\ \A i \in DOMAIN p["Calls"] : p["Calls"][i] \notin {"incoming", "active", "alerting"}
       \/ text = <<3>> /\ \E i \in DOMAIN p["Calls"] : p["Calls"][i] = "incoming"
       \/ text = <<4>> /\ \E i \in DOMAIN p["Calls"] : p["Calls"][i] \in {"active", "alerting"}
  /\ c.at = "CLCC"  => text = Settings!handle_clcc(p["Calls"]).shown
  /\ c.at \in DOMAIN Settings!Books =>
       /\ p[Settings!Books[c.at]] # Null
       /\ text = Settings!read_book(c.at, p[Settings!Books[c.at]], c.from, c.to).shown

Stored(c, text, p) ==
  /\ c.do = "set" => SetIs(c, p)
  /\ c.do = "get" => GetIs(c, text, p)
  /\ c.at = "CCWA" /\ c.do = "set" /\ c.mode = 2 => text[1] = Settings!Mode(p["VoiceCallWaiting"])
  /\ c.at \in DOMAIN Settings!Books /\ c.do = "test" =>
       p[Settings!Books[c.at]] # Null /\ text = <<0, Len(p[Settings!Books[c.at]]) - 1>>

\* Those that have their calls from GetProperties.
AsksProperties(c) ==
  \/ c.do = "get" /\ c.at \notin {"CRC", "CVHU", "CMGF", "CCWA", "CPAS", "CLCC", "Scan"}
  \/ c.do = "test"
  \/ c.at = "CCWA" /\ c.do = "set" /\ c.mode = 2

\* What is shown of the properties, when all is well.
LEMMA AnswerIs ==
  ASSUME NEW c \in Settings!Commands, AsksProperties(c), NEW p,
         NEW step, step = Settings!Answer(c, p)
  PROVE  /\ step.call # Settings!Idle =>
              c.at = "CLIR" /\ step.call = Settings!GetProperties
              /\ step.shown = <<Settings!Hidden(p["HideCallerId"])>>
         /\ step.call = Settings!Idle /\ step.res = "OK" /\ c.do # "set" => Kept(c, step.shown, conf)
         /\ /\ step.call = Settings!Idle /\ step.res = "OK"
            /\ c.at = "CLIR" => shown = <<>> \/ shown = <<Settings!Hidden(p["HideCallerId"])>>
            => Stored(c, step.shown, p)
<1>. USE DEF Settings!Show, Settings!Return, Settings!AskAfter
<1>1. CASE c.at \in DOMAIN Settings!Presentation
  <2>1. c.do = "get" /\ c.at \in Settings!Flags
    BY <1>1
    DEF AsksProperties, Settings!Commands, Settings!Presentation, Settings!Flags, Settings!Books, Settings!Asked
  <2>2. step = Settings!Show(<<conf[c.at], Settings!Mode(p[Settings!Presentation[c.at]])>>)
    BY <1>1 DEF Settings!Answer, Settings!Presentation, Settings!Meters, Settings!Identities, Settings!Books
  <2>. QED
    BY <1>1, <2>1, <2>2 DEF Held, Kept, Stored, GetIs, Settings!Presentation, Settings!Books
<1>0. /\ c.at \in Settings!Asked \cup DOMAIN Settings!Books
      /\ c.at = "CCWA" => c.do = "set" /\ c.mode = 2
      /\ c.at \notin DOMAIN Settings!Books \cup {"CCWA"} => c.do = "get"
      /\ c.at \in DOMAIN Settings!Books => c.do \in {"get", "test"}
      /\ c.at \notin {"CRC", "CVHU", "CMGF", "CPAS", "CLCC", "Scan"}
  BY DEF AsksProperties, Settings!Commands, Settings!Presentation, Settings!Flags, Settings!Books, Settings!Asked
<1>2. CASE c.at = "COLR"
  <2>1. step = Settings!Show(<<Settings!Mode(p["ConnectedLineRestriction"])>>)
    BY <1>2 DEF Settings!Answer, Settings!Presentation, Settings!Meters, Settings!Identities, Settings!Books
  <2>. QED
    BY <1>2, <1>0, <2>1 DEF Held, Kept, Stored, GetIs, Settings!Flags, Settings!Presentation, Settings!Books
<1>3. CASE c.at = "CLIR"
  <2>1. step = Settings!get_clir(p)
    BY <1>3 DEF Settings!Answer, Settings!Presentation, Settings!Meters, Settings!Identities, Settings!Books
  <2>. QED
    BY <1>3, <1>0, <2>1
    DEF Held, Kept, Stored, GetIs, Settings!Flags, Settings!Presentation, Settings!Books, Settings!get_clir
<1>4. CASE c.at = "CCWA"
  <2>1. step = Settings!get_waiting(p)
    BY <1>4 DEF Settings!Answer, Settings!Presentation, Settings!Meters, Settings!Identities, Settings!Books
  <2>. QED
    BY <1>4, <1>0, <2>1
    DEF Held, Kept, Stored, GetIs, Settings!Flags, Settings!Presentation, Settings!Books, SetIs, Settings!get_waiting
<1>5. CASE c.at = "S0"
  <2>1. step = Settings!get_auto_answer(p)
    BY <1>5 DEF Settings!Answer, Settings!Presentation, Settings!Meters, Settings!Identities, Settings!Books
  <2>. QED
    BY <1>5, <1>0, <2>1
    DEF Held, Kept, Stored, GetIs, Settings!Flags, Settings!Presentation, Settings!Books, Settings!get_auto_answer
<1>6. CASE c.at = "CGSMS"
  <2>1. step = Settings!get_cgsms(p)
    BY <1>6 DEF Settings!Answer, Settings!Presentation, Settings!Meters, Settings!Identities, Settings!Books
  <2>. QED
    BY <1>6, <1>0, <2>1
    DEF Held, Kept, Stored, GetIs, Settings!Flags, Settings!Presentation, Settings!Books, Settings!get_cgsms
<1>7. CASE c.at \in {"CACM", "CAMM"}
  <2>1. step = Settings!get_meter(p[Settings!Meters[c.at]])
    BY <1>7 DEF Settings!Answer, Settings!Presentation, Settings!Meters, Settings!Identities, Settings!Books
  <2>. QED
    BY <1>7, <1>0, <2>1
    DEF Held, Kept, Stored, GetIs, Settings!Flags, Settings!Presentation, Settings!Books, Settings!get_meter,
        Settings!Meters
<1>8. CASE c.at = "CAOC"
  <2>1. step = Settings!get_aoc(p["CallMeter"])
    BY <1>8 DEF Settings!Answer, Settings!Presentation, Settings!Meters, Settings!Identities, Settings!Books
  <2>. QED
    BY <1>8, <1>0, <2>1
    DEF Held, Kept, Stored, GetIs, Settings!Flags, Settings!Presentation, Settings!Books, Settings!get_aoc
<1>9. CASE c.at = "CPUC"
  <2>1. step = Settings!get_puc(p)
    BY <1>9 DEF Settings!Answer, Settings!Presentation, Settings!Meters, Settings!Identities, Settings!Books
  <2>. QED
    BY <1>9, <1>0, <2>1
    DEF Held, Kept, Stored, GetIs, Settings!Flags, Settings!Presentation, Settings!Books, Settings!get_puc
<1>10. CASE c.at \in DOMAIN Settings!Identities
  <2>1. step = Settings!get_identity(p[Settings!Identities[c.at]])
    BY <1>10 DEF Settings!Answer, Settings!Presentation, Settings!Meters, Settings!Identities, Settings!Books
  <2>. QED
    BY <1>10, <1>0, <2>1, SMTT(30)
    DEF Held, Kept, Stored, GetIs, Settings!Flags, Settings!Presentation, Settings!Books, Settings!get_identity,
        Settings!Identities
<1>11. CASE c.at = "CFUN"
  <2>1. step = Settings!get_cfun(p)
    BY <1>11 DEF Settings!Answer, Settings!Presentation, Settings!Meters, Settings!Identities, Settings!Books
  <2>. QED
    BY <1>11, <1>0, <2>1
    DEF Held, Kept, Stored, GetIs, Settings!Flags, Settings!Presentation, Settings!Books, Settings!get_cfun
<1>12. CASE c.at = "CGATT"
  <2>1. step = Settings!get_attach(p)
    BY <1>12 DEF Settings!Answer, Settings!Presentation, Settings!Meters, Settings!Identities, Settings!Books
  <2>. QED
    BY <1>12, <1>0, <2>1
    DEF Held, Kept, Stored, GetIs, Settings!Flags, Settings!Presentation, Settings!Books, Settings!get_attach
<1>13. CASE c.at = "CSQ"
  <2>1. step = Settings!do_csq(p)
    BY <1>13 DEF Settings!Answer, Settings!Presentation, Settings!Meters, Settings!Identities, Settings!Books
  <2>. QED
    BY <1>13, <1>0, <2>1
    DEF Held, Kept, Stored, GetIs, Settings!Flags, Settings!Presentation, Settings!Books, Settings!do_csq
<1>14. CASE c.at = "WS46"
  <2>1. step = Settings!get_ws46(p)
    BY <1>14 DEF Settings!Answer, Settings!Presentation, Settings!Meters, Settings!Identities, Settings!Books
  <2>. QED
    BY <1>14, <1>0, <2>1
    DEF Held, Kept, Stored, GetIs, Settings!Flags, Settings!Presentation, Settings!Books, Settings!get_ws46
<1>15. CASE c.at = "COPS"
  <2>1. step = Settings!get_cops(p)
    BY <1>15 DEF Settings!Answer, Settings!Presentation, Settings!Meters, Settings!Identities, Settings!Books
  <2>. QED
    BY <1>15, <1>0, <2>1
    DEF Held, Kept, Stored, GetIs, Settings!Flags, Settings!Presentation, Settings!Books, Settings!get_cops
<1>16. CASE c.at = "CNTI0"
  <2>1. step = Settings!list_active(p)
    BY <1>16 DEF Settings!Answer, Settings!Presentation, Settings!Meters, Settings!Identities, Settings!Books
  <2>. QED
    BY <1>16, <1>0, <2>1
    DEF Held, Kept, Stored, GetIs, Settings!Flags, Settings!Presentation, Settings!Books, Settings!list_active
<1>17. CASE c.at = "CNTI1"
  <2>1. step = Settings!list_available(p)
    BY <1>17 DEF Settings!Answer, Settings!Presentation, Settings!Meters, Settings!Identities, Settings!Books
  <2>. QED
    BY <1>17, <1>0, <2>1
    DEF Held, Kept, Stored, GetIs, Settings!Flags, Settings!Presentation, Settings!Books, Settings!list_available
<1>18. CASE c.at = "CNUM"
  <2>1. step = Settings!handle_cnum(p["SubscriberNumbers"])
    BY <1>18 DEF Settings!Answer, Settings!Presentation, Settings!Meters, Settings!Identities, Settings!Books
  <2>. QED
    BY <1>18, <1>0, <2>1
    DEF Held, Kept, Stored, GetIs, Settings!Flags, Settings!Presentation, Settings!Books, Settings!handle_cnum
<1>19. CASE c.at \in DOMAIN Settings!Books /\ c.do = "test"
  <2>1. step = Settings!count_book(c.at, p[Settings!Books[c.at]])
    BY <1>19 DEF Settings!Answer, Settings!Presentation, Settings!Meters, Settings!Identities, Settings!Books
  <2>. QED
    BY <1>19, <1>0, <2>1
    DEF Held, Kept, Stored, GetIs, Settings!Flags, Settings!Presentation, Settings!Books, Settings!count_book
<1>20. CASE c.at \in DOMAIN Settings!Books /\ c.do = "get"
  <2>1. step = Settings!read_book(c.at, p[Settings!Books[c.at]], c.from, c.to)
    BY <1>20 DEF Settings!Answer, Settings!Presentation, Settings!Meters, Settings!Identities, Settings!Books
  <2>. QED
    BY <1>20, <1>0, <2>1
    DEF Held, Kept, Stored, GetIs, Settings!Flags, Settings!Presentation, Settings!Books, Settings!read_book
<1>. QED
  BY <1>0, <1>1, <1>2, <1>3, <1>4, <1>5, <1>6, <1>7, <1>8, <1>9, <1>10, <1>11, <1>12, <1>13, <1>14, <1>15, <1>16,
      <1>17, <1>18, <1>19, <1>20
  DEF Settings!Asked, Settings!Flags, Settings!Meters, Settings!Presentation, Settings!Books

\* The call that a command waits for: one that sets what it is given,
Sets(c, request) ==
  \/ /\ c.at = "CLIR" /\ c.n \in 0..2
     /\ request = Settings!SetProperty("HideCallerId", Settings!Hide[c.n + 1])
  \/ /\ c.at = "CCWA" /\ c.mode \in 0..1
     /\ request = Settings!SetProperty("VoiceCallWaiting", IF c.mode = 1 THEN "enabled" ELSE "disabled")
  \/ c.at = "S0" /\ c.n = 0 /\ request = Settings!SetProperty("AutoAnswer", FALSE)
  \/ c.at = "S0" /\ c.n = 1 /\ request = Settings!SetProperty("AutoAnswer", TRUE)
  \/ /\ c.at = "CGSMS" /\ c.n \in 0..4
     /\ request = Settings!SetProperty("Bearer", IF c.n < 4 THEN Settings!Bearers[c.n + 1] ELSE Null)
  \/ c.at = "CSCA" /\ request = Settings!SetProperty("ServiceCenterAddress", c.n)
  \/ c.at = "CAMM" /\ request = Settings!SetProperty("AccumulatedCallMeterMaximum", c.n)
  \/ c.at = "CPUC" /\ request \in {Settings!SetProperty("Currency", c.n), Settings!set_price}
  \/ c.at = "CACM" /\ request = Settings!Method("Reset", 0)
  \/ c.at = "COPS" /\ request = Settings!Method("Deregister", 0)

\* or one that asks; AT+CPAS asks once more when its first call has failed.
Asks(c, request, lost) ==
  \/ c.do = "set" /\ Sets(c, request)
  \/ AsksProperties(c) /\ request = Settings!GetProperties
  \/ c.do = "get" /\ c.at \in {"CPAS", "CLCC"} /\ request = Settings!Method("GetCalls", 0)
  \/ c.do = "get" /\ c.at = "Scan" /\ request = Settings!Method("Scan", 0)
  \/ c.do = "get" /\ c.at = "CPAS" /\ lost /\ request = Settings!GetProperties

\* What a command does first.
FirstStep(c) ==
  IF c.do = "set" THEN Settings!Set(c)
  ELSE IF c.do = "format" THEN Settings!Return(IF c.n \in {0, 2} THEN "OK" ELSE "unsupported")
  ELSE Settings!Question(c)

LEMMA FirstIs ==
  ASSUME NEW c \in Settings!Commands, NEW step, step = FirstStep(c), conf \in [Settings!Flags \cup {"COPS"} -> Nat]
  PROVE  /\ step.call # Settings!Idle => Asks(c, step.call, FALSE) /\ step.shown = <<>>
         /\ step.call # Settings!Idle => Held(c, Settings!Configured(c))
         /\ step.call = Settings!Idle /\ step.res = "OK" => Kept(c, step.shown, Settings!Configured(c))
         /\ step.call = Settings!Idle /\ step.res = "OK" => \A p : Stored(c, step.shown, p)
<1>. USE DEF Settings!Show, Settings!Return, Settings!Ask, Settings!SetProperty, Settings!Method
<1>1. CASE c.do = "set" /\ c.at \in Settings!Flags \ {"CCWA"}
  <2>1. step = Settings!set_flag(c)
    BY <1>1 DEF FirstStep, Settings!Set, Settings!Flags, Settings!Presentation
  <2>. QED
    BY <1>1, <2>1
    DEF Settings!set_flag, Settings!Limit, Held, Kept, Stored, SetIs, Settings!Configured, Settings!Flags,
        Settings!Presentation, Settings!Commands, Settings!Books
<1>2. CASE c.do = "set" /\ c.at = "CCWA"
  <2>1. step = Settings!set_ccwa(c)
    BY <1>2 DEF FirstStep, Settings!Set, Settings!Flags, Settings!Presentation
  <2>2. c.n \in Nat /\ c.mode \in Nat \cup {Null}
    BY <1>2 DEF Settings!Commands
  <2>3. c.n <= 1 => Settings!Configured(c)["CCWA"] = c.n
    BY <1>2, <2>2 DEF Settings!Configured, Settings!Flags, Settings!Limit
  <2>4. CASE c.n > 1 \/ c.mode \notin (0..2) \cup {Null}
    <3>1. step = Settings!Return("unsupported")
      BY <2>1, <2>2, <2>4, CommandsAssumption DEF Settings!set_ccwa, Settings!SettingsAssumption
    <3>. QED
      BY <3>1
  <2>5. CASE c.n <= 1 /\ c.mode = Null
    <3>1. step = Settings!Return("OK")
      BY <2>1, <2>2, <2>5, CommandsAssumption DEF Settings!set_ccwa, Settings!SettingsAssumption
    <3>. QED
      BY <1>2, <2>3, <2>5, <3>1, CommandsAssumption
      DEF Held, Kept, Stored, SetIs, Settings!Books, Settings!SettingsAssumption
  <2>6. CASE c.n <= 1 /\ c.mode \in 0..1
    <3>1. step = Settings!Ask(Settings!SetProperty("VoiceCallWaiting", IF c.mode = 1 THEN "enabled" ELSE "disabled"))
      BY <2>1, <2>2, <2>6, CommandsAssumption DEF Settings!set_ccwa, Settings!SettingsAssumption
    <3>. QED
      BY <1>2, <2>3, <2>6, <3>1 DEF Held, Kept, Asks, Sets
  <2>7. CASE c.n <= 1 /\ c.mode = 2
    <3>1. step = Settings!Ask(Settings!GetProperties)
      BY <2>1, <2>2, <2>7, CommandsAssumption DEF Settings!set_ccwa, Settings!SettingsAssumption
    <3>. QED
      BY <1>2, <2>3, <2>7, <3>1 DEF Held, Kept, Asks, AsksProperties
  <2>8. \/ c.n > 1 \/ c.mode \notin (0..2) \cup {Null}
        \/ c.n <= 1 /\ c.mode = Null
        \/ c.n <= 1 /\ c.mode \in 0..1
        \/ c.n <= 1 /\ c.mode = 2
    BY <2>2
  <2>. QED
    BY <2>4, <2>5, <2>6, <2>7, <2>8
<1>3. CASE c.do = "set" /\ c.at \notin Settings!Flags
  <2>1. c.at \in {"CLIR", "S0", "CGSMS", "CSCA", "CAMM", "CACM", "CPUC", "COPS"} /\ c.n \in Nat
    BY <1>3 DEF Settings!Commands, Settings!Flags
  <2>2. Held(c, Settings!Configured(c)) /\ Kept(c, step.shown, Settings!Configured(c))
    BY <1>3 DEF Held, Kept
  <2>3. CASE c.at = "CLIR"
    BY <1>3, <2>1, <2>2, <2>3
    DEF FirstStep, Settings!Set, Settings!set_clir, Settings!Flags, Settings!Presentation, Asks, Sets
  <2>4. CASE c.at = "S0"
    <3>1. step = Settings!set_auto_answer(c)
      BY <1>3, <2>4 DEF FirstStep, Settings!Set, Settings!Flags, Settings!Presentation
    <3>2. CASE c.n = 0
      <4>1. (c.n # 0) = FALSE /\ ~(c.n > 1)
        BY <3>2
      <4>2. step = Settings!Ask(Settings!SetProperty("AutoAnswer", FALSE))
        BY <3>1, <4>1, Zenon DEF Settings!set_auto_answer
      <4>. QED
        BY <1>3, <2>2, <2>4, <3>2, <4>2 DEF Asks, Sets
    <3>3. CASE c.n = 1
      <4>1. (c.n # 0) = TRUE /\ ~(c.n > 1)
        BY <3>3
      <4>2. step = Settings!Ask(Settings!SetProperty("AutoAnswer", TRUE))
        BY <3>1, <4>1, Zenon DEF Settings!set_auto_answer
      <4>. QED
        BY <1>3, <2>2, <2>4, <3>3, <4>2 DEF Asks, Sets
    <3>4. CASE c.n > 1
      <4>1. step = Settings!Return("ERROR")
        BY <3>1, <3>4 DEF Settings!set_auto_answer
      <4>. QED
        BY <2>2, <4>1
    <3>5. c.n = 0 \/ c.n = 1 \/ c.n > 1
      BY <2>1
    <3>. QED
      BY <3>2, <3>3, <3>4, <3>5, Zenon
  <2>5. CASE c.at = "CGSMS"
    <3>1. step = Settings!set_cgsms(c)
      BY <1>3, <2>5 DEF FirstStep, Settings!Set, Settings!Flags, Settings!Presentation
    <3>2. CASE c.n > 4
      <4>1. step = Settings!Return("ERROR")
        BY <3>1, <3>2 DEF Settings!set_cgsms
      <4>. QED
        BY <2>2, <4>1
    <3>3. CASE ~(c.n > 4)
      <4>1. step = Settings!Ask(Settings!SetProperty("Bearer", IF c.n < 4 THEN Settings!Bearers[c.n + 1] ELSE Null))
        BY <3>1, <3>3 DEF Settings!set_cgsms
      <4>2. c.n \in 0..4
        BY <2>1, <3>3
      <4>. QED
        BY <1>3, <2>2, <2>5, <4>1, <4>2 DEF Asks, Sets
    <3>. QED
      BY <3>2, <3>3
  <2>6. CASE c.at \in {"CSCA", "CAMM", "CACM"}
    BY <1>3, <2>1, <2>2, <2>6 DEF FirstStep, Settings!Set, Settings!Flags, Settings!Presentation, Asks, Sets
  <2>7. CASE c.at = "CPUC"
    BY <1>3, <2>1, <2>2, <2>7
    DEF FirstStep, Settings!Set, Settings!set_puc, Settings!Flags, Settings!Presentation, Asks, Sets
  <2>8. CASE c.at = "COPS"
    BY <1>3, <2>1, <2>2, <2>8 DEF FirstStep, Settings!Set, Settings!Flags, Settings!Presentation, Asks, Sets
  <2>. QED
    BY <2>1, <2>3, <2>4, <2>5, <2>6, <2>7, <2>8
<1>4. CASE c.do = "format"
  <2>1. c.at = "COPS" /\ c.n \in Nat
    BY <1>4 DEF Settings!Commands
  <2>2. step = Settings!Return(IF c.n \in {0, 2} THEN "OK" ELSE "unsupported")
    BY <1>4 DEF FirstStep
  <2>. QED
    BY <1>4, <2>1, <2>2 DEF Held, Kept, Stored, Settings!Configured, Settings!Books
<1>5. CASE c.do \in {"get", "test"}
  <2>1. step = Settings!Question(c) /\ Settings!Configured(c) = conf
    BY <1>5 DEF FirstStep, Settings!Configured
  <2>2. c.at \in Settings!Asked \cup DOMAIN Settings!Books /\ (c.do = "test" => c.at \in DOMAIN Settings!Books)
    BY <1>5 DEF Settings!Commands
  <2>3. CASE c.at \in {"CRC", "CVHU", "CMGF", "CCWA"}
    <3>1. c.do = "get"
      BY <1>5, <2>2, <2>3 DEF Settings!Books
    <3>2. step = Settings!Show(<<conf[c.at]>>)
      BY <2>1, <2>3 DEF Settings!Question
    <3>. QED
      BY <2>1, <2>3, <3>1, <3>2 DEF Held, Kept, Stored, GetIs, Settings!Books
  <2>4. CASE c.at \in {"CPAS", "CLCC"}
    <3>1. step = Settings!Ask(Settings!Method("GetCalls", 0)) /\ c.do = "get"
      BY <1>5, <2>1, <2>2, <2>4 DEF Settings!Question, Settings!Books
    <3>. QED
      BY <2>1, <2>4, <3>1 DEF Held, Kept, Asks, Settings!Flags, Settings!Presentation
  <2>5. CASE c.at = "Scan"
    <3>1. step = Settings!Ask(Settings!Method("Scan", 0)) /\ c.do = "get"
      BY <1>5, <2>1, <2>2, <2>5 DEF Settings!Question, Settings!Books
    <3>. QED
      BY <2>1, <2>5, <3>1 DEF Held, Kept, Asks, Settings!Flags, Settings!Presentation
  <2>6. CASE c.at \notin {"CRC", "CVHU", "CMGF", "CCWA", "CPAS", "CLCC", "Scan"}
    <3>1. step = Settings!Ask(Settings!GetProperties)
      BY <2>1, <2>6 DEF Settings!Question
    <3>. QED
      BY <1>5, <2>1, <2>6, <3>1 DEF Held, Kept, Asks, AsksProperties
  <2>. QED
    BY <2>3, <2>4, <2>5, <2>6
<1>. QED
  BY <1>1, <1>2, <1>3, <1>4, <1>5 DEF Settings!Commands

\* Lists are what oFono gave them.
PropsOK ==
  /\ DOMAIN props = DOMAIN Values[given]
  /\ \A name \in Settings!Lists \cap DOMAIN props : props[name] \in Values[given][name]

\* A command that is waiting has asked for what it means, and holds its flag already.
WaitingOK ==
  /\ call # Settings!Idle \/ count.commands > 0 => cmd \in Groups[given]
  /\ call # Settings!Idle => Asks(cmd, call, call_failed) /\ Held(cmd, conf)
  /\ call # Settings!Idle /\ cmd.at = "CLIR" /\ cmd.do = "get" /\ ~disturbed /\ ~call_failed =>
       shown = <<>> \/ shown = <<Settings!Hidden(props["HideCallerId"])>>

\* One that has ended with OK has done, and shown, what there was.
EndedOK == Settings!Trusted => Kept(cmd, shown, conf) /\ Stored(cmd, shown, props)

\* So has the one before it, and nothing of it is undone by one that reads.
PriorOK ==
  prior # Null /\ ~disturbed /\ ~call_failed =>
    /\ prior.cmd \in Groups[given]
    /\ cmd.do \in {"get", "test"} => Kept(prior.cmd, prior.shown, conf)
    /\ Reads(cmd) => Stored(prior.cmd, prior.shown, props)

\* Of an incoming call, what has been looked at is announced as it was asked for, but for flags set since.
RingOK ==
  /\ ring \in {<<"CRC", "CLIP", "CNAP", "CDIP">>, <<"CLIP", "CNAP", "CDIP">>, <<"CNAP", "CDIP">>, <<"CDIP">>,
               <<"CCWA">>, <<>>}
  /\ due \subseteq Settings!Flags
  /\ \A flag \in Settings!ToSet(ring) : flag \notin rung
  /\ \A flag \in due \ flipped : flag \in Settings!ToSet(ring) \/ (flag \in rung <=> conf[flag] = 1)

SettingsInv ==
  /\ CountOK /\ given \in DOMAIN Groups /\ conf \in [Settings!Flags \cup {"COPS"} -> Nat]
  /\ PropsOK /\ WaitingOK /\ EndedOK /\ PriorOK /\ RingOK

LEMMA SettingsGiveKeeps ==
  ASSUME SettingsInv, NEW c \in Groups[given], Settings!Give(c)
  PROVE  SettingsInv'
<1>1. /\ call = Settings!Idle /\ cmd' = c /\ disturbed' = FALSE /\ call_failed' = FALSE
      /\ count' = [count EXCEPT !.commands = @ + 1]
      /\ conf' = Settings!Configured(c)
      /\ prior' = IF Settings!Trusted THEN [cmd |-> cmd, shown |-> shown] ELSE Null
      /\ flipped' = IF conf' = conf THEN flipped ELSE flipped \cup {c.at}
      /\ UNCHANGED <<given, props, ring, rung, due>>
  BY DEF Settings!Give, Settings!Start, Settings!ringVars
<1>2. PICK step : step = FirstStep(c) /\ Settings!Go(step)
  BY DEF Settings!Give, FirstStep
<1>3. c \in Settings!Commands
  BY CommandsAssumption DEF Settings!SettingsAssumption, SettingsInv
<1>4. call' = step.call /\ res' = step.res /\ shown' = step.shown
  BY <1>2 DEF Settings!Go
<1>5. CountOK' /\ given' \in DOMAIN Groups /\ PropsOK'
  BY <1>1 DEF SettingsInv, CountOK, PropsOK
<1>6. conf' \in [Settings!Flags \cup {"COPS"} -> Nat]
  <2>1. c.do \in {"set", "format"} => c.n \in Nat
    BY <1>3 DEF Settings!Commands
  <2>. QED
    BY <1>1, <2>1 DEF SettingsInv, Settings!Configured
<1>7. WaitingOK'
  BY <1>1, <1>2, <1>3, <1>4, FirstIs DEF SettingsInv, WaitingOK
<1>8. EndedOK'
  BY <1>1, <1>2, <1>3, <1>4, FirstIs DEF SettingsInv, EndedOK, Settings!Trusted, Settings!Ended
<1>9. PriorOK'
  <2>1. CASE Settings!Trusted
    <3>1. prior'.cmd = cmd /\ prior'.shown = shown
      BY <1>1, <2>1
    <3>2. cmd \in Groups[given] /\ Kept(cmd, shown, conf) /\ Stored(cmd, shown, props)
      BY <2>1 DEF SettingsInv, WaitingOK, EndedOK, Settings!Trusted, Settings!Ended
    <3>3. c.do \in {"get", "test"} => conf' = conf
      BY <1>1 DEF Settings!Configured
    <3>. QED
      BY <1>1, <3>1, <3>2, <3>3 DEF PriorOK
  <2>2. CASE ~Settings!Trusted
    BY <1>1, <2>2 DEF PriorOK
  <2>. QED
    BY <2>1, <2>2
<1>10. RingOK'
  <2>1. \A flag \in Settings!Flags \ flipped' : conf'[flag] = conf[flag] /\ flag \notin flipped
    BY <1>1 DEF Settings!Configured, SettingsInv, Settings!Flags, Settings!Presentation
  <2>. QED
    BY <1>1, <2>1 DEF RingOK, SettingsInv
<1>. QED
  BY <1>5, <1>6, <1>7, <1>8, <1>9, <1>10 DEF SettingsInv

\* A failing call of AT+CPAS, or one whose reply is an error, leads to another one or to the end.
LEMMA AfterFailure ==
  ASSUME SettingsInv, call # Settings!Idle, NEW e, e # "OK", NEW p, NEW step, step = Settings!After(cmd, e, p)
  PROVE  /\ step.call # Settings!Idle => Asks(cmd, step.call, TRUE)
         /\ call.do \in {"SetProperty", "Reset", "Deregister"} => step.call = Settings!Idle /\ step.res = e
<1>. USE DEF Settings!Show, Settings!Return, Settings!Ask, Settings!SetProperty, Settings!Method
<1>1. cmd \in Settings!Commands /\ Asks(cmd, call, call_failed)
  BY CommandsAssumption DEF Settings!SettingsAssumption, SettingsInv, WaitingOK
<1>2. CASE call.do = "GetProperties" /\ cmd.at = "CPAS"
  BY <1>2 DEF Settings!After
<1>3. CASE call.do = "GetProperties" /\ cmd.at # "CPAS"
  <2>1. step = IF cmd.at = "COPS" THEN Settings!Return("memory") ELSE Settings!Answer(cmd, p)
    BY <1>3 DEF Settings!After
  <2>2. AsksProperties(cmd)
    BY <1>1, <1>3 DEF Asks, Sets, Settings!set_price
  <2>3. CASE cmd.at = "COPS"
    BY <1>3, <2>1, <2>3
  <2>4. CASE cmd.at # "COPS"
    BY <1>1, <1>3, <2>1, <2>2, <2>4, AnswerIs DEF Asks
  <2>. QED
    BY <2>3, <2>4
<1>4. CASE call.do = "GetCalls" /\ cmd.at = "CPAS"
  <2>1. step = Settings!Ask(Settings!GetProperties)
    BY <1>4 DEF Settings!After
  <2>2. cmd.do = "get"
    BY <1>1, <1>4 DEF Asks, Sets, Settings!set_price
  <2>. QED
    BY <1>4, <2>1, <2>2 DEF Asks
<1>5. CASE call.do \notin {"GetProperties"} /\ (call.do # "GetCalls" \/ cmd.at # "CPAS")
  <2>1. step = Settings!Return(e)
    BY <1>5 DEF Settings!After
  <2>. QED
    BY <2>1
<1>. QED
  BY <1>2, <1>3, <1>4, <1>5

\* What a call that is carried out does to oFono: nothing if it asks, and nothing to lists.
LEMMA CallDoes ==
  ASSUME SettingsInv, call # Settings!Idle, Settings!Accepts, Settings!Do
  PROVE  PropsOK' \/ given' # given
<1>1. Asks(cmd, call, call_failed) /\ PropsOK
  BY DEF SettingsInv, WaitingOK
<1>2. CASE call.do = "SetProperty"
  <2>1. props' = [props EXCEPT ![call.name] = call.value] /\ call.name \in DOMAIN props
    BY <1>2 DEF Settings!Do, Settings!Accepts
  <2>2. call.name \notin Settings!Lists
    BY <1>1, <1>2 DEF Asks, Sets, Settings!SetProperty, Settings!Method, Settings!set_price, Settings!Lists
  <2>. QED
    BY <1>1, <2>1, <2>2 DEF PropsOK
<1>3. CASE call.do = "Reset"
  <2>1. props' = [props EXCEPT !["AccumulatedCallMeter"] = 0]
    BY <1>3 DEF Settings!Do
  <2>. QED
    BY <1>1, <2>1 DEF PropsOK, Settings!Lists
<1>4. CASE call.do = "Deregister"
  <2>1. props' = [props EXCEPT !["Mode"] = "off", !["Status"] = "unregistered"]
    BY <1>4 DEF Settings!Do
  <2>. QED
    BY <1>1, <2>1 DEF PropsOK, Settings!Lists
<1>5. CASE call.do \notin {"SetProperty", "Reset", "Deregister"}
  BY <1>1, <1>5 DEF Settings!Do, PropsOK
<1>. QED
  BY <1>2, <1>3, <1>4, <1>5

LEMMA ReadingDoesNothing ==
  ASSUME SettingsInv, call # Settings!Idle, Settings!Do, Reads(cmd)
  PROVE  props' = props
<1>1. Asks(cmd, call, call_failed) /\ cmd \in Settings!Commands
  BY CommandsAssumption DEF SettingsInv, WaitingOK, Settings!SettingsAssumption
<1>2. ~(cmd.do = "set" /\ Sets(cmd, call))
  <2>1. 2 \notin 0..1
    OBVIOUS
  <2>2. cmd.do = "set" => cmd.at = "CCWA" /\ cmd.mode = 2
    BY DEF Reads
  <2>. QED
    BY <2>1, <2>2, Zenon DEF Sets
<1>3. call.do \in {"GetProperties", "GetCalls", "Scan"}
  BY <1>1, <1>2 DEF Asks, Settings!Method
<1>. QED
  BY <1>3 DEF Settings!Do

LEMMA SettingsFailsKeeps ==
  ASSUME SettingsInv, Settings!Fails
  PROVE  SettingsInv'
<1>1. /\ call # Settings!Idle /\ call_failed' /\ count' = [count EXCEPT !.faults = @ + 1]
      /\ UNCHANGED <<cmd, disturbed, given, conf, ring, rung, due, prior, flipped>>
      /\ UNCHANGED props \/ (Settings!Accepts /\ Settings!Do)
  BY DEF Settings!Fails, Settings!Fault, Settings!ringVars
<1>2. PICK step : step = Settings!After(cmd, "failed", Settings!Nothing) /\ Settings!Go(step)
  BY DEF Settings!Fails
<1>3. call' = step.call
  BY <1>2 DEF Settings!Go
<1>4. PropsOK'
  BY <1>1, CallDoes DEF SettingsInv, PropsOK
<1>5. WaitingOK'
  BY <1>1, <1>2, <1>3, AfterFailure DEF SettingsInv, WaitingOK
<1>6. EndedOK' /\ PriorOK'
  BY <1>1 DEF EndedOK, PriorOK, Settings!Trusted
<1>7. RingOK' /\ CountOK'
  BY <1>1 DEF RingOK, CountOK, SettingsInv
<1>. QED
  BY <1>1, <1>4, <1>5, <1>6, <1>7 DEF SettingsInv

\* A reply that is an error: only calls that set are refused.
LEMMA RefusedKeeps ==
  ASSUME SettingsInv, Settings!Reply, ~Settings!Accepts
  PROVE  SettingsInv'
<1>1. /\ call # Settings!Idle /\ call.do = "SetProperty"
      /\ UNCHANGED <<cmd, disturbed, call_failed, count, given, conf, props, ring, rung, due, prior, flipped>>
  BY DEF Settings!Reply, Settings!Replied, Settings!Accepts, Settings!ringVars
<1>2. PICK e \in {"failed", "invalid"} : Settings!Go(Settings!After(cmd, e, Settings!Nothing))
  BY DEF Settings!Reply
<1>3. PICK step : step = Settings!After(cmd, e, Settings!Nothing)
  OBVIOUS
<1>4. call' = Settings!Idle /\ res' # "OK"
  BY <1>1, <1>2, <1>3, AfterFailure DEF Settings!Go
<1>5. PropsOK' /\ WaitingOK'
  BY <1>1, <1>4 DEF SettingsInv, PropsOK, WaitingOK
<1>6. EndedOK' /\ PriorOK'
  BY <1>1, <1>4 DEF SettingsInv, EndedOK, PriorOK, Settings!Trusted
<1>7. RingOK' /\ CountOK'
  BY <1>1 DEF RingOK, CountOK, SettingsInv
<1>. QED
  BY <1>1, <1>5, <1>6, <1>7 DEF SettingsInv

LEMMA SettingsChangeKeeps ==
  ASSUME SettingsInv, Settings!Change
  PROVE  SettingsInv'
<1>1. /\ count' = [count EXCEPT !.changes = @ + 1] /\ disturbed' = TRUE
      /\ UNCHANGED <<cmd, call, res, shown, call_failed, given, conf, ring, rung, due, flipped>>
  BY DEF Settings!Change, Settings!Other, Settings!ringVars
<1>2. PICK name \in DOMAIN props : \E value \in Values[given][name] : props' = [props EXCEPT ![name] = value]
  BY DEF Settings!Change
<1>3. PropsOK'
  BY <1>1, <1>2 DEF PropsOK, SettingsInv
<1>4. WaitingOK'
  BY <1>1 DEF WaitingOK, SettingsInv, CountOK
<1>5. EndedOK' /\ PriorOK'
  BY <1>1 DEF EndedOK, PriorOK, Settings!Trusted
<1>6. RingOK' /\ CountOK'
  BY <1>1 DEF RingOK, CountOK, SettingsInv
<1>. QED
  BY <1>1, <1>3, <1>4, <1>5, <1>6 DEF SettingsInv

LEMMA CallAddedKeeps ==
  ASSUME SettingsInv, Settings!CallAdded
  PROVE  SettingsInv'
<1>1. /\ count' = [count EXCEPT !.changes = @ + 1]
      /\ ring' \in {<<"CRC", "CLIP", "CNAP", "CDIP">>, <<"CCWA">>}
      /\ due' = Settings!ToSet(ring') /\ rung' = {} /\ flipped' = {}
      /\ UNCHANGED <<cmd, call, res, shown, disturbed, call_failed, given, conf, props, prior>>
  BY DEF Settings!CallAdded
<1>2. count'.commands = count.commands
  BY <1>1 DEF SettingsInv, CountOK
<1>3. PropsOK' /\ WaitingOK' /\ CountOK'
  BY <1>1, <1>2 DEF PropsOK, WaitingOK, SettingsInv, CountOK
<1>4. EndedOK' /\ PriorOK'
  BY <1>1, <1>2 DEF EndedOK, PriorOK, Settings!Trusted, Settings!Ended, SettingsInv
<1>5. RingOK'
  <2>1. Settings!ToSet(ring') \subseteq Settings!Flags
    BY <1>1 DEF Settings!ToSet, Settings!Flags, Settings!Presentation
  <2>. QED
    BY <1>1, <2>1 DEF RingOK
<1>. QED
  BY <1>1, <1>3, <1>4, <1>5 DEF SettingsInv

LEMMA RingKeeps ==
  ASSUME SettingsInv, Settings!Ring
  PROVE  SettingsInv'
<1>1. /\ ring # <<>> /\ ring' = Tail(ring)
      /\ rung' = IF conf[Head(ring)] = 1 THEN rung \cup {Head(ring)} ELSE rung
      /\ UNCHANGED <<cmd, call, res, shown, disturbed, call_failed, count, given, conf, props, prior, due, flipped>>
  BY DEF Settings!Ring, Settings!commandVars
<1>2. PropsOK' /\ WaitingOK' /\ CountOK' /\ EndedOK' /\ PriorOK'
  BY <1>1 DEF PropsOK, WaitingOK, SettingsInv, CountOK, EndedOK, PriorOK, Settings!Trusted, Settings!Ended
<1>3. RingOK'
  <2>1. /\ Tail(<<"CRC", "CLIP", "CNAP", "CDIP">>) = <<"CLIP", "CNAP", "CDIP">>
        /\ Tail(<<"CLIP", "CNAP", "CDIP">>) = <<"CNAP", "CDIP">>
        /\ Tail(<<"CNAP", "CDIP">>) = <<"CDIP">>
        /\ Tail(<<"CDIP">>) = <<>> /\ Tail(<<"CCWA">>) = <<>>
    OBVIOUS
  <2>2. ring' \in {<<"CLIP", "CNAP", "CDIP">>, <<"CNAP", "CDIP">>, <<"CDIP">>, <<>>}
    BY <1>1, <2>1 DEF SettingsInv, RingOK
  <2>3. Head(ring) \notin Settings!ToSet(ring') /\ Settings!ToSet(ring) = {Head(ring)} \cup Settings!ToSet(ring')
    <3>. USE DEF Settings!ToSet
    <3>1. CASE ring = <<"CRC", "CLIP", "CNAP", "CDIP">>
      BY <1>1, <2>1, <3>1
    <3>2. CASE ring = <<"CLIP", "CNAP", "CDIP">>
      BY <1>1, <2>1, <3>2
    <3>3. CASE ring = <<"CNAP", "CDIP">>
      BY <1>1, <2>1, <3>3
    <3>4. CASE ring = <<"CDIP">>
      BY <1>1, <2>1, <3>4
    <3>5. CASE ring = <<"CCWA">>
      BY <1>1, <2>1, <3>5
    <3>. QED
      BY <1>1, <3>1, <3>2, <3>3, <3>4, <3>5 DEF SettingsInv, RingOK
  <2>. QED
    BY <1>1, <2>2, <2>3 DEF SettingsInv, RingOK
<1>. QED
  BY <1>1, <1>2, <1>3 DEF SettingsInv

LEMMA SettingsInitial ==
  ASSUME Settings!Init
  PROVE  SettingsInv
<1>1. given \in DOMAIN Groups /\ conf = [flag \in Settings!Flags \cup {"COPS"} |-> IF flag = "COPS" THEN 2 ELSE 0]
      /\ props = [name \in DOMAIN Values[given] |-> CHOOSE v \in Values[given][name] : TRUE]
      /\ ring = <<>> /\ rung = {} /\ due = {} /\ flipped = {} /\ prior = Null
      /\ call = Settings!Idle /\ count = [commands |-> 0, changes |-> 0, faults |-> 0]
  BY DEF Settings!Init, Settings!CommandInit
<1>2. PropsOK
  <2>1. \A name \in DOMAIN Values[given] : Values[given][name] # {}
    BY <1>1, CommandsAssumption DEF Settings!SettingsAssumption
  <2>. QED
    BY <1>1, <2>1 DEF PropsOK
<1>3. RingOK
  BY <1>1 DEF RingOK, Settings!ToSet
<1>4. WaitingOK /\ EndedOK /\ PriorOK
  BY <1>1 DEF WaitingOK, EndedOK, PriorOK, Settings!Trusted, Settings!Ended
<1>. QED
  BY <1>1, <1>2, <1>3, <1>4 DEF SettingsInv, CountOK

\* A command that sets something has set it when oFono says so.
LEMMA SetDone ==
  ASSUME SettingsInv, call # Settings!Idle, ~call_failed, cmd.do = "set", Sets(cmd, call),
         Settings!Accepts, Settings!Do,
         NEW step, step = Settings!After(cmd, "OK", props)
  PROVE  \/ step.call # Settings!Idle /\ Sets(cmd, step.call)
         \/ step.call = Settings!Idle /\ Kept(cmd, step.shown, conf) /\ Stored(cmd, step.shown, props')
<1>. USE DEF Settings!Return, Settings!Ask, Settings!SetProperty, Settings!Method, Settings!set_price
<1>1. cmd \in Settings!Commands /\ Held(cmd, conf)
  BY CommandsAssumption DEF SettingsInv, WaitingOK, Settings!SettingsAssumption
<1>2. Kept(cmd, step.shown, conf)
  BY <1>1 DEF Kept
<1>3. CASE cmd.at = "CPUC" /\ call = Settings!SetProperty("Currency", cmd.n)
  BY <1>3 DEF Settings!After, Sets
<1>4. CASE ~(cmd.at = "CPUC" /\ call = Settings!SetProperty("Currency", cmd.n))
  <2>1. step = Settings!Return("OK")
    BY <1>4 DEF Settings!After, Sets
  <2>2. cmd.at \in {"CLIR", "CCWA", "S0", "CGSMS", "CSCA", "CAMM"} =>
          call.do = "SetProperty" /\ call.value # Null /\ props' = [props EXCEPT ![call.name] = call.value]
          /\ call.name \in DOMAIN props
    BY DEF Sets, Settings!Do, Settings!Accepts
  <2>3. cmd.at = "CGSMS" => cmd.n \in 0..3 /\ call = Settings!SetProperty("Bearer", Settings!Bearers[cmd.n + 1])
    BY <2>2 DEF Sets
  <2>4. SetIs(cmd, props')
    BY <2>2, <2>3 DEF Sets, SetIs
  <2>5. ~(cmd.at = "CCWA" /\ cmd.mode = 2) /\ cmd.at \notin DOMAIN Settings!Books
    BY DEF Sets, Settings!Books
  <2>. QED
    BY <1>2, <2>1, <2>4, <2>5 DEF Stored
<1>. QED
  BY <1>3, <1>4

\* The first call that tells is found.
LEMMA PhoneActivity ==
  ASSUME NEW list \in Seq(STRING)
  PROVE  \E text : /\ Settings!show_cpas(list) = Settings!Show(text)
                   /\ \/ text = <<0>> /\ \A i \in DOMAIN list : list[i] \notin {"incoming", "active", "alerting"}
                      \/ text = <<3>> /\ \E i \in DOMAIN list : list[i] = "incoming"
                      \/ text = <<4>> /\ \E i \in DOMAIN list : list[i] \in {"active", "alerting"}
<1>. DEFINE telling == {i \in DOMAIN list : list[i] \in {"incoming", "active", "alerting"}}
            told == CHOOSE i \in telling : \A j \in telling : i <= j
<1>1. Settings!show_cpas(list) =
        Settings!Show(<<IF telling = {} THEN 0 ELSE IF list[told] = "incoming" THEN 3 ELSE 4>>)
  BY DEF Settings!show_cpas
<1>2. CASE telling = {}
  BY <1>1, <1>2
<1>3. CASE telling # {}
  <2>1. \E i \in telling : \A j \in telling : i <= j
    <3>1. telling \in SUBSET Nat
      OBVIOUS
    <3>. HIDE DEF telling
    <3>. QED
      BY <1>3, <3>1, LeastIs
  <2>2. told \in telling
    BY <2>1
  <2>. HIDE DEF told
  <2>. QED
    BY <1>1, <1>3, <2>2
<1>. QED
  BY <1>2, <1>3

\* A command that asks shows what there is.
LEMMA AskedDone ==
  ASSUME SettingsInv, call # Settings!Idle, ~call_failed, ~disturbed, Asks(cmd, call, FALSE),
         ~(cmd.do = "set" /\ Sets(cmd, call)),
         NEW step, step = Settings!After(cmd, "OK", props)
  PROVE  /\ step.call # Settings!Idle => Asks(cmd, step.call, FALSE)
              /\ cmd.at = "CLIR" /\ step.shown = <<Settings!Hidden(props["HideCallerId"])>>
         /\ step.call = Settings!Idle /\ step.res = "OK" =>
              Kept(cmd, step.shown, conf) /\ Stored(cmd, step.shown, props)
<1>. USE DEF Settings!Show, Settings!Return, Settings!Ask, Settings!SetProperty, Settings!Method
<1>1. /\ cmd \in Settings!Commands /\ Held(cmd, conf) /\ cmd \in Groups[given] /\ given \in DOMAIN Groups
      /\ cmd.at = "CLIR" /\ cmd.do = "get" => shown = <<>> \/ shown = <<Settings!Hidden(props["HideCallerId"])>>
  BY CommandsAssumption DEF SettingsInv, WaitingOK, Settings!SettingsAssumption
<1>2. CASE AsksProperties(cmd)
  <2>1. call = Settings!GetProperties /\ cmd.at # "CPAS"
    BY <1>2, <1>1 DEF Asks, AsksProperties, Settings!Commands, Settings!Books
  <2>2. step = Settings!Answer(cmd, props)
    BY <2>1 DEF Settings!After
  <2>3. cmd.at = "CLIR" => cmd.do = "get"
    BY <1>1, <1>2 DEF AsksProperties, Settings!Commands, Settings!Books
  <2>4. cmd.do = "set" => Kept(cmd, step.shown, conf)
    BY <1>1 DEF Kept
  <2>. QED
    BY <1>1, <1>2, <2>2, <2>3, <2>4, AnswerIs DEF Asks
<1>3. CASE cmd.do = "get" /\ cmd.at \in {"CPAS", "CLCC"} /\ call = Settings!Method("GetCalls", 0)
  <2>1. Kept(cmd, step.shown, conf)
    BY <1>1, <1>3 DEF Kept, Settings!Flags, Settings!Presentation
  <2>2. props["Calls"] \in Seq(STRING)
    BY <1>1, <1>3, CommandsAssumption DEF SettingsInv, PropsOK, Settings!SettingsAssumption, Settings!Lists
  <2>3. CASE cmd.at = "CPAS"
    <3>1. step = Settings!show_cpas(props["Calls"])
      BY <1>3, <2>3 DEF Settings!After
    <3>2. GetIs(cmd, step.shown, props)
      BY <2>2, <2>3, <3>1, PhoneActivity DEF GetIs, Settings!Books
    <3>3. step.call = Settings!Idle
      BY <2>2, <3>1, PhoneActivity
    <3>. QED
      BY <1>3, <2>1, <2>3, <3>2, <3>3 DEF Stored
  <2>4. CASE cmd.at = "CLCC"
    <3>1. step = Settings!handle_clcc(props["Calls"])
      BY <1>3, <2>4 DEF Settings!After
    <3>2. GetIs(cmd, step.shown, props)
      BY <2>4, <3>1 DEF GetIs, Settings!Books
    <3>3. step.call = Settings!Idle
      BY <3>1 DEF Settings!handle_clcc
    <3>. QED
      BY <1>3, <2>1, <2>4, <3>2, <3>3 DEF Stored
  <2>. QED
    BY <1>3, <2>3, <2>4
<1>4. CASE cmd.do = "get" /\ cmd.at = "Scan" /\ call = Settings!Method("Scan", 0)
  <2>1. step = Settings!list_cops(props["Networks"])
    BY <1>4 DEF Settings!After
  <2>2. step.call = Settings!Idle
    BY <2>1 DEF Settings!list_cops
  <2>. QED
    BY <1>4, <2>2 DEF Kept, Held, Stored, GetIs, Settings!Flags, Settings!Presentation, Settings!Books
<1>. QED
  BY <1>2, <1>3, <1>4 DEF Asks

\* And, whatever has failed before:
LEMMA SetCalls ==
  ASSUME SettingsInv, cmd.do = "set", Sets(cmd, call), NEW step, step = Settings!After(cmd, "OK", props)
  PROVE  step.call # Settings!Idle => Sets(cmd, step.call)
<1>. USE DEF Settings!Return, Settings!Ask, Settings!SetProperty, Settings!Method, Settings!set_price
<1>1. CASE cmd.at = "CPUC" /\ call = Settings!SetProperty("Currency", cmd.n)
  BY <1>1 DEF Settings!After, Sets
<1>2. CASE ~(cmd.at = "CPUC" /\ call = Settings!SetProperty("Currency", cmd.n))
  <2>1. step = Settings!Return("OK")
    BY <1>2 DEF Settings!After, Sets
  <2>. QED
    BY <2>1
<1>. QED
  BY <1>1, <1>2

LEMMA AskingDoesNothing ==
  ASSUME Asks(cmd, call, call_failed), ~(cmd.do = "set" /\ Sets(cmd, call)), Settings!Do
  PROVE  props' = props
<1>1. call.do \in {"GetProperties", "GetCalls", "Scan"}
  BY DEF Asks, Settings!Method
<1>. QED
  BY <1>1 DEF Settings!Do

LEMMA AskedCalls ==
  ASSUME SettingsInv, Asks(cmd, call, call_failed), cmd \in Settings!Commands, call # Settings!Idle,
         ~(cmd.do = "set" /\ Sets(cmd, call)), NEW step, step = Settings!After(cmd, "OK", props)
  PROVE  step.call # Settings!Idle => Asks(cmd, step.call, call_failed)
<1>. USE DEF Settings!Show, Settings!Method
<1>1. CASE AsksProperties(cmd) /\ cmd.at # "CPAS"
  <2>1. step = Settings!Answer(cmd, props)
    BY <1>1 DEF Asks, AsksProperties, Settings!After, Settings!Commands, Settings!Books
  <2>. QED
    BY <1>1, <2>1, AnswerIs DEF Asks
<1>2. CASE cmd.at = "CPAS" /\ call = Settings!GetProperties
  BY <1>2 DEF Settings!After
<1>3. CASE cmd.at \in {"CPAS", "CLCC"} /\ call = Settings!Method("GetCalls", 0)
  BY <1>3 DEF Settings!After, Settings!show_cpas, Settings!handle_clcc
<1>4. CASE call = Settings!Method("Scan", 0)
  BY <1>4 DEF Settings!After, Settings!list_cops
<1>. QED
  BY <1>1, <1>2, <1>3, <1>4 DEF Asks, AsksProperties

LEMMA AcceptedKeeps ==
  ASSUME SettingsInv, Settings!Reply, Settings!Accepts
  PROVE  SettingsInv'
<1>1. /\ call # Settings!Idle /\ Settings!Do
      /\ UNCHANGED <<cmd, disturbed, call_failed, count, given, conf, ring, rung, due, prior, flipped>>
  BY DEF Settings!Reply, Settings!Replied, Settings!ringVars
<1>2. PICK step : step = Settings!After(cmd, "OK", props) /\ Settings!Go(step)
  BY DEF Settings!Reply
<1>3. call' = step.call /\ res' = step.res /\ shown' = step.shown
  BY <1>2 DEF Settings!Go
<1>4. PropsOK'
  BY <1>1, CallDoes
<1>5. Asks(cmd, call, call_failed) /\ cmd \in Groups[given] /\ Held(cmd, conf) /\ cmd \in Settings!Commands
  BY <1>1, CommandsAssumption DEF SettingsInv, WaitingOK, Settings!SettingsAssumption
<1>6. WaitingOK' /\ EndedOK'
  <2>1. CASE cmd.do = "set" /\ Sets(cmd, call)
    <3>1. \/ call' # Settings!Idle /\ Sets(cmd, call')
          \/ call' = Settings!Idle
      BY <1>1, <1>2, <1>3, <2>1, SetCalls
    <3>2. WaitingOK'
      BY <1>1, <1>5, <2>1, <3>1 DEF WaitingOK, Asks
    <3>3. EndedOK'
      BY <1>1, <1>2, <1>3, <2>1, SetDone DEF EndedOK, Settings!Trusted, Settings!Ended
    <3>. QED
      BY <3>2, <3>3
  <2>2. CASE ~(cmd.do = "set" /\ Sets(cmd, call))
    <3>1. props' = props
      BY <1>1, <1>5, <2>2, AskingDoesNothing
    <3>2. step.call # Settings!Idle => Asks(cmd, step.call, call_failed)
      BY <1>1, <1>2, <1>5, <2>2, AskedCalls
    <3>3. WaitingOK'
      BY <1>1, <1>2, <1>3, <1>5, <2>2, <3>1, <3>2, AskedDone DEF WaitingOK, Asks
    <3>4. EndedOK'
      BY <1>1, <1>2, <1>3, <1>5, <2>2, <3>1, AskedDone DEF EndedOK, Settings!Trusted, Settings!Ended, Asks
    <3>. QED
      BY <3>3, <3>4
  <2>. QED
    BY <2>1, <2>2
<1>7. PriorOK'
  <2>1. Reads(cmd) => props' = props
    BY <1>1, ReadingDoesNothing
  <2>. QED
    BY <1>1, <2>1 DEF PriorOK, SettingsInv
<1>8. RingOK' /\ CountOK'
  BY <1>1 DEF RingOK, CountOK, SettingsInv
<1>. QED
  BY <1>1, <1>4, <1>6, <1>7, <1>8 DEF SettingsInv

LEMMA PlacesOfBearers == \A n \in 0..3 : Settings!Index(Settings!Bearers, Settings!Bearers[n + 1]) - 1 = n
  BY DEF Settings!Index, Settings!Bearers

\* Two commands in a row, with nothing in between.
LEMMA TwoCommands ==
  ASSUME SettingsInv, NEW at1, NEW do1, NEW at2, NEW do2, Settings!After2(at1, do1, at2, do2)
  PROVE  /\ prior.cmd \in Settings!Commands /\ cmd \in Settings!Commands /\ cmd \in Groups[given]
         /\ prior.cmd.at = at1 /\ prior.cmd.do = do1 /\ cmd.at = at2 /\ cmd.do = do2
         /\ Kept(cmd, shown, conf) /\ Stored(cmd, shown, props)
         /\ do2 \in {"get", "test"} => Kept(prior.cmd, prior.shown, conf)
         /\ Reads(cmd) => Stored(prior.cmd, prior.shown, props)
<1>1. Settings!Trusted /\ prior # Null
      /\ prior.cmd.at = at1 /\ prior.cmd.do = do1 /\ cmd.at = at2 /\ cmd.do = do2
  BY DEF Settings!After2
<1>2. ~disturbed /\ ~call_failed /\ count.commands > 0
  BY <1>1 DEF Settings!Trusted, Settings!Ended
<1>. QED
  BY <1>1, <1>2, CommandsAssumption DEF SettingsInv, WaitingOK, EndedOK, PriorOK, Settings!SettingsAssumption

LEMMA WhatIsSetIsShown ==
  ASSUME SettingsInv
  PROVE  Settings!ReadsBack
<1>1. ASSUME NEW name \in Settings!Flags \cup {"CLIR", "S0", "CGSMS", "CSCA", "CAMM"},
             Settings!After2(name, "set", name, "get")
      PROVE  shown[1] = prior.cmd.n
  <2>1. /\ prior.cmd \in Settings!Commands
        /\ prior.cmd.at = name /\ prior.cmd.do = "set" /\ cmd.at = name /\ cmd.do = "get"
        /\ Kept(cmd, shown, conf) /\ Kept(prior.cmd, prior.shown, conf)
        /\ SetIs(prior.cmd, props) /\ GetIs(cmd, shown, props)
    BY <1>1, TwoCommands DEF Reads, Stored
  <2>2. CASE name \in Settings!Flags
    BY <2>1, <2>2 DEF Kept, Held
  <2>3. CASE name = "CLIR"
    BY <2>1, <2>3 DEF SetIs, GetIs, Settings!Hide, Settings!Hidden
  <2>4. CASE name = "S0"
    BY <2>1, <2>4 DEF SetIs, GetIs
  <2>5. CASE name = "CGSMS"
    BY <2>1, <2>5, PlacesOfBearers DEF SetIs, GetIs
  <2>6. CASE name \in {"CSCA", "CAMM"}
    BY <2>1, <2>6 DEF SetIs, GetIs
  <2>. QED
    BY <2>2, <2>3, <2>4, <2>5, <2>6
<1>2. ASSUME Settings!After2("CCWA", "set", "CCWA", "set"), prior.cmd.mode \in 0..1, cmd.mode = 2
      PROVE  shown[1] = prior.cmd.mode
  <2>1. /\ prior.cmd.at = "CCWA" /\ SetIs(prior.cmd, props)
        /\ shown[1] = Settings!Mode(props["VoiceCallWaiting"])
    BY <1>2, TwoCommands DEF Reads, Stored
  <2>. QED
    BY <1>2, <2>1 DEF SetIs, Settings!Mode
<1>3. ASSUME Settings!After2("COPS", "format", "COPS", "get"), Len(shown) = 3
      PROVE  shown[2] = prior.cmd.n
  BY <1>3, TwoCommands DEF Kept
<1>. QED
  BY <1>1, <1>2, <1>3 DEF Settings!ReadsBack

LEMMA PlacesOfTechnologies ==
  /\ \A t \in {"gsm", "umts", "edge", "hsdpa", "hsupa", "hspa", "lte"} : t \in Settings!ToSet(Settings!tes)
  /\ Settings!Index(Settings!tes, "gsm") = 1 /\ Settings!Index(Settings!tes, "edge") = 4
  /\ Settings!Index(Settings!tes, "umts") = 3 /\ Settings!Index(Settings!tes, "hsdpa") = 5
  /\ Settings!Index(Settings!tes, "hsupa") = 6 /\ Settings!Index(Settings!tes, "hspa") = 7
  /\ Settings!Index(Settings!tes, "lte") = 8
<1>. DEFINE place(t) == Settings!Index(Settings!tes, t)
<1>1. DOMAIN Settings!tes = 1..8
  BY DEF Settings!tes
<1>2. /\ Settings!tes[1] = "gsm" /\ Settings!tes[2] = "empty" /\ Settings!tes[3] = "umts" /\ Settings!tes[4] = "edge"
      /\ Settings!tes[5] = "hsdpa" /\ Settings!tes[6] = "hsupa" /\ Settings!tes[7] = "hspa" /\ Settings!tes[8] = "lte"
  BY DEF Settings!tes
<1>3. \A t \in {"gsm", "umts", "edge", "hsdpa", "hsupa", "hspa", "lte"} : t \in Settings!ToSet(Settings!tes)
  BY <1>1, <1>2 DEF Settings!ToSet
<1>4. place("gsm") = 1 /\ place("edge") = 4 /\ place("lte") = 8
  BY <1>1, <1>2 DEF Settings!Index
<1>5. place("umts") = 3 /\ place("hsdpa") = 5 /\ place("hsupa") = 6 /\ place("hspa") = 7
  BY <1>1, <1>2 DEF Settings!Index
<1>. QED
  BY <1>3, <1>4, <1>5

\* AT+WS46? has told of one kind of network.
IsNamed == prior.shown # <<25>>

LEMMA TellOfOneNetwork ==
  ASSUME SettingsInv
  PROVE  Settings!OneNetwork
<1>1. ASSUME NEW name, name \in {"COPS", "CNTI1"}, Settings!After2("WS46", "get", name, "get"), IsNamed
      PROVE  /\ \/ prior.shown[1] = 12 /\ props["Technology"] \in {"gsm", "edge"}
                \/ prior.shown[1] = 22 /\ props["Technology"] \in {"umts", "hsdpa", "hsupa", "hspa"}
                \/ prior.shown[1] = 28 /\ props["Technology"] = "lte"
             /\ cmd.at = name /\ GetIs(cmd, shown, props)
  <2>1. /\ prior.cmd.at = "WS46" /\ GetIs(prior.cmd, prior.shown, props)
        /\ cmd.at = name /\ GetIs(cmd, shown, props)
    BY <1>1, TwoCommands DEF Reads, Stored
  <2>. QED
    BY <1>1, <2>1 DEF GetIs, IsNamed
<1>2. ASSUME Settings!After2("WS46", "get", "COPS", "get"), Len(shown) = 3, IsNamed
      PROVE  shown[3] \in Settings!Generation[prior.shown[1]]
  <2>1. props["Technology"] \in Settings!ToSet(Settings!tes) =>
          shown[3] = Settings!Index(Settings!tes, props["Technology"]) - 1
    BY <1>1, <1>2 DEF GetIs
  <2>. QED
    BY <1>1, <1>2, <2>1, PlacesOfTechnologies DEF Settings!Generation
<1>3. ASSUME Settings!After2("WS46", "get", "CNTI1", "get"), IsNamed
      PROVE  shown # <<>> /\ Settings!Last(shown) \in Settings!Newest[prior.shown[1]]
  <2>1. shown = Settings!list_available(props).shown
    BY <1>1, <1>3 DEF GetIs
  <2>. QED
    BY <1>1, <1>3, <2>1 DEF Settings!list_available, Settings!Show, Settings!Last, Settings!Newest
<1>. QED
  BY <1>2, <1>3 DEF Settings!OneNetwork, IsNamed

LEMMA TellOfTheSameCalls ==
  ASSUME SettingsInv, Settings!After2("CPAS", "get", "CLCC", "get")
  PROVE  Settings!SameCalls
<1>. DEFINE list == props["Calls"]
            known == {i \in DOMAIN list : list[i] \in Settings!ToSet(Settings!CallStates)}
<1>1. GetIs(prior.cmd, prior.shown, props) /\ prior.cmd.at = "CPAS" /\ GetIs(cmd, shown, props) /\ cmd.at = "CLCC"
  BY TwoCommands DEF Reads, Stored
<1>2. shown = [i \in known |-> Settings!Index(Settings!CallStates, list[i]) - 1]
  BY <1>1 DEF GetIs, Settings!handle_clcc, Settings!Show
<1>3. Settings!ToSet(shown) = {Settings!Index(Settings!CallStates, list[i]) - 1 : i \in known}
  BY <1>2 DEF Settings!ToSet
<1>4. Settings!ToSet(Settings!CallStates) = {"active", "held", "dialing", "alerting", "incoming", "waiting"}
  BY DEF Settings!ToSet, Settings!CallStates
<1>5. /\ Settings!Index(Settings!CallStates, "active") = 1 /\ Settings!Index(Settings!CallStates, "held") = 2
      /\ Settings!Index(Settings!CallStates, "dialing") = 3 /\ Settings!Index(Settings!CallStates, "alerting") = 4
      /\ Settings!Index(Settings!CallStates, "incoming") = 5 /\ Settings!Index(Settings!CallStates, "waiting") = 6
  BY DEF Settings!Index, Settings!CallStates
<1>6. \/ prior.shown = <<0>> /\ \A i \in DOMAIN list : list[i] \notin {"incoming", "active", "alerting"}
      \/ prior.shown = <<3>> /\ \E i \in DOMAIN list : list[i] = "incoming"
      \/ prior.shown = <<4>> /\ \E i \in DOMAIN list : list[i] \in {"active", "alerting"}
  BY <1>1 DEF GetIs
<1>7. CASE prior.shown = <<0>> /\ \A i \in DOMAIN list : list[i] \notin {"incoming", "active", "alerting"}
  BY <1>3, <1>4, <1>5, <1>7 DEF Settings!SameCalls
<1>8. CASE prior.shown = <<3>> /\ \E i \in DOMAIN list : list[i] = "incoming"
  BY <1>3, <1>4, <1>5, <1>8 DEF Settings!SameCalls
<1>9. CASE prior.shown = <<4>> /\ \E i \in DOMAIN list : list[i] \in {"active", "alerting"}
  BY <1>3, <1>4, <1>5, <1>9 DEF Settings!SameCalls
<1>. QED
  BY <1>6, <1>7, <1>8, <1>9

LEMMA EntriesAreFound ==
  ASSUME SettingsInv
  PROVE  Settings!BooksAgree
<1>. SUFFICES ASSUME NEW name \in DOMAIN Settings!Books, Settings!After2(name, "test", name, "get")
              PROVE  Settings!ToSet(shown) = (cmd.from..cmd.to) \cap (prior.shown[1]..prior.shown[2])
  BY DEF Settings!BooksAgree
<1>. DEFINE list == props[Settings!Books[name]]
<1>1. /\ cmd \in Settings!Commands /\ cmd \in Groups[given] /\ cmd.at = name /\ cmd.do = "get"
      /\ GetIs(cmd, shown, props)
      /\ list # Null /\ prior.shown = <<0, Len(list) - 1>>
  BY TwoCommands DEF Reads, Stored
<1>2. cmd.from \in Nat /\ cmd.to \in Nat
  BY <1>1
  DEF Settings!Commands, Settings!Books, Settings!Asked, Settings!Flags, Settings!Presentation,
      Settings!Identities, Settings!Meters
<1>3. list \in Seq(STRING)
  BY <1>1, CommandsAssumption DEF SettingsInv, PropsOK, Settings!SettingsAssumption, Settings!Lists, Settings!Books
<1>4. shown = [i \in {i \in DOMAIN list : cmd.from <= i - 1 /\ i - 1 <= cmd.to} |-> i - 1]
  BY <1>1 DEF GetIs, Settings!read_book, Settings!Show, Settings!Return
<1>. HIDE DEF list
<1>5. Settings!ToSet(shown) = {i - 1 : i \in {i \in DOMAIN list : cmd.from <= i - 1 /\ i - 1 <= cmd.to}}
  BY <1>4 DEF Settings!ToSet
<1>6. DOMAIN list = 1..Len(list) /\ Len(list) \in Nat
  BY <1>3
<1>7. \A n \in Settings!ToSet(shown) : n \in (cmd.from..cmd.to) \cap (0..Len(list) - 1)
  BY <1>2, <1>5, <1>6
<1>8. ASSUME NEW n \in (cmd.from..cmd.to) \cap (0..Len(list) - 1)
      PROVE  n \in Settings!ToSet(shown)
  <2>1. n + 1 \in {i \in DOMAIN list : cmd.from <= i - 1 /\ i - 1 <= cmd.to} /\ n = (n + 1) - 1
    BY <1>2, <1>6
  <2>. QED
    BY <1>5, <2>1
<1>. QED
  BY <1>1, <1>7, <1>8

LEMMA SettingsAgree ==
  ASSUME SettingsInv
  PROVE  Settings!AnswersAgree
<1>1. Settings!SameCalls
  BY TellOfTheSameCalls DEF Settings!SameCalls
<1>2. Settings!Announced
  BY DEF SettingsInv, RingOK, Settings!Announced, Settings!ToSet
<1>. QED
  BY <1>1, <1>2, WhatIsSetIsShown, TellOfOneNetwork, EntriesAreFound DEF Settings!AnswersAgree

LEMMA SettingsKeep ==
  ASSUME SettingsInv, [Settings!Next]_(Settings!vars)
  PROVE  SettingsInv'
<1>1. CASE UNCHANGED Settings!vars
  <2>1. /\ UNCHANGED <<cmd, call, res, shown, disturbed, call_failed, count>>
        /\ UNCHANGED <<given, conf, props, ring, rung, due, prior, flipped>>
    BY <1>1 DEF Settings!vars, Settings!commandVars, Settings!ringVars
  <2>. QED
    BY <2>1 DEF SettingsInv, CountOK, PropsOK, WaitingOK, EndedOK, PriorOK, RingOK, Settings!Trusted, Settings!Ended
<1>. QED
  BY <1>1, SettingsGiveKeeps, AcceptedKeeps, RefusedKeeps, SettingsFailsKeeps, SettingsChangeKeeps, CallAddedKeeps,
      RingKeeps
  DEF Settings!Next

\* One answer of the plug-in agrees with another, and with what it has been told before, although
\* each command has tables of its own; and a call is announced as it was asked for (callsettings.c,
\* network.c, sms.c, voicecall.c, sim.c, cnti.c).
THEOREM AnswersStayTrue == AllSpec => []AnswersAgree
<1>1. AllInit => (kind = "settings" => SettingsInv)
  BY SettingsInitial DEF AllInit
<1>2. (kind = "settings" => SettingsInv) /\ [AllNext]_allVars => (kind = "settings" => SettingsInv)'
  <2>. SUFFICES ASSUME kind = "settings" => SettingsInv, [AllNext]_allVars, kind' = "settings"
                PROVE  SettingsInv'
    OBVIOUS
  <2>1. kind = "settings" /\ [Settings!Next]_(Settings!vars)
    BY DEF AllNext, allVars, Settings!vars, Settings!commandVars, Settings!ringVars, callVars, settingVars
  <2>. QED
    BY <2>1, SettingsKeep
<1>3. (kind = "settings" => SettingsInv) => AnswersAgree
  BY SettingsAgree DEF AnswersAgree
<1>. QED
  BY <1>1, <1>2, <1>3, PTL DEF AllSpec
=============================================================================
