----------------------------- MODULE OfonoTexts -----------------------------
(***************************************************************************)
(* Commands of the oFono plug-in that pass a text on: AT+CUSD in a session *)
(* with the network (ss.c), AT+CMGS in text and PDU mode (sms.c), AT+CPOS  *)
(* (agps.c), ATD, AT+VTS and AT+BLDN (voicecall.c).                        *)
(***************************************************************************)
EXTENDS OfonoCommand, Integers, FiniteSets, SequencesExt

CONSTANTS
  Texts,     \* what is typed,
  Foreign,   \* and is not in the character set,
  Hexes,     \* and is meant as UCS-2, in hexadecimal digits
  Numbers,   \* typed numbers, as characters
  Pdus,      \* typed PDUs, as digits; -1 is any other character
  Dialled,   \* what is typed after ATD, as characters
  Tones,     \* what is typed after AT+VTS=, as items
  MaxNumber, \* characters kept of a number, at least 2 (20)
  MaxBuffer  \* characters of a buffer, with the nul (256)

VARIABLES
  mode,      \* p->text_mode
  session,   \* oFono: the state of the session
  sent,      \* history: what oFono has passed on for this command
  first      \* history: the state of the session when the command was given

TextsAssumption ==
  /\ Null \notin Texts /\ Null \notin Pdus /\ \A text \in Texts : <<"utf8", text>> # Null
  /\ MaxNumber \in Nat /\ MaxBuffer \in Nat
  /\ Numbers \subseteq Seq({"1", "+"})
  /\ Pdus \subseteq Seq(-1..15)
  /\ Dialled \subseteq Seq({"1", "*", "+", "A", "I", "i", "-", "G", ">"})

vars == <<commandVars, mode, session, sent, first>>

\* at_to_utf8(), of CharacterSets
to_utf8(text) == IF text \in Foreign THEN Null ELSE <<"utf8", text>>

-----------------------------------------------------------------------------
(***************************************************************************)
(* AT+CUSD                                                                 *)
(***************************************************************************)
\* cb_dcs(): the bits of a character.
cb_dcs(dcs) ==
  LET hi == dcs \div 16
      lo == dcs % 16
  IN  CASE hi \in {0, 2, 3}                  -> 7
        [] hi = 1 /\ lo < 2                  -> IF lo = 1 THEN 16 ELSE 7
        [] hi \in {4, 5, 6, 7, 9} /\ lo < 12 -> <<7, 8, 16>>[(lo \div 4) + 1]
        [] hi = 15 /\ lo < 8                 -> <<7, 8>>[(lo \div 4) + 1]
        [] OTHER                             -> 0

\* hexdigit(): the comparisons are signed, and let ":" and others pass as digits.
hexdigit(char) ==
  CASE char = "0" -> 0 [] char = "4" -> 4 [] char = "1" -> 1 [] char = "E" -> 14 [] char = "9" -> 9
    [] char = "D" -> 13 [] char = ":" -> 3 [] OTHER -> -1

\* The code point of four characters; the fourth digit is that of the third character.
cp(str, i) ==
  hexdigit(str[i]) * 4096 + hexdigit(str[i + 1]) * 256 + hexdigit(str[i + 2]) * 16 + hexdigit(str[i + 2])

\* sms16_decode(), of a length that is not three more than a multiple of four.
sms16_decode(str) ==
  LET n == (Len(str) + 3) \div 4
  IN  IF \/ Len(str) % 4 # 0
         \/ \E i \in 1..Len(str) : i % 4 # 0 /\ hexdigit(str[i]) < 0
         \/ \E k \in 0..n - 1 : cp(str, 4 * k + 1) = 0 \/ cp(str, 4 * k + 1) \in 55296..57343
      THEN Null
      ELSE [k \in 1..n |-> cp(str, 4 * k - 3)]

cb_decode(dcs, str) ==
  CASE cb_dcs(dcs) = 7  -> to_utf8(str)
    [] cb_dcs(dcs) = 16 -> sms16_decode(str)
    [] OTHER            -> Null

Pass(method, text) == [do |-> method, text |-> text]

\* set_ussd(), without the watch.
set_ussd(c) ==
  IF c.n > 2 THEN Return("unsupported")
  ELSE IF c.n = 2 THEN IF c.text = Null THEN Ask(Pass("Cancel", Null)) ELSE Return("unsupported")
  ELSE IF c.text = Null THEN Return("OK")
  ELSE IF cb_decode(c.dcs, c.text) = Null THEN Return("unsupported")
  ELSE Ask(GetProperties)

\* Mutated: an answer is sent as a new command.
ussd_state_Commands(c) ==
  IF session = "active" THEN Return("busy") ELSE Ask(Pass("Command", cb_decode(c.dcs, c.text)))

ussd_state(c) ==
  CASE session = "idle"          -> Ask(Pass("Command", cb_decode(c.dcs, c.text)))
    [] session = "user-response" -> Ask(Pass("Respond", cb_decode(c.dcs, c.text)))
    [] session = "active"        -> Return("busy")

-----------------------------------------------------------------------------
(***************************************************************************)
(* AT+CMGS and AT+CPOS: the text is read after a prompt; Null when it is   *)
(* cancelled.                                                              *)
(***************************************************************************)
\* A number that is too long is cut, and what follows it not looked at.
Cut(number) == SubSeq(number, 1, IF Len(number) > MaxNumber THEN MaxNumber ELSE Len(number))

\* send_text()
send_text(c) ==
  IF Len(c.number) <= MaxNumber /\ c.type \notin {Null, IF c.number[1] = "+" THEN 145 ELSE 129}
  THEN Return("unsupported")
  ELSE IF c.text = Null THEN Return("OK")
  ELSE IF to_utf8(c.text) = Null THEN Return("text")
  ELSE Ask(Pass("SendMessage", <<Cut(c.number), to_utf8(c.text)>>))

\* The digits before the first other character, and the octets they make in place.
Leading(pdu) == CHOOSE n \in 0..Len(pdu) :
  /\ \A i \in 1..n : pdu[i] >= 0
  /\ n < Len(pdu) => pdu[n + 1] < 0
Octets(pdu) == [i \in 1..(Leading(pdu) \div 2) |-> pdu[2 * i - 1] * 16 + pdu[2 * i]]

\* send_pdu(): after the address of the service centre, whose length is the first octet (a
\* signed char), len octets.
PduFits(pdu, len) ==
  LET octets == Octets(pdu)
      sca == IF octets = <<>> THEN 0 ELSE IF octets[1] > 127 THEN octets[1] - 256 ELSE octets[1]
  IN  Leading(pdu) % 2 = 0 /\ Len(octets) >= 1 /\ Len(octets) = 1 + sca + len

send_pdu(c) ==
  IF c.pdu = Null THEN Return("OK")
  ELSE IF PduFits(c.pdu, c.len) THEN Ask(Pass("SendMessagePDU", Octets(c.pdu)))
  ELSE Return("pdu")

\* do_cpos(); utf8_validate_string() knows the texts that are not UTF-8.
do_cpos(c) ==
  IF c.text = Null THEN Return("ERROR")
  ELSE IF c.text \in Foreign THEN Return("invalid")
  ELSE Ask(Pass("SendPositioningElement", <<"utf8", c.text>>))

-----------------------------------------------------------------------------
(***************************************************************************)
(* ATD, AT+VTS and AT+BLDN                                                 *)
(***************************************************************************)
Keys == {"1", "*", "+", "A"}

\* What is kept of a string: its characters at these places, in their order.
Places(str, set) == {i \in 1..Len(str) : str[i] \in set}
Picked(str, places) ==
  [k \in 1..Cardinality(places) |->
    str[CHOOSE i \in places : Cardinality({j \in places : j <= i}) = k]]

CallerId(str) ==
  LET own == SelectSeq(str, LAMBDA char : char \in {"I", "i"})
  IN  IF own = <<>> THEN "" ELSE IF Last(own) = "I" THEN "enabled" ELSE "disabled"

\* What makes handle_dial() refuse the number at its n-th character.
Refuses(str, n) ==
  IF str[n] = "G" THEN "unsupported"
  ELSE IF str[n] = ">" THEN "no-entry"
  ELSE IF str[n] \in Keys /\ Cardinality(Places(str, Keys) \cap 1..n) >= MaxBuffer THEN "ERROR"
  ELSE "OK"

\* The first of these results that is one.
FirstOf(results) ==
  IF \E i \in DOMAIN results : results[i] # "OK"
  THEN results[CHOOSE i \in DOMAIN results : results[i] # "OK" /\ \A j \in 1..i - 1 : results[j] = "OK"]
  ELSE "OK"

handle_dial(c) ==
  LET refusal == FirstOf([i \in 1..Len(c.str) |-> Refuses(c.str, i)])
  IN  IF refusal # "OK" THEN Return(refusal)
      ELSE Ask(Pass("Dial", <<Picked(c.str, Places(c.str, Keys)), CallerId(c.str)>>))

\* An item of AT+VTS: a tone, a tone with a duration, or a pair of frequencies with one; the comma
\* between two must be there, and no other.
ToneRefused(c, i) ==
  LET item == c.items[i]
  IN  IF item.form = "frequencies" \/ (item.form = "tone" /\ item.dur \notin {Null, 0}) THEN "unsupported"
      ELSE IF item.char = "x" THEN "invalid"
      ELSE IF i >= MaxBuffer THEN "ERROR"
      ELSE IF item.comma # (i < Len(c.items)) THEN "invalid"
      ELSE "OK"

set_vts(c) ==
  LET refusal == FirstOf([i \in 1..Len(c.items) |-> ToneRefused(c, i)])
  IN  IF refusal # "OK" THEN Return(refusal)
      ELSE Ask(Pass("SendTones", [i \in DOMAIN c.items |-> c.items[i].char]))

handle_redial(c) == IF c.extra THEN Return("invalid") ELSE Ask(Pass("Redial", Null))

Begin(c) ==
  CASE c.at = "CUSD" -> set_ussd(c)
    [] c.at = "CMGF" -> Return("OK")
    [] c.at = "CMGS" -> IF mode = 1 THEN send_text(c) ELSE send_pdu(c)
    [] c.at = "CPOS" -> do_cpos(c)
    [] c.at = "D"    -> handle_dial(c)
    [] c.at = "VTS"  -> set_vts(c)
    [] c.at = "BLDN" -> handle_redial(c)

-----------------------------------------------------------------------------
(***************************************************************************)
(* Commands, oFono and the network.                                        *)
(***************************************************************************)
Sessions == {"idle", "active", "user-response"}
Bits == {15, 72, 68}   \* data coding schemes of 7, 16 and 8 bits

\* The terminal types for AT+CMGS what fits the mode.
Commands ==
  [at : {"CUSD"}, n : 0..3, dcs : Bits \ {72}, text : Texts \cup {Null}]
  \cup [at : {"CUSD"}, n : {1}, dcs : {72}, text : Hexes]
  \cup [at : {"CMGF"}, n : 0..1]
  \cup (IF mode = 1 THEN [at : {"CMGS"}, number : Numbers,
                          type : {Null, 129, 145}, text : Texts \cup {Null}]
        ELSE [at : {"CMGS"}, pdu : Pdus \cup {Null}, len : 0..2])
  \cup [at : {"CPOS"}, text : Texts \cup {Null}]
  \cup [at : {"D"}, str : Dialled]
  \cup [at : {"VTS"}, items : Tones]
  \cup [at : {"BLDN"}, extra : BOOLEAN]

Passes == call.do \notin {"none", "GetProperties"}

\* oFono takes a USSD text only in the session that it is for.
Accepts ==
  CASE call.do = "Command" -> session = "idle"
    [] call.do = "Respond" -> session = "user-response"
    [] call.do = "Cancel"  -> session # "idle"
    [] OTHER               -> TRUE

\* What becomes of the session when the call is carried out.
After ==
  CASE call.do \in {"Command", "Respond"} -> {"idle", "user-response"}
    [] call.do = "Cancel"                 -> {"idle"}
    [] OTHER                              -> {session}

CarriedOut == Accepts /\ session' \in After /\ sent' = Append(sent, call)

Give(c) ==
  /\ Start(c)
  /\ Go(Begin(c))
  /\ mode' = IF c.at = "CMGF" THEN c.n ELSE mode
  /\ sent' = <<>> /\ first' = session
  /\ UNCHANGED session

Fetched ==
  /\ Replied /\ call.do = "GetProperties"
  /\ Go(ussd_state(cmd))
  /\ UNCHANGED <<mode, session, sent, first>>

Accepted ==
  /\ Replied /\ Passes
  /\ CarriedOut
  /\ Go(Return("OK"))
  /\ UNCHANGED <<mode, first>>

Rejected ==
  /\ Replied /\ Passes /\ ~Accepts
  /\ Go(Return("failed"))
  /\ UNCHANGED <<mode, session, sent, first>>

\* The call fails, or is carried out without a reply in time, or with one that is not a string.
Fails ==
  /\ Fault
  /\ \/ UNCHANGED <<session, sent>>
     \/ Passes /\ CarriedOut
  /\ Go(Return(IF Passes THEN "failed" ELSE "unknown"))
  /\ UNCHANGED <<mode, first>>

\* The network ends a session, is busy in one, or asks for an answer.
Change ==
  /\ Other
  /\ session' \in Sessions \ {session}
  /\ UNCHANGED <<mode, sent, first>>

Init ==
  /\ CommandInit
  /\ mode \in 0..1 /\ session \in Sessions /\ sent = <<>> /\ first = session

Next ==
  \/ \E c \in Commands : Give(c)
  \/ Fetched \/ Accepted \/ Rejected \/ Fails
  \/ Change

Spec == Init /\ [][Next]_vars

-----------------------------------------------------------------------------
(***************************************************************************)
(* Properties.                                                             *)
(***************************************************************************)
IsUcs == cmd.at = "CUSD" /\ cmd.dcs = 72

\* The digits of a PDU up to the first other character, in pairs.
Pairs(pdu) ==
  [k \in {k \in 1..Len(pdu) \div 2 : \A i \in 1..2 * k : pdu[i] # -1} |-> pdu[2 * k - 1] * 16 + pdu[2 * k]]

\* What the command means to be passed on; of a number that is too long, nothing is said.
Meant ==
  CASE cmd.at = "CUSD" /\ cmd.n = 2 -> Pass("Cancel", Null)
    [] cmd.at = "CUSD" /\ cmd.n < 2 -> Pass(IF first = "idle" THEN "Command" ELSE "Respond", <<"utf8", cmd.text>>)
    [] cmd.at = "CMGS" /\ "pdu" \in DOMAIN cmd -> Pass("SendMessagePDU", Pairs(cmd.pdu))
    [] cmd.at = "CMGS" /\ "number" \in DOMAIN cmd -> Pass("SendMessage", <<cmd.number, <<"utf8", cmd.text>>>>)
    [] cmd.at = "CPOS" -> Pass("SendPositioningElement", <<"utf8", cmd.text>>)
    [] cmd.at = "D"    ->
         Pass("Dial", <<Picked(cmd.str, {i \in 1..Len(cmd.str) : cmd.str[i] \notin {"I", "i", "-"}}), CallerId(cmd.str)>>)
    [] cmd.at = "VTS"  -> Pass("SendTones", [i \in DOMAIN cmd.items |-> cmd.items[i].char])
    [] cmd.at = "BLDN" -> Pass("Redial", Null)

\* There is nothing to pass on: a mode is set, the watch of AT+CUSD, or a prompt cancelled.
Nothing ==
  \/ cmd.at = "CMGF"
  \/ cmd.at = "CUSD" /\ cmd.n < 2 /\ cmd.text = Null
  \/ cmd.at = "CMGS" /\ "pdu" \in DOMAIN cmd /\ cmd.pdu = Null
  \/ cmd.at = "CMGS" /\ "number" \in DOMAIN cmd /\ cmd.text = Null

TooLong == cmd.at = "CMGS" /\ "number" \in DOMAIN cmd /\ Len(cmd.number) > MaxNumber

\* A text is never passed on twice, also when calls fail; after OK it has been passed on as it was
\* typed, whole and to the right end: to the network as an answer exactly when the network waited for
\* one; and after an error nothing has been, if no call failed. Unless it is busy, a session takes every
\* text that can be decoded (ss.c:219-296, sms.c:216-378, agps.c:56-78, voicecall.c:178-213, 740-799).
TextsArrive ==
  /\ Len(sent) <= 1
  /\ ~disturbed /\ ~failed /\ Ended =>
       /\ res # "OK" => sent = <<>>
       /\ res = "OK" /\ ~IsUcs /\ ~TooLong => sent = IF Nothing THEN <<>> ELSE <<Meant>>
       /\ cmd.at = "CUSD" /\ cmd.n < 2 /\ ~IsUcs /\ first # "active" /\ res # "OK" =>
            cmd.text \in Foreign \/ cmd.dcs = 68

Digits == <<"0", "1", "2", "3", "4", "5", "6", "7", "8", "9", "A", "B", "C", "D", "E", "F">>

\* The value of a hexadecimal digit, and the characters that digits typed in fours mean.
Value(char) == CHOOSE v \in 0..15 : char = Digits[v + 1]
Typed(str) ==
  [k \in 1..Len(str) \div 4 |-> Value(str[4 * k - 3]) * 4096 + Value(str[4 * k - 2]) * 256
                                + Value(str[4 * k - 1]) * 16 + Value(str[4 * k])]

\* A USSD text in UCS-2 that has been passed on is the one that was typed: sms16_decode() decodes
\* "hexadecimal-encoded UCS-2 to UTF-8" (ss.c:111). It reads the third digit twice (ss.c:137).
UcsAsTyped ==
  IsUcs /\ sent # <<>> /\ ToSet(cmd.text) \subseteq ToSet(Digits) => sent[1].text = Typed(cmd.text)
=============================================================================
