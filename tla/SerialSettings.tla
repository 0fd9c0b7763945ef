--------------------------- MODULE SerialSettings ---------------------------
(***************************************************************************)
(* plugins/interface.c: V.250 commands that read and change the attributes *)
(* of the terminal, which belong to the line and not to the modem: they    *)
(* outlive the plugin, which is replaced by ATZ.                           *)
(***************************************************************************)
EXTENDS Naturals

CONSTANTS
  Rates,       \* of AT+IPR, without 0
  Terminals    \* c_cflag of the terminal as it was found

VARIABLES
  c_cflag, c_iflag, speed,    \* struct termios
  conf,        \* of AT+IFC: out and in
  rate_report, \* of AT+ILRR
  res,         \* the answer to the last command
  format,      \* the last AT+ICF that was accepted
  stop_bits    \* CSTOPB was set before it

attr == <<c_cflag, c_iflag, speed>>
asked == <<format, stop_bits>>
vars == <<attr, conf, rate_report, res, asked>>

None == 9

\* at_set_attr() may fail, and then so does the command: nothing has changed.
SetAttr(cflag, iflag, rate) ==
  /\ c_cflag' = cflag /\ c_iflag' = iflag /\ speed' = rate
  /\ res' = "OK"
Fails == res' = "ERROR" /\ UNCHANGED <<attr, conf, rate_report, asked>>

-----------------------------------------------------------------------------
\* AT&D: 1 is not implemented, 2 is as 3, and there is none above.
handle_dtr(value) ==
  /\ value \in {0, 2, 3}
  /\ SetAttr(IF value = 0 THEN c_cflag \cup {"CLOCAL"} ELSE c_cflag \ {"CLOCAL"}, c_iflag, speed)
  /\ UNCHANGED <<conf, rate_report, asked>>

\* AT+IPR: 0 is accepted and does nothing.
set_rate(rate) ==
  /\ rate \in Rates \cup {0}
  /\ SetAttr(c_cflag, c_iflag, IF rate = 0 THEN speed ELSE rate)
  /\ UNCHANGED <<conf, rate_report, asked>>

\* AT+ICF: the format (0 is "autodetect"), and the parity, which counts with PARENB only.
formats ==
  [f \in 0..6 |-> CASE f \in {0, 3} -> {"CS8"}           [] f = 6 -> {"CS7"}
                    [] f = 1 -> {"CS8", "CSTOPB"}       [] f = 4 -> {"CS7", "CSTOPB"}
                    [] f = 2 -> {"CS8", "PARENB"}       [] f = 5 -> {"CS7", "PARENB"}]
parities == [n \in 0..3 |-> (IF n \in {0, 2} THEN {"PARODD"} ELSE {}) \cup (IF n >= 2 THEN {"CMSPAR"} ELSE {})]

\* Mutated: the bits of the former parity remain.
set_framing_Or(f, parity) ==
  /\ f \in 0..6 /\ parity \in 0..3
  /\ SetAttr((c_cflag \ {"CS7", "CS8", "PARENB"}) \cup formats[f] \cup parities[parity], c_iflag, speed)
  /\ format' = <<f, parity>> /\ stop_bits' = ("CSTOPB" \in c_cflag)
  /\ UNCHANGED <<conf, rate_report>>

\* Two stop bits that were set remain.
set_framing(f, parity) ==
  /\ f \in 0..6 /\ parity \in 0..3
  /\ SetAttr((c_cflag \ {"CS7", "CS8", "PARENB", "PARODD", "CMSPAR"})
               \cup formats[f] \cup parities[parity], c_iflag, speed)
  /\ format' = <<f, parity>> /\ stop_bits' = ("CSTOPB" \in c_cflag)
  /\ UNCHANGED <<conf, rate_report>>

\* AT+ICF?: what is set is looked for in the tables.
get_framing ==
  LET size == IF "CS7" \in c_cflag THEN 6 ELSE 3
      less == IF "CSTOPB" \in c_cflag THEN 2 ELSE IF "PARENB" \in c_cflag THEN 1 ELSE 0
      parity == 1 + (IF "CMSPAR" \in c_cflag THEN 2 ELSE 0) - (IF "PARODD" \in c_cflag THEN 1 ELSE 0)
  IN  IF {"CSTOPB", "PARENB"} \subseteq c_cflag THEN <<None, None>> ELSE <<size - less, parity>>

\* AT+IFC: software flow control, of what is sent and of what is received.
set_fc(out, in) ==
  /\ out < 3 /\ in < 3
  /\ SetAttr(c_cflag, (c_iflag \ {"IXON", "IXANY", "IXOFF"})
               \cup (IF out = 1 THEN {"IXON"} ELSE {}) \cup (IF in = 1 THEN {"IXOFF"} ELSE {}), speed)
  /\ conf' = <<out, in>>
  /\ UNCHANGED <<rate_report, asked>>

\* AT&K executes AT+IFC.
redirect_flow(value) ==
  \/ value = 3 /\ set_fc(2, 2)
  \/ value = 4 /\ set_fc(1, 1)
  \/ value = 0 /\ set_fc(0, 0)

\* AT+ILRR
set_rate_report(report) ==
  /\ report <= 1
  /\ rate_report' = report /\ res' = "OK"
  /\ UNCHANGED <<attr, conf, asked>>

\* AT&C and AT+IDSR accept what is the case anyway.
handle_dcd(value) == value <= 1 /\ res' = "OK" /\ UNCHANGED <<attr, conf, rate_report, asked>>
set_dsr(mode) == mode = 0 /\ res' = "OK" /\ UNCHANGED <<attr, conf, rate_report, asked>>

\* ATZ: the plugin is replaced, and AT+ILRR is as it was; the attributes are left alone.
at_plugin_register ==
  /\ conf' = <<2, 2>> /\ rate_report' = 0 /\ res' = "none"
  /\ UNCHANGED <<attr, asked>>

Init ==
  /\ c_cflag \in Terminals /\ c_iflag = {} /\ speed \in Rates
  /\ conf = <<2, 2>> /\ rate_report = 0 /\ res = "none"
  /\ format = <<None, None>> /\ stop_bits = FALSE

Values == 0..4

Next ==
  \/ \E v \in Values : handle_dtr(v) \/ redirect_flow(v) \/ handle_dcd(v) \/ set_dsr(v) \/ set_rate_report(v)
  \/ \E r \in Rates \cup {0} : set_rate(r)
  \/ \E f \in 0..6, n \in 0..3 : set_framing(f, n)
  \/ \E out \in Values, in \in Values : set_fc(out, in)
  \/ at_plugin_register \/ Fails

Spec == Init /\ [][Next]_vars

-----------------------------------------------------------------------------
\* What AT+ICF has set is what AT+ICF? answers, whatever framing there was before, except that
\* one with two stop bits shows through (interface.c:230-231 against 258-277).
FramingReadsBack ==
  (format[1] # None /\ ~stop_bits) =>
    get_framing = <<IF format[1] = 0 THEN 3 ELSE format[1], format[2]>>
=============================================================================
