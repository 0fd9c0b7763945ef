# matd in TLA+

matd emulates an AT command modem: it reads command lines from a terminal (the
DTE: a serial line, a USB gadget, a pseudo-terminal), runs the commands by means
of plug-ins, most of which call oFono over D-Bus, and writes results and
unsolicited messages back. This directory holds TLA+ models of the program, the
TLC runs that check them on small instances and TLAPS proofs about them.
Source paths are relative to the repository.

## 1. The system

| Component | State | Operations | Talks to |
|---|---|---|---|
| Modem instance `src/at_modem.c` | input buffer, recursive mutex `lock`, bit fields `data`, `hungup`, `reset`, `echo`, `quiet`..., reader thread | read a character, run a line, write a message, unsolicited messages from any thread, data mode, reset, start, stop | terminal, parser, bank |
| Parser `src/parser.c` | line being typed, previous command line | push a character; first and next command of a line | reader thread |
| Command bank `src/commands.c` | search tree of extended commands, tables of basic ones, `AT+CLAC` lock | register, execute, list | plug-ins register; the reader executes |
| Basic commands `src/basic.c`, results `src/error.c` | flags of the modem | E, Q, V, Z, &F, +CMEE; result codes | modem |
| Plug-in loader `src/plugins.c` | list of modules with a reference count, shared by all modems | load, unload, instantiate, deinstantiate | bank, `usb/acm.c` |
| Phonebooks `src/phonebook.c`, character sets `src/charset.c` | selected phonebook, selected set | +CPBS, +CPBR, +CPBF, +CPBW, +CSCS | plug-ins that have books |
| D-Bus `src/dbus.c` | one connection and one dispatch thread for the process | synchronous queries, filters, watches and timeouts of the main loop | oFono plug-ins |
| Selected modem `plugins/ofono/core.c` | a file, locked by writers | read when the plug-in is loaded, written by AT+CSUS | other processes |
| Programs `src/cli.c`, `usb/acm.c` | terminal, signals | start, wait for a signal, stop, start again on SIGHUP | modem |
| oFono plug-ins `plugins/ofono/` | selected modem, property and signal watches, per-command flags | calls, registration, SMS, USSD, SIM... | D-Bus thread and reader thread |
| Other plug-ins `plugins/` | descriptors of input devices and a thread (+CMER), virtual devices (+CKPD, +CTSA), a thread that keeps the light on (+CBKLT), terminal attributes (+ICF...), a watch on the time zone (+CTZR), the address book, shell... | one group of commands each | the reader thread and threads of their own, kernel devices, MCE, the contacts database |

What is hard here. The reader thread runs commands; unsolicited messages come
from plug-in threads, which the reader thread creates, cancels and joins while it
runs commands, and from the D-Bus thread, which nobody joins. All of them write
to one terminal under one recursive mutex, which data mode keeps locked.
`at_modem_stop()` cancels the reader thread wherever it is. So every blocking call
is a place at which a thread disappears, and what it held is left to cleanup
handlers. The parser counts past its buffer on purpose. The tree of commands is
ordered by one comparison and searched by another.

Correctness, component by component: messages are whole and data mode is
exclusive; no thread is left waiting for a dead one, and nothing is left locked;
the lines given to the bank are those typed; commands are cut out of a line
without loss; a registered command is found; plug-ins stay loaded while they are
used; a watch does not outlive what it watches; multi-step requests are complete
or undone. `PROJECT.json` lists each hazard at its line, with the properties that
cover it, or the reason why none does yet.

## 2. Modules

| Module | Models | Checked by |
|---|---|---|
| `Modem` | `at_modem.c` with the threads around it | `MCModem` |
| `Dialogue` | abstract: what the terminal may rely on | refinement, run `modem` |
| `ModemProofs` | proofs about `Modem` | |
| `Parser` | `at_parser_push()` | `MCExecution` |
| `LineEditor` | abstract: an ideal line editor with one line of memory | refinement, run `line`, and proof |
| `CommandLine` | `at_iterate_first/next()` and the loop of `process_line()` | `MCCommandLine`, `MCExecution` |
| `Execution` | `CommandLine` and `CommandBank` composed: `at_commands_execute()` | `MCExecution` |
| `CommandBank` | registration, lookup and forms of extended commands | (in `Execution`) |
| `Lines` | `Parser` and `Execution` side by side: what is typed, and what becomes of it | `MCExecution` |
| `LinesProofs` | proofs about `Parser`, `CommandLine`, `CommandBank` and `Execution` | |
| `Plugins` | list of plug-ins, banks of several modems, `AT+CLAC` | `MCPlugins`, `MCDevices` |
| `DataRelay` | the relay loop of `at_connect_mtu()` | `MCDataRelay`, `MCPolling` |
| `OfonoWatch` | watches on oFono signals of `core.c`, and the commands that make and remove them | (in `Ofono`) |
| `OfonoRequests` | commands of several D-Bus calls: ATA, ATH, +CHUP, +CHLD, +CTFR, +CCFC, +CFUN, +CGATT, +COPS | `MCOfonoRequests` |
| `DBusLoop` | connection, watches, timeout and thread of `dbus.c` | `MCPolling` |
| `Backlight` | `mce/backlight.c` | `MCDevices` |
| `EventReports` | `input.c` | `MCDevices` |
| `InputDevices` | `uinput.c`, `keymap.h` | `MCDevices` |
| `SerialSettings` | `interface.c` | `MCDevices` |
| `CharacterSets` | conversions of `charset.c` | (in `Phonebooks` and `OfonoTexts`) |
| `Phonebooks` | `phonebook.c`, `qt/contacts.cpp`, AT+CSCS | `MCDevices` |
| `TimeZone` | `timezone.c` | `MCDevices` |
| `Devices` | `Plugins` and the modules of the devices above, each with its own part of the behaviours | `MCDevices` |
| `Polling` | `DataRelay` and `DBusLoop`, in the same way | `MCPolling` |
| `OfonoCommand` | a command that is one D-Bus call after another (`core.c`) | (extended by the three below) |
| `OfonoSettings` | commands that set and ask: call settings, meter, network, messages, numbers, ringing | (in `Ofono`) |
| `OfonoSim` | +CPIN, +CPINR, +CLCK, +CPWD | (in `Ofono`) |
| `OfonoTexts` | +CUSD, +CMGS, +CPOS, ATD, +VTS, +BLDN | (in `Ofono`) |
| `Selection` | the file that keeps the modem of AT+CSUS | `MCSelection` |
| `Ofono` | `OfonoWatch` and the three kinds of commands, each with its own part of the behaviours | `MCOfono` |
| `OfonoProofs` | proofs about `OfonoSettings`, `OfonoSim` and `OfonoTexts` | |
| `PluginsProofs` | proofs about `Plugins` | |
| `PollingProofs` | proofs about `DataRelay` and `DBusLoop` | |
| `DevicesProofs` | proofs about the modules of the devices | |
| `OfonoWatchProofs` | proofs about `OfonoWatch` | |
| `OfonoRequestsProofs` | proofs about `OfonoRequests` | |

### Modem

One step is what a thread does between two points at which another thread, a
cancellation or the terminal can make a difference. `pc` says where each thread
is; `owner` and `depth` are the recursive mutex; the bit fields keep their names.
A message is two steps, `w1` to `w2`, because `write()` may be partial. The reader
thread (`Dte`) loops over `Loop` (reset pending?), `Read`, `TakeLine`; a line is a
number of requests (`left`), each one of the `Run...` actions: a set or get
command, echo, quiet, reset, hang-up, a text (`at_read_text()`), a connection
(`at_connect_mtu()`), or a +CMER that replaces a plug-in thread. `cont` is the
return address of the shared parts: printing, and `at_commands_deinit()`.
`Reporters` are threads like that of `plugins/input.c`: created by a command, and
cancelled and joined by the next one or by the plug-in's unregistration.
`Callbacks` are threads like the one of `dbus.c`, which is never cancelled. The
owner is `main()` of `usb/acm.c` (`Daemon`) or of `src/cli.c`.

A cancelled thread is a member of `cancelled` until it reaches a cancellation
point; handlers run in the order of the code. `Stray` is a thread that is still
inside the modem when it is freed. The content of messages and the bytes of a
connection are left out.

### Parser and LineEditor

`memory` is the two buffers, which are adjacent in `struct at_parser`; an index is
a pointer, so that stores, comparisons and results past the end of the buffer are
what they are in the program. One step is one call. `LineEditor` knows neither
buffers nor lengths: a line, the previous command line, and the capacity. Both
are related by the refinement mapping at the end of `Parser`, which is checked
(`EditorSpec`) and proved.

### CommandLine

`BasicEnd` and `ExtendedEnd` are the two scanners as functions of the position (`Scan` is the loop of the second one);
`CommandStart` models the `memchr()` over a literal that is shorter than the length
given, so what follows the literal in memory is a parameter. `ran` is
the history of what was executed.

### CommandBank

The tree is not built: each step of `Search` may meet any handler that is not yet
excluded, which covers all shapes, balanced or not. Names and requests are short
sequences; `Form` is the `sscanf()` that separates the five forms of a request.

### Execution

`CommandLine` and `CommandBank` step together: the command that `Run` cuts from the
line is the request of the bank, and its result is what `Return` brings to the line.
A basic command is found by its `Slot` in the tables, whose contents are a constant;
extended commands are registered before the first line, in any order.

### Plugins

The reader threads of several modems, reduced to the life of their banks, share
the list. `AT+CLAC` is here because its lock is shared in the same way. `Faults`
says what may fail. The program that preloads (`usb/acm.c`) is `Preload` and
`Release`.

### DataRelay

The part of data mode that `Modem` has as one step. Bytes are `+` and `x`; each side
has a queue in the kernel, and the loop a buffer per direction. `revents` is what is
left of the last `poll()`, handled in the order of the code; every call may be
interrupted (`Again`), a write may be short, a side may have no room. `quiet` is the
comparison of the clock with `last_rx`. `HangsUp` are the sides that hang up, which
`poll()` reports although it was not asked for.

### OfonoWatch

Two threads: the reader runs commands, each a list (`todo`) of calls of
`ofono_signal_watch()` and `ofono_signal_unwatch()` in the order of the code, one
per step (to remove a watch that is not there is a step that does nothing); the D-Bus thread takes a signal from the queue, hands it to one filter
after the other, and a callback asks oFono (`AskAttached`, `AskStatus`) and prints
(`Report`). `filter` is which watches there are and for what. Removing a filter keeps
libdbus from calling it again (`pend`), but does not wait for a call that is running.
`modem_lock` is held from `Match` to `Report`, but for watches on calls. `failed`,
`reported` and the field `counts` of a signal are history. The incoming call watch
is there from `Init` on. After AT+CVHU=2 the plug-in hangs up before it is freed, when all its watches are gone (`HangUp`). The file that keeps the selection is `Selection`. Left out: `+CREG: 2`
details, the contents of other messages, and the sender and path of malformed signals.

### OfonoRequests

A command is given (`Give`) with the D-Bus calls that its handler makes first; each
step is one reply, after which the handler goes on: `List` after `GetCalls`, `Choose`
after a list of operators, `Replied` after a call of which only the result matters.
Between replies the network, the user and other programs change the same state.
A call may be refused because of that state (`Refused`), fail (`Fails`), or be carried
out while its reply comes too late (`Lost`), which the code takes for a failure. What
oFono does with a call is external. `before`, `disturbed` and `failed` are history.
Fairness: a D-Bus call is answered in the end, by the timeout of libdbus if not by
oFono; the number of faults is bounded, as AT+CHUP goes on for as long as a call is
active and cannot be hung up. Left out: the format of operators, and identifiers
above 99.

### DBusLoop

Three kinds of threads: the main loop (`Thread`: dispatch, timer, look at the watches,
`poll()`, hand one event to each watch), clients that make calls, and whoever of them reads the
socket while it waits for a reply. `events` is what libdbus wants polled, `ufd` what the
thread polls; `Toggle` and `at_dbus_wakeup` are two steps of a client, and between them the thread may
look. There are two watches on one descriptor, one to read and one to write. A timeout is
a sign of the difference between its deadline and the clock. A client that adds
a filter without memory for it has it `lost`; to remove it without a connection is `aborted`.
Fairness: threads that can run do. Connecting may fail, and the next call tries again.

### OfonoCommand, OfonoSettings, OfonoSim, OfonoTexts

`OfonoCommand` is a thread in a handler that makes one D-Bus call after another: a command is
`Start`ed, each reply (`Replied`) or failure (`Fault`) leads to the next call or to the end, and other programs
change oFono meanwhile (`Other`). The three modules that extend it say what is asked and
what follows. `OfonoSettings` has the tables of the commands that set and ask; `props` is
oFono's side and `conf` the plug-in's; the commands are given in groups that have to do
with each other; `Ring` is the D-Bus thread, which looks at flags that the reader thread sets.
`prior` is the command before, if nothing has come between. `OfonoSim` has a card with codes, tries and locks, and the
network's password for call barring (AT+CPWD="AB"), which oFono refuses too: "incorrect password" then costs no try;
`OfonoTexts` has the state of a USSD session, and for each command what oFono has been given (`sent`).
Texts are values, except where digits are decoded or counted. Left out: names of operators,
the class of +CCWA, and what follows a character cut at the end of a USSD string, which the code
reads past the end for.

### Selection

Processes that load the plug-in, read the file, and write it after AT+CSUS: `open()`, `lockf()`,
`write()`, `ftruncate()` and `close()` are steps, and readers take no lock. Names are sequences,
because a shorter one leaves the end of a longer one. `found` is what a process read, and what it
could rightly have found.

### Backlight, EventReports, InputDevices, SerialSettings, TimeZone

Each is one plug-in of one modem, with the thread it has, if any. In `Backlight` times are seconds
from now and MCE darkens the display by itself (`lit`); its thread is cancelled only in its
sleep. In `EventReports` descriptors are numbers given again after they are closed, so that one that is kept too long is another
file; the thread is cancelled in `poll()` or in a message. In
`InputDevices` a command is a script of events that the device gets one by one, and any write may
fail. `SerialSettings` is the terminal attributes as sets of flags, found in any state. In
`TimeZone` the file is written, removed and replaced at any time, inotify queues what it has seen
of the file that was watched, and one read takes as many events as fit but looks at the first.

### CharacterSets and Phonebooks

Conversions are functions on sequences of bytes; a table of three character sets of different kinds
stands for the 27. `Phonebooks` has the books as they are registered, the address book that other
programs change, and what the terminal was shown.

## 3. Runs

Every property of a passing run is also checked against a mutated definition,
which must violate it (`mutants` in `PROJECT.json`; the mutated forms stand next
to the definitions they replace, marked "Mutated").

| Run | Bounds | Shows |
|---|---|---|
| `modem` | reader, one plug-in thread, one callback thread, two commands a line, two units of input, restarts | messages whole, data mode exclusive, nothing left locked, no thread left behind; `Dialogue` |
| `modem_live` | the same with one command a line and no restart | `at_modem_stop()` returns, lines end, messages go out |
| `line` | typed: buffers of five, up to eight characters; executed: every line of up to four characters of eleven kinds, three commands that start with one another or differ late, and one too long | the line editor, at every length from empty to three past the end; nothing lost or cut; the search finds the handler named; OK only when all was run, to its end, by handlers whose names it starts with |
| `line_overread` | lines of four, letters after the literal | characters of a command are taken for separators (violation) |
| `plugins` | three modems, one preload, two plug-ins, every failing call; two durations; three descriptors; scripts of five keys; every framing; two contacts and books; three changes of the time zone | references are counted; the code of a live bank stays loaded; a loaded list is freed once; light, keypad, touch screen, line, phonebook and time zone are as the terminal asked |
| `plugins_stop` | two modems | a lock left behind by cancellation: `at_modem_stop()` never returns (violation) |
| `relay_hangup` | terminal sends four bytes, the other side one, buffers of three; one side hangs up | the last bytes of a side that hangs up are dropped (violation) |
| `requests` | two commands, three voice calls, one change by others, one fault | OK means done; nothing else is changed, error or not; the time of call forwarding comes before its number; only the calls meant are hung up; every command ends |
| `poll` | relay as in `relay_hangup`, without hang-ups; two threads that make two calls, one signal, one timeout | bytes are neither lost, repeated nor reordered; a stream that ends is delivered and ends the loop; the D-Bus thread never sleeps on a stale set of watches; every signal is dispatched |
| `ofono` | two modems, two signals, three commands; of settings, codes: two commands, one change by others, one fault; of texts: one of each | watches follow the modes, are gone after the plug-in, and belong to the modem selected; the last message is current; answers agree; tries of codes are spared; texts arrive |
| `ussd_text` | the same | a character typed in hexadecimal digits becomes another one (violation) |
| `selection_file` | two processes, three names of one and two characters, two selections | a reader finds a modem that nobody has selected (violation) |

Why the bounds are enough. Two threads besides the reader make all pairs of
contenders, and the third waiting for a lock is the symmetric case; two commands
on a line are needed for one to undo the other; two units of input for a read
that leaves something in the buffer. A buffer of five has room for `AT`, a
character, its end and one more, and lines of eight reach into the second buffer.
Lines of four characters hold a name of three with one of the characters that end
it, and a string with a semicolon. Three voice calls are two held ones and a waiting one,
or an active one to be spared; two commands let one find the settings of the other. The
proofs below do without these bounds.
Two contacts and two books are needed for an index of one to be taken for that of the other, three
changes of the time zone for one between a read and the new watch, two commands of the oFono plug-in
for one to contradict the other, two tries of a code for one to be spared.

Components that share no state are checked in one run: `Lines`, `Devices`, `Polling` and `Ofono`
choose at the beginning what a behaviour is one of (`stage`, `component`, `part`, `kind`), and the
variables of the others do not change, so that the state space is the sum of theirs and
not the product.

Fairness. Threads that can run do (`WF`); a mutex that is released again and
again is obtained in the end (`SF` on the lock steps), which POSIX threads give
under any scheduler without priorities. The terminal drains its output, for
otherwise `write()` blocks for good. It is not assumed to send anything, that a
connection ends, or that anybody reports.

## 4. Disagreements and observations

A run that expects a violation is a place where the code and a comment of the
repository disagree; `findings` in `PROJECT.json` quotes the comment and names
the line. The property of such a run is the comment's statement, in TLA+.

Seen while modelling, and in the models as the code has it, without a run of
their own:

- `at_modem.c:630`: `at_reset()` clears `hungup`, so that ATZ after a command that asks
  for a hang-up on the same line undoes it (`RunHangup`, `RunReset`).
- `parser.c:131-132`: a slash after any A of a line, not just after a lone A
  (`parser.c:130`), runs the previous command again; past the end of the buffer the
  A may be that of the previous command (`Repeat`; `Lost` in `LineEditor`).
- `parser.c:305`: a semicolon that ends a line makes it an error, against
  `parser.c:290-291`; the cursor has moved on a syntax error, against 293-294.
- `plugins.c:91`: when the directory cannot be read again, the pointer to the freed
  list stays and is freed once more (`LoadedListFreedOnce` says that nothing else is).
- `at_modem.c:169`: `at_connect_mtu()` holds `m->lock` for the whole of data mode and `at_unsolicited_blob()` takes it
  before it looks at `m->data`, so that a call made in data mode waits until the connection ends, and then succeeds
  (`SenderLock`); `at_command.h:363-364` says that it "will fail (i.e. return -1)". Only a thread that gets the
  lock while a connection is made or ended meets `Discard`.
- `at_modem.c:471`: the second of silence before `+++` is measured when the bytes are read, and with
  bytes of both sides (`quiet`), so that a terminal that did not pause may be heard when the other side
  had no room for a second, and one that paused may not be when the other side talks.
- `commands.c:412`: `sscanf()` skips all that is attached to the name of a command, so that `AT+CHUP!` is run as
  `AT+CHUP` and `AT+CREG!?` as `AT+CREG?`, against the comment at 436, which calls `AT+FOOjunk` an error; that return is
  only reached when a space comes before the junk. `OkIsHandled` says what the code does (`Known`): such a command
  may be answered with OK, and one with junk after a space may not.
- `commands.c:192`: `strncasecmp()` of a request and a name puts "=" and "?" after the digits, so that a tree which
  has a name and the same name with a digit after it ("+FOO" and "+FOO1") loses "+FOO=..." and "+FOO?" in some
  of its shapes. No two names of the source are such; `BankAssumption` in `Execution` says so, and that the characters of a name
  after the first one are letters and digits; the proof of `SearchFinds` needs both.
- `core.c:696`: a callback that is running when its watch is removed, or the plug-in freed, goes on with
  freed memory: `UnregisterLeavesNothing` cannot say more than that it is the last. The order of
  `voicecall.c:436-437` does not help against it, and `voicecallmanager_unregister()` has another order.
- `network.c:617`: when the watch of AT+CREG=n cannot be made the answer is OK, and a second AT+CREG=n
  returns at line 614 without trying again; the same with +CGREG (`failed` in `OfonoWatch`).
- `gprs.c:153`: between the two watches of AT+CGREG a change of status is not heard, and a message for a
  change of attachment that is just being written may have the old one (`Forget`).
- `network.c:538`: +CGREG gives the cell when the mode of +CREG, not of +CGREG, is 2.
- `voicecall.c:578`: ATH takes CME error 0 to mean that "there was no ongoing call", but `ofono_query()` makes
  every D-Bus error but three the same: with oFono gone, or a reply that is late, ATH answers OK and the calls go on.
  AT+CHUP answers OK whenever the calls cannot be listed (`ret` at line 563 is never read).
- `voicecall.c:596`: AT+CHLD=0 with held calls and a waiting call hangs up the held calls that oFono lists before the
  waiting one, so what is released depends on the order of the list (`Release`).
- `voicecall.c:172`: oFono gives the identifier of an ended call again, so that between the list and the request
  a call may have been replaced by another (`disturbed` in `OnlyCallsMeant`).
- `callforwarding.c:122`: reasons 4 and 5 stop at the first error and leave the reasons before it registered.
- `modem.c:80`: with AT+CFUN=4,1 and AT+CFUN=1,1 an error after the first call leaves the modem off.
- `gprs.c:65`: AT+CGATT=1 answers OK when roaming could not be allowed.
- `dbus.c:140`: POLLOUT is given to the watch that reads, if it is the first with the descriptor
  (`Find` in `DBusLoop`); the D-Bus message is then written only by the next call.
- `dbus.c:287-304`: a timeout runs when its deadline is still ahead; one that is added enabled has no
  deadline until it is toggled; the interval in milliseconds is added to nanoseconds (`Timer`).
- `dbus.c:371`: a watch may be removed between the unlock and `dbus_watch_handle()`.
- `dbus.c:471`: `at_dbus_add_filter()` returns 0 when the filter was not added, and `at_dbus_remove_filter()` then
  fails an assertion when there is no connection (`aborted`).
- `input.c:264-274`: the touch screen of +CMER is never closed: it stays open over every later command
  and after the plug-in, and is polled by AT+CMER=1,1,0,0,0,0 as well (`OpenTouchscreen`).
- `input.c:249-286`: the keypad of +CMER stays open with no thread that reads it after AT+CMER=0,1, and after a command that
  fails once it is open, because the touch screen or the thread cannot be had; the next AT+CMER closes it, and so does the end of the plug-in
  (`KeypadAsAsked`). `input.c:177-191`: a thread that is cancelled after `close()` keeps the descriptor, which is closed once more and may be
  another device by then (`Gone`, `Forget`).
- `interface.c:224`: CSTOPB is never cleared: after AT+ICF=1, AT+ICF=2 and 5 read as an error (`stop_bits`).
  ATZ forgets AT+IFC, and leaves IXON and IXOFF as they were.
- `phonebook.c:287`: AT+CPBW checks that the texts can be converted and then writes them as they were
  typed; `contacts.cpp:122` shows only the second of two numbers, and an entry that was written
  always has two; an email address is shown only with a number.
- `timezone.c:104-113`: when the end of the watch is read together with the event before it, or the
  file is not there after 0.1 s, the watch is not made again, against the comment at 112 (`blind`). Without a
  descriptor the thread ends, and AT+CTZR? goes on answering 1.
- `clock.c:80`: AT+CCLK= takes the year and the month as they are typed, where `struct tm` counts from 1900 and
  from 0, and AT+CCLK? answers accordingly; the time zone typed is not used. Not modelled.
- `callmeter.c:217`: the price of AT+CPUC goes to an interface "CallMetter", so that AT+CPUC sets the currency
  and then fails (`set_price`). `sms.c:78` lets AT+CGSMS=4 through, one past the table (`set_cgsms`).
- `voicecall.c:1025`: ATS0? answers 1 when oFono does not (`get_auto_answer`); +CPAS answers "ready" with calls that
  are held, waiting or being dialled (`show_cpas`).
- `callsettings.c:356`: AT+CCWA keeps the flag before it refuses the mode (`Configured`).
- `sim.c:314`, 438, 550: an error 0 is taken for a wrong code, also when only the reply was late (`Wrong`).
- `sms.c:218`: AT+CMGS cuts a number of more than 20 characters and sends to what is left (`Cut`); the reply is
  expected to be a string, so that a path of an object is an error although the message is sent.

## 5. Proofs

`ModemProofs`, for any number of threads, requests and units of input. The
invariants that the run checks are not inductive: that two threads do not write
at once follows from who owns the mutex, and that from where every thread is.
`IInv` says so: `LockInv` (the owner is the thread that is between lock and
unlock, and the depth is two exactly inside a message printed on the way to data
mode), `DataInv` (the flag is up only in data mode and after it was cut),
`BankInv` (plug-in threads live no longer than their bank), `ContInv` and
`MainInv`. One lemma per group of actions shows that it is kept; `TypeCorrect`,
`MessagesAreWhole`, `DataModeIsExclusive`, `LockIsLeftFree` and `ReportersAreGone`
follow. Assumed: `ThreadAssumption` (the kinds of threads are disjoint) and
`BoundAssumption`. `ImplementsDialogue` is the refinement:
every step of `Modem` is a step of `Dialogue` or changes nothing that the terminal could see. It needs
one thing more than `IInv`: in data mode the flag is up (`RelayInv`), so that a modem that is
closed there is known to have cut the call.

`LinesProofs`, from the characters typed to the answer. What has to be known of a line of any length, of
a name or of a tree is proved by the least counterexample: that a set of numbers that is not empty has a
least one (`LeastIs`) follows from the well-foundedness of the numbers, and takes the place of an induction.
In this way `Scan`, which `CommandLine` defines by recursion on the rest of the line, is shown to exist
(`ScanIs`) and to stop outside of strings (`ScanIsWell`), and two names to differ at a first place
(`CompareIs`). Then:

- `NothingIsLost` and `StringsStayWhole`, for lines of any length. The invariant `LineInv` is that the commands run
  so far follow one another up to the cursor, each with whole strings; `GapsInv` that what lies between them is
  separators. The first one assumes that the linker has put nothing but separators after the literal `" ;"`
  (`Harmless`); without that it is false (run `line_overread`).
- `SearchFinds`, for any tree of any names as in `BankAssumption`. The invariant is that a search never excludes the
  handler that the request names, which is `SearchFollows`: where the request sorts before or after
  a node by `ext_match()`, so does the named handler by `ext_cmp()`. If they part at a character of the
  name, both comparisons see the same one; if the node continues the name, it does with a letter,
  which sorts after all that may follow a name in a request.
- `AllIsHandled`: that the last command is the bank's request (`BusyInv`), and all before it are known (`HandledInv`):
  each starts with what is registered, and if it is extended, asks, sets or ends after that (`WellFormed`, of a request that is not an
  error). It does not say that nothing is attached to the name: that is false (`AT+CHUP!`, section 4).
- for buffers of any size and any alphabet, `TypeCorrect` (nothing is stored or returned outside the buffers),
  `LinesAreTerminated`, and `ParserIsEditor`, that the parser implements `LineEditor`. The invariant relates
  the buffer to the abstract line up to the capacity, and the saved command to the
  previous line; the copy from one to the other is where both meet.

`PluginsProofs`, for any finite set of modems, any number of plug-ins and of
preloads: type correctness and the four properties of the loader that the run `plugins` checks. That a bank's code
stays loaded follows from the count, but the count alone is not enough: `TableInv`
says that a bank with plug-ins has not yet given its reference back, and `ListInv`
that a list in use is loaded unless it is empty, which is the case that
`load_plugins()` leaves behind when it fails. The step that matters is the last
reference (`NoReference`): it means that nobody else is between
`at_commands_init()` and `at_commands_deinit()`. Assumed: `ModemsAssumption`.

`PollingProofs`, for any set of threads that make calls: `PollStaysCurrent`,
that the thread of `dbus.c` does not sleep on an old set of watches. `PollIsCurrent` is inductive
once the places of the callers are known (`PlacesOK`): a caller that changes the watches
goes to the place from which it wakes the thread, and no step of another one takes it from
there. For the relay of data mode, with buffers of any size and any bytes: `StreamsStayIntact` and
`EndIsDelivered`. `StreamsIntact` alone is not inductive, as `Read` writes over the buffer; `Whole` adds that
a side is only reported readable while its buffer is empty, which is so because `poll()` is not asked
otherwise, and because nothing fills the buffer between the report and the read. A hang-up is
reported without being asked for, and that is where the argument (and the code: run `relay_hangup`) fails; hence
`HangsUp = {}` in them, while `OthersStayIntact` makes no such assumption and speaks of the sides that do not
hang up. `LoopsStayTrue` puts the two loops together, as the run does. Assumed: `RelayConstants`.

`DevicesProofs`, about the plug-ins of the run `plugins`, with one inductive invariant each.
`ZoneStaysReported`, for any zones and any number of changes: that the zone is
reported where the thread waits (`Reported`) is not inductive, for the thread must also
come to hear of the next change, so at each place of its loop there is a watch, or the end
of one is still to be read or has just been read (`Seen`); and a watch is on a file that is there
(`WatchedIsThere`), as it is the file's own descriptor that inotify follows. Reading up to
three events and looking at the first is the step that could lose the end of the watch; it is
where the history variable `blind` comes in.
`LightStaysAsAsked`, for any durations: a command acts only after the thread is gone (`CommandOK`), and
each time the thread sleeps or ends, the light that MCE was last asked for lasts longer than the sleep, or than the rest of the
duration (`OutlastsOK`). `KeypadStaysAsAsked`: a keypad that is unplugged is closed before its descriptor is
forgotten (`ClosedFirst`), what the thread is about to read is the keypad, also where the touch screen's descriptor
is an old one of the same number (`Polled`), and the command makes the thread last, of what it has opened itself (`OpenedLast`), wherever
the former one was cancelled. `FramingIsReadBack`: the bits of the terminal attributes that AT+ICF looks at are
those that it has set, except `CSTOPB`, which it never clears (`FramingInv`). `IndexIsOfBook`: only the
address book is written, and it is registered once (`BooksInv`).
`EventsStayAsAsked`, for strings of any length: what has been emitted is what the characters before `p` stand for, less
the key that is still to be pressed or released (`KeysInv`). The reference reads the string as a whole and tells a
semicolon by the parity of the run it ends, while the code looks one character ahead and takes two at a time;
so the invariant adds that before `p` a run of odd length has just switched the mode, and the
lemmas `AfterKey`, `AfterSwitch` and `AfterTwo` say what the next characters then stand for. `Alphabetic` and
`Strokes` are recursive functions of the place in the string; that there are such functions is proved by the least place that
one would not reach (`RecursionIs`). The touch screen has emitted the beginning of the frame of its action (`TouchInv`), and that
has the position before its end (`BegunIsPlaced`).
`TextsConvert` and `BookAnswersStayTrue`, for texts of any length: the invariant of the address book is that all names
are texts, whoever has written them (`NamesInv`), because `fromUtf8()` makes a text of anything and what the terminal sends has no
nul (`SentIs`, `NameIs`). The rest is about the conversions. `Decode` and `FlattenSeq` are recursive functions of
a place; that there are such functions, and that a statement carries over from one place to the
next, is proved by the least place again (`AllPlaces`, `ReadingIs`, `SpelledIs`). Two characters never fit
at one place (`OneFits`): in UTF-8 the first byte tells how many there are, and half of a UTF-16 pair is not a
character. So what is read of the bytes of a text is the text (`DecodeUndoes`), with or without its nul;
`RoomIs` is that two bytes for one, or three, are always enough. `DevicesStayTrue` puts the plug-ins
together with the loader: a behaviour of the process is one of each of them (`StepsAreOfAll`).
Assumed: `DevicesAssumption`, that durations, descriptors and bounds are numbers, and the characters of
texts those of Unicode: numbers below 0x110000 but for 0 and the halves of pairs.

`OfonoWatchProofs`, for any number of modems of oFono, of signals and of commands, whatever
fails: the four properties of the watches that the run `ofono` checks. The difficulty of the first two is that a
command is a list of calls, each of which may fail, and that another command only comes
when the list is done. `todo` is taken as a set of calls with an order between them
(`Calls`, `Before`; two lemmas say what `Tail` and concatenation do to both), `TodoOK` says
that the freeing of the plug-in comes with the removal of every watch there is, and
`ModesOK` what each watch is going to be once the list is done, unless it fails: that is
`ModesAreWatched` when nothing is left to do. `CallbackOK` holds the
selected modem to that of the signal from `Match` to `Report`. `LatestIsCurrent` is far from inductive:
`CregOK` and `GprsOK` say that a report that is not of the present state is one after which
another is to come, from a signal in the queue, in hand, or whose callback has not asked yet;
and `LastIsTrue` that the last `Attached` signal in the queue tells the truth, as `gprs_att_cb()`
believes it without asking. Assumed: `OfonoAssumption`.

`OfonoRequestsProofs`, for any finite set of voice calls and any numbers, times, operators, commands, faults
and changes by others: the four safety properties of the run `requests`. `Steps(c)` is what the handler
of a command may ever call, and `todo` is a set of such calls (`Calls`) with an order
(`Before`). Neither `OkIsDone` nor `TimeBeforeNumber` says anything of a command on
its way; `RestOK` says that what the command stands for is done already, except by calls that are
still in `todo`, and becomes `OkIsDone` when there are none. It needs the order: AT+CFUN puts the modem
on line last, for switching it off or on undoes that. `HangupsOK` says that each call that is going to be
hung up is one the command is for, and stays so, because `Legal` leaves no room for an
incoming call beside an active one and because no call is listed twice: `Release` takes the lists
that `SetToSeqs` makes, which are bijections (`FS_Injection`). `TimeOK` is the part of
`RestOK` that holds after an error as well. Assumed: `RequestAssumption`, the form of the
commands (`Known` of `OfonoRequests`) that the parser and the handlers let through.

`OfonoProofs`, about the three kinds of commands of the oFono plug-in, for
any settings and values, codes, facilities, texts, numbers, PDUs and tones, any number of tries, of commands, of changes by
others and of faults, and buffers of any size. The properties are about commands that have ended, and so say
nothing of one on its way. `SimInv` adds that the call that is pending is the one that the command means, and has
asked which code is required before it enters one (`SimAsks`); that until then no try is spent and
the card is as it was when the command was given, unless others have changed it; and that
no code is required of which there are no tries left (`HasTries`). That last part is what makes
"incorrect password" cost exactly one: a card whose PIN has no tries left requires the PUK, and one whose PUK has
none is not there. `TextInv` says the same of texts: what is pending is what the command means
to be passed on (`PassesMeant`), nothing has been passed on before it, and the session is
the one the command found, unless the network has changed it. What a command means is stated in `Meant` without the
handlers' loops, and the proofs say that the loops come to that: digits up to the
first other character, in pairs (`Octets` is `Pairs`, by the least counterexample again); the keys that `handle_dial()` picks
are all but the letters that say who calls, unless it refuses one. `SettingsInv` puts between two commands what
they have in common, the flags of the plug-in and the properties of oFono: a command that is waiting has its flag already and waits for the call
that its table says (`WaitingOK`, `Asks`); one that has ended with OK has set or shown what there is
(`EndedOK`, with `Kept` for the plug-in and `Stored` for oFono); that stays true of the one before it while the
next one reads, because a call that asks changes nothing (`PriorOK`). That two answers agree then
no longer is about steps: it follows from their tables (`WhatIsSetIsShown`, `TellOfOneNetwork`,
`TellOfTheSameCalls`, `EntriesAreFound`). `RingOK` says of each flag that the D-Bus thread
has looked at that its message is written as it is set, or it has been set since.
Assumed: `CommandsAssumption`, that bounds are numbers, that there is at least one try, the form of what
the terminal types and gives (`Commands`, what the parser and the tables of handlers let through), and that the lists of oFono are lists
of words.

Every safety invariant and every action property that a run checks is stated by a theorem. Left to TLC: liveness
(`BusIsHeard` and `EndEnds` of the two loops, `StopReturns`, `LineEndsInTheEnd` and
`MessagesGoOut` of the modem, `CommandEnds` of the commands of several calls), which the prover has no means for.

## 6. Not modelled, and plan

Left out for good, as there is no state or order in it that could be wrong: wording and
formatting of results, logging, performance counters; the commands that print a constant list
(`list_...`); AT+CCLK, a date parsed around one system call (`clock.c`); reads of attributes under
`/sys` and `/proc` (`udev/power.c`, `udev/dmi.c`); child processes (`shell.c`, `exec.c`) beyond the data call they
make; the contacts database, oFono, MCE and libdbus, which are external and modelled by what the
code relies on; the option parsing of `cli.c`; the dummy plug-ins and the test program.

Nothing more is planned: what the code does and the model has not is listed above and under the components of
`PROJECT.json`.
