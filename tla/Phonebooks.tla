---------------------------- MODULE Phonebooks ----------------------------
(***************************************************************************)
(* Phonebooks of one modem: src/phonebook.c, which plugins register their  *)
(* books with, and the address book of plugins/qt/contacts.cpp, the only   *)
(* one that can be written, with the contacts that other programs add and  *)
(* remove. Texts go through the character set of AT+CSCS.                  *)
(***************************************************************************)
EXTENDS CharacterSets

CONSTANTS
  MaxText,     \* bound: characters of a name
  MaxContacts  \* bound: contacts

PhonebooksAssumption == CharactersAssumption /\ MaxText \in Nat /\ MaxContacts \in Nat

VARIABLES
  charset,     \* of AT+CSCS
  first, active, written_index,   \* at_phonebooks_t: the books, the latest one first
  contacts,    \* of the address book: names and telephone numbers
  shown,       \* what it has just been shown as a name, and the name
  last         \* the book that was last written and the index, since a book was selected

books == <<first, active, written_index>>
vars == <<charset, books, contacts, shown, last>>

Books == {"ON", "EN", "ME"}
NoBook == "none"
NoIndex == 99            \* UINT_MAX
Texts == BoundedSeq(Unicode, MaxText)
Number == "number"       \* any telephone number but the empty one
Empty == "empty"

\* What the terminal sends for a text, and how it understands what it is sent.
Sent(cs, text) ==
  LET bytes == EncodeText(cs, text)
  IN  IF cs = "UCS2" THEN at_hex_encode(bytes, Len(bytes)) ELSE bytes
Understood(cs, bytes) == Decode(cs, IF cs = "UCS2" THEN at_hex_decode(bytes) ELSE bytes)

\* QString::fromUtf8() replaces what is no text.
fromUtf8(bytes) == IF Decode("UTF-8", bytes) = None THEN <<65533>> ELSE Decode("UTF-8", bytes)

\* Commands that neither write a name nor show one.
Nothing == [charset |-> "UTF-8", text |-> <<>>, name |-> <<>>, phones |-> <<Empty, Empty>>]
Quiet == shown' = Nothing

-----------------------------------------------------------------------------
\* at_phonebooks_register(): the first book is active until there is the address book.
at_phonebooks_register(name) ==
  /\ name \notin ToSet(first)
  /\ first' = <<name>> \o first
  /\ active' = IF first = <<>> \/ name = "ME" THEN name ELSE active
  /\ Quiet
  /\ UNCHANGED <<charset, written_index, contacts, last>>

set_cscs(cs) ==
  /\ charset' = cs
  /\ Quiet
  /\ UNCHANGED <<books, contacts, last>>

\* Mutated: the index of the former book remains.
pb_select_Kept(name) ==
  /\ name \in ToSet(first)
  /\ active' = name
  /\ last' = <<NoBook, NoIndex>>
  /\ Quiet
  /\ UNCHANGED <<charset, first, written_index, contacts>>

\* None of the books has a password (pw_cb).
pb_select(name) ==
  /\ name \in ToSet(first)
  /\ active' = name /\ written_index' = NoIndex
  /\ last' = <<NoBook, NoIndex>>
  /\ Quiet
  /\ UNCHANGED <<charset, first, contacts>>

(***************************************************************************)
(* The address book. Indices are those of contactIds(), from 0.            *)
(***************************************************************************)
Insert(contact) == Len(contacts) < MaxContacts /\ contacts' = Append(contacts, contact)

add(num, txt, num2) == Insert([name |-> fromUtf8(txt), phones |-> <<num, num2>>])

remove(idx) == idx < Len(contacts) /\ contacts' = RemoveAt(contacts, idx + 1)

\* writeCb(): nothing at all stands for an entry to be removed; no entry can be changed.
writeCb(idx, num, txt, num2, written) ==
  IF num = Empty /\ txt = <<>> /\ num2 = Empty THEN remove(idx) /\ written = idx
  ELSE idx = NoIndex /\ add(num, txt, num2) /\ written = Len(contacts)

\* pb_write(), if the answer is OK: all texts have to be convertible, and are not converted.
pb_write(idx, num, text, num2) ==
  LET txt == Sent(charset, text)
  IN  /\ active = "ME" /\ at_to_utf8(charset, txt) # None
      /\ \E written \in 0..MaxContacts :
           /\ writeCb(idx, num, txt, num2, written)
           /\ written_index' = written /\ last' = <<active, written>>
      /\ Quiet
      /\ UNCHANGED <<charset, first, active>>

\* The numbers that are shown: of two, the first is not.
Shown(phones) ==
  CASE Len(phones) = 0 -> <<Empty, Empty>>
    [] Len(phones) = 1 -> <<phones[1], Empty>>
    [] OTHER -> <<Empty, phones[2]>>

\* pb_read() of the address book, for one entry; what cannot be converted is shown as nothing.
pb_read(idx) ==
  /\ active = "ME" /\ idx < Len(contacts)
  /\ LET contact == contacts[idx + 1]
         name == at_from_utf8(charset, EncodeText("UTF-8", contact.name))
     IN  shown' = [charset |-> charset, text |-> IF name = None THEN <<>> ELSE name,
                   name |-> contact.name, phones |-> Shown(contact.phones)]
  /\ UNCHANGED <<charset, books, contacts, last>>

\* Other programs change the address book.
Imported(name, phones) ==
  /\ Insert([name |-> name, phones |-> phones])
  /\ Quiet
  /\ UNCHANGED <<charset, books, last>>
Deleted(idx) == remove(idx) /\ Quiet /\ UNCHANGED <<charset, books, last>>

\* ATZ: the books are registered anew, in any order; the character set is the first one again.
Reset ==
  /\ charset' = "UTF-8" /\ first' = <<>> /\ active' = NoBook /\ written_index' = NoIndex
  /\ last' = <<NoBook, NoIndex>>
  /\ Quiet
  /\ UNCHANGED contacts

Init ==
  /\ charset = "UTF-8" /\ first = <<>> /\ active = NoBook /\ written_index = NoIndex
  /\ contacts = <<>>
  /\ shown = Nothing /\ last = <<NoBook, NoIndex>>

Indices == 0..(MaxContacts - 1)

Next ==
  \/ \E name \in Books : at_phonebooks_register(name) \/ pb_select(name)
  \/ \E cs \in Charsets : set_cscs(cs)
  \/ \E idx \in Indices \cup {NoIndex}, text \in Texts : pb_write(idx, Number, text, Empty)
  \/ \E idx \in Indices : pb_write(idx, Empty, <<>>, Empty)
  \/ \E idx \in Indices : pb_read(idx) \/ Deleted(idx)
  \/ \E name \in Texts, phones \in {<<>>, <<Number>>} : Imported(name, phones)
  \/ Reset

Spec == Init /\ [][Next]_vars

-----------------------------------------------------------------------------
\* What the terminal is told is so. AT+CPBW? answers with the index that was last written, to
\* the book that is selected, and with none after another has been selected
\* (phonebook.c:107-108, 291-292, 301-309). Names are shown so that the terminal understands
\* them, whatever its character set and however many bytes they take: nothing is cut off or
\* added (charset.c:162-189, 249-265). A character that is not in 8859-1 cannot be shown.
OffsetIsLast == written_index # NoIndex => last = <<active, written_index>>
NamesReadable ==
  (shown.charset = "8859-1" => \A i \in DOMAIN shown.name : shown.name[i] < 256)
    => Understood(shown.charset, shown.text) = shown.name
AnswersTrue == OffsetIsLast /\ NamesReadable
=============================================================================
