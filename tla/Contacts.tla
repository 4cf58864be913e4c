------------------------------ MODULE Contacts ------------------------------
(***************************************************************************)
(* The table whatsapp_contacts and everyone who names a contact: WhatsApp  *)
(* (the name a person gave to his own profile, kept as the label), the     *)
(* user (by the tool, or by answering the weekly question about            *)
(* conversations without a name), and the address book (the Google sync or *)
(* a vCard), which reads the whole table once and then writes row by row.  *)
(* One person has a phone jid and, for some, a @lid jid as well; the pair  *)
(* is learned from messages.                                               *)
(*                                                                         *)
(* A number is its country code, the area code, the last eight digits,     *)
(* whether a Brazilian mobile is written with its ninth digit, and (in the *)
(* address book) whether the country code is written.  Abroad, `ddd' is    *)
(* what the same two positions hold, the end of the country code.  Names   *)
(* are compared without their case; aliases, used in searches only, and    *)
(* the dry run, which writes nothing, are left out.                        *)
(***************************************************************************)
EXTENDS Naturals, FiniteSets, Sequences

CONSTANTS
    Phone,       \* jids that are phone numbers
    Number,      \* the number of each
    Lid,         \* @lid jids
    PhoneOf,     \* the phone jid of the same person
    Book,        \* the versions of the address book: sequences of [name, phones]
    UserName,    \* names the user gives
    Profile,     \* names people give to their own profiles
    MaxItems,    \* PROMPT_MAX_ITEMS
    MaxActs      \* bound on what the user, WhatsApp and the importer begin

VARIABLES
    rows,      \* whatsapp_contacts: the jids present and their fields
    paired,    \* wa_jid_alias: the @lid jids whose phone is known
    import,    \* the running import: its entries, the rows it read, the next entry
    tool,      \* set_whatsapp_contact_name between its search and its write
    hook,      \* touch_contact between its read and its write
    asked,     \* the contacts of the last "conversas sem nome" section
    \* history
    given,     \* <<version of the address book>> imported so far
    named,     \* jids the user has named
    quiet,     \* jids the user asked not to be asked about, ninety days not over
    acts

vars == <<rows, paired, import, tool, hook, asked, given, named, quiet, acts>>

None == "none"
Digits == "digits"     \* a label that is only the number says nothing (_PHONE_LIKE)
Jid == Phone \cup Lid
AgendaName == UNION {{Book[b][i].name : i \in DOMAIN Book[b]} : b \in DOMAIN Book}
Name == AgendaName \cup UserName
Blank == [label |-> None, display |-> None, source |-> None, ignored |-> FALSE]
Idle == [jid |-> None, label |-> None]
NoImport == [book |-> None, index |-> <<>>, next |-> 0]

Init ==
    /\ rows = [j \in {} |-> Blank]
    /\ paired = {}
    /\ import = NoImport
    /\ tool = Idle
    /\ hook = Idle
    /\ asked = {}
    /\ given = {}
    /\ named = {}
    /\ quiet = {}
    /\ acts = 0

Act == acts < MaxActs /\ acts' = acts + 1

-----------------------------------------------------------------------------
(* Rows and what is shown of them                                          *)

Row(j) == IF j \in DOMAIN rows THEN rows[j] ELSE Blank

\* upsert_whatsapp_contact: what is None stays; a display name brings its source.
Merged(row, label, display, source) ==
    [label   |-> IF label # None THEN label ELSE row.label,
     display |-> IF display # None THEN display ELSE row.display,
     source  |-> IF display # None THEN source ELSE row.source,
     ignored |-> row.ignored]

With(j, row) == [k \in DOMAIN rows \cup {j} |-> IF k = j THEN row ELSE rows[k]]
Upsert(j, label, display, source) ==
    rows' = With(j, Merged(Row(j), label, display, source))

Says(label) == label \notin {None, Digits}
FirstOf(preferred, otherwise) == IF preferred # None THEN preferred ELSE otherwise

PairedLabel(j) ==
    IF j \notin paired THEN None
    ELSE LET phone == Row(PhoneOf[j]) IN
         FirstOf(phone.display, IF Says(phone.label) THEN phone.label ELSE None)

EffectiveLabel(j) ==
    FirstOf(Row(j).display, FirstOf(PairedLabel(j), FirstOf(Row(j).label, Digits)))

HasName(row) == row.source # None \/ row.display # None \/ Says(row.label)

-----------------------------------------------------------------------------
(* WhatsApp                                                                *)

\* touch_contact reads the row, outside any lock, and writes only what it misses.
\* A message without a profile name still creates the row.
TouchReads(j, label) ==
    /\ hook = Idle
    /\ Act
    /\ LET row == Row(j)
           wanted == IF row.label = None /\ row.display # label THEN label ELSE None
       IN  /\ j \notin DOMAIN rows \/ wanted # None
           /\ hook' = [jid |-> j, label |-> wanted]
    /\ UNCHANGED <<rows, paired, import, tool, asked, given, named, quiet>>

TouchWrites ==
    /\ hook # Idle
    /\ Upsert(hook.jid, hook.label, None, None)
    /\ hook' = Idle
    /\ UNCHANGED <<paired, import, tool, asked, given, named, quiet, acts>>

\* sync_evolution_contacts, one contact: the label is overwritten.
SyncLabel(j, label) ==
    /\ Act
    /\ Upsert(j, label, None, None)
    /\ UNCHANGED <<paired, import, tool, hook, asked, given, named, quiet>>

LearnPair(l) ==
    /\ l \notin paired
    /\ paired' = paired \cup {l}
    /\ UNCHANGED <<rows, import, tool, hook, asked, given, named, quiet, acts>>

-----------------------------------------------------------------------------
(* The address book: apply_entries, from the Google sync or a vCard        *)

Key(number) == <<number.ddd, number.last>>
Country(number) == IF number.plus THEN number.cc ELSE "55"
Compatible(number, j) ==
    IF Country(number) = "55" THEN Number[j].cc = "55"
    ELSE /\ number.cc = Number[j].cc
         /\ number.nine = Number[j].nine

Keys(entry) == {Key(p) : p \in entry.phones}
Ambiguous(book, entry) ==
    \E k \in Keys(entry), i \in DOMAIN book :
        k \in Keys(book[i]) /\ book[i].name # entry.name
Repeated(book, i) ==
    \A k \in Keys(book[i]) : \E e \in 1..(i - 1) :
        /\ book[e].name = book[i].name
        /\ k \in Keys(book[e])
        /\ ~Ambiguous(book, book[e])

\* build_registry_index: groups and @lid jids have no key.
Indexed(index) == DOMAIN index \cap Phone

\* Faulty variant: matched by area code and last digits alone.
HitsAnyCountry(index, entry) ==
    {j \in Indexed(index) : \E p \in entry.phones : Key(p) = Key(Number[j])}
Hits(index, entry) ==
    {j \in Indexed(index) :
        \E p \in entry.phones : Key(p) = Key(Number[j]) /\ Compatible(p, j)}

StartImport(b, source) ==
    /\ import = NoImport
    /\ Act
    /\ import' = [book |-> b, source |-> source, index |-> rows, next |-> 1]
    /\ given' = given \cup {b}
    /\ UNCHANGED <<rows, paired, tool, hook, asked, named, quiet>>

Sync(b) == StartImport(b, "agenda")
ImportVcard(b) == StartImport(b, "vcard")

\* Decided on what was read at the start.
Wanted(j, entry) ==
    /\ import.index[j].display # entry.name
    /\ import.index[j].source # "user"

\* Faulty variant: what was read at the start decides.
StillOpenThen(j) == import.index[j].source \in {None, "agenda", "vcard"}

\* only_if_name_source_in, under the row's lock.
StillOpen(j) == Row(j).source \in {None, "agenda", "vcard"}

ImportEntry ==
    /\ import # NoImport
    /\ LET book == Book[import.book]
           entry == book[import.next]
           hits == Hits(import.index, entry)
           IsNamed(j) == /\ entry.phones # {}
                         /\ ~Ambiguous(book, entry)
                         /\ ~Repeated(book, import.next)
                         /\ hits = {j}
                         /\ Wanted(j, entry)
                         /\ StillOpen(j)
       IN  /\ \/ \E j \in hits : IsNamed(j) /\ Upsert(j, None, entry.name, import.source)
              \/ (\A j \in hits : ~IsNamed(j)) /\ UNCHANGED rows
           /\ import' = IF import.next < Len(book)
                        THEN [import EXCEPT !.next = @ + 1] ELSE NoImport
    /\ UNCHANGED <<paired, tool, hook, asked, given, named, quiet, acts>>

\* The process ends or the database fails between two entries.
ImportStops ==
    /\ import # NoImport
    /\ import' = NoImport
    /\ UNCHANGED <<rows, paired, tool, hook, asked, given, named, quiet, acts>>

-----------------------------------------------------------------------------
(* The user                                                                *)

\* assign_contact_name, as the user does it.
Assign(j, label, name) ==
    /\ Upsert(j, label, name, "user")
    /\ named' = named \cup {j}

\* set_whatsapp_contact_name finds the contact and the label it is shown with (its search
\* also touches every known contact, as WhatsApp's messages do) ...
ToolFinds(j) ==
    /\ tool = Idle
    /\ Act
    /\ tool' = [jid |-> j, label |-> EffectiveLabel(j)]
    /\ UNCHANGED <<rows, paired, import, hook, asked, given, named, quiet>>

\* ... and assign_contact_name stores the new name, and that label as the WhatsApp label.
ToolNames(name) ==
    /\ tool # Idle
    /\ Assign(tool.jid, tool.label, name)
    /\ tool' = Idle
    /\ UNCHANGED <<paired, import, hook, asked, given, quiet, acts>>

Direct(lids) == lids \cap paired

\* Faulty variant: the names given to the paired @lid do not count.
LidsOfNone(j) == {}
LidsOf(j) == Direct({l \in Lid : PhoneOf[l] = j})

\* unnamed_candidates: `active' are the direct chats with enough recent messages.
Unnamed(active) ==
    {j \in DOMAIN rows \cap active :
        /\ j \notin paired
        /\ ~HasName(rows[j])
        /\ \A l \in LidsOf(j) \cap DOMAIN rows : ~HasName(rows[l])
        /\ ~rows[j].ignored}

\* Faulty variant: every candidate is asked about at once.
QuestionsAll(us) == {us}

\* The first MaxItems by activity, whose order is left open.
Questions(us) ==
    {a \in SUBSET us : Cardinality(a) <= MaxItems /\ (a # us => Cardinality(a) = MaxItems)}

Ask(active) ==
    /\ Act
    /\ asked' \in Questions(Unnamed(active))
    /\ UNCHANGED <<rows, paired, import, tool, hook, given, named, quiet>>

\* try_name_reply: "nomeia N <nome>"
NameReply(j, name) ==
    /\ j \in asked
    /\ Assign(j, None, name)
    /\ Act
    /\ UNCHANGED <<paired, import, tool, hook, asked, given, quiet>>

\* "ignora N", or the button
IgnoreReply(j) ==
    /\ j \in asked
    /\ rows' = With(j, [Row(j) EXCEPT !.ignored = TRUE])
    /\ quiet' = quiet \cup {j}
    /\ Act
    /\ UNCHANGED <<paired, import, tool, hook, asked, given, named>>

\* Ninety days (IGNORE_DAYS) go by.
IgnoreEnds(j) ==
    /\ j \in DOMAIN rows
    /\ rows[j].ignored
    /\ rows' = [rows EXCEPT ![j].ignored = FALSE]
    /\ quiet' = quiet \ {j}
    /\ UNCHANGED <<paired, import, tool, hook, asked, given, named, acts>>

Next ==
    \/ \E j \in Jid, label \in Profile \cup {None} : TouchReads(j, label)
    \/ TouchWrites
    \/ \E j \in Jid, label \in Profile \cup {Digits} : SyncLabel(j, label)
    \/ \E l \in Lid : LearnPair(l)
    \/ \E b \in DOMAIN Book : Sync(b) \/ ImportVcard(b)
    \/ ImportEntry
    \/ ImportStops
    \/ \E j \in Jid : ToolFinds(j)
    \/ \E name \in UserName : ToolNames(name)
    \/ \E active \in SUBSET Jid : Ask(active)
    \/ \E j \in asked, name \in UserName : NameReply(j, name)
    \/ \E j \in asked : IgnoreReply(j)
    \/ \E j \in Jid : IgnoreEnds(j)

Spec == Init /\ [][Next]_vars

-----------------------------------------------------------------------------
(* Properties                                                              *)

TypeOK ==
    /\ DOMAIN rows \subseteq Jid
    /\ \A j \in DOMAIN rows :
          rows[j] \in [label : Profile \cup Name \cup {None, Digits}, display : Name \cup {None},
                       source : {None, "user", "agenda", "vcard"}, ignored : BOOLEAN]
    /\ paired \subseteq Lid
    /\ asked \subseteq Jid
    /\ Cardinality(asked) <= MaxItems
    /\ given \subseteq DOMAIN Book
    /\ named \subseteq Jid
    /\ quiet \subseteq Jid
    /\ acts \in 0..MaxActs

\* Two numbers are one line: a Brazilian one with or without its ninth digit.  A number
\* written without a country code is Brazilian.
SameLine(number, j) ==
    /\ Country(number) = Number[j].cc
    /\ Key(number) = Key(Number[j])
    /\ Country(number) # "55" => number.nine = Number[j].nine

\* A name the address book gave to a contact is the name some version of the book has for
\* that very line, and that version has no other name for it: the import, which matches
\* numbers by area code and last digits and writes from an index read earlier, never
\* labels the wrong person (apply_entries, match_key, _country_compatible).
RightPerson ==
    \A j \in DOMAIN rows : rows[j].source \in {"agenda", "vcard"} =>
        \E b \in given :
            /\ \E i \in DOMAIN Book[b] : /\ Book[b][i].name = rows[j].display
                                         /\ \E p \in Book[b][i].phones : SameLine(p, j)
            /\ \A i \in DOMAIN Book[b] :
                  (\E p \in Book[b][i].phones : SameLine(p, j))
                      => Book[b][i].name = rows[j].display

\* Whatever was read before and whoever writes in between, a name the user gave is never
\* replaced by the address book or by WhatsApp (upsert_whatsapp_contact's guard under the
\* row's lock: "a row named by the user is never overwritten").
UserNamesStay ==
    \A j \in named :
        /\ j \in DOMAIN rows'
        /\ rows'[j].source = "user"
        /\ rows'[j].display # rows[j].display =>
              rows'[j].display \in UserName /\ (tool.jid = j \/ j \in asked)

\* A conversation the user has named, under its phone or under the @lid it was shown with,
\* or has asked not to be asked about, is not in the next question
\* (unnamed_candidates).
AsksOnlyAboutUnknown ==
    (asked' # {} /\ rows' = rows) => \A active \in SUBSET Jid : Ask(active) =>
        \A j \in asked' :
            /\ j \notin named \cup quiet
            /\ \A l \in paired : PhoneOf[l] = j => l \notin named

\* A name belongs to its person, and is the user's once given.
NamesRight == []RightPerson /\ [][UserNamesStay /\ AsksOnlyAboutUnknown]_vars
=============================================================================
