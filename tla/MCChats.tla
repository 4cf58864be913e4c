------------------------------ MODULE MCChats ------------------------------
(***************************************************************************)
(* One run for the Telegram chat and for the contacts: their files, twice, *)
(* and their names.  They share no state: `focus' is chosen once, only     *)
(* that component steps, and its variables are the cells c1, c2, ...       *)
(***************************************************************************)
EXTENDS Naturals, Sequences, TLC

CONSTANTS a1, a2, l1, l2, m1, m2

VARIABLES focus, c1, c2, c3, c4, c5, c6, c7, c8, c9, c10, c11, c12, c13, c14, c15,
          c16, c17, c18, c19, c20, c21

cells == <<c1, c2, c3, c4, c5, c6, c7, c8, c9, c10, c11, c12, c13, c14, c15,
           c16, c17, c18, c19, c20, c21>>

\* Two messages, of two seconds or of one; a learner called with the phone's jid and one called with the @lid.
Times == (m1 :> 1) @@ (m2 :> 2)
OneSecond == (m1 :> 1) @@ (m2 :> 1)
Keys == (l1 :> "phone") @@ (l2 :> "lid")

\* Two numbers that differ only by their country code, and address books that name one,
\* the other, one of them twice, or both at once.
Tel(cc, nine, plus) ==
    [cc |-> cc, ddd |-> "51", last |-> "12345678", nine |-> nine, plus |-> plus]
Entry(name, phones) == [name |-> name, phones |-> phones]
NumberOfJid == [br |-> Tel("55", TRUE, TRUE), pt |-> Tel("351", TRUE, TRUE)]
AddressBooks ==
    [ana  |-> <<Entry("ana", {Tel("55", FALSE, FALSE)})>>,
     rui  |-> <<Entry("rui", {Tel("351", TRUE, TRUE)})>>,
     two  |-> <<Entry("ana", {Tel("55", TRUE, FALSE)}), Entry("rui", {Tel("55", FALSE, TRUE)})>>,
     both |-> <<Entry("rui", {Tel("55", TRUE, TRUE), Tel("351", TRUE, TRUE)}),
                Entry("rui", {Tel("55", FALSE, TRUE)})>>]

Chat == INSTANCE Telegram WITH
        MaxUpdates <- 3, MaxRows <- 4, KeepLast <- 1, MaxCrashes <- 1, MaxFaults <- 1,
        sent <- c1, kind <- c2, confirmed <- c3, offset <- c4, batch <- c5,
        cur <- c6, step <- c7, answer <- c8, memory <- c9, rows <- c10,
        log <- c11, inbox <- c12, crashes <- c13, faults <- c14, runs <- c15,
        ended <- c16, replies <- c17, forgot <- c18, seen <- c19,
        unlogged <- c20, unaudited <- c21
Files == INSTANCE ContactFiles WITH
         Message <- {m1, m2}, TimeOf <- Times, Appender <- {a1, a2},
         Learner <- {l1, l2}, LockKey <- Keys, MaxWindow <- 1, MaxEdits <- 2,
         MaxRuns <- 3, MaxCrashes <- 1, paired <- c1, timeline <- c2,
         lidDir <- c3, history <- c4, profile <- c5, appender <- c6,
         learner <- c7, label <- c8, merge <- c9, notes <- c10, late <- c11,
         cut <- c12, shared <- c13, unsafe <- c14, arrived <- c15, runs <- c16,
         crashes <- c17
Tied == INSTANCE ContactFiles WITH
        Message <- {m1, m2}, TimeOf <- OneSecond, Appender <- {a1, a2},
        Learner <- {l1, l2}, LockKey <- Keys, MaxWindow <- 1, MaxEdits <- 2,
        MaxRuns <- 2, MaxCrashes <- 1, paired <- c1, timeline <- c2,
        lidDir <- c3, history <- c4, profile <- c5, appender <- c6,
        learner <- c7, label <- c8, merge <- c9, notes <- c10, late <- c11,
        cut <- c12, shared <- c13, unsafe <- c14, arrived <- c15, runs <- c16,
        crashes <- c17
Names == INSTANCE Contacts WITH
         Phone <- {"br", "pt"}, Number <- NumberOfJid, Lid <- {"lid"},
         PhoneOf <- [lid |-> "br"], Book <- AddressBooks, UserName <- {"bia"},
         Profile <- {"pn"}, MaxItems <- 1, MaxActs <- 4, rows <- c1,
         paired <- c2, import <- c3, tool <- c4, hook <- c5, asked <- c6,
         given <- c7, named <- c8, quiet <- c9, acts <- c10

\* The cells a component of n variables leaves alone.
after17 == <<c18, c19, c20, c21>>
after10 == <<c11, c12, c13, c14, c15, c16, c17, after17>>
Blank17 == c18 = 0 /\ c19 = 0 /\ c20 = 0 /\ c21 = 0
Blank10 == c11 = 0 /\ c12 = 0 /\ c13 = 0 /\ c14 = 0 /\ c15 = 0 /\ c16 = 0 /\ c17 = 0 /\ Blank17

ChatsInit ==
    \/ focus = "telegram" /\ Chat!Init
    \/ focus = "files" /\ Files!Init /\ Blank17
    \/ focus = "tied" /\ Tied!Init /\ Blank17
    \/ focus = "names" /\ Names!Init /\ Blank10

ChatsNext ==
    \/ focus = "telegram" /\ Chat!Next /\ UNCHANGED focus
    \/ focus = "files" /\ Files!Next /\ UNCHANGED <<focus, after17>>
    \/ focus = "tied" /\ Tied!Next /\ UNCHANGED <<focus, after17>>
    \/ focus = "names" /\ Names!Next /\ UNCHANGED <<focus, after10>>

ChatsSpec == ChatsInit /\ [][ChatsNext]_<<focus, cells>>

At(component) == focus = component

\* These properties are stated where their names are defined.
TypeOK ==
    /\ At("telegram") => Chat!TypeOK
    /\ At("files") => Files!TypeOK
    /\ At("tied") => Tied!TypeOK
    /\ At("names") => Names!TypeOK
FilesRight == (At("files") => Files!FilesRight) /\ (At("tied") => Tied!FilesRight)
ChatRight ==
    /\ [](At("telegram") => /\ Chat!NoneLost /\ Chat!RepeatedByCrashOnly
                            /\ Chat!ContextKnowsLast /\ Chat!SecondReplyExplained
                            /\ Chat!LinkedRight)
    /\ [][At("telegram") => Chat!EndsWithReply]_<<focus, cells>>
NamesRight ==
    /\ [](At("names") => Names!RightPerson)
    /\ [][At("names") => Names!UserNamesStay /\ Names!AsksOnlyAboutUnknown]_<<focus, cells>>
=============================================================================
