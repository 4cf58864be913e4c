---------------------------- MODULE ContactFiles ----------------------------
(***************************************************************************)
(* The files of one contact: the timeline of messages, profile.md with the *)
(* facts learned from them, the user's notes, the label and the stamp      *)
(* `knowledge_updated', and history.md.  No file lock exists.  Messages    *)
(* are appended by webhooks and by backfills; a learner reads the profile, *)
(* asks a model about the messages newer than the stamp, and later reads   *)
(* the profile again and replaces it; naming the contact reads, truncates  *)
(* and rewrites it; the user edits it by hand.  A contact seen first under *)
(* a @lid has a directory of that name, which a command merges into the    *)
(* phone's once the pair is known.                                         *)
(*                                                                         *)
(* What a model answers is abstracted to the messages it was asked about:  *)
(* `learned' holds those whose facts are in the file.  Messages may share  *)
(* a second, the unit of TimeOf.  All are within the thirty days a first   *)
(* run looks back.  The profile exists from the start; the merge runs      *)
(* while nothing else does, as its documentation asks, but may be cut      *)
(* short.                                                                  *)
(***************************************************************************)
EXTENDS Naturals, FiniteSets, Sequences, SequencesExt, Ordering

CONSTANTS
    Message,    \* messages of the contact
    TimeOf,     \* when each was sent
    Appender,   \* webhooks and backfills
    Learner,    \* runs of update_contact_knowledge
    LockKey,    \* the jid each is called with: the phone's or the @lid's
    MaxWindow,  \* MAX_WINDOW_MESSAGES
    MaxEdits, MaxRuns, MaxCrashes  \* bounds

VARIABLES
    paired,     \* the @lid's phone is known
    timeline,   \* [phone, lid]: the rows of each timeline, as messages
    lidDir,     \* "open", "merged" (renamed) or "none"
    history,    \* how often the @lid's profile was copied to history.md
    profile,    \* [phone, lid]: the two files; Torn while truncated
    appender, learner, label, merge,
    \* history
    notes,      \* what the user last wrote in each
    late,       \* messages added behind a stamp already written or about to be
    cut,        \* messages of the last second of a window that was full
    shared,     \* messages two appenders held at the same time
    unsafe,     \* an edit or a read fell into another's rewriting of the profile
    arrived,    \* messages appended
    runs, crashes

vars == <<paired, timeline, lidDir, history, profile, appender, learner, label, merge,
          notes, late, cut, shared, unsafe, arrived, runs, crashes>>
logs == <<late, cut, shared, unsafe, arrived>>

Profile == [notes : 0..MaxEdits, learned : SUBSET Message,
            stamp : {0} \cup {TimeOf[m] : m \in Message}]
Torn == [notes |-> 0, learned |-> {}, stamp |-> 0]
NoAppender == [todo |-> <<>>, ids |-> {}]
Fresh == [Torn EXCEPT !.notes = 1]
NoLearner == [at |-> "idle", base |-> Torn, window |-> <<>>, cut |-> {},
              dir |-> "phone", kept |-> Torn]
NoLabel == [at |-> "idle", dir |-> "phone", base |-> Torn]

\* The @lid's directory exists when the contact was first seen under it.
Init ==
    /\ lidDir \in {"open", "none"}
    /\ paired = (lidDir = "none")
    /\ timeline = [phone |-> <<>>, lid |-> <<>>]
    /\ history = 0
    /\ profile = [phone |-> Fresh, lid |-> Fresh]
    /\ appender = [a \in Appender |-> NoAppender]
    /\ learner = [l \in Learner |-> NoLearner]
    /\ label = NoLabel
    /\ merge = "idle"
    /\ notes = [phone |-> 1, lid |-> 1]
    /\ late = {}
    /\ cut = {}
    /\ shared = {}
    /\ unsafe = FALSE
    /\ arrived = {}
    /\ runs = 0
    /\ crashes = 0

Run == runs < MaxRuns /\ runs' = runs + 1
Dir == IF paired THEN "phone" ELSE "lid"    \* contact_dir
Busy(a) == appender[a] # NoAppender
Rewriting(d) ==
    \/ label.at # "idle" /\ label.dir = d
    \/ \E l \in Learner : learner[l].at = "write" /\ learner[l].dir = d

-----------------------------------------------------------------------------
(* The timeline                                                            *)

\* The ids are read once, then each message not among them is appended: one for a
\* webhook; for a backfill the newest first from Evolution, or in the order of the log.
Collect(a, todo) ==
    /\ ~Busy(a)
    /\ merge = "idle"
    /\ appender' = [appender EXCEPT ![a] = [todo |-> todo, ids |-> ToSet(timeline[Dir])]]
    /\ shared' = shared \cup
                 UNION {ToSet(todo) \cap ToSet(appender[b].todo) : b \in Appender \ {a}}

Record(a, m) ==
    /\ m \notin arrived
    /\ Run
    /\ Collect(a, <<m>>)
    /\ UNCHANGED <<paired, timeline, lidDir, history, profile, learner, label, merge,
                   notes, late, cut, unsafe, arrived, crashes>>

\* The messages in a row, those of one second in any order.
Listings(ms) == {s \in [1..Cardinality(ms) -> ms] : IsInjective(s)}

NewestFirst(ms) ==
    {s \in Listings(ms) : \A i, j \in DOMAIN s : i < j => TimeOf[s[i]] >= TimeOf[s[j]]}

OldestFirst(ms) ==
    {s \in Listings(ms) : \A i, j \in DOMAIN s : i < j => TimeOf[s[i]] <= TimeOf[s[j]]}

Backfill(a, ms) ==
    /\ Run
    /\ \E todo \in NewestFirst(ms) : Collect(a, todo)
    /\ UNCHANGED <<paired, timeline, lidDir, history, profile, learner, label, merge,
                   notes, late, cut, unsafe, arrived, crashes>>

BackfillFromLog(a, ms) ==
    /\ Run
    /\ \E todo \in OldestFirst(ms) : Collect(a, todo)
    /\ UNCHANGED <<paired, timeline, lidDir, history, profile, learner, label, merge,
                   notes, late, cut, unsafe, arrived, crashes>>

\* Faulty variant: the ids already there are not looked at.
SeenNothing(a, m) == FALSE
Seen(a, m) == m \in appender[a].ids

StampAhead ==
    {profile[Dir].stamp, label.base.stamp} \cup
    {TimeOf[Last(learner[l].window)] : l \in {x \in Learner : learner[x].at # "idle"}}

AppendNext(a) ==
    /\ Busy(a)
    /\ merge = "idle"
    /\ LET m == Head(appender[a].todo)
           rest == Tail(appender[a].todo)
       IN  /\ IF Seen(a, m)
              THEN UNCHANGED <<timeline, late, arrived>>
              ELSE /\ timeline' = [timeline EXCEPT ![Dir] = Append(@, m)]
                   /\ arrived' = arrived \cup {m}
                   /\ late' = IF /\ m \notin ToSet(timeline[Dir])
                                 /\ \E t \in StampAhead : t >= TimeOf[m]
                              THEN late \cup {m} ELSE late
           /\ appender' = [appender EXCEPT ![a] =
                              IF rest = <<>> THEN NoAppender ELSE [@ EXCEPT !.todo = rest]]
    /\ UNCHANGED <<paired, lidDir, history, profile, learner, label, merge,
                   notes, cut, shared, unsafe, runs, crashes>>

\* The first message that carries both jids.
LearnPair ==
    /\ ~paired
    /\ merge = "idle"
    /\ paired' = TRUE
    /\ shared' = shared \cup UNION {ToSet(appender[a].todo) : a \in Appender}
    /\ UNCHANGED <<timeline, lidDir, history, profile, appender, learner, label, merge,
                   notes, late, cut, unsafe, arrived, runs, crashes>>

-----------------------------------------------------------------------------
(* update_contact_knowledge                                                *)

Upto(seq, n) == SubSeq(seq, 1, IF Len(seq) < n THEN Len(seq) ELSE n)

\* The rows newer than the stamp, as they stand in the file.
Newer(stamp) == LET rows == timeline[Dir]
                IN  Pick(rows, {i \in DOMAIN rows : TimeOf[rows[i]] > stamp})

\* Faulty variant: the newest messages are sent.
WindowNewest(stamp) ==
    Reverse(Upto(StableSort(Newer(stamp), LAMBDA x, y : TimeOf[x] > TimeOf[y]), MaxWindow))

\* _window_rows: the oldest of them.
Window(stamp) ==
    Upto(StableSort(Newer(stamp), LAMBDA x, y : TimeOf[x] < TimeOf[y]), MaxWindow)

\* What does not fit any more and shares the second of the last message that does.
CutOff(stamp) ==
    {m \in ToSet(Newer(stamp)) \ ToSet(Window(stamp)) : TimeOf[m] = TimeOf[Last(Window(stamp))]}

Unlocked(l) == \A x \in Learner \ {l} : LockKey[x] = LockKey[l] => learner[x].at = "idle"

ReadAndAsk(l) ==
    /\ learner[l].at = "idle"
    /\ Unlocked(l)
    /\ merge = "idle"
    /\ Window(profile[Dir].stamp) # <<>>
    /\ Run
    /\ learner' = [learner EXCEPT ![l] =
                      [NoLearner EXCEPT !.at = "asked", !.base = profile[Dir],
                                        !.window = Window(profile[Dir].stamp),
                                        !.cut = CutOff(profile[Dir].stamp)]]
    /\ UNCHANGED <<paired, timeline, lidDir, history, profile, appender, label, merge,
                   notes, logs, crashes>>

\* The daily batch takes the contacts whose newest message is newer than the stamp.
HasNews == \E m \in ToSet(timeline[Dir]) : TimeOf[m] > profile[Dir].stamp
LearnBatch(l) == HasNews /\ ReadAndAsk(l)

LearnNow(l) == ReadAndAsk(l)

\* The model fails, times out, or answers something else than an object.
NoAnswer(l) ==
    /\ learner[l].at = "asked"
    /\ learner' = [learner EXCEPT ![l] = NoLearner]
    /\ UNCHANGED <<paired, timeline, lidDir, history, profile, appender, label, merge,
                   notes, logs, runs, crashes>>

\* Faulty variant: what was read before the model was asked is written back.
KeptFromBase(l) == learner[l].base

\* write_knowledge reads the profile of the contact again, for what it must keep ...
Kept(l) == profile[Dir]

Answered(l) ==
    /\ learner[l].at = "asked"
    /\ learner' = [learner EXCEPT ![l].at = "write", ![l].dir = Dir, ![l].kept = Kept(l)]
    /\ unsafe' = (unsafe \/ profile[Dir] = Torn)
    /\ UNCHANGED <<paired, timeline, lidDir, history, profile, appender, label, merge,
                   notes, late, cut, shared, arrived, runs, crashes>>

\* The facts of the file it read at first, with those of the messages it asked about.
Learnt(l) == learner[l].base.learned \cup ToSet(learner[l].window)

\* ... and replaces it: the facts and the stamp are those of its own run.
Rewritten(l) ==
    [learner[l].kept EXCEPT !.learned = Learnt(l), !.stamp = TimeOf[Last(learner[l].window)]]

ReplaceProfile(l) ==
    /\ learner[l].at = "write"
    /\ profile' = [profile EXCEPT ![learner[l].dir] = Rewritten(l)]
    /\ learner' = [learner EXCEPT ![l] = NoLearner]
    /\ cut' = cut \cup learner[l].cut
    /\ UNCHANGED <<paired, timeline, lidDir, history, appender, label, merge,
                   notes, late, shared, unsafe, arrived, runs, crashes>>

-----------------------------------------------------------------------------
(* The label and the notes                                                 *)

\* update_contact_label, whose new label is no part of the model: read, then write_text, which truncates first.
LabelReads ==
    /\ label.at = "idle"
    /\ merge = "idle"
    /\ Run
    /\ label' = [at |-> "read", dir |-> Dir, base |-> profile[Dir]]
    /\ UNCHANGED <<paired, timeline, lidDir, history, profile, appender, learner, merge,
                   notes, logs, crashes>>

LabelTruncates ==
    /\ label.at = "read"
    /\ label' = [label EXCEPT !.at = "truncated"]
    /\ profile' = [profile EXCEPT ![label.dir] = Torn]
    /\ UNCHANGED <<paired, timeline, lidDir, history, appender, learner, merge,
                   notes, logs, runs, crashes>>

LabelWrites ==
    /\ label.at = "truncated"
    /\ profile' = [profile EXCEPT ![label.dir] = label.base]
    /\ label' = NoLabel
    /\ UNCHANGED <<paired, timeline, lidDir, history, appender, learner, merge,
                   notes, logs, runs, crashes>>

Edit ==
    /\ notes[Dir] < MaxEdits
    /\ profile[Dir] # Torn
    /\ notes' = [notes EXCEPT ![Dir] = @ + 1]
    /\ profile' = [profile EXCEPT ![Dir].notes = notes[Dir] + 1]
    /\ unsafe' = (unsafe \/ Rewriting(Dir))
    /\ UNCHANGED <<paired, timeline, lidDir, history, appender, learner, label, merge,
                   late, cut, shared, arrived, runs, crashes>>

-----------------------------------------------------------------------------
(* contact-identity-migrate                                                *)

Idle == /\ \A a \in Appender : ~Busy(a)
        /\ \A l \in Learner : learner[l].at = "idle"
        /\ label.at = "idle"

\* Faulty variant: the phone's rows are replaced.
MergedReplacing(target, extra) == extra

\* merge_timelines: the phone's rows, and the @lid's whose message is not there yet, once
\* each, ordered by their time.
Merged(target, extra) ==
    LET isNew(i) == /\ extra[i] \notin ToSet(target)
                    /\ \A j \in DOMAIN extra : j < i => extra[j] # extra[i]
    IN  StableSort(target \o Pick(extra, {i \in DOMAIN extra : isNew(i)}),
                   LAMBDA x, y : TimeOf[x] < TimeOf[y])

MergeTimelines ==
    /\ lidDir = "open"
    /\ paired
    /\ Idle
    /\ merge = "idle"
    /\ timeline' = [timeline EXCEPT !.phone = Merged(@, timeline.lid)]
    /\ late' = late \cup {m \in ToSet(timeline.lid) \ ToSet(timeline.phone) :
                            \E t \in StampAhead : t >= TimeOf[m]}
    /\ merge' = "timeline"
    /\ UNCHANGED <<paired, lidDir, history, profile, appender, learner, label,
                   notes, cut, shared, unsafe, arrived, runs, crashes>>

\* Faulty variant: the section is added again by a merge that is run again.
HistoryAgain(n) == n + 1

\* The section is added when it is not in history.md yet.
HistoryWith(n) == IF n = 0 THEN 1 ELSE n

MergeProfile ==
    /\ merge = "timeline"
    /\ history' = HistoryWith(history)
    /\ merge' = "profile"
    /\ UNCHANGED <<paired, timeline, lidDir, profile, appender, learner, label,
                   notes, logs, runs, crashes>>

RenameDir ==
    /\ merge = "profile"
    /\ lidDir' = "merged"
    /\ merge' = "idle"
    /\ UNCHANGED <<paired, timeline, history, profile, appender, learner, label,
                   notes, logs, runs, crashes>>

-----------------------------------------------------------------------------
\* The process is stopped: what is on disk stays as it is.
Crash ==
    /\ crashes < MaxCrashes
    /\ crashes' = crashes + 1
    /\ ~Idle \/ merge # "idle"
    /\ appender' = [a \in Appender |-> NoAppender]
    /\ learner' = [l \in Learner |-> NoLearner]
    /\ label' = NoLabel
    /\ merge' = "idle"
    /\ unsafe' = (unsafe \/ label.at = "truncated")
    /\ UNCHANGED <<paired, timeline, lidDir, history, profile, notes, late, cut, shared,
                   arrived, runs>>

Next ==
    \/ \E a \in Appender, m \in Message : Record(a, m)
    \/ \E a \in Appender, ms \in (SUBSET Message) \ {{}} :
          Backfill(a, ms) \/ BackfillFromLog(a, ms)
    \/ \E a \in Appender : AppendNext(a)
    \/ LearnPair
    \/ \E l \in Learner :
          LearnBatch(l) \/ LearnNow(l) \/ NoAnswer(l) \/ Answered(l) \/ ReplaceProfile(l)
    \/ LabelReads \/ LabelTruncates \/ LabelWrites
    \/ Edit
    \/ MergeTimelines \/ MergeProfile \/ RenameDir
    \/ Crash

Spec == Init /\ [][Next]_vars

-----------------------------------------------------------------------------
(* Properties                                                              *)

TypeOK ==
    /\ paired \in BOOLEAN
    /\ timeline \in [{"phone", "lid"} -> Seq(Message)]
    /\ lidDir \in {"open", "merged", "none"}
    /\ history \in 0..1
    /\ profile \in [{"phone", "lid"} -> Profile]
    /\ merge \in {"idle", "timeline", "profile"}
    /\ \A l \in Learner : learner[l].at \in {"idle", "asked", "write"}
    /\ label.at \in {"idle", "read", "truncated"}
    /\ late \subseteq arrived
    /\ arrived \subseteq Message

\* The stamp never runs ahead of the facts: whatever is newer than the stamp is still to
\* be learned, and whatever is not has been, whoever overwrote the profile with an older
\* reading of it in between.  Two kinds of messages are missed: those appended behind the
\* stamp, and those that share the second at which a full window was cut (_update_locked
\* stamps the newest message it sent, and _window_rows takes only what is newer).
LearnedUpToStamp ==
    \A m \in ToSet(timeline[Dir]) \ (late \cup cut) :
        TimeOf[m] <= profile[Dir].stamp => m \in profile[Dir].learned

\* The user's notes survive a learner however long its model takes and whoever else
\* learns at the same time, unless an edit falls into the moment another rewrites the
\* file, or the file is read or left while it is truncated (write_knowledge reads the
\* profile again just before it replaces it).
NotesKeptUnlessTorn ==
    \A d \in {"phone", "lid"} :
        ~unsafe /\ profile[d] # Torn => profile[d].notes = notes[d]

\* No message is in the timeline twice, through repeated and interrupted backfills and
\* merges, unless two appenders held it at once (timeline_source_ids, merge_timelines).
OnceInTimeline ==
    \A m \in Message \ shared : \A d \in {"phone", "lid"} :
        Cardinality({i \in DOMAIN timeline[d] : timeline[d][i] = m}) <= 1

\* What was appended is found under the contact's own directory or still waits in the
\* @lid's, also when a merge is interrupted and run again (migrate_lid_dirs).
NothingLost ==
    \A m \in arrived :
        \/ m \in ToSet(timeline.phone)
        \/ lidDir # "merged" /\ m \in ToSet(timeline.lid)

\* What was said, learned and noted is kept, once.
FilesRight == LearnedUpToStamp /\ NotesKeptUnlessTorn /\ OnceInTimeline /\ NothingLost
=============================================================================
