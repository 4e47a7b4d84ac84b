------------------------- MODULE ParticipantMonitor -------------------------
(***************************************************************************)
(* ParticipantMonitor: what a DDSManager knows about the other             *)
(* participants of its domain, and what it tells the application.          *)
(*                                                                         *)
(* OpenDDS publishes a participant through two built-in readers: "data"    *)
(* (it exists) and "location" (its address).  Each has its own listener,   *)
(* and the two on_data_available handlers run on OpenDDS's threads.  Both  *)
(* write one map, m_info_map, under m_info_map_mutex, and call the         *)
(* application's onAdd or onRemove after they have released it: between    *)
(* the two steps, and between the samples of a batch, the other handler    *)
(* can do anything.                                                        *)
(*                                                                         *)
(* A participant can leave and come back under the same GUID: its lease    *)
(* expires when the network loses its announcements, and it is discovered  *)
(* again with the next one.                                                *)
(***************************************************************************)
EXTENDS Naturals, Sequences

CONSTANTS
    Participants,   \* GUIDs of the other participants
    Depth,          \* samples a reader keeps per instance (KEEP_LAST)
    Callbacks,      \* which of onAdd and onRemove the application supplied
    NoEntry,        \* the map has no entry for a GUID
    NoCall,         \* a handler has no callback to make
    MaxJoins,       \* bound: how often a participant (re)joins
    MaxUpdates      \* bound: announcements per participant after its joins

Readers == {"data", "location"}

\* joinDomain makes a monitor only if there is a function for it to call.
ASSUME MonitorAssumption ==
    /\ Depth \in Nat \ {0}
    /\ Callbacks \subseteq {"onAdd", "onRemove"} /\ Callbacks # {}
    /\ MaxJoins \in Nat /\ MaxUpdates \in Nat
    /\ NoEntry \notin [discovered : BOOLEAN, location : BOOLEAN]
    /\ NoCall \notin [kind : {"add", "remove"}, of : Participants]

VARIABLES
    \* The domain, and the readers inside OpenDDS.
    present,     \* the participants that are discovered
    announced,   \* [Readers -> SUBSET Participants]: instances that are alive
    local,       \* the participants whose location has a local address
    joins,       \* [Participants -> Nat]: how often each has joined
    updatesLeft, \* [Participants -> Nat]: the bound on updates
    unread,      \* [Readers -> [Participants -> Seq(Sample)]]
    notify,      \* [Readers -> BOOLEAN]: the listener is to be called
    \* The monitor.
    ctor,        \* what the constructor does next
    installed,   \* the readers that have the monitor's listener
    batch,       \* [Readers -> [Participants -> Seq(Sample)]]: msgList
    call,        \* [Readers -> the callback the handler makes next]
    m_info_map,  \* [Participants -> Info or NoEntry]
    told         \* [Participants -> the last callback made about it]

domainVars == <<present, announced, local, joins, updatesLeft>>
vars == <<domainVars, unread, notify, ctor, installed, batch, call, m_info_map,
          told>>

\* A sample is valid data, with a local address or ("other") without one, or
\* the news that the instance is gone (valid_data is false).
Sample == {"local", "other", "gone"}

\* ParticipantInfo: is discovered_timestamp, is location filled in?
Info == [discovered : BOOLEAN, location : BOOLEAN]
Blank == [discovered |-> FALSE, location |-> FALSE]

\* "add" is onAdd(info), "remove" is onRemove(info).
PendingCall == [kind : {"add", "remove"}, of : Participants]

TypeOK ==
    /\ present \subseteq Participants
    /\ announced \in [Readers -> SUBSET Participants]
    /\ local \subseteq Participants
    /\ joins \in [Participants -> Nat]
    /\ updatesLeft \in [Participants -> Nat]
    /\ unread \in [Readers -> [Participants -> Seq(Sample)]]
    /\ notify \in [Readers -> BOOLEAN]
    /\ ctor \in {"data", "location", "done"}
    /\ installed \subseteq Readers
    /\ batch \in [Readers -> [Participants -> Seq(Sample)]]
    /\ call \in [Readers -> PendingCall \cup {NoCall}]
    /\ m_info_map \in [Participants -> Info \cup {NoEntry}]
    /\ told \in [Participants -> {"nothing", "added", "removed"}]

\* The monitor's constructor starts on a participant that is already enabled:
\* discovery may be ahead of it.
Init ==
    /\ present = {}
    /\ announced = [r \in Readers |-> {}]
    /\ local = {}
    /\ joins = [p \in Participants |-> 0]
    /\ updatesLeft = [p \in Participants |-> MaxUpdates]
    /\ unread = [r \in Readers |-> [p \in Participants |-> <<>>]]
    /\ notify = [r \in Readers |-> FALSE]
    /\ ctor = "data"
    /\ installed = {}
    /\ batch = [r \in Readers |-> [p \in Participants |-> <<>>]]
    /\ call = [r \in Readers |-> NoCall]
    /\ m_info_map = [p \in Participants |-> NoEntry]
    /\ told = [p \in Participants |-> "nothing"]

-----------------------------------------------------------------------------
(* The domain.  OpenDDS stores a sample in a reader and calls its listener *)
(* if it has one; a listener set later is not called for older samples.    *)

\* The reader's KEEP_LAST history of an instance when one more sample comes.
Keep(seq, sample) ==
    IF Len(seq) < Depth THEN Append(seq, sample) ELSE Append(Tail(seq), sample)

\* A participant is discovered.
Join(p) ==
    /\ p \notin present
    /\ joins[p] < MaxJoins
    /\ joins' = [joins EXCEPT ![p] = @ + 1]
    /\ present' = present \cup {p}
    /\ announced' = [announced EXCEPT !["data"] = @ \cup {p}]
    /\ unread' = [unread EXCEPT !["data"][p] = Keep(@, "other")]
    /\ notify' = [notify EXCEPT !["data"] = @ \/ "data" \in installed]
    /\ UNCHANGED <<local, updatesLeft, ctor, installed, batch, call, m_info_map,
                   told>>

\* It is announced again, or its location for the first time or again.  The
\* location sample has every address found so far.
Announce(r, p, sample) ==
    /\ p \in present
    /\ updatesLeft[p] > 0
    /\ r = "data" => sample = "other"
    /\ r = "location" /\ p \in local => sample = "local"
    /\ updatesLeft' = [updatesLeft EXCEPT ![p] = @ - 1]
    /\ announced' = [announced EXCEPT ![r] = @ \cup {p}]
    /\ local' = IF sample = "local" THEN local \cup {p} ELSE local
    /\ unread' = [unread EXCEPT ![r][p] = Keep(@, sample)]
    /\ notify' = [notify EXCEPT ![r] = @ \/ r \in installed]
    /\ UNCHANGED <<present, joins, ctor, installed, batch, call, m_info_map, told>>

\* It leaves, or its lease expires: both of its instances are disposed.
Depart(p) ==
    /\ p \in present
    /\ present' = present \ {p}
    /\ local' = local \ {p}
    /\ announced' = [r \in Readers |-> announced[r] \ {p}]
    /\ unread' = [r \in Readers |-> [unread[r] EXCEPT ![p] =
                     IF p \in announced[r] THEN Keep(@, "gone") ELSE @]]
    /\ notify' = [r \in Readers |->
                     notify[r] \/ (p \in announced[r] /\ r \in installed)]
    /\ UNCHANGED <<joins, updatesLeft, ctor, installed, batch, call, m_info_map,
                   told>>

-----------------------------------------------------------------------------
(* The constructor.                                                        *)

\* Mutant: the constructor does not stop at a reader that is not there.
InstallAnything ==
    /\ installed' = installed \cup {ctor}
    /\ ctor' = IF ctor = "data" THEN "location" ELSE "done"
    /\ UNCHANGED <<domainVars, unread, notify, batch, call, m_info_map, told>>

\* lookup_datareader and set_listener, first for the participants' data, then
\* for their locations.
Install ==
    /\ ctor \in Readers
    /\ installed' = installed \cup {ctor}
    /\ ctor' = IF ctor = "data" THEN "location" ELSE "done"
    /\ UNCHANGED <<domainVars, unread, notify, batch, call, m_info_map, told>>

\* The built-in subscriber or the reader is not found.
InstallFails ==
    /\ ctor \in Readers
    /\ ctor' = "done"
    /\ UNCHANGED <<domainVars, unread, notify, installed, batch, call, m_info_map,
                   told>>

-----------------------------------------------------------------------------
(* on_participant_data_available, on_participant_location_data_available.  *)

Idle(r) == call[r] = NoCall /\ \A p \in Participants : batch[r][p] = <<>>

\* take(), whatever the state of the samples and of their instances.
Take(r) ==
    /\ notify[r]
    /\ Idle(r)
    /\ batch' = [batch EXCEPT ![r] = unread[r]]
    /\ unread' = [unread EXCEPT ![r] = [p \in Participants |-> <<>>]]
    /\ notify' = [notify EXCEPT ![r] = FALSE]
    /\ UNCHANGED <<domainVars, ctor, installed, call, m_info_map, told>>

\* The entry of p, or a blank one with the name that the GUID spells.
InfoOf(p) == IF m_info_map[p] = NoEntry THEN Blank ELSE m_info_map[p]

\* Mutant: the location handler starts from a blank info.
UpdatedBlank(r, p, sample) ==
    IF r = "data" THEN [InfoOf(p) EXCEPT !.discovered = TRUE]
    ELSE [Blank EXCEPT !.location = @ \/ sample = "local"]

\* What the handler of r adds to it from a valid sample.
Updated(r, p, sample) ==
    IF r = "data" THEN [InfoOf(p) EXCEPT !.discovered = TRUE]
    ELSE [InfoOf(p) EXCEPT !.location = @ \/ sample = "local"]

\* Mutant: only the handler of the participants' data erases an entry.
HandleKeepsEntry(r, p) ==
    /\ call[r] = NoCall
    /\ batch[r][p] # <<>>
    /\ LET sample == Head(batch[r][p]) IN
         /\ m_info_map' = [m_info_map EXCEPT ![p] =
               IF sample # "gone" THEN Updated(r, p, sample)
               ELSE IF r = "data" THEN NoEntry ELSE @]
         /\ call' = [call EXCEPT ![r] =
               [kind |-> IF sample = "gone" THEN "remove" ELSE "add", of |-> p]]
    /\ batch' = [batch EXCEPT ![r][p] = Tail(@)]
    /\ UNCHANGED <<domainVars, unread, notify, ctor, installed, told>>

\* Mutant: the samples of a batch are handled from the last to the first.
HandleLast(r, p) ==
    /\ call[r] = NoCall
    /\ batch[r][p] # <<>>
    /\ LET sample == batch[r][p][Len(batch[r][p])] IN
         /\ m_info_map' = [m_info_map EXCEPT ![p] =
               IF sample = "gone" THEN NoEntry ELSE Updated(r, p, sample)]
         /\ call' = [call EXCEPT ![r] =
               [kind |-> IF sample = "gone" THEN "remove" ELSE "add", of |-> p]]
    /\ batch' = [batch EXCEPT ![r][p] = SubSeq(@, 1, Len(@) - 1)]
    /\ UNCHANGED <<domainVars, unread, notify, ctor, installed, told>>

\* One sample, from the lock to the unlock of m_info_map_mutex: the entry is
\* updated or inserted; that of a participant that is gone is erased.
Handle(r, p) ==
    /\ call[r] = NoCall
    /\ batch[r][p] # <<>>
    /\ LET sample == Head(batch[r][p]) IN
         /\ m_info_map' = [m_info_map EXCEPT ![p] =
               IF sample = "gone" THEN NoEntry ELSE Updated(r, p, sample)]
         /\ call' = [call EXCEPT ![r] =
               [kind |-> IF sample = "gone" THEN "remove" ELSE "add", of |-> p]]
    /\ batch' = [batch EXCEPT ![r][p] = Tail(@)]
    /\ UNCHANGED <<domainVars, unread, notify, ctor, installed, told>>

\* Mutant: only the handler of the locations reports a removal.
NotifyByLocation(r) ==
    /\ call[r] # NoCall
    /\ told' = [told EXCEPT ![call[r].of] =
          IF call[r].kind = "add"
          THEN IF "onAdd" \in Callbacks THEN "added" ELSE @
          ELSE IF "onRemove" \in Callbacks /\ r = "location" THEN "removed"
          ELSE @]
    /\ call' = [call EXCEPT ![r] = NoCall]
    /\ UNCHANGED <<domainVars, unread, notify, ctor, installed, batch, m_info_map>>

\* Then, without the mutex, the application's function if there is one.
Notify(r) ==
    /\ call[r] # NoCall
    /\ told' = [told EXCEPT ![call[r].of] =
          IF call[r].kind = "add"
          THEN IF "onAdd" \in Callbacks THEN "added" ELSE @
          ELSE IF "onRemove" \in Callbacks THEN "removed" ELSE @]
    /\ call' = [call EXCEPT ![r] = NoCall]
    /\ UNCHANGED <<domainVars, unread, notify, ctor, installed, batch, m_info_map>>

-----------------------------------------------------------------------------

Domain ==
    \E p \in Participants :
        \/ Join(p)
        \/ \E r \in Readers, s \in {"local", "other"} : Announce(r, p, s)
        \/ Depart(p)

Construct == Install \/ InstallFails

Handler(r) == Take(r) \/ (\E p \in Participants : Handle(r, p)) \/ Notify(r)

\* Nobody is left to leave or come back, every sample has been handled.
Quiet ==
    /\ ctor = "done"
    /\ \A p \in Participants : p \notin present /\ joins[p] = MaxJoins
    /\ \A r \in Readers : Idle(r) /\ ~notify[r]
    /\ UNCHANGED vars

Next == Domain \/ Construct \/ (\E r \in Readers : Handler(r)) \/ Quiet

Spec == Init /\ [][Next]_vars

\* OpenDDS calls a listener for what has arrived, and a handler that has
\* begun goes on.  Nothing obliges a participant to come, stay or leave.
Fairness == \A r \in Readers : WF_vars(Handler(r))

FairSpec == Spec /\ Fairness

-----------------------------------------------------------------------------
(* Properties.                                                             *)

\* Nothing about p is under way in the readers the monitor listens to.
Handled(p) ==
    \A r \in installed :
        /\ unread[r][p] = <<>> /\ batch[r][p] = <<>>
        /\ call[r] # NoCall => call[r].of # p

\* A participant that has left is forgotten, and if the application was told
\* anything about it, the last thing is that it left: although its samples
\* come through two readers, so that the handler of one inserts the entry
\* again, and calls onAdd again, after that of the other has removed it.
DepartedForgotten ==
    \A p \in Participants :
        (p \notin present /\ Handled(p)) =>
            /\ m_info_map[p] = NoEntry
            /\ "onRemove" \in Callbacks => told[p] # "added"

\* A participant that is there, all of its instances announced, is in the map,
\* and the last thing the application was told about it is that it came: also
\* when it left and came back and one handler lags behind the other.
PresentKnown ==
    \A p \in Participants :
        (/\ p \in announced["data"] /\ p \in announced["location"]
         /\ installed # {} /\ Handled(p)) =>
            /\ m_info_map[p] # NoEntry
            /\ "onAdd" \in Callbacks => told[p] # "removed"

\* What one handler found out about a participant is not lost to an update by
\* the other: its entry has the time stamp and, once there is one, the address.
\* (A participant that came back is another matter: see the README.)
InfoComplete ==
    \A p \in Participants :
        (/\ p \in present /\ joins[p] = 1
         /\ installed = Readers /\ Handled(p)) =>
            m_info_map[p] = [discovered |-> TRUE, location |-> p \in local]

\* When a participant that the application counts as there leaves, the
\* application hears of it, unless the participant is back before that.
LossReported ==
    \A p \in Participants :
        (told[p] = "added" /\ p \notin present) ~>
            (told[p] = "removed" \/ p \in present)
=============================================================================
