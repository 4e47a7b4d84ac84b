---------------------- MODULE ParticipantMonitorProofs ----------------------
(***************************************************************************)
(* Theorems about ParticipantMonitor, for any participants, any depth of   *)
(* the readers' history and any number of joins and announcements.         *)
(***************************************************************************)
EXTENDS ParticipantMonitor, TLAPS

Last(s) == s[Len(s)]

\* What the operators on sequences do to types and to the last element.
LEMMA SeqFacts ==
    ASSUME NEW S
    PROVE  /\ \A s \in Seq(S), x \in S :
                 /\ Append(s, x) \in Seq(S) /\ Append(s, x) # <<>>
                 /\ Last(Append(s, x)) = x
           /\ \A s \in Seq(S) : s # <<>> =>
                 /\ Head(s) \in S /\ Tail(s) \in Seq(S)
                 /\ Tail(s) # <<>> => Last(Tail(s)) = Last(s)
                 /\ Tail(s) = <<>> => Last(s) = Head(s)
<1>1. ASSUME NEW s \in Seq(S), NEW x \in S
      PROVE  /\ Append(s, x) \in Seq(S) /\ Append(s, x) # <<>>
             /\ Last(Append(s, x)) = x
  <2>1. Len(Append(s, x)) = Len(s) + 1 /\ Append(s, x)[Len(s) + 1] = x
    OBVIOUS
  <2> QED
    BY <2>1 DEF Last
<1>2. ASSUME NEW s \in Seq(S), s # <<>>
      PROVE  /\ Head(s) \in S /\ Tail(s) \in Seq(S)
             /\ Tail(s) # <<>> => Last(Tail(s)) = Last(s)
             /\ Tail(s) = <<>> => Last(s) = Head(s)
  <2>1. /\ Len(s) \in Nat \ {0} /\ Len(Tail(s)) = Len(s) - 1 /\ Head(s) = s[1]
        /\ Head(s) \in S /\ Tail(s) \in Seq(S)
    BY <1>2
  <2>0. \A i \in 1..(Len(s) - 1) : Tail(s)[i] = s[i + 1]
    BY <1>2
  <2>2. CASE Tail(s) = <<>>
    <3> DEFINE n == Len(s)
    <3>1. n \in Nat /\ n - 1 = 0
      BY <2>1, <2>2
    <3> HIDE DEF n
    <3>2. n = 1
      BY <3>1
    <3>3. Last(s) = s[n]
      BY DEF n, Last
    <3> QED
      BY <2>1, <2>2, <3>2, <3>3
  <2>3. CASE Tail(s) # <<>>
    <3>1. Len(s) - 1 \in 1..(Len(s) - 1) /\ (Len(s) - 1) + 1 = Len(s)
      BY <2>1, <2>3
    <3> QED
      BY <2>0, <2>1, <2>3, <3>1 DEF Last
  <2> QED
    BY <2>1, <2>2, <2>3
<1> QED
  BY <1>1, <1>2

\* A history with one more sample has it, at the end.
LEMMA KeepFacts ==
    ASSUME NEW s \in Seq(Sample), NEW x \in Sample
    PROVE  /\ Keep(s, x) \in Seq(Sample) /\ Keep(s, x) # <<>>
           /\ Last(Keep(s, x)) = x
<1>1. CASE Len(s) < Depth
  BY <1>1, SeqFacts DEF Keep
<1>2. CASE ~(Len(s) < Depth)
  <2>1. Len(s) # 0
    BY <1>2, MonitorAssumption
  <2>2. s # <<>>
    BY <2>1
  <2>3. Tail(s) \in Seq(Sample)
    BY <2>2, SeqFacts
  <2> QED
    BY ZenonT(60), <1>2, <2>3, SeqFacts DEF Keep
<1> QED
  BY <1>1, <1>2

-----------------------------------------------------------------------------
(* Types.                                                                  *)

\* The part of TypeOK that is about samples on their way.
FlowTypes ==
    /\ unread \in [Readers -> [Participants -> Seq(Sample)]]
    /\ batch \in [Readers -> [Participants -> Seq(Sample)]]

LEMMA TypeStep == TypeOK /\ [Next]_vars => TypeOK'
<1> SUFFICES ASSUME TypeOK, [Next]_vars PROVE TypeOK'
  OBVIOUS
<1> USE DEF domainVars
<1>0. FlowTypes
  BY DEF TypeOK, FlowTypes
<1>1. ASSUME NEW p \in Participants, Join(p) PROVE TypeOK'
  <2>1. Keep(unread["data"][p], "other") \in Seq(Sample)
    BY <1>0, KeepFacts DEF FlowTypes, Readers, Sample
  <2>2. unread' = [unread EXCEPT !["data"] =
                     [unread["data"] EXCEPT ![p] = Keep(unread["data"][p], "other")]]
    BY <1>1 DEF Join
  <2>3. unread' \in [Readers -> [Participants -> Seq(Sample)]]
    BY <1>0, <2>1, <2>2 DEF FlowTypes, Readers
  <2>4. notify' \in [Readers -> BOOLEAN] /\ announced' \in [Readers -> SUBSET Participants]
    BY <1>1 DEF Join, TypeOK, Readers
  <2>5. joins' \in [Participants -> Nat]
    BY <1>1 DEF Join, TypeOK
  <2> QED
    BY <1>1, <2>3, <2>4, <2>5 DEF Join, TypeOK
<1>2. ASSUME NEW p \in Participants, NEW r \in Readers, NEW s \in {"local", "other"},
             Announce(r, p, s)
      PROVE  TypeOK'
  <2>1. Keep(unread[r][p], s) \in Seq(Sample)
    BY <1>0, KeepFacts DEF FlowTypes, Sample
  <2>2. unread' = [unread EXCEPT ![r] =
                     [unread[r] EXCEPT ![p] = Keep(unread[r][p], s)]]
    BY <1>2 DEF Announce
  <2>3. unread' \in [Readers -> [Participants -> Seq(Sample)]]
    BY <1>0, <2>1, <2>2 DEF FlowTypes
  <2>4. notify' \in [Readers -> BOOLEAN] /\ announced' \in [Readers -> SUBSET Participants]
    BY <1>2 DEF Announce, TypeOK
  <2>5. updatesLeft' \in [Participants -> Nat] /\ local' \subseteq Participants
    BY <1>2 DEF Announce, TypeOK
  <2> QED
    BY <1>2, <2>3, <2>4, <2>5 DEF Announce, TypeOK
<1>3. ASSUME NEW p \in Participants, Depart(p) PROVE TypeOK'
  <2>1. \A r \in Readers : Keep(unread[r][p], "gone") \in Seq(Sample)
    BY <1>0, KeepFacts DEF FlowTypes, Sample
  <2>2. \A r \in Readers :
           [unread[r] EXCEPT ![p] = IF p \in announced[r] THEN Keep(unread[r][p], "gone")
                                                          ELSE unread[r][p]]
              \in [Participants -> Seq(Sample)]
    BY <1>0, <2>1 DEF FlowTypes
  <2>3. unread' \in [Readers -> [Participants -> Seq(Sample)]]
    BY <1>3, <2>2 DEF Depart
  <2>4. notify' \in [Readers -> BOOLEAN] /\ announced' \in [Readers -> SUBSET Participants]
    BY <1>3 DEF Depart, TypeOK
  <2> QED
    BY <1>3, <2>3, <2>4 DEF Depart, TypeOK
<1>4. CASE Construct
  BY <1>4 DEF Construct, Install, InstallFails, TypeOK, Readers
<1>5. ASSUME NEW r \in Readers, Take(r) PROVE TypeOK'
  <2>1. /\ unread' \in [Readers -> [Participants -> Seq(Sample)]]
        /\ batch' \in [Readers -> [Participants -> Seq(Sample)]]
    BY <1>0, <1>5 DEF Take, FlowTypes
  <2> QED
    BY <1>5, <2>1 DEF Take, TypeOK
<1>6. ASSUME NEW r \in Readers, NEW p \in Participants, Handle(r, p) PROVE TypeOK'
  <2>1. batch[r][p] \in Seq(Sample) /\ batch[r][p] # <<>>
    BY <1>0, <1>6 DEF Handle, FlowTypes
  <2>2. Tail(batch[r][p]) \in Seq(Sample)
    BY <2>1, SeqFacts
  <2>3. batch' = [batch EXCEPT ![r] = [batch[r] EXCEPT ![p] = Tail(batch[r][p])]]
    BY <1>6 DEF Handle
  <2>4. batch' \in [Readers -> [Participants -> Seq(Sample)]]
    BY <1>0, <2>2, <2>3 DEF FlowTypes
  <2>5. \A s : Updated(r, p, s) \in Info
    BY DEF Updated, InfoOf, Info, Blank, TypeOK
  <2>6. m_info_map' \in [Participants -> Info \cup {NoEntry}]
    BY <1>6, <2>5 DEF Handle, TypeOK
  <2>7. call' \in [Readers -> PendingCall \cup {NoCall}]
    BY <1>6 DEF Handle, TypeOK, PendingCall
  <2> QED
    BY <1>6, <2>4, <2>6, <2>7 DEF Handle, TypeOK
<1>7. ASSUME NEW r \in Readers, Notify(r) PROVE TypeOK'
  BY <1>7 DEF Notify, TypeOK
<1>8. CASE UNCHANGED vars
  BY <1>8 DEF vars, TypeOK
<1> QED
  BY <1>1, <1>2, <1>3, <1>4, <1>5, <1>6, <1>7, <1>8 DEF Next, Domain, Handler, Quiet

\* The readers, the batches, the map of the monitor.
THEOREM TypeCorrect == Spec => []TypeOK
<1>1. Init => TypeOK
  BY MonitorAssumption DEF Init, TypeOK, Readers
<1> QED
  BY <1>1, TypeStep, PTL DEF Spec

-----------------------------------------------------------------------------
(* What is under way about a participant decides what the monitor knows.   *)

\* Reader r has nothing about p that its handler has not handled.
Empty(r, p) == batch[r][p] = <<>> /\ unread[r][p] = <<>>

\* The last thing a reader has about p says whether p is there.
LastTells ==
    \A r \in Readers, p \in Participants :
        /\ unread[r][p] # <<>> => (Last(unread[r][p]) = "gone" <=> p \notin announced[r])
        /\ unread[r][p] = <<>> /\ batch[r][p] # <<>> =>
              (Last(batch[r][p]) = "gone" <=> p \notin announced[r])

Add(p) == [kind |-> "add", of |-> p]
Remove(p) == [kind |-> "remove", of |-> p]

\* A callback that is about to be made is right about p, or there is more to come.
CallTells ==
    \A r \in Readers, p \in Participants :
        /\ call[r] = Add(p) => p \in announced[r] \/ ~Empty(r, p)
        /\ call[r] = Remove(p) => p \notin announced[r] \/ ~Empty(r, p)

\* Only a reader with the monitor's listener has a handler under way.
HandlersInstalled ==
    /\ \A r \in Readers : announced[r] \subseteq present
    /\ \A r \in Readers : notify[r] \/ call[r] # NoCall => r \in installed
    /\ \A r \in Readers, p \in Participants : batch[r][p] # <<>> => r \in installed

\* An entry in the map, and an "added" that the application was told last, stand
\* for a reader in which p is there, or whose handler has more to do.
EntryTells ==
    \A p \in Participants :
        /\ m_info_map[p] # NoEntry =>
              \E r \in installed : p \in announced[r] \/ ~Empty(r, p)
        /\ told[p] = "added" /\ "onRemove" \in Callbacks =>
              \E r \in installed :
                  p \in announced[r] \/ ~Empty(r, p) \/ call[r] = Remove(p)

\* No entry, or a "removed" told last, though p is there in r, which is done with
\* it: then the other reader's handler came last, and p is not there or there is
\* more to come.
NoEntryTells ==
    \A r \in Readers, p \in Participants :
        p \in announced[r] /\ Empty(r, p) =>
            /\ m_info_map[p] = NoEntry =>
                  \E q \in installed \ {r} : p \notin announced[q] \/ ~Empty(q, p)
            /\ told[p] = "removed" /\ "onAdd" \in Callbacks =>
                  \/ call[r] = Add(p)
                  \/ \E q \in installed \ {r} :
                        p \notin announced[q] \/ ~Empty(q, p) \/ call[q] = Add(p)

MonitorInv ==
    LastTells /\ CallTells /\ HandlersInstalled /\ EntryTells /\ NoEntryTells

\* The domain adds a sample to each reader in which something changes about p, and
\* the sample tells what.
LEMMA DomainStep ==
    ASSUME TypeOK, MonitorInv, UNCHANGED <<batch, call, m_info_map, told, installed>>,
           \A r \in Readers : announced'[r] \subseteq present',
           \A r \in Readers : notify'[r] => notify[r] \/ r \in installed,
           \A r \in Readers, p \in Participants :
              \/ /\ unread'[r][p] = unread[r][p]
                 /\ p \in announced'[r] <=> p \in announced[r]
              \/ \E s \in Sample :
                    /\ unread'[r][p] = Keep(unread[r][p], s)
                    /\ s = "gone" <=> p \notin announced'[r]
    PROVE  MonitorInv'
<1>1. \A r \in Readers, p \in Participants :
         \/ /\ unread'[r][p] = unread[r][p] /\ (Empty(r, p)' <=> Empty(r, p))
            /\ p \in announced'[r] <=> p \in announced[r]
         \/ /\ unread'[r][p] # <<>> /\ ~Empty(r, p)'
            /\ Last(unread'[r][p]) = "gone" <=> p \notin announced'[r]
  <2> SUFFICES ASSUME NEW r \in Readers, NEW p \in Participants,
                      NEW s \in Sample, unread'[r][p] = Keep(unread[r][p], s),
                      s = "gone" <=> p \notin announced'[r]
               PROVE  /\ unread'[r][p] # <<>> /\ ~Empty(r, p)'
                      /\ Last(unread'[r][p]) = "gone" <=> p \notin announced'[r]
    BY DEF Empty
  <2>1. unread[r][p] \in Seq(Sample)
    BY DEF TypeOK
  <2> QED
    BY <2>1, KeepFacts DEF Empty
<1>2. LastTells'
  BY <1>1 DEF MonitorInv, LastTells
<1>3. CallTells'
  BY <1>1 DEF MonitorInv, CallTells, Add, Remove
<1>4. HandlersInstalled'
  BY DEF MonitorInv, HandlersInstalled
<1>5. installed \subseteq Readers
  BY DEF TypeOK
<1>6. EntryTells'
  BY <1>1, <1>5 DEF MonitorInv, EntryTells, Remove
<1>7. NoEntryTells'
  <2> SUFFICES ASSUME NEW r \in Readers, NEW p \in Participants,
                      p \in announced'[r], Empty(r, p)'
               PROVE  /\ m_info_map[p] = NoEntry =>
                            \E q \in installed \ {r} : p \notin announced'[q] \/ ~Empty(q, p)'
                      /\ told[p] = "removed" /\ "onAdd" \in Callbacks =>
                            \/ call[r] = Add(p)
                            \/ \E q \in installed \ {r} :
                                  p \notin announced'[q] \/ ~Empty(q, p)' \/ call[q] = Add(p)
    BY DEF NoEntryTells, Add
  <2>1. p \in announced[r] /\ Empty(r, p)
    BY <1>1
  <2>2. \A q \in installed \ {r} :
           p \notin announced[q] \/ ~Empty(q, p) => p \notin announced'[q] \/ ~Empty(q, p)'
    BY <1>1, <1>5
  <2> QED
    BY <2>1, <2>2 DEF MonitorInv, NoEntryTells
<1> QED
  BY <1>2, <1>3, <1>4, <1>6, <1>7 DEF MonitorInv

\* take() moves what is unread into a batch that was empty.
LEMMA TakeStep ==
    ASSUME TypeOK, MonitorInv, NEW r \in Readers, Take(r)
    PROVE  MonitorInv'
<1>1. /\ batch' = [batch EXCEPT ![r] = unread[r]]
      /\ unread' = [unread EXCEPT ![r] = [p \in Participants |-> <<>>]]
      /\ \A p \in Participants : batch[r][p] = <<>>
      /\ r \in installed /\ installed' = installed /\ announced' = announced
      /\ call' = call /\ m_info_map' = m_info_map /\ told' = told /\ present' = present
      /\ notify' = [notify EXCEPT ![r] = FALSE]
  BY DEF Take, Idle, MonitorInv, HandlersInstalled, domainVars
<1>2. \A q \in Readers, p \in Participants : Empty(q, p)' <=> Empty(q, p)
  BY <1>1 DEF TypeOK, Empty
<1>3. LastTells'
  BY <1>1 DEF TypeOK, MonitorInv, LastTells
<1>4. CallTells'
  BY <1>1, <1>2 DEF MonitorInv, CallTells, Add, Remove
<1>5. HandlersInstalled'
  BY <1>1 DEF TypeOK, MonitorInv, HandlersInstalled
<1>6. installed \subseteq Readers
  BY DEF TypeOK
<1>7. EntryTells'
  BY <1>1, <1>2, <1>6 DEF MonitorInv, EntryTells, Remove
<1>8. NoEntryTells'
  BY <1>1, <1>2, <1>6 DEF MonitorInv, NoEntryTells, Add
<1> QED
  BY <1>3, <1>4, <1>5, <1>7, <1>8 DEF MonitorInv

\* A handler enters or erases p as its oldest sample tells, and the last one of
\* a reader tells whether p is there.
LEMMA HandleStep ==
    ASSUME TypeOK, MonitorInv, NEW r \in Readers, NEW p \in Participants, Handle(r, p)
    PROVE  MonitorInv'
<1> DEFINE gone == Head(batch[r][p]) = "gone"
<1>1. /\ batch[r][p] \in Seq(Sample) /\ batch[r][p] # <<>> /\ r \in installed
      /\ batch \in [Readers -> [Participants -> Seq(Sample)]]
      /\ call \in [Readers -> PendingCall \cup {NoCall}] /\ call[r] = NoCall
      /\ m_info_map \in [Participants -> Info \cup {NoEntry}]
      /\ installed \subseteq Readers
  BY DEF Handle, TypeOK, MonitorInv, HandlersInstalled
<1>2. /\ unread' = unread /\ announced' = announced /\ installed' = installed
      /\ told' = told /\ present' = present /\ notify' = notify
  BY DEF Handle, domainVars
<1>3. \A q \in Readers, o \in Participants :
         batch'[q][o] = IF q = r /\ o = p THEN Tail(batch[r][p]) ELSE batch[q][o]
  BY <1>1 DEF Handle
<1>4. /\ Tail(batch[r][p]) # <<>> => Last(Tail(batch[r][p])) = Last(batch[r][p])
      /\ Tail(batch[r][p]) = <<>> => Last(batch[r][p]) = Head(batch[r][p])
  BY <1>1, SeqFacts
<1>5. /\ ~Empty(r, p)
      /\ Empty(r, p)' => (gone <=> p \notin announced[r])
      /\ \A q \in Readers, o \in Participants : q # r \/ o # p => (Empty(q, o)' <=> Empty(q, o))
  BY <1>1, <1>2, <1>3, <1>4 DEF Empty, MonitorInv, LastTells
<1>6. call' = [call EXCEPT ![r] = IF gone THEN Remove(p) ELSE Add(p)]
  BY DEF Handle, Add, Remove
<1>7. /\ gone => m_info_map'[p] = NoEntry
      /\ ~gone => m_info_map'[p] # NoEntry
      /\ \A o \in Participants : o # p => m_info_map'[o] = m_info_map[o]
  <2>1. Updated(r, p, Head(batch[r][p])) \in Info
    BY DEF Updated, InfoOf, Info, Blank, TypeOK
  <2>2. Updated(r, p, Head(batch[r][p])) # NoEntry
    BY <2>1, MonitorAssumption DEF Info
  <2>3. m_info_map' = [m_info_map EXCEPT ![p] =
           IF gone THEN NoEntry ELSE Updated(r, p, Head(batch[r][p]))]
    BY DEF Handle
  <2> QED
    BY <1>1, <2>2, <2>3
<1> HIDE DEF gone
<1>8. LastTells'
  <2> SUFFICES ASSUME NEW q \in Readers, NEW o \in Participants
               PROVE  /\ unread[q][o] # <<>> =>
                            (Last(unread[q][o]) = "gone" <=> o \notin announced[q])
                      /\ unread[q][o] = <<>> /\ batch'[q][o] # <<>> =>
                            (Last(batch'[q][o]) = "gone" <=> o \notin announced[q])
    BY <1>2 DEF LastTells
  <2>1. /\ unread[q][o] # <<>> => (Last(unread[q][o]) = "gone" <=> o \notin announced[q])
        /\ unread[q][o] = <<>> /\ batch[q][o] # <<>> =>
              (Last(batch[q][o]) = "gone" <=> o \notin announced[q])
    BY DEF MonitorInv, LastTells
  <2>2. CASE q = r /\ o = p
    BY <1>1, <1>3, <1>4, <2>1, <2>2
  <2>3. CASE ~(q = r /\ o = p)
    <3>1. batch'[q][o] = batch[q][o]
      BY <1>3, <2>3
    <3> QED
      BY <2>1, <3>1
  <2> QED
    BY <2>2, <2>3
<1>9. /\ \A q \in Readers : q # r => call'[q] = call[q]
      /\ \A o \in Participants : call'[r] = Add(o) <=> o = p /\ ~gone
      /\ \A o \in Participants : call'[r] = Remove(o) <=> o = p /\ gone
      /\ \A o \in Participants : call[r] # Add(o) /\ call[r] # Remove(o)
  BY <1>1, <1>6, MonitorAssumption DEF Add, Remove
<1>10. CallTells'
  <2> SUFFICES ASSUME NEW q \in Readers, NEW o \in Participants
               PROVE  /\ call'[q] = Add(o) => o \in announced[q] \/ ~Empty(q, o)'
                      /\ call'[q] = Remove(o) => o \notin announced[q] \/ ~Empty(q, o)'
    BY <1>2 DEF CallTells, Add, Remove
  <2>1. CASE q = r
    BY <1>5, <1>9, <2>1
  <2>2. CASE q # r
    BY <1>5, <1>9, <2>2 DEF MonitorInv, CallTells
  <2> QED
    BY <2>1, <2>2
<1>11. HandlersInstalled'
  BY <1>1, <1>2, <1>3, <1>9 DEF MonitorInv, HandlersInstalled
<1>12. EntryTells'
  <2> SUFFICES ASSUME NEW o \in Participants
               PROVE  /\ m_info_map'[o] # NoEntry =>
                            \E q \in installed : o \in announced[q] \/ ~Empty(q, o)'
                      /\ told[o] = "added" /\ "onRemove" \in Callbacks =>
                            \E q \in installed :
                                o \in announced[q] \/ ~Empty(q, o)' \/ call'[q] = Remove(o)
    BY <1>2 DEF EntryTells, Remove
  <2>1. CASE o # p
    BY <1>1, <1>5, <1>7, <1>9, <2>1 DEF MonitorInv, EntryTells
  <2>2. CASE o = p /\ gone
    <3>1. call'[r] = Remove(o) /\ m_info_map'[o] = NoEntry
      BY <1>7, <1>9, <2>2
    <3> QED
      BY <1>1, <3>1
  <2>3. CASE o = p /\ ~gone
    <3>1. o \in announced[r] \/ ~Empty(r, o)'
      BY <1>5, <2>3
    <3> QED
      BY <1>1, <3>1
  <2> QED
    BY <2>1, <2>2, <2>3
<1>13. NoEntryTells'
  <2> SUFFICES ASSUME NEW q \in Readers, NEW o \in Participants,
                      o \in announced[q], Empty(q, o)'
               PROVE  /\ m_info_map'[o] = NoEntry =>
                            \E x \in installed \ {q} : o \notin announced[x] \/ ~Empty(x, o)'
                      /\ told[o] = "removed" /\ "onAdd" \in Callbacks =>
                            \/ call'[q] = Add(o)
                            \/ \E x \in installed \ {q} :
                                  o \notin announced[x] \/ ~Empty(x, o)' \/ call'[x] = Add(o)
    BY <1>2 DEF NoEntryTells, Add
  <2>1. CASE o # p
    <3>1. Empty(q, o) /\ m_info_map'[o] = m_info_map[o]
      BY <1>5, <1>7, <2>1
    <3>2. \A x \in Readers : /\ ~Empty(x, o)' <=> ~Empty(x, o)
                             /\ call[x] = Add(o) => call'[x] = Add(o)
      BY <1>5, <1>9, <2>1
    <3> QED
      BY <1>1, <3>1, <3>2 DEF MonitorInv, NoEntryTells
  <2>2. CASE o = p /\ q = r
    <3>1. ~gone
      BY <1>5, <2>2
    <3> QED
      BY <1>7, <1>9, <2>2, <3>1
  <2>3. CASE o = p /\ q # r /\ gone
    <3>1. o \notin announced[r] \/ ~Empty(r, o)'
      BY <1>5, <2>3
    <3> QED
      BY <1>1, <2>3, <3>1
  <2>4. CASE o = p /\ q # r /\ ~gone
    <3>1. call'[r] = Add(o) /\ m_info_map'[o] # NoEntry
      BY <1>7, <1>9, <2>4
    <3> QED
      BY <1>1, <2>4, <3>1
  <2> QED
    BY <2>1, <2>2, <2>3, <2>4
<1> QED
  BY <1>8, <1>10, <1>11, <1>12, <1>13 DEF MonitorInv

\* What the application is told agrees with the reader it comes from, or there is
\* more to come.
LEMMA NotifyStep ==
    ASSUME TypeOK, MonitorInv, NEW r \in Readers, Notify(r)
    PROVE  MonitorInv'
<1>1. /\ call \in [Readers -> PendingCall \cup {NoCall}] /\ call[r] # NoCall
      /\ told \in [Participants -> {"nothing", "added", "removed"}]
      /\ r \in installed /\ installed \subseteq Readers
  BY DEF Notify, TypeOK, MonitorInv, HandlersInstalled
<1>2. PICK p \in Participants : call[r] = Add(p) \/ call[r] = Remove(p)
  BY <1>1 DEF PendingCall, Add, Remove
<1>3. /\ UNCHANGED <<batch, unread, announced, installed, present, notify, m_info_map>>
      /\ call' = [call EXCEPT ![r] = NoCall]
  BY DEF Notify, domainVars
<1>4. /\ \A q \in Readers : q # r => call'[q] = call[q]
      /\ \A o \in Participants : call'[r] # Add(o) /\ call'[r] # Remove(o)
  BY <1>1, <1>3, MonitorAssumption DEF Add, Remove
<1>5. /\ \A o \in Participants : o # p => told'[o] = told[o]
      /\ call[r] = Add(p) =>
            told'[p] = IF "onAdd" \in Callbacks THEN "added" ELSE told[p]
      /\ call[r] = Remove(p) =>
            told'[p] = IF "onRemove" \in Callbacks THEN "removed" ELSE told[p]
  BY <1>1, <1>2 DEF Notify, Add, Remove
<1>6. \A q \in Readers, o \in Participants : Empty(q, o)' <=> Empty(q, o)
  BY <1>3 DEF Empty
<1>7. LastTells' /\ HandlersInstalled'
  BY <1>1, <1>3, <1>4 DEF MonitorInv, LastTells, HandlersInstalled
<1>8. CallTells'
  <2> SUFFICES ASSUME NEW q \in Readers, NEW o \in Participants
               PROVE  /\ call'[q] = Add(o) => o \in announced[q] \/ ~Empty(q, o)
                      /\ call'[q] = Remove(o) => o \notin announced[q] \/ ~Empty(q, o)
    BY <1>3, <1>6 DEF CallTells, Add, Remove
  <2> QED
    BY <1>4 DEF MonitorInv, CallTells
<1>9. \A o \in Participants :
         /\ call[r] = Add(o) \/ call[r] = Remove(o) => o = p
         /\ ~(call[r] = Add(o) /\ call[r] = Remove(o))
  BY <1>2 DEF Add, Remove
<1>10. EntryTells'
  <2> SUFFICES ASSUME NEW o \in Participants, told'[o] = "added", "onRemove" \in Callbacks
               PROVE  \E q \in installed :
                          o \in announced[q] \/ ~Empty(q, o) \/ call'[q] = Remove(o)
    BY <1>3, <1>6, <1>1 DEF MonitorInv, EntryTells, Remove
  <2>1. CASE o # p
    BY <1>1, <1>4, <1>5, <1>9, <2>1 DEF MonitorInv, EntryTells
  <2>2. CASE o = p /\ call[r] = Add(p)
    BY <1>1, <2>2 DEF MonitorInv, CallTells
  <2>3. CASE o = p /\ call[r] = Remove(p)
    BY <1>5, <2>3
  <2> QED
    BY <1>2, <2>1, <2>2, <2>3
<1>11. NoEntryTells'
  <2>0. \A q \in Readers, o \in Participants :
           o \in announced[q] /\ Empty(q, o) /\ m_info_map[o] = NoEntry =>
               \E x \in installed \ {q} : o \notin announced[x] \/ ~Empty(x, o)
    BY DEF MonitorInv, NoEntryTells
  <2> SUFFICES ASSUME NEW q \in Readers, NEW o \in Participants,
                      o \in announced[q], Empty(q, o),
                      told'[o] = "removed", "onAdd" \in Callbacks
               PROVE  \/ call'[q] = Add(o)
                      \/ \E x \in installed \ {q} :
                            o \notin announced[x] \/ ~Empty(x, o) \/ call'[x] = Add(o)
    BY <1>1, <1>3, <1>6, <2>0 DEF NoEntryTells, Add
  <2>1. CASE o # p
    <3>1. told[o] = "removed" /\ \A x \in Readers : call[x] = Add(o) => call'[x] = Add(o)
      BY <1>4, <1>5, <1>9, <2>1
    <3> QED
      BY <1>1, <3>1 DEF MonitorInv, NoEntryTells
  <2>2. CASE o = p /\ call[r] = Add(p)
    BY <1>5, <2>2
  <2>3. CASE o = p /\ call[r] = Remove(p)
    <3>1. o \notin announced[r] \/ ~Empty(r, o)
      BY <2>3 DEF MonitorInv, CallTells
    <3> QED
      BY <1>1, <3>1
  <2> QED
    BY <1>2, <2>1, <2>2, <2>3
<1> QED
  BY <1>7, <1>8, <1>10, <1>11 DEF MonitorInv

LEMMA MonitorStep == TypeOK /\ MonitorInv /\ [Next]_vars => MonitorInv'
<1> SUFFICES ASSUME TypeOK, MonitorInv, [Next]_vars PROVE MonitorInv'
  OBVIOUS
<1> USE DEF domainVars
<1>0. /\ unread \in [Readers -> [Participants -> Seq(Sample)]]
      /\ announced \in [Readers -> SUBSET Participants]
      /\ notify \in [Readers -> BOOLEAN]
      /\ \A r \in Readers : announced[r] \subseteq present
  BY DEF TypeOK, MonitorInv, HandlersInstalled
<1>1. ASSUME NEW p \in Participants, Join(p) PROVE MonitorInv'
  <2>1. \A r \in Readers, o \in Participants :
           IF r = "data" /\ o = p
           THEN unread'[r][o] = Keep(unread[r][o], "other") /\ o \in announced'[r]
           ELSE /\ unread'[r][o] = unread[r][o]
                /\ o \in announced'[r] <=> o \in announced[r]
    BY <1>0, <1>1 DEF Join, Readers
  <2>2. \A r \in Readers : announced'[r] \subseteq present'
    BY <1>0, <1>1 DEF Join, Readers
  <2>3. \A r \in Readers : notify'[r] => notify[r] \/ r \in installed
    BY <1>0, <1>1 DEF Join, Readers
  <2>4. "other" \in Sample /\ "other" # "gone"
    BY DEF Sample
  <2>5. \A r \in Readers, o \in Participants :
           \/ /\ unread'[r][o] = unread[r][o]
              /\ o \in announced'[r] <=> o \in announced[r]
           \/ \E s \in Sample :
                 /\ unread'[r][o] = Keep(unread[r][o], s)
                 /\ s = "gone" <=> o \notin announced'[r]
    BY <2>1, <2>4
  <2>6. UNCHANGED <<batch, call, m_info_map, told, installed>>
    BY <1>1 DEF Join
  <2> QED
    BY <2>2, <2>3, <2>5, <2>6, DomainStep
<1>2. ASSUME NEW p \in Participants, NEW q \in Readers, NEW sample \in {"local", "other"},
             Announce(q, p, sample)
      PROVE  MonitorInv'
  <2>1. \A r \in Readers, o \in Participants :
           IF r = q /\ o = p
           THEN unread'[r][o] = Keep(unread[r][o], sample) /\ o \in announced'[r]
           ELSE /\ unread'[r][o] = unread[r][o]
                /\ o \in announced'[r] <=> o \in announced[r]
    BY <1>0, <1>2 DEF Announce
  <2>2. \A r \in Readers : announced'[r] \subseteq present'
    BY <1>0, <1>2 DEF Announce
  <2>3. \A r \in Readers : notify'[r] => notify[r] \/ r \in installed
    BY <1>0, <1>2 DEF Announce
  <2>4. sample \in Sample /\ sample # "gone"
    BY DEF Sample
  <2>5. \A r \in Readers, o \in Participants :
           \/ /\ unread'[r][o] = unread[r][o]
              /\ o \in announced'[r] <=> o \in announced[r]
           \/ \E s \in Sample :
                 /\ unread'[r][o] = Keep(unread[r][o], s)
                 /\ s = "gone" <=> o \notin announced'[r]
    BY <2>1, <2>4
  <2>6. UNCHANGED <<batch, call, m_info_map, told, installed>>
    BY <1>2 DEF Announce
  <2> QED
    BY <2>2, <2>3, <2>5, <2>6, DomainStep
<1>3. ASSUME NEW p \in Participants, Depart(p) PROVE MonitorInv'
  <2>1. \A r \in Readers, o \in Participants :
           IF o = p /\ p \in announced[r]
           THEN unread'[r][o] = Keep(unread[r][o], "gone") /\ o \notin announced'[r]
           ELSE /\ unread'[r][o] = unread[r][o]
                /\ o \in announced'[r] <=> o \in announced[r]
    BY <1>0, <1>3 DEF Depart
  <2>2. \A r \in Readers : announced'[r] \subseteq present'
    BY <1>0, <1>3 DEF Depart
  <2>3. \A r \in Readers : notify'[r] => notify[r] \/ r \in installed
    BY <1>0, <1>3 DEF Depart
  <2>4. "gone" \in Sample
    BY DEF Sample
  <2>5. \A r \in Readers, o \in Participants :
           \/ /\ unread'[r][o] = unread[r][o]
              /\ o \in announced'[r] <=> o \in announced[r]
           \/ \E s \in Sample :
                 /\ unread'[r][o] = Keep(unread[r][o], s)
                 /\ s = "gone" <=> o \notin announced'[r]
    BY <2>1, <2>4
  <2>6. UNCHANGED <<batch, call, m_info_map, told, installed>>
    BY <1>3 DEF Depart
  <2> QED
    BY <2>2, <2>3, <2>5, <2>6, DomainStep
<1>4. ASSUME UNCHANGED <<unread, announced, present, batch, call, m_info_map, told, notify>>,
             installed \subseteq installed'
      PROVE  MonitorInv'
  BY <1>4 DEF MonitorInv, LastTells, CallTells, HandlersInstalled, EntryTells,
     NoEntryTells, Empty, Add, Remove
<1>5. CASE Construct
  BY <1>4, <1>5 DEF Construct, Install, InstallFails
<1>6. CASE UNCHANGED vars
  BY <1>4, <1>6 DEF vars
<1> QED
  BY <1>1, <1>2, <1>3, <1>5, <1>6, TakeStep, HandleStep, NotifyStep
  DEF Next, Domain, Handler, Quiet

LEMMA MonitorInvariant == Spec => [](TypeOK /\ MonitorInv)
<1>1. Init => MonitorInv
  BY MonitorAssumption DEF Init, MonitorInv, LastTells, CallTells, HandlersInstalled,
     EntryTells, NoEntryTells, Empty, Add, Remove
<1> QED
  BY <1>1, TypeCorrect, MonitorStep, PTL DEF Spec

\* When nothing about a participant that left is under way any more, the map does
\* not have it and the application knows: two handlers cannot leave it there.
THEOREM DepartedAreForgotten == Spec => []DepartedForgotten
<1>1. ASSUME TypeOK, MonitorInv PROVE DepartedForgotten
  <2> SUFFICES ASSUME NEW p \in Participants, p \notin present, Handled(p)
               PROVE  /\ m_info_map[p] = NoEntry
                      /\ "onRemove" \in Callbacks => told[p] # "added"
    BY DEF DepartedForgotten
  <2>1. ASSUME NEW r \in installed
        PROVE  p \notin announced[r] /\ Empty(r, p) /\ call[r] # Remove(p)
    <3>1. r \in Readers
      BY <1>1 DEF TypeOK
    <3>2. p \notin announced[r]
      BY <1>1, <3>1 DEF MonitorInv, HandlersInstalled
    <3>3. Remove(p) # NoCall /\ Remove(p).of = p
      BY MonitorAssumption DEF Remove
    <3> QED
      BY <3>2, <3>3 DEF Handled, Empty
  <2> QED
    BY <1>1, <2>1 DEF MonitorInv, EntryTells
<1> QED
  BY <1>1, MonitorInvariant, PTL

\* And one that is there is in the map, and not reported gone.
THEOREM PresentAreKnown == Spec => []PresentKnown
<1>1. ASSUME TypeOK, MonitorInv PROVE PresentKnown
  <2> SUFFICES ASSUME NEW p \in Participants, p \in announced["data"],
                      p \in announced["location"], installed # {}, Handled(p)
               PROVE  /\ m_info_map[p] # NoEntry
                      /\ "onAdd" \in Callbacks => told[p] # "removed"
    BY DEF PresentKnown
  <2>1. \A r \in installed :
           r \in Readers /\ p \in announced[r] /\ Empty(r, p) /\ call[r] # Add(p)
    BY <1>1, MonitorAssumption DEF TypeOK, Readers, Handled, Empty, Add
  <2>2. PICK r \in installed : TRUE
    OBVIOUS
  <2> QED
    BY <1>1, <2>1, <2>2 DEF MonitorInv, NoEntryTells
<1> QED
  BY <1>1, MonitorInvariant, PTL

-----------------------------------------------------------------------------
(* What the monitor knows about a participant that has never left.         *)

\* What its samples can be: its location has a local address once it had one.
Known(p) == IF p \in local THEN {"local", "other"} ELSE {"other"}

\* A participant that was never seen has left no trace.
FreshInv(p) ==
    joins[p] = 0 =>
        /\ p \notin present /\ p \notin local /\ m_info_map[p] = NoEntry
        /\ \A r \in Readers : Empty(r, p)

\* One that came once and is still there: what a reader holds about it, and what
\* the entry has, add up to what is known, although either handler may be ahead.
FirstInv(p) ==
    p \in present /\ joins[p] = 1 =>
        /\ \A r \in Readers : /\ unread[r][p] \in Seq(Known(p))
                              /\ batch[r][p] \in Seq(Known(p))
        /\ Empty("data", p) => InfoOf(p).discovered
        /\ p \in local =>
              /\ unread["location"][p] # <<>> => Last(unread["location"][p]) = "local"
              /\ unread["location"][p] = <<>> /\ batch["location"][p] # <<>> =>
                    Last(batch["location"][p]) = "local"
              /\ Empty("location", p) => InfoOf(p).location
        /\ p \notin local => ~InfoOf(p).location

InfoInv == \A p \in Participants : FreshInv(p) /\ FirstInv(p)

\* A history keeps to the samples it may have.
LEMMA KeepIn ==
    ASSUME NEW S, NEW s \in Seq(S), NEW x \in S
    PROVE  Keep(s, x) \in Seq(S)
<1>1. CASE Len(s) < Depth
  BY <1>1, SeqFacts DEF Keep
<1>2. CASE ~(Len(s) < Depth)
  <2>1. s # <<>>
    BY <1>2, MonitorAssumption
  <2>2. Tail(s) \in Seq(S)
    BY <2>1, SeqFacts
  <2> QED
    BY <1>2, <2>2, SeqFacts DEF Keep
<1> QED
  BY <1>1, <1>2

\* The samples of a location without a local address may be those of one that
\* has one.
LEMMA KnownGrows == Seq({"other"}) \subseteq Seq({"local", "other"})
<1>1. ASSUME NEW s \in Seq({"other"}) PROVE s \in Seq({"local", "other"})
  <2>1. Len(s) \in Nat /\ s \in [1..Len(s) -> {"other"}]
    OBVIOUS
  <2>2. s \in [1..Len(s) -> {"local", "other"}]
    BY <2>1
  <2> QED
    BY <2>1, <2>2
<1> QED
  BY <1>1

\* A step that leaves everything about p alone.
LEMMA InfoFrame ==
    ASSUME NEW p \in Participants, FreshInv(p), FirstInv(p),
           joins'[p] = joins[p], p \in present' <=> p \in present,
           p \in local' <=> p \in local, m_info_map'[p] = m_info_map[p],
           \A r \in Readers : /\ unread'[r][p] = unread[r][p]
                              /\ batch'[r][p] = batch[r][p]
    PROVE  FreshInv(p)' /\ FirstInv(p)'
<1>1. /\ InfoOf(p)' = InfoOf(p) /\ Known(p)' = Known(p)
      /\ \A r \in Readers : Empty(r, p)' <=> Empty(r, p)
      /\ "data" \in Readers /\ "location" \in Readers
  BY DEF InfoOf, Known, Empty, Readers
<1>2. FreshInv(p)'
  BY <1>1 DEF FreshInv
<1>3. FirstInv(p)'
  BY <1>1 DEF FirstInv
<1> QED
  BY <1>2, <1>3

LEMMA InfoStep == TypeOK /\ InfoInv /\ [Next]_vars => InfoInv'
<1> SUFFICES ASSUME TypeOK, InfoInv, [Next]_vars, NEW p \in Participants
             PROVE  FreshInv(p)' /\ FirstInv(p)'
  BY DEF InfoInv
<1> USE DEF domainVars
<1>0. /\ unread \in [Readers -> [Participants -> Seq(Sample)]]
      /\ batch \in [Readers -> [Participants -> Seq(Sample)]]
      /\ m_info_map \in [Participants -> Info \cup {NoEntry}]
      /\ joins \in [Participants -> Nat]
      /\ "data" \in Readers /\ "location" \in Readers /\ "data" # "location"
      /\ \A r \in Readers : r = "data" \/ r = "location"
  BY DEF TypeOK, Readers
<1>00. FreshInv(p) /\ FirstInv(p)
  BY DEF InfoInv
<1>1. ASSUME NEW o \in Participants, Join(o) PROVE FreshInv(p)' /\ FirstInv(p)'
  <2>0. /\ unread' = [unread EXCEPT !["data"] =
                        [unread["data"] EXCEPT ![o] = Keep(unread["data"][o], "other")]]
        /\ joins' = [joins EXCEPT ![o] = @ + 1] /\ present' = present \cup {o}
        /\ UNCHANGED <<local, batch, m_info_map>> /\ o \notin present
    BY <1>1 DEF Join
  <2>1. CASE o # p
    BY <1>0, <1>00, <2>0, <2>1, InfoFrame
  <2>2. CASE o = p /\ joins[p] # 0
    BY <1>0, <2>0, <2>2 DEF FreshInv, FirstInv
  <2>3. CASE o = p /\ joins[p] = 0
    <3>1. p \notin local /\ m_info_map[p] = NoEntry /\ \A r \in Readers : Empty(r, p)
      BY <1>00, <2>3 DEF FreshInv
    <3>2. Known(p)' = {"other"} /\ <<>> \in Seq({"other"})
      BY <2>0, <3>1 DEF Known
    <3>3. unread'["data"][p] = Keep(<<>>, "other") /\ unread'["location"][p] = <<>>
          /\ \A r \in Readers : batch'[r][p] = <<>>
      BY <1>0, <2>0, <2>3, <3>1 DEF Empty
    <3>4. Keep(<<>>, "other") \in Seq({"other"})
      BY <3>2, KeepIn
    <3>5. ~Empty("data", p)'
      <4>1. <<>> \in Seq(Sample) /\ "other" \in Sample
        BY DEF Sample
      <4> QED
        BY <3>3, <4>1, KeepFacts DEF Empty
    <3>6. ~InfoOf(p)'.location
      BY <2>0, <3>1 DEF InfoOf, Blank
    <3> QED
      BY <1>0, <2>0, <2>3, <3>1, <3>2, <3>3, <3>4, <3>5, <3>6 DEF FreshInv, FirstInv
  <2> QED
    BY <2>1, <2>2, <2>3
<1>2. ASSUME NEW o \in Participants, NEW q \in Readers, NEW sample \in {"local", "other"},
             Announce(q, o, sample)
      PROVE  FreshInv(p)' /\ FirstInv(p)'
  <2>0. /\ unread' = [unread EXCEPT ![q] =
                        [unread[q] EXCEPT ![o] = Keep(unread[q][o], sample)]]
        /\ local' = IF sample = "local" THEN local \cup {o} ELSE local
        /\ UNCHANGED <<joins, present, batch, m_info_map>> /\ o \in present
        /\ q = "data" => sample = "other"
        /\ q = "location" /\ o \in local => sample = "local"
    BY <1>2 DEF Announce
  <2>1. CASE o # p
    BY <1>0, <1>00, <2>0, <2>1, InfoFrame
  <2>2. CASE o = p /\ joins[p] # 1
    BY <1>00, <2>0, <2>2 DEF FreshInv, FirstInv
  <2>3. CASE o = p /\ joins[p] = 1
    <3>1. /\ \A r \in Readers : unread[r][p] \in Seq(Known(p)) /\ batch[r][p] \in Seq(Known(p))
          /\ Empty("data", p) => InfoOf(p).discovered
          /\ p \in local =>
                /\ unread["location"][p] # <<>> => Last(unread["location"][p]) = "local"
                /\ unread["location"][p] = <<>> /\ batch["location"][p] # <<>> =>
                      Last(batch["location"][p]) = "local"
                /\ Empty("location", p) => InfoOf(p).location
          /\ p \notin local => ~InfoOf(p).location
      BY <1>00, <2>0, <2>3 DEF FirstInv
    <3>2. sample \in Known(p)' /\ Seq(Known(p)) \subseteq Seq(Known(p)')
      BY <2>0, <2>3, KnownGrows DEF Known
    <3>3. /\ unread'[q][p] = Keep(unread[q][p], sample)
          /\ \A r \in Readers \ {q} : unread'[r][p] = unread[r][p]
          /\ InfoOf(p)' = InfoOf(p)
      BY <1>0, <2>0, <2>3 DEF InfoOf
    <3>4. \A r \in Readers : unread'[r][p] \in Seq(Known(p)') /\ batch'[r][p] \in Seq(Known(p)')
      BY <2>0, <3>1, <3>2, <3>3, KeepIn
    <3>5. unread'[q][p] # <<>> /\ Last(unread'[q][p]) = sample
      BY <1>0, <3>3, KeepFacts DEF Sample
    <3>6. CASE q = "data"
      <4>1. local' = local /\ unread'["location"][p] = unread["location"][p]
            /\ ~Empty("data", p)' /\ (Empty("location", p)' <=> Empty("location", p))
        BY <1>0, <2>0, <3>3, <3>5, <3>6 DEF Empty
      <4> QED
        BY <1>0, <2>0, <2>3, <3>1, <3>3, <3>4, <4>1 DEF FreshInv, FirstInv
    <3>7. CASE q = "location"
      <4>1. ~Empty("location", p)' /\ (Empty("data", p)' <=> Empty("data", p))
        BY <1>0, <2>0, <3>3, <3>5, <3>7 DEF Empty
      <4>2. p \in local' => sample = "local"
        BY <2>0, <2>3, <3>7
      <4>3. p \notin local' => p \notin local
        BY <2>0
      <4> QED
        BY <1>0, <2>0, <2>3, <3>1, <3>3, <3>4, <3>5, <3>7, <4>1, <4>2, <4>3
        DEF FreshInv, FirstInv
    <3> QED
      BY <1>0, <3>6, <3>7
  <2> QED
    BY <2>1, <2>2, <2>3
<1>3. ASSUME NEW o \in Participants, Depart(o) PROVE FreshInv(p)' /\ FirstInv(p)'
  <2>0. /\ present' = present \ {o} /\ local' = local \ {o} /\ o \in present
        /\ UNCHANGED <<joins, batch, m_info_map>>
        /\ \A r \in Readers, x \in Participants \ {o} : unread'[r][x] = unread[r][x]
    BY <1>0, <1>3 DEF Depart
  <2>1. CASE o # p
    BY <1>00, <2>0, <2>1, InfoFrame
  <2>2. CASE o = p
    BY <1>00, <2>0, <2>2 DEF FreshInv, FirstInv
  <2> QED
    BY <2>1, <2>2
<1>4. ASSUME NEW r \in Readers, Take(r) PROVE FreshInv(p)' /\ FirstInv(p)'
  <2>0. /\ batch[r][p] = <<>> /\ batch'[r][p] = unread[r][p] /\ unread'[r][p] = <<>>
        /\ \A x \in Readers \ {r} : batch'[x][p] = batch[x][p] /\ unread'[x][p] = unread[x][p]
        /\ UNCHANGED <<joins, present, local, m_info_map>>
    BY <1>0, <1>4 DEF Take, Idle
  <2>1. /\ \A x \in Readers : Empty(x, p)' <=> Empty(x, p)
        /\ InfoOf(p)' = InfoOf(p) /\ Known(p)' = Known(p) /\ <<>> \in Seq(Known(p))
    BY <2>0 DEF Empty, InfoOf, Known
  <2>2. FreshInv(p)'
    BY <1>00, <2>0, <2>1 DEF FreshInv
  <2>3. FirstInv(p)'
    BY <1>0, <1>00, <2>0, <2>1 DEF FirstInv, Empty
  <2> QED
    BY <2>2, <2>3
<1>5. ASSUME NEW r \in Readers, NEW o \in Participants, Handle(r, o)
      PROVE  FreshInv(p)' /\ FirstInv(p)'
  <2> DEFINE sample == Head(batch[r][o])
  <2>0. /\ batch[r][o] # <<>>
        /\ batch' = [batch EXCEPT ![r] = [batch[r] EXCEPT ![o] = Tail(batch[r][o])]]
        /\ m_info_map' = [m_info_map EXCEPT ![o] =
              IF sample = "gone" THEN NoEntry ELSE Updated(r, o, sample)]
        /\ UNCHANGED <<joins, present, local, unread>>
    BY <1>5 DEF Handle
  <2> HIDE DEF sample
  <2>1. CASE o # p
    BY <1>0, <1>00, <2>0, <2>1, InfoFrame
  <2>2. CASE o = p /\ ~(p \in present /\ joins[p] = 1)
    BY <1>00, <2>0, <2>2 DEF FreshInv, FirstInv, Empty
  <2>3. CASE o = p /\ p \in present /\ joins[p] = 1
    <3>1. /\ \A x \in Readers : unread[x][p] \in Seq(Known(p)) /\ batch[x][p] \in Seq(Known(p))
          /\ Empty("data", p) => InfoOf(p).discovered
          /\ p \in local =>
                /\ unread["location"][p] # <<>> => Last(unread["location"][p]) = "local"
                /\ unread["location"][p] = <<>> /\ batch["location"][p] # <<>> =>
                      Last(batch["location"][p]) = "local"
                /\ Empty("location", p) => InfoOf(p).location
          /\ p \notin local => ~InfoOf(p).location
      BY <1>00, <2>3 DEF FirstInv
    <3>2. /\ sample \in Known(p) /\ Tail(batch[r][p]) \in Seq(Known(p))
          /\ Tail(batch[r][p]) # <<>> => Last(Tail(batch[r][p])) = Last(batch[r][p])
          /\ Tail(batch[r][p]) = <<>> => Last(batch[r][p]) = sample
      BY <2>0, <2>3, <3>1, SeqFacts DEF sample
    <3>3. sample # "gone" /\ (p \notin local => sample = "other")
      BY <3>2 DEF Known
    <3>4. InfoOf(p) \in Info
      BY <1>0 DEF InfoOf, Info, Blank
    <3>5. Updated(r, p, sample) \in Info
      BY <3>4 DEF Updated, Info
    <3>6. InfoOf(p)' = Updated(r, p, sample)
      BY <1>0, <2>0, <2>3, <3>3, <3>5, MonitorAssumption DEF InfoOf, Info
    <3>7. /\ batch'[r][p] = Tail(batch[r][p])
          /\ \A x \in Readers \ {r} : batch'[x][p] = batch[x][p]
          /\ Known(p)' = Known(p)
      BY <1>0, <2>0, <2>3 DEF Known
    <3>8. \A x \in Readers : unread'[x][p] \in Seq(Known(p)') /\ batch'[x][p] \in Seq(Known(p)')
      BY <2>0, <3>1, <3>2, <3>7
    <3>9. CASE r = "data"
      <4>1. InfoOf(p)'.discovered /\ InfoOf(p)'.location = InfoOf(p).location
        BY <3>4, <3>6, <3>9 DEF Updated, Info
      <4>2. batch'["location"][p] = batch["location"][p]
            /\ (Empty("location", p)' <=> Empty("location", p))
        BY <1>0, <2>0, <3>7, <3>9 DEF Empty
      <4> QED
        BY <2>0, <2>3, <3>1, <3>8, <4>1, <4>2 DEF FreshInv, FirstInv
    <3>10. CASE r = "location"
      <4>1. /\ InfoOf(p)'.discovered = InfoOf(p).discovered
            /\ InfoOf(p)'.location <=> InfoOf(p).location \/ sample = "local"
        BY <3>4, <3>6, <3>10 DEF Updated, Info
      <4>2. Empty("data", p)' <=> Empty("data", p)
        BY <1>0, <2>0, <3>7, <3>10 DEF Empty
      <4>3. p \in local =>
               /\ unread'["location"][p] = <<>> /\ batch'["location"][p] # <<>> =>
                     Last(batch'["location"][p]) = "local"
               /\ Empty("location", p)' => sample = "local"
        BY <2>0, <2>3, <3>1, <3>2, <3>7, <3>10 DEF Empty
      <4> QED
        BY <2>0, <2>3, <3>1, <3>3, <3>8, <4>1, <4>2, <4>3 DEF FreshInv, FirstInv
    <3> QED
      BY <1>0, <3>9, <3>10
  <2> QED
    BY <2>1, <2>2, <2>3
<1>6. ASSUME UNCHANGED <<joins, present, local, unread, batch, m_info_map>>
      PROVE  FreshInv(p)' /\ FirstInv(p)'
  BY <1>00, <1>6, InfoFrame
<1>7. ASSUME NEW r \in Readers, Notify(r) PROVE FreshInv(p)' /\ FirstInv(p)'
  BY <1>6, <1>7 DEF Notify
<1>8. CASE Construct
  BY <1>6, <1>8 DEF Construct, Install, InstallFails
<1>9. CASE UNCHANGED vars
  BY <1>6, <1>9 DEF vars
<1> QED
  BY <1>1, <1>2, <1>3, <1>4, <1>5, <1>7, <1>8, <1>9 DEF Next, Domain, Handler, Quiet

\* A participant that has not been away is known completely once both handlers are
\* done with it, whichever of them came first: neither throws away what the other
\* one entered.
THEOREM InfosAreComplete == Spec => []InfoComplete
<1>1. Init => InfoInv
  <2> SUFFICES ASSUME Init, NEW p \in Participants PROVE FreshInv(p) /\ FirstInv(p)
    BY DEF InfoInv
  <2>1. FreshInv(p)
    BY DEF Init, FreshInv, Empty
  <2>2. FirstInv(p)
    BY DEF Init, FirstInv
  <2> QED
    BY <2>1, <2>2
<1>2. TypeOK /\ InfoInv => InfoComplete
  <2> SUFFICES ASSUME TypeOK, InfoInv, NEW p \in Participants, p \in present,
                      joins[p] = 1, installed = Readers, Handled(p)
               PROVE  m_info_map[p] = [discovered |-> TRUE, location |-> p \in local]
    BY DEF InfoComplete
  <2>1. Empty("data", p) /\ Empty("location", p)
    BY DEF Handled, Empty, Readers
  <2>2. InfoOf(p).discovered /\ (InfoOf(p).location <=> p \in local)
    BY <2>1 DEF InfoInv, FirstInv
  <2>3. m_info_map[p] # NoEntry
    BY <2>2 DEF InfoOf, Blank
  <2>4. m_info_map[p] \in Info /\ InfoOf(p) = m_info_map[p]
    BY <2>3 DEF TypeOK, InfoOf
  <2>5. m_info_map[p] = [discovered |-> m_info_map[p].discovered,
                         location |-> m_info_map[p].location]
    BY <2>4 DEF Info
  <2>6. m_info_map[p].discovered = TRUE
    BY <2>2, <2>4 DEF Info
  <2>7. m_info_map[p].location = (p \in local)
    BY <2>2, <2>4 DEF Info
  <2> QED
    BY <2>5, <2>6, <2>7
<1> QED
  BY <1>1, <1>2, TypeCorrect, InfoStep, PTL DEF Spec

=============================================================================
