------------------------ MODULE AppDevSession_proofs ------------------------
(***************************************************************************)
(* Theorems about AppWatch and AppDevSession for any number of extensions, *)
(* edits and failed requests: what the watcher reports reaches the bundle, *)
(* and what reaches the bundle reaches the dev session.                    *)
(***************************************************************************)
EXTENDS AppDevSession, SequenceTheorems, TLAPS

-----------------------------------------------------------------------------
(* From the disk to the bundle *)

\* A file system event is on its way from the watcher to the pipeline.
Reported(n) ==
    \/ Contains(notices, n) \/ Contains(pending, n)
    \/ \E k \in DOMAIN batches : Contains(batches[k], n)

\* Every n in the sequence is followed by an m.
Followed(s, n, m) == \A i \in DOMAIN s : s[i] = n => \E j \in DOMAIN s : j > i /\ s[j] = m

\* An extension that exists was created after every deletion still reported, and
\* the pipeline learns of that no earlier than of the deletion.
NoticeOrder(e) ==
    toml[e] # 0 =>
        /\ Followed(notices, On("deleted", e), On("created", e))
        /\ Contains(pending, On("deleted", e)) =>
               Contains(pending, On("created", e)) \/ Contains(notices, On("created", e))
        /\ \A k \in DOMAIN batches : Contains(batches[k], On("deleted", e)) =>
               \/ Contains(pending, On("created", e)) \/ Contains(notices, On("created", e))
               \/ \E l \in DOMAIN batches : l >= k /\ Contains(batches[l], On("created", e))

\* The app has the extension's configuration, or a report of its change.
ConfigFollows(e) ==
    \/ e \in unseen \/ app[e] = Parsed(toml[e])
    \/ \E kind \in {"config", "created", "deleted"} : Reported(On(kind, e))

\* The bundle has its source, or a report says so.
SourceFollows(e) ==
    \/ e \in unbuilt \/ app[e] = 0 \/ Input(e) <= 0 \/ built[e] = Input(e)
    \/ Reported(On("source", e))
    \/ e \notin Initial /\ Reported(On("created", e)) /\ app[e] # Parsed(toml[e])

FlowInv ==
    /\ \A e \in Exts : app[e] <= edits /\ toml[e] <= edits
    /\ \A k \in DOMAIN batches : batches[k] # <<>>
    /\ phase \in {"starting", "built"} => notices = <<>> /\ pending = <<>> /\ batches = <<>>
    /\ phase # "dead" => \A e \in Exts : NoticeOrder(e) /\ ConfigFollows(e) /\ SourceFollows(e)

-----------------------------------------------------------------------------
(* From the bundle to the dev session *)

\* The events the dev session process has yet to send; 0 is the one being sent.
Slots == (IF session = "updating" THEN {0} ELSE {}) \cup DOMAIN inbox
EventAt(i) == IF i = 0 THEN current ELSE inbox[i]

\* As far as e is concerned, the app of the event in slot i is the current one.
AppAt(i, e) == EventAt(i).app[e] = 0 <=> app[e] = 0

\* An event yet to be sent says of e what is the case now.
Announced(e) == \E i \in Slots : /\ e \in Changed(EventAt(i))
                                 /\ \A j \in Slots : j >= i => AppAt(j, e)

SessionInv ==
    /\ inbox \in Seq(AppEvent)
    /\ listening <=> session # "creating"
    /\ ~listening => inbox = <<>>
    /\ session \in {"listening", "updating"} => \A e \in Exts :
           \/ Announced(e)
           \/ /\ \A i \in Slots : AppAt(i, e)
              /\ e \in unsent \/ modules[e] = IF app[e] # 0 THEN built[e] ELSE 0

-----------------------------------------------------------------------------
(* Sequences *)

\* Nothing is in the empty sequence.
LEMMA ContainsEmpty == \A n : ~ Contains(<<>>, n)
BY DEF Contains

\* What a longer sequence contains.
LEMMA ContainsAppend ==
    ASSUME NEW S, NEW s \in Seq(S), NEW x \in S, NEW n
    PROVE  Contains(Append(s, x), n) <=> Contains(s, n) \/ n = x
<1>1. /\ Append(s, x) \in Seq(S) /\ Len(Append(s, x)) = Len(s) + 1
      /\ \A i \in 1..Len(s) : Append(s, x)[i] = s[i]
      /\ Append(s, x)[Len(s) + 1] = x /\ Len(s) \in Nat
  BY AppendProperties, LenProperties
<1>2. 1..(Len(s) + 1) = 1..Len(s) \cup {Len(s) + 1}  BY <1>1
<1> QED  BY <1>1, <1>2 DEF Contains

\* What two sequences, one after the other, contain.
LEMMA ContainsConcat ==
    ASSUME NEW S, NEW s \in Seq(S), NEW t \in Seq(S), NEW n
    PROVE  Contains(s \o t, n) <=> Contains(s, n) \/ Contains(t, n)
<1>1. /\ Len(s \o t) = Len(s) + Len(t) /\ Len(s) \in Nat /\ Len(t) \in Nat
      /\ \A i \in 1..Len(s) + Len(t) :
             (s \o t)[i] = IF i <= Len(s) THEN s[i] ELSE t[i - Len(s)]
  BY ConcatProperties, LenProperties
<1>2. ASSUME NEW i \in 1..Len(s), s[i] = n  PROVE Contains(s \o t, n)
  <2>1. i \in 1..(Len(s) + Len(t)) /\ i <= Len(s)  BY <1>1
  <2> QED  BY <1>1, <1>2, <2>1 DEF Contains
<1>3. ASSUME NEW i \in 1..Len(t), t[i] = n  PROVE Contains(s \o t, n)
  <2>1. /\ Len(s) + i \in 1..(Len(s) + Len(t)) /\ ~ (Len(s) + i <= Len(s))
        /\ (Len(s) + i) - Len(s) = i
    BY <1>1
  <2> QED  BY <1>1, <1>3, <2>1 DEF Contains
<1>4. ASSUME NEW i \in 1..Len(s) + Len(t), (s \o t)[i] = n
      PROVE  Contains(s, n) \/ Contains(t, n)
  <2>1. CASE i <= Len(s)
    <3>1. i \in 1..Len(s)  BY <1>1, <2>1
    <3> QED  BY <1>1, <1>4, <2>1, <3>1 DEF Contains
  <2>2. CASE ~ (i <= Len(s))
    <3>1. i - Len(s) \in 1..Len(t)  BY <1>1, <2>2
    <3> QED  BY <1>1, <1>4, <2>2, <3>1 DEF Contains
  <2> QED  BY <2>1, <2>2
<1> QED  BY <1>1, <1>2, <1>3, <1>4 DEF Contains

\* The tail of a sequence, and what it leaves out.
LEMMA TailOf ==
    ASSUME NEW S, NEW s \in Seq(S), s # <<>>
    PROVE  /\ Tail(s) \in Seq(S) /\ Head(s) \in S /\ Head(s) = s[1] /\ 1 \in DOMAIN s
           /\ Len(s) \in Nat /\ Len(Tail(s)) = Len(s) - 1 /\ DOMAIN s = 1..Len(s)
           /\ DOMAIN Tail(s) = 1..(Len(s) - 1)
           /\ \A i \in 1..(Len(s) - 1) : i + 1 \in DOMAIN s /\ Tail(s)[i] = s[i + 1]
           /\ \A i \in DOMAIN s : i # 1 => i - 1 \in DOMAIN Tail(s) /\ Tail(s)[i - 1] = s[i]
<1>1. /\ Tail(s) \in Seq(S) /\ Head(s) \in S /\ Len(Tail(s)) = Len(s) - 1
      /\ \A i \in 1..Len(Tail(s)) : Tail(s)[i] = s[i + 1]
  BY HeadTailProperties
<1>2. Len(s) \in Nat /\ DOMAIN s = 1..Len(s) /\ DOMAIN Tail(s) = 1..Len(Tail(s))
  BY <1>1, LenProperties
<1>3. Len(s) >= 1
  <2>1. Len(s) # 0  BY EmptySeq
  <2> QED  BY <1>2, <2>1
<1>4. Head(s) = s[1]  OBVIOUS
<1>5. \A i \in 1..(Len(s) - 1) : i + 1 \in 1..Len(s)  BY <1>2
<1>6. \A i \in 1..Len(s) : i # 1 => i - 1 \in 1..(Len(s) - 1) /\ (i - 1) + 1 = i  BY <1>2
<1> QED  BY <1>1, <1>2, <1>3, <1>4, <1>5, <1>6

\* A sequence contains its head and what its tail contains.
LEMMA ContainsTail ==
    ASSUME NEW S, NEW s \in Seq(S), s # <<>>, NEW n
    PROVE  Contains(s, n) <=> n = Head(s) \/ Contains(Tail(s), n)
<1>1. /\ Head(s) = s[1] /\ 1 \in 1..Len(s) /\ DOMAIN s = 1..Len(s)
      /\ Len(Tail(s)) = Len(s) - 1 /\ DOMAIN Tail(s) = 1..(Len(s) - 1)
      /\ \A i \in 1..(Len(s) - 1) : i + 1 \in 1..Len(s) /\ Tail(s)[i] = s[i + 1]
      /\ \A i \in 1..Len(s) : i # 1 => i - 1 \in 1..(Len(s) - 1) /\ Tail(s)[i - 1] = s[i]
  BY TailOf
<1>2. ASSUME NEW i \in 1..Len(s), s[i] = n PROVE n = Head(s) \/ Contains(Tail(s), n)
  <2>1. CASE i = 1  BY <1>1, <1>2, <2>1
  <2>2. CASE i # 1  BY <1>1, <1>2, <2>2 DEF Contains
  <2> QED  BY <2>1, <2>2
<1>3. n = Head(s) => Contains(s, n)  BY <1>1 DEF Contains
<1>4. ASSUME NEW i \in 1..(Len(s) - 1), Tail(s)[i] = n PROVE Contains(s, n)
  BY <1>1, <1>4 DEF Contains
<1>5. Contains(s, n) => n = Head(s) \/ Contains(Tail(s), n)  BY <1>1, <1>2 DEF Contains
<1>6. Contains(Tail(s), n) => Contains(s, n)  BY <1>1, <1>4 DEF Contains
<1> QED  BY <1>3, <1>5, <1>6

\* A sequence that only a later part changes.
LEMMA FollowedConcat ==
    ASSUME NEW S, NEW s \in Seq(S), NEW t \in Seq(S), NEW n, NEW m,
           ~ Contains(t, n), Contains(t, m) \/ Followed(s, n, m)
    PROVE  Followed(s \o t, n, m)
<1>1. /\ Len(s \o t) = Len(s) + Len(t) /\ Len(s) \in Nat /\ Len(t) \in Nat
      /\ DOMAIN (s \o t) = 1..Len(s) + Len(t) /\ DOMAIN s = 1..Len(s) /\ DOMAIN t = 1..Len(t)
      /\ \A i \in 1..Len(s) + Len(t) :
             (s \o t)[i] = IF i <= Len(s) THEN s[i] ELSE t[i - Len(s)]
  BY ConcatProperties, LenProperties
<1>2. SUFFICES ASSUME NEW i \in 1..Len(s) + Len(t), (s \o t)[i] = n
               PROVE  \E j \in 1..Len(s) + Len(t) : j > i /\ (s \o t)[j] = m
  BY <1>1 DEF Followed
<1>3. i \in 1..Len(s) /\ s[i] = n
  <2>1. CASE i <= Len(s)  BY <1>1, <1>2, <2>1
  <2>2. CASE ~ (i <= Len(s))
    <3>1. i - Len(s) \in 1..Len(t) /\ t[i - Len(s)] = n  BY <1>1, <1>2, <2>2
    <3> QED  BY <3>1 DEF Contains
  <2> QED  BY <2>1, <2>2
<1>4. CASE Contains(t, m)
  <2>1. PICK k \in 1..Len(t) : t[k] = m  BY <1>4 DEF Contains
  <2>2. /\ Len(s) + k \in 1..Len(s) + Len(t) /\ Len(s) + k > i /\ ~ (Len(s) + k <= Len(s))
        /\ (Len(s) + k) - Len(s) = k
    BY <1>1, <1>3
  <2> QED  BY <1>1, <2>1, <2>2
<1>5. CASE Followed(s, n, m)
  <2>1. PICK j \in 1..Len(s) : j > i /\ s[j] = m  BY <1>1, <1>3, <1>5 DEF Followed
  <2>2. j \in 1..Len(s) + Len(t) /\ j <= Len(s)  BY <1>1
  <2> QED  BY <1>1, <2>1, <2>2
<1> QED  BY <1>4, <1>5

\* What follows the head is in the tail.
LEMMA FollowedTail ==
    ASSUME NEW S, NEW s \in Seq(S), s # <<>>, NEW n, NEW m, Followed(s, n, m)
    PROVE  Followed(Tail(s), n, m) /\ (Head(s) = n => Contains(Tail(s), m))
<1>1. /\ Head(s) = s[1] /\ 1 \in DOMAIN s /\ Len(s) \in Nat /\ DOMAIN s = 1..Len(s)
      /\ Len(Tail(s)) = Len(s) - 1 /\ DOMAIN Tail(s) = 1..(Len(s) - 1)
      /\ \A i \in 1..(Len(s) - 1) : i + 1 \in DOMAIN s /\ Tail(s)[i] = s[i + 1]
      /\ \A i \in DOMAIN s : i # 1 => i - 1 \in DOMAIN Tail(s) /\ Tail(s)[i - 1] = s[i]
  BY TailOf
<1>2. ASSUME NEW i \in DOMAIN Tail(s), Tail(s)[i] = n
      PROVE  \E j \in DOMAIN Tail(s) : j > i /\ Tail(s)[j] = m
  <2>1. PICK j \in DOMAIN s : j > i + 1 /\ s[j] = m  BY <1>1, <1>2 DEF Followed
  <2>2. j # 1 /\ j - 1 > i  BY <1>1, <2>1
  <2> QED  BY <1>1, <2>1, <2>2
<1>3. ASSUME Head(s) = n  PROVE Contains(Tail(s), m)
  <2>1. PICK j \in DOMAIN s : j > 1 /\ s[j] = m  BY <1>1, <1>3 DEF Followed
  <2>2. j # 1  BY <1>1, <2>1
  <2> QED  BY <1>1, <2>1, <2>2 DEF Contains
<1> QED  BY <1>2, <1>3 DEF Followed

-----------------------------------------------------------------------------
(* Types *)

SeqTypes ==
    /\ WatchTypeOK /\ IsInjective(pending)
    /\ batches \in Seq(Seq(WatcherEvent)) /\ inbox \in Seq(AppEvent)
    /\ \A k \in DOMAIN batches : batches[k] # <<>>

\* What of the disk and the watcher the reports are about.
Outside == <<toml, source, dist, appToml, edits, phase, notices, pending>>

Bounded == -(MaxEdits + 1)..(MaxEdits + 1)

\* Contents are numbers of edits.
LEMMA BoundedContents ==
    /\ Contents = [Exts -> Bounded] /\ 0 \in Bounded /\ Bounded \subseteq Int
    /\ \A n \in 1..(MaxEdits + 1) : n \in Bounded /\ -n \in Bounded
    /\ \A n \in Bounded : Parsed(n) \in Bounded
    /\ 1 \in 1..(MaxEdits + 1)
BY AppWatchAssumption DEF Contents, Bounded, Parsed

\* What is built is a number.
LEMMA InputNumber ==
    ASSUME SeqTypes, NEW e \in Exts  PROVE Input(e) \in Bounded /\ Input(e) \in Int
BY BoundedContents DEF SeqTypes, WatchTypeOK, Input

\* It stays while the files do.
LEMMA InputStays ==
    ASSUME UNCHANGED <<source, dist>>  PROVE \A e \in Exts : Input(e)' = Input(e)
BY DEF Input

\* Reports are of the watcher's kinds.
LEMMA ReportType ==
    /\ \A kind \in {"source", "config", "created", "deleted"}, e \in Exts :
           On(kind, e) \in WatcherEvent
    /\ [kind |-> "app"] \in WatcherEvent /\ [kind |-> "appDeleted"] \in WatcherEvent
BY DEF WatcherEvent, On

\* A report of an extension is its kind and the extension.
LEMMA ReportShape ==
    ASSUME NEW n \in WatcherEvent, n.kind \in {"source", "config", "created", "deleted"}
    PROVE  n.ext \in Exts /\ n = On(n.kind, n.ext)
BY DEF WatcherEvent, On

\* What the watcher makes of a change of one extension.
LEMMA KnownType ==
    ASSUME NEW kind \in {"source", "config", "created", "deleted"}, NEW e \in Exts,
           NEW other \in {"created", "deleted"}
    PROVE  /\ Known(kind, e) \in Seq(WatcherEvent)
           /\ <<On(other, e)>> \o Known(kind, e) \in Seq(WatcherEvent)
           /\ Known(kind, e) \o <<On(other, e)>> \in Seq(WatcherEvent)
<1>1. On(kind, e) \in WatcherEvent /\ On(other, e) \in WatcherEvent  BY ReportType
<1>2. <<On(kind, e)>> \in Seq(WatcherEvent) /\ <<On(other, e)>> \in Seq(WatcherEvent)
      /\ <<>> \in Seq(WatcherEvent)
  BY <1>1
<1>3. Known(kind, e) \in Seq(WatcherEvent)  BY <1>2 DEF Known
<1> HIDE DEF Known
<1> QED  BY <1>2, <1>3, ConcatProperties

\* An edit is numbered within the bound, and later than all before.
LEMMA EditNumber ==
    ASSUME SeqTypes, NEW kind, Edit(kind)
    PROVE  /\ edits' \in 1..(MaxEdits + 1) /\ edits \in Nat /\ edits' = edits + 1
           /\ edits' \in Bounded /\ -edits' \in Bounded
<1>1. edits' \in 1..(MaxEdits + 1) /\ edits \in Nat /\ edits' = edits + 1
  BY AppWatchAssumption DEF SeqTypes, WatchTypeOK, Edit
<1> QED  BY <1>1, BoundedContents

\* A report reaches the watcher's channel, if it watches.
LEMMA NotifyTypes ==
    ASSUME SeqTypes, NEW events \in Seq(WatcherEvent), NEW config \in SUBSET Exts,
           NEW sources \in SUBSET Exts, Notify(events, config, sources)
    PROVE  /\ notices' \in Seq(WatcherEvent)
           /\ notices' = IF phase = "watching" THEN notices \o events ELSE notices
           /\ unseen' \subseteq Exts /\ unbuilt' \subseteq Exts
           /\ unseen \subseteq unseen' /\ unbuilt \subseteq unbuilt'
           /\ phase # "watching" => config \subseteq unseen' /\ sources \subseteq unbuilt'
           /\ UNCHANGED <<phase, echoes, pending, batches, app, built, listening, inbox>>
<1>1. notices \in Seq(WatcherEvent) /\ unseen \subseteq Exts /\ unbuilt \subseteq Exts
  BY DEF SeqTypes, WatchTypeOK
<1>2. notices \o events \in Seq(WatcherEvent)  BY <1>1, ConcatProperties
<1> QED  BY <1>1, <1>2 DEF Notify, listenVars

-----------------------------------------------------------------------------
(* The developer's edits *)

\* The reports of an edit name what it changed, or the edit is accounted for.
Told(events) ==
    /\ events \in Seq(WatcherEvent)
    /\ notices' = IF phase = "watching" THEN notices \o events ELSE notices
    /\ \A e \in Exts :
          /\ toml'[e] <= edits'
          /\ ~ (toml'[e] # 0 /\ Contains(events, On("deleted", e)))
          /\ toml[e] = 0 /\ toml'[e] # 0 /\ phase = "watching" =>
                 Contains(events, On("created", e))
          /\ \/ toml'[e] = toml[e] \/ e \in unseen'
             \/ phase = "watching"
                /\ \E kind \in {"config", "created", "deleted"} : Contains(events, On(kind, e))
          /\ \/ Input(e)' = Input(e) \/ Input(e)' <= 0 \/ e \in unbuilt'
             \/ phase = "watching" /\ Contains(events, On("source", e))
             \/ phase = "watching" /\ Contains(events, On("created", e))
                /\ e \notin Initial /\ app[e] # Parsed(toml'[e])
          /\ \/ toml'[e] = toml[e] \/ e \in Initial \/ app[e] = 0
             \/ app[e] # Parsed(toml'[e])

\* What every edit does, and every event of the file system.
EditStep ==
    /\ UNCHANGED <<phase, pending, batches, app, built, listening, inbox>>
    /\ edits' \in 1..(MaxEdits + 1) /\ edits' \in {edits, edits + 1}
    /\ toml' \in Contents /\ source' \in Contents /\ dist' \in Contents /\ appToml' \in -1..1
    /\ unseen' \subseteq Exts /\ unbuilt' \subseteq Exts /\ echoes' \subseteq Initial
    /\ unseen \subseteq unseen' /\ unbuilt \subseteq unbuilt'
    /\ \E events : Told(events)

\* What the developer finds.
LEMMA EditStart ==
    ASSUME SeqTypes
    PROVE  /\ toml \in Contents /\ source \in Contents /\ dist \in Contents
           /\ app \in Contents /\ appToml \in -1..1
           /\ notices \in Seq(WatcherEvent) /\ echoes \subseteq Initial
           /\ unseen \subseteq Exts /\ unbuilt \subseteq Exts
BY DEF SeqTypes, WatchTypeOK

\* An edit of a source is reported for an extension the watcher knows.
LEMMA EditSourceStep ==
    ASSUME SeqTypes, FlowInv, NEW e \in Exts, EditSource(e)  PROVE EditStep
<1>1. /\ edits' \in 1..(MaxEdits + 1) /\ edits \in Nat /\ edits' = edits + 1
      /\ edits' \in Bounded /\ -edits' \in Bounded /\ 0 \in Bounded
  <2>1. \E kind : Edit(kind)  BY DEF EditSource
  <2> QED  BY <2>1, EditNumber, BoundedContents
<1>2. PICK content \in {edits', -edits', 0} :
          \/ source' = [source EXCEPT ![e] = content] /\ dist' = dist
          \/ dist' = [dist EXCEPT ![e] = content] /\ source' = source
  BY DEF EditSource, Wrote
<1>3. /\ toml \in Contents /\ source \in Contents /\ dist \in Contents
      /\ notices \in Seq(WatcherEvent) /\ echoes \subseteq Initial /\ appToml \in -1..1
      /\ unseen \subseteq Exts /\ unbuilt \subseteq Exts
      /\ toml' = toml /\ appToml' = appToml
  BY EditStart DEF EditSource
<1>4. source' \in Contents /\ dist' \in Contents
  BY <1>1, <1>2, <1>3, BoundedContents
<1>5. \A d \in Exts : toml'[d] <= edits'
  <2>1. \A d \in Exts : toml[d] <= edits /\ toml[d] \in Int
    BY <1>3, BoundedContents DEF FlowInv
  <2> QED  BY <1>1, <1>3, <2>1
<1>6. \A d \in Exts \ {e} : Input(d)' = Input(d)
  <2>1. \A d \in Exts \ {e} : source'[d] = source[d] /\ dist'[d] = dist[d]
    BY <1>2, <1>3 DEF Contents
  <2> QED  BY <2>1 DEF Input
<1>7. ASSUME e \in Initial \/ phase # "watching"  PROVE EditStep
  <2> DEFINE events == Known("source", e)
  <2>1. Notify(events, {}, {e})  BY <1>7 DEF EditSource
  <2>2. /\ events \in Seq(WatcherEvent)
        /\ {} \in SUBSET Exts /\ {e} \in SUBSET Exts
    BY KnownType
  <2> HIDE DEF events
  <2>3. /\ notices' = IF phase = "watching" THEN notices \o events ELSE notices
        /\ unseen' \subseteq Exts /\ unbuilt' \subseteq Exts
        /\ unseen \subseteq unseen' /\ unbuilt \subseteq unbuilt'
        /\ phase # "watching" => e \in unbuilt'
        /\ UNCHANGED <<phase, echoes, pending, batches, app, built, listening, inbox>>
    BY <2>1, <2>2, NotifyTypes
  <2>4. e \in Initial => events = <<On("source", e)>>  BY DEF events, Known
  <2>5. \A n : Contains(events, n) => n = On("source", e)
    BY DEF events, Known, Contains
  <2>6. e \in Initial => Contains(events, On("source", e))  BY <2>4 DEF Contains
  <2>7. \A d \in Exts : On("source", e) # On("deleted", d)  BY DEF On
  <2>8. Told(events)
    BY <1>3, <1>5, <1>6, <1>7, <2>2, <2>3, <2>5, <2>6, <2>7 DEF Told
  <2> QED  BY <1>1, <1>3, <1>4, <2>3, <2>8 DEF EditStep
<1>8. ASSUME e \notin Initial, phase = "watching"  PROVE EditStep
  <2>1. /\ unbuilt' = unbuilt \cup {e}
        /\ UNCHANGED <<phase, echoes, notices, pending, batches, app, built, listening, inbox, unseen>>
    BY <1>8 DEF EditSource, threadVars, listenVars
  <2>2. <<>> \in Seq(WatcherEvent) /\ notices \o <<>> = notices
    BY <1>3, ConcatEmptySeq
  <2>3. Told(<<>>)
    BY <1>3, <1>5, <1>6, <2>1, <2>2, ContainsEmpty DEF Told
  <2> QED
    BY <1>1, <1>3, <1>4, <2>1, <2>3 DEF EditStep
<1> QED  BY <1>7, <1>8

\* So is an edit of a configuration.
LEMMA EditConfigStep ==
    ASSUME SeqTypes, FlowInv, NEW e \in Exts, EditConfig(e)  PROVE EditStep
<1>1. /\ edits' \in 1..(MaxEdits + 1) /\ edits \in Nat /\ edits' = edits + 1
      /\ edits' \in Bounded /\ -edits' \in Bounded
  BY EditNumber DEF EditConfig
<1>2. PICK content \in {edits', -edits'} : toml' = [toml EXCEPT ![e] = content]
  BY DEF EditConfig, Wrote
<1>3. /\ toml \in Contents /\ source \in Contents /\ dist \in Contents /\ app \in Contents
      /\ appToml \in -1..1 /\ echoes \subseteq Initial
      /\ notices \in Seq(WatcherEvent) /\ unseen \subseteq Exts /\ unbuilt \subseteq Exts
      /\ source' = source /\ dist' = dist /\ appToml' = appToml /\ toml[e] # 0
  BY EditStart DEF EditConfig
<1>4. toml' \in Contents  BY <1>1, <1>2, <1>3, BoundedContents
<1>5. /\ \A d \in Exts \ {e} : toml'[d] = toml[d]
      /\ toml'[e] = content /\ content # 0
      /\ \A d \in Exts : Input(d)' = Input(d)
  BY <1>1, <1>2, <1>3, InputStays DEF Contents
<1>6. \A d \in Exts : toml'[d] <= edits'
  <2>1. \A d \in Exts : toml[d] <= edits /\ toml[d] \in Int
    BY <1>3, BoundedContents DEF FlowInv
  <2> QED  BY <1>1, <1>5, <2>1
<1>7. app[e] = 0 \/ app[e] # Parsed(toml'[e])
  <2>1. app[e] <= edits /\ app[e] \in Int  BY <1>3, BoundedContents DEF FlowInv
  <2> QED  BY <1>1, <1>5, <2>1 DEF Parsed
<1>8. ASSUME e \in Initial \/ phase # "watching"  PROVE EditStep
  <2> DEFINE events == Known("config", e)
  <2>1. Notify(events, {e}, {})  BY <1>8 DEF EditConfig
  <2>2. /\ events \in Seq(WatcherEvent)
        /\ {} \in SUBSET Exts /\ {e} \in SUBSET Exts
    BY KnownType
  <2> HIDE DEF events
  <2>3. /\ notices' = IF phase = "watching" THEN notices \o events ELSE notices
        /\ unseen' \subseteq Exts /\ unbuilt' \subseteq Exts
        /\ unseen \subseteq unseen' /\ unbuilt \subseteq unbuilt'
        /\ phase # "watching" => e \in unseen'
        /\ UNCHANGED <<phase, echoes, pending, batches, app, built, listening, inbox>>
    BY <2>1, <2>2, NotifyTypes
  <2>4. e \in Initial => events = <<On("config", e)>>  BY DEF events, Known
  <2>5. \A n : Contains(events, n) => n = On("config", e)
    BY DEF events, Known, Contains
  <2>6. e \in Initial => Contains(events, On("config", e))  BY <2>4 DEF Contains
  <2>7. \A d \in Exts : On("config", e) # On("deleted", d)  BY DEF On
  <2>8. Told(events)
    BY <1>3, <1>5, <1>6, <1>7, <1>8, <2>2, <2>3, <2>5, <2>6, <2>7 DEF Told
  <2> QED  BY <1>1, <1>3, <1>4, <2>3, <2>8 DEF EditStep
<1>9. ASSUME e \notin Initial, phase = "watching"  PROVE EditStep
  <2>1. /\ unseen' = unseen \cup {e}
        /\ UNCHANGED <<phase, echoes, notices, pending, batches, app, built, listening, inbox, unbuilt>>
    BY <1>9 DEF EditConfig, threadVars, listenVars
  <2>2. <<>> \in Seq(WatcherEvent) /\ notices \o <<>> = notices
    BY <1>3, ConcatEmptySeq
  <2>3. Told(<<>>)
    BY <1>3, <1>5, <1>6, <1>7, <2>1, <2>2, ContainsEmpty DEF Told
  <2> QED
    BY <1>1, <1>3, <1>4, <2>1, <2>3 DEF EditStep
<1> QED  BY <1>8, <1>9

\* The reports of a toml that appears or goes, with the extension's source or alone.
LEMMA DirectoryReports ==
    ASSUME NEW e \in Exts, NEW kind \in {"created", "deleted"}, NEW events,
           \/ events = <<On(kind, e)>> \o Known("source", e)
           \/ events = Known("source", e) \o <<On(kind, e)>>
           \/ events = <<On(kind, e)>>
    PROVE  /\ events \in Seq(WatcherEvent)
           /\ Contains(events, On(kind, e))
           /\ e \in Initial /\ events # <<On(kind, e)>> => Contains(events, On("source", e))
           /\ \A n : Contains(events, n) => n \in {On(kind, e), On("source", e)}
<1> DEFINE one == <<On(kind, e)>>  known == Known("source", e)
<1>1. one \in Seq(WatcherEvent) /\ known \in Seq(WatcherEvent)
      /\ events \in Seq(WatcherEvent)
  <2>1. On(kind, e) \in WatcherEvent  BY ReportType
  <2>2. "source" \in {"source", "config", "created", "deleted"}  OBVIOUS
  <2>3. /\ Known("source", e) \in Seq(WatcherEvent)
        /\ <<On(kind, e)>> \o Known("source", e) \in Seq(WatcherEvent)
        /\ Known("source", e) \o <<On(kind, e)>> \in Seq(WatcherEvent)
    BY <2>2, KnownType
  <2>4. <<On(kind, e)>> \in Seq(WatcherEvent)  BY <2>1
  <2> QED  BY <2>3, <2>4
<1>2. /\ \A n : Contains(one, n) <=> n = On(kind, e)
      /\ \A n : Contains(known, n) <=> e \in Initial /\ n = On("source", e)
  BY DEF Contains, Known
<1>3. events = one \o known \/ events = known \o one \/ events = one  OBVIOUS
<1>4. CASE events = one \o known \/ events = known \o one
  <2> HIDE DEF one, known
  <2>1. \A n : Contains(events, n) <=> Contains(one, n) \/ Contains(known, n)
    <3>1. CASE events = one \o known  BY <1>1, <3>1, ContainsConcat
    <3>2. CASE events = known \o one  BY <1>1, <3>2, ContainsConcat
    <3> QED  BY <1>4, <3>1, <3>2
  <2> QED  BY <1>1, <1>2, <2>1
<1>5. CASE events = one  BY <1>1, <1>2, <1>5
<1> QED  BY <1>3, <1>4, <1>5

\* A new extension is reported, and its number is later than any the app has.
LEMMA CreateStep ==
    ASSUME SeqTypes, FlowInv, NEW e \in Exts, CreateExtension(e)  PROVE EditStep
<1>1. /\ edits' \in 1..(MaxEdits + 1) /\ edits \in Nat /\ edits' = edits + 1
      /\ edits' \in Bounded
  BY EditNumber DEF CreateExtension
<1>2. PICK content \in {edits'} \cup (IF e \in Initial THEN {1} ELSE {}) :
          toml' = [toml EXCEPT ![e] = content]
  BY DEF CreateExtension
<1>3. /\ toml \in Contents /\ source \in Contents /\ dist \in Contents /\ app \in Contents
      /\ appToml \in -1..1 /\ echoes \subseteq Initial
      /\ unseen \subseteq Exts /\ unbuilt \subseteq Exts
      /\ appToml' = appToml /\ toml[e] = 0 /\ dist' = dist
  BY EditStart DEF CreateExtension
<1>4. content \in Bounded /\ content > 0 /\ content <= edits' /\ content \in Int
  BY <1>1, <1>2, BoundedContents
<1>9. PICK events : /\ \/ /\ \/ events = <<On("created", e)>> \o Known("source", e)
                             \/ events = Known("source", e) \o <<On("created", e)>>
                          /\ source' = [source EXCEPT ![e] = edits']
                       \/ events = <<On("created", e)>> /\ source' = source
                    /\ Notify(events, {e}, {e})
  BY DEF CreateExtension
<1>5. toml' \in Contents /\ source' \in Contents  BY <1>1, <1>2, <1>3, <1>4, <1>9, BoundedContents
<1>6. /\ \A d \in Exts \ {e} : toml'[d] = toml[d] /\ Input(d)' = Input(d)
      /\ toml'[e] = content
  <2>1. \A d \in Exts \ {e} : source'[d] = source[d]  BY <1>3, <1>9 DEF Contents
  <2>2. \A d \in Exts \ {e} : Input(d)' = Input(d)  BY <1>3, <2>1 DEF Input
  <2> QED  BY <1>2, <1>3, <2>2 DEF Contents
<1>7. \A d \in Exts : toml'[d] <= edits'
  <2>1. \A d \in Exts : toml[d] <= edits /\ toml[d] \in Int
    BY <1>3, BoundedContents DEF FlowInv
  <2> QED  BY <1>1, <1>4, <1>6, <2>1
<1>8. e \notin Initial => app[e] # Parsed(toml'[e])
  <2>1. app[e] <= edits /\ app[e] \in Int  BY <1>3, BoundedContents DEF FlowInv
  <2> QED  BY <1>1, <1>2, <1>6, <2>1 DEF Parsed
<1>10. /\ events \in Seq(WatcherEvent)
       /\ Contains(events, On("created", e))
       /\ \A n : Contains(events, n) => n \in {On("created", e), On("source", e)}
       /\ {e} \in SUBSET Exts
  BY <1>9, DirectoryReports
<1>11. /\ notices' = IF phase = "watching" THEN notices \o events ELSE notices
       /\ unseen' \subseteq Exts /\ unbuilt' \subseteq Exts
       /\ unseen \subseteq unseen' /\ unbuilt \subseteq unbuilt'
       /\ phase # "watching" => e \in unseen' /\ e \in unbuilt'
       /\ UNCHANGED <<phase, echoes, pending, batches, app, built, listening, inbox>>
  BY <1>9, <1>10, NotifyTypes
<1>12. \A d \in Exts : On("deleted", d) \notin {On("created", e), On("source", e)}
  BY DEF On
<1>14. \/ Input(e)' = Input(e)
       \/ e \in Initial => Contains(events, On("source", e))
  <2>1. CASE source' = source  BY <1>3, <2>1, InputStays
  <2>2. CASE events # <<On("created", e)>>  BY <1>9, <2>2, DirectoryReports
  <2>3. CASE events = <<On("created", e)>> /\ source' # source
    <3>1. Len(<<On("created", e)>>) = 1 /\ Len(<<On("source", e)>>) = 1  OBVIOUS
    <3>2. e \in Initial => /\ Len(<<On("created", e)>> \o Known("source", e)) = 2
                           /\ Len(Known("source", e) \o <<On("created", e)>>) = 2
      BY <3>1 DEF Known
    <3>3. e \notin Initial  BY <1>9, <2>3, <3>1, <3>2
    <3> QED  BY <3>3
  <2> QED  BY <2>1, <2>2, <2>3
<1>13. Told(events)
  BY <1>3, <1>6, <1>7, <1>8, <1>10, <1>11, <1>12, <1>14 DEF Told
<1> QED  BY <1>1, <1>3, <1>5, <1>11, <1>13 DEF EditStep

\* A deleted extension is reported.
LEMMA DeleteStep ==
    ASSUME SeqTypes, FlowInv, NEW e \in Exts, DeleteExtension(e)  PROVE EditStep
<1>1. /\ edits' \in 1..(MaxEdits + 1) /\ edits \in Nat /\ edits' = edits + 1
  BY EditNumber DEF DeleteExtension
<1>3. /\ toml \in Contents /\ source \in Contents /\ dist \in Contents /\ app \in Contents
      /\ appToml \in -1..1 /\ echoes \subseteq Initial
      /\ unseen \subseteq Exts /\ unbuilt \subseteq Exts
      /\ appToml' = appToml /\ toml' = [toml EXCEPT ![e] = 0]
  BY EditStart DEF DeleteExtension
<1>9. PICK events : /\ \/ /\ \/ events = <<On("deleted", e)>> \o Known("source", e)
                             \/ events = Known("source", e) \o <<On("deleted", e)>>
                          /\ source' = [source EXCEPT ![e] = 0]
                          /\ dist' = [dist EXCEPT ![e] = 0]
                       \/ events = <<On("deleted", e)>> /\ source' = source /\ dist' = dist
                    /\ Notify(events, {e}, {})
  BY DEF DeleteExtension
<1>5. toml' \in Contents /\ source' \in Contents /\ dist' \in Contents
  BY <1>3, <1>9, BoundedContents
<1>6. /\ \A d \in Exts \ {e} : toml'[d] = toml[d] /\ Input(d)' = Input(d)
      /\ toml'[e] = 0 /\ (Input(e)' = 0 \/ Input(e)' = Input(e))
  <2>1. \A d \in Exts \ {e} : source'[d] = source[d] /\ dist'[d] = dist[d]
    BY <1>3, <1>9 DEF Contents
  <2>2. \/ source'[e] = source[e] /\ dist'[e] = dist[e]
        \/ source'[e] = 0 /\ dist'[e] = 0
    BY <1>3, <1>9 DEF Contents
  <2>3. \A d \in Exts \ {e} : Input(d)' = Input(d)  BY <2>1 DEF Input
  <2>4. Input(e)' = 0 \/ Input(e)' = Input(e)  BY <2>2 DEF Input
  <2> QED  BY <1>3, <2>3, <2>4 DEF Contents
<1>7. \A d \in Exts : toml'[d] <= edits'
  <2>1. \A d \in Exts : toml[d] <= edits /\ toml[d] \in Int
    BY <1>3, BoundedContents DEF FlowInv
  <2> QED  BY <1>1, <1>6, <2>1
<1>10. /\ events \in Seq(WatcherEvent)
       /\ Contains(events, On("deleted", e))
       /\ \A n : Contains(events, n) => n \in {On("deleted", e), On("source", e)}
       /\ {} \in SUBSET Exts /\ {e} \in SUBSET Exts
  BY <1>9, DirectoryReports
<1>11. /\ notices' = IF phase = "watching" THEN notices \o events ELSE notices
       /\ unseen' \subseteq Exts /\ unbuilt' \subseteq Exts
       /\ unseen \subseteq unseen' /\ unbuilt \subseteq unbuilt'
       /\ phase # "watching" => e \in unseen'
       /\ UNCHANGED <<phase, echoes, pending, batches, app, built, listening, inbox>>
  BY <1>9, <1>10, NotifyTypes
<1>12. \A d \in Exts : On("deleted", d) \in {On("deleted", e), On("source", e)} => d = e
  BY DEF On
<1>14. app[e] = 0 \/ app[e] # Parsed(toml'[e])  BY <1>6 DEF Parsed
<1>13. Told(events)
  BY <1>3, <1>6, <1>7, <1>10, <1>11, <1>12, <1>14 DEF Told
<1> QED  BY <1>1, <1>3, <1>5, <1>11, <1>13 DEF EditStep

\* An edit of the app's own configuration is.
LEMMA EditAppStep ==
    ASSUME SeqTypes, FlowInv, EditApp \/ DeleteApp  PROVE EditStep
<1>1. /\ edits' \in 1..(MaxEdits + 1) /\ edits \in Nat /\ edits' = edits + 1
  BY EditNumber DEF EditApp, DeleteApp
<1>2. /\ toml \in Contents /\ source \in Contents /\ dist \in Contents /\ appToml' \in -1..1
      /\ toml' = toml /\ source' = source /\ dist' = dist /\ echoes \subseteq Initial
  BY EditStart DEF EditApp, DeleteApp
<1>3. \A d \in Exts : toml'[d] <= edits' /\ Input(d)' = Input(d)
  <2>1. \A d \in Exts : toml[d] <= edits /\ toml[d] \in Int
    BY <1>2, BoundedContents DEF FlowInv
  <2> QED  BY <1>1, <1>2, <2>1, InputStays
<1>4. PICK n \in {[kind |-> "app"], [kind |-> "appDeleted"]} : Notify(<<n>>, {}, {})
  BY DEF EditApp, DeleteApp
<1>5. <<n>> \in Seq(WatcherEvent) /\ {} \in SUBSET Exts  BY <1>4, ReportType
<1>6. /\ notices' = IF phase = "watching" THEN notices \o <<n>> ELSE notices
      /\ unseen' \subseteq Exts /\ unbuilt' \subseteq Exts
      /\ unseen \subseteq unseen' /\ unbuilt \subseteq unbuilt'
      /\ UNCHANGED <<phase, echoes, pending, batches, app, built, listening, inbox>>
  BY <1>4, <1>5, NotifyTypes
<1>7. n.kind # "deleted" /\ \A d \in Exts : On("deleted", d).kind = "deleted"
  BY DEF On
<1>8. \A d \in Exts : ~ Contains(<<n>>, On("deleted", d))
  BY <1>7 DEF Contains
<1>9. Told(<<n>>)
  BY <1>2, <1>3, <1>5, <1>6, <1>8 DEF Told
<1> QED  BY <1>1, <1>2, <1>6, <1>9 DEF EditStep

\* The report of a build's own output says nothing new.
LEMMA EchoStep ==
    ASSUME SeqTypes, FlowInv, NEW e \in Exts, Echo(e)  PROVE EditStep
<1>1. /\ toml \in Contents /\ source \in Contents /\ dist \in Contents /\ appToml \in -1..1
      /\ notices \in Seq(WatcherEvent) /\ unseen \subseteq Exts /\ unbuilt \subseteq Exts
      /\ edits \in 1..(MaxEdits + 1)
  BY EditStart DEF SeqTypes, WatchTypeOK
<1>2. /\ UNCHANGED <<toml, source, dist, appToml, edits, phase, pending, batches, app, built,
                     listening, inbox, unseen, unbuilt>>
      /\ phase = "watching" /\ echoes' \subseteq Initial
      /\ notices' = Append(notices, On("source", e)) \/ notices' = notices
  BY DEF Echo, diskVars, listenVars, ghostVars, SeqTypes, WatchTypeOK
<1>3. \A d \in Exts : toml'[d] <= edits' /\ Input(d)' = Input(d)
  BY <1>2, InputStays DEF FlowInv
<1>4. PICK events \in {<<>>, <<On("source", e)>>} : notices' = notices \o events
  <2>1. notices \o <<>> = notices  BY <1>1, ConcatEmptySeq
  <2>2. On("source", e) \in WatcherEvent  BY ReportType
  <2>3. Append(notices, On("source", e)) = notices \o <<On("source", e)>>
    BY <1>1, <2>2, AppendIsConcat
  <2> QED  BY <1>2, <2>1, <2>3
<1>5. events \in Seq(WatcherEvent)
  <2>1. On("source", e) \in WatcherEvent  BY ReportType
  <2>2. <<>> \in Seq(WatcherEvent) /\ <<On("source", e)>> \in Seq(WatcherEvent)  BY <2>1
  <2> QED  BY <2>2
<1>6. \A d \in Exts : On("source", e) # On("deleted", d)  BY DEF On
<1>7. \A d \in Exts : ~ Contains(events, On("deleted", d))  BY <1>4, <1>6 DEF Contains
<1>8. Told(events)  BY <1>2, <1>3, <1>4, <1>5, <1>7 DEF Told
<1> QED  BY <1>1, <1>2, <1>8 DEF EditStep

\* Whatever the developer does, it is reported or accounted for.
LEMMA DeveloperStep ==
    ASSUME SeqTypes, FlowInv, Developer  PROVE EditStep
BY EditSourceStep, EditConfigStep, CreateStep, DeleteStep, EditAppStep DEF Developer

\* An edit only adds to what is on its way.
LEMMA EditReports ==
    ASSUME SeqTypes, EditStep, NEW n, Reported(n)  PROVE Reported(n)'
<1>1. PICK events : Told(events)  BY DEF EditStep
<1>2. events \in Seq(WatcherEvent) /\ notices \in Seq(WatcherEvent)
      /\ notices' \in {notices, notices \o events}
  BY <1>1 DEF Told, SeqTypes, WatchTypeOK
<1>3. Contains(notices, n) => Contains(notices', n)
  <2>1. Contains(notices \o events, n) <=> Contains(notices, n) \/ Contains(events, n)
    BY <1>2, ContainsConcat
  <2>2. CASE notices' = notices  BY <2>2
  <2>3. CASE notices' = notices \o events  BY <2>1, <2>3
  <2> QED  BY <1>2, <2>2, <2>3
<1> QED  BY <1>3 DEF EditStep, Reported

\* An edit leaves the order of the reports of an extension.
LEMMA EditOrder ==
    ASSUME SeqTypes, FlowInv, EditStep, phase # "dead", NEW e \in Exts
    PROVE  NoticeOrder(e)'
<1> DEFINE del == On("deleted", e)  new == On("created", e)
<1>1. PICK events : Told(events)  BY DEF EditStep
<1>2. /\ events \in Seq(WatcherEvent) /\ notices \in Seq(WatcherEvent)
      /\ notices' = IF phase = "watching" THEN notices \o events ELSE notices
      /\ UNCHANGED <<phase, pending, batches>>
      /\ phase \in {"starting", "built", "watching"}
  BY <1>1 DEF Told, SeqTypes, WatchTypeOK, EditStep
<1>3. /\ toml'[e] # 0 => ~ Contains(events, del)
      /\ toml[e] = 0 /\ toml'[e] # 0 /\ phase = "watching" => Contains(events, new)
      /\ NoticeOrder(e)
  BY <1>1 DEF Told, FlowInv
<1>4. /\ toml[e] # 0 => Followed(notices, del, new)
      /\ toml[e] # 0 /\ Contains(pending, del) => Contains(pending, new) \/ Contains(notices, new)
      /\ toml[e] # 0 => \A k \in DOMAIN batches : Contains(batches[k], del) =>
               \/ Contains(pending, new) \/ Contains(notices, new)
               \/ \E l \in DOMAIN batches : l >= k /\ Contains(batches[l], new)
  BY <1>3 DEF NoticeOrder
<1> SUFFICES ASSUME toml'[e] # 0
    PROVE  /\ Followed(notices', del, new)
           /\ Contains(pending, del) => Contains(pending, new) \/ Contains(notices', new)
           /\ \A k \in DOMAIN batches : Contains(batches[k], del) =>
               \/ Contains(pending, new) \/ Contains(notices', new)
               \/ \E l \in DOMAIN batches : l >= k /\ Contains(batches[l], new)
  BY <1>2 DEF NoticeOrder
<1> HIDE DEF del, new
<1>5. CASE phase = "watching"
  <2>1. notices' = notices \o events  BY <1>2, <1>5
  <2>2. Followed(notices', del, new)  BY <1>2, <1>3, <1>4, <1>5, <2>1, FollowedConcat
  <2>3. Contains(notices \o events, new) <=> Contains(notices, new) \/ Contains(events, new)
    BY <1>2, ContainsConcat
  <2> QED  BY <1>3, <1>4, <1>5, <2>1, <2>2, <2>3
<1>6. CASE phase # "watching"
  <2>1. notices' = <<>> /\ pending = <<>> /\ batches = <<>>  BY <1>2, <1>6 DEF FlowInv
  <2>2. DOMAIN <<>> = {}  OBVIOUS
  <2> QED  BY <2>1, <2>2, ContainsEmpty DEF Followed
<1> QED  BY <1>5, <1>6

\* The reports follow an edit.
LEMMA EditFlow ==
    ASSUME SeqTypes, FlowInv, EditStep  PROVE FlowInv'
<1>1. PICK events : Told(events)  BY DEF EditStep
<1>2. /\ events \in Seq(WatcherEvent) /\ notices \in Seq(WatcherEvent)
      /\ notices' = IF phase = "watching" THEN notices \o events ELSE notices
      /\ UNCHANGED <<phase, pending, batches, app, built>> /\ edits' \in {edits, edits + 1}
      /\ unseen \subseteq unseen' /\ unbuilt \subseteq unbuilt'
      /\ edits \in Nat /\ app \in Contents
  <2>1. edits \in Nat /\ app \in Contents  BY AppWatchAssumption DEF SeqTypes, WatchTypeOK
  <2> QED  BY <1>1, <2>1 DEF Told, SeqTypes, WatchTypeOK, EditStep
<1>3. \A e \in Exts : app'[e] <= edits' /\ toml'[e] <= edits'
  <2>1. \A e \in Exts : toml'[e] <= edits'  BY <1>1 DEF Told
  <2>2. \A e \in Exts : app[e] <= edits /\ app[e] \in Int  BY <1>2, BoundedContents DEF FlowInv
  <2> QED  BY <1>2, <2>1, <2>2
<1>4. phase = "watching" => \A n : Contains(events, n) => Reported(n)'
  BY <1>2, ContainsConcat DEF Reported
<1>5. \A n : Reported(n) => Reported(n)'  BY EditReports
<1>6. ASSUME NEW e \in Exts, phase # "dead"  PROVE ConfigFollows(e)'
  <2>1. ConfigFollows(e)  BY <1>6 DEF FlowInv
  <2>2. \/ toml'[e] = toml[e] \/ e \in unseen'
        \/ \E kind \in {"config", "created", "deleted"} : Reported(On(kind, e))'
    BY <1>1, <1>4 DEF Told
  <2>3. \A kind : Reported(On(kind, e)) => Reported(On(kind, e))'  BY <1>5
  <2> QED  BY <1>2, <2>1, <2>2, <2>3 DEF ConfigFollows
<1>7. ASSUME NEW e \in Exts, phase # "dead"  PROVE SourceFollows(e)'
  <2>1. SourceFollows(e)  BY <1>7 DEF FlowInv
  <2>2. /\ \/ Input(e)' = Input(e) \/ Input(e)' <= 0 \/ e \in unbuilt'
           \/ Reported(On("source", e))'
           \/ e \notin Initial /\ Reported(On("created", e))' /\ app[e] # Parsed(toml'[e])
        /\ \/ toml'[e] = toml[e] \/ e \in Initial \/ app[e] = 0
           \/ app[e] # Parsed(toml'[e])
    BY <1>1, <1>4 DEF Told
  <2>3. /\ Reported(On("source", e)) => Reported(On("source", e))'
        /\ Reported(On("created", e)) => Reported(On("created", e))'
    BY <1>5
  <2> QED  BY <1>2, <2>1, <2>2, <2>3 DEF SourceFollows
<1>8. phase' \in {"starting", "built"} => notices' = <<>> /\ pending' = <<>> /\ batches' = <<>>
  BY <1>2 DEF FlowInv
<1>9. \A k \in DOMAIN batches' : batches'[k] # <<>>  BY <1>2 DEF FlowInv
<1> QED  BY <1>2, <1>3, <1>6, <1>7, <1>8, <1>9, EditOrder DEF FlowInv

\* An edit keeps the types.
LEMMA EditTypes ==
    ASSUME SeqTypes, EditStep  PROVE SeqTypes'
<1>1. PICK events : Told(events)  BY DEF EditStep
<1>2. events \in Seq(WatcherEvent) /\ notices \in Seq(WatcherEvent)
      /\ notices' = IF phase = "watching" THEN notices \o events ELSE notices
  BY <1>1 DEF Told, SeqTypes, WatchTypeOK
<1>3. notices' \in Seq(WatcherEvent)  BY <1>2, ConcatProperties
<1> QED  BY <1>3 DEF SeqTypes, WatchTypeOK, EditStep

-----------------------------------------------------------------------------
(* The watcher's thread *)

\* An event is added to the buffer once.
LEMMA BufferedEvent ==
    ASSUME SeqTypes, NEW h \in WatcherEvent
    PROVE  /\ Buffered(h) \in Seq(WatcherEvent) /\ IsInjective(Buffered(h)) /\ Buffered(h) # <<>>
           /\ \A n : Contains(Buffered(h), n) <=> Contains(pending, n) \/ n = h
<1>1. pending \in Seq(WatcherEvent) /\ IsInjective(pending)
  BY DEF SeqTypes, WatchTypeOK
<1>2. CASE Contains(pending, h)
  <2>1. Buffered(h) = pending  BY <1>2 DEF Buffered
  <2>2. pending # <<>>  BY <1>2, ContainsEmpty
  <2> QED  BY <1>1, <1>2, <2>1, <2>2
<1>3. CASE ~ Contains(pending, h)
  <2>1. Buffered(h) = Append(pending, h)  BY <1>3 DEF Buffered
  <2>2. /\ Append(pending, h) \in Seq(WatcherEvent)
        /\ Len(Append(pending, h)) = Len(pending) + 1 /\ Len(pending) \in Nat
        /\ DOMAIN Append(pending, h) = 1..(Len(pending) + 1) /\ DOMAIN pending = 1..Len(pending)
        /\ \A i \in 1..Len(pending) : Append(pending, h)[i] = pending[i]
        /\ Append(pending, h)[Len(pending) + 1] = h
    BY <1>1, AppendProperties, LenProperties
  <2>3. Append(pending, h) # <<>>  BY <2>2, EmptySeq
  <2>4. \A n : Contains(Append(pending, h), n) <=> Contains(pending, n) \/ n = h
    BY <1>1, ContainsAppend
  <2>5. ASSUME NEW i \in 1..(Len(pending) + 1), NEW j \in 1..(Len(pending) + 1),
               Append(pending, h)[i] = Append(pending, h)[j]
        PROVE  i = j
    <3>1. \A k \in 1..Len(pending) : pending[k] # h  BY <1>3, <2>2 DEF Contains
    <3>2. CASE i \in 1..Len(pending) /\ j \in 1..Len(pending)
      <4>1. pending[i] = pending[j]  BY <2>2, <2>5, <3>2
      <4> QED  BY <1>1, <2>2, <3>2, <4>1 DEF IsInjective
    <3>3. CASE ~ (i \in 1..Len(pending) /\ j \in 1..Len(pending))
      <4>1. i = Len(pending) + 1 \/ j = Len(pending) + 1  BY <2>2, <3>3
      <4>2. i = Len(pending) + 1 => ~ j \in 1..Len(pending)  BY <2>2, <2>5, <3>1
      <4>3. j = Len(pending) + 1 => ~ i \in 1..Len(pending)  BY <2>2, <2>5, <3>1
      <4> QED  BY <2>2, <4>1, <4>2, <4>3
    <3> QED  BY <3>2, <3>3
  <2>6. IsInjective(Append(pending, h))  BY <2>2, <2>5 DEF IsInjective
  <2> QED  BY <2>1, <2>2, <2>3, <2>4, <2>6
<1> QED  BY <1>2, <1>3

\* Events move on to the buffer, and the buffer to the pipeline.
MovesOn(buffer) ==
    /\ buffer \in Seq(WatcherEvent) /\ IsInjective(buffer) /\ buffer # <<>>
    /\ notices' \in Seq(WatcherEvent)
    /\ \A n : Contains(notices, n) \/ Contains(pending, n)
              <=> Contains(notices', n) \/ Contains(buffer, n)
    /\ \A n, m : Followed(notices, n, m) =>
          /\ Followed(notices', n, m)
          /\ Contains(buffer, n) => Contains(pending, n) \/ Contains(notices', m)
    /\ \/ pending' = buffer /\ batches' = batches
       \/ pending' = <<>> /\ batches' = Append(batches, buffer)
    /\ phase = "watching"
    /\ UNCHANGED <<diskVars, phase, echoes, app, built, listenVars, ghostVars>>

\* Taking an event moves it on.
LEMMA TakeNoticeStep ==
    ASSUME SeqTypes, TakeNotice  PROVE \E buffer : MovesOn(buffer)
<1> DEFINE h == Head(notices)  buffer == Buffered(h)
<1>1. notices \in Seq(WatcherEvent) /\ notices # <<>> /\ phase = "watching"
      /\ notices' = Tail(notices)
  BY DEF SeqTypes, WatchTypeOK, TakeNotice
<1>2. h \in WatcherEvent /\ Tail(notices) \in Seq(WatcherEvent)  BY <1>1, HeadTailProperties
<1>3. \/ pending' = buffer /\ batches' = batches
      \/ pending' = <<>> /\ batches' = Append(batches, buffer)
  BY DEF TakeNotice
<1>4. UNCHANGED <<diskVars, phase, echoes, app, built, listenVars, ghostVars>>  BY DEF TakeNotice
<1>5. \A n : Contains(notices, n) <=> n = h \/ Contains(Tail(notices), n)
  BY <1>1, ContainsTail
<1>6. \A n, m : Followed(notices, n, m) =>
          Followed(Tail(notices), n, m) /\ (h = n => Contains(Tail(notices), m))
  BY <1>1, FollowedTail
<1> HIDE DEF h
<1>7. /\ buffer \in Seq(WatcherEvent) /\ IsInjective(buffer) /\ buffer # <<>>
      /\ \A n : Contains(buffer, n) <=> Contains(pending, n) \/ n = h
  BY <1>2, BufferedEvent
<1> HIDE DEF buffer
<1>8. MovesOn(buffer)
  BY <1>1, <1>2, <1>3, <1>4, <1>5, <1>6, <1>7 DEF MovesOn
<1> QED  BY <1>8

\* So does sending what is in the buffer.
LEMMA FlushStep ==
    ASSUME SeqTypes, FlushPending  PROVE \E buffer : MovesOn(buffer)
<1>1. /\ notices \in Seq(WatcherEvent) /\ pending \in Seq(WatcherEvent) /\ IsInjective(pending)
      /\ pending # <<>> /\ phase = "watching" /\ notices' = notices
      /\ pending' = <<>> /\ batches' = Append(batches, pending)
      /\ UNCHANGED <<diskVars, phase, echoes, app, built, listenVars, ghostVars>>
  BY DEF SeqTypes, WatchTypeOK, FlushPending
<1>2. MovesOn(pending)  BY <1>1 DEF MovesOn
<1> QED  BY <1>2

\* What the batches hold once the buffer is sent.
LEMMA MovedBatches ==
    ASSUME SeqTypes, NEW buffer, MovesOn(buffer)
    PROVE  \/ batches' = batches /\ pending' = buffer
           \/ /\ pending' = <<>> /\ batches' \in Seq(Seq(WatcherEvent))
              /\ Len(batches) \in Nat /\ DOMAIN batches = 1..Len(batches)
              /\ DOMAIN batches' = 1..(Len(batches) + 1)
              /\ \A k \in DOMAIN batches : batches'[k] = batches[k]
              /\ batches'[Len(batches) + 1] = buffer
<1>1. batches \in Seq(Seq(WatcherEvent)) /\ buffer \in Seq(WatcherEvent)
      /\ Len(batches) \in Nat /\ DOMAIN batches = 1..Len(batches)
  BY LenProperties DEF SeqTypes, MovesOn
<1>2. /\ Append(batches, buffer) \in Seq(Seq(WatcherEvent))
      /\ Len(Append(batches, buffer)) = Len(batches) + 1
      /\ DOMAIN Append(batches, buffer) = 1..Len(Append(batches, buffer))
      /\ \A k \in 1..Len(batches) : Append(batches, buffer)[k] = batches[k]
      /\ Append(batches, buffer)[Len(batches) + 1] = buffer
  BY <1>1, AppendProperties, LenProperties
<1> QED  BY <1>1, <1>2 DEF MovesOn

\* Nothing is lost on the way.
LEMMA MovedReports ==
    ASSUME SeqTypes, NEW buffer, MovesOn(buffer), NEW n  PROVE Reported(n) => Reported(n)'
<1>1. Contains(notices, n) \/ Contains(pending, n) => Contains(notices', n) \/ Contains(buffer, n)
  BY DEF MovesOn
<1>2. CASE batches' = batches /\ pending' = buffer  BY <1>1, <1>2 DEF Reported
<1>3. CASE /\ Len(batches) \in Nat /\ DOMAIN batches = 1..Len(batches)
           /\ DOMAIN batches' = 1..(Len(batches) + 1)
           /\ \A k \in DOMAIN batches : batches'[k] = batches[k]
           /\ batches'[Len(batches) + 1] = buffer
  <2>1. Len(batches) + 1 \in DOMAIN batches' /\ \A k \in DOMAIN batches : k \in DOMAIN batches'
    BY <1>3
  <2>2. Contains(buffer, n) => Reported(n)'  BY <1>3, <2>1 DEF Reported
  <2>3. ASSUME NEW k \in DOMAIN batches, Contains(batches[k], n)  PROVE Reported(n)'
    <3>1. batches'[k] = batches[k]  BY <1>3
    <3> QED  BY <2>1, <2>3, <3>1 DEF Reported
  <2>4. Contains(notices', n) => Reported(n)'  BY DEF Reported
  <2> QED  BY <1>1, <2>2, <2>3, <2>4 DEF Reported
<1> QED  BY <1>2, <1>3, MovedBatches

\* Nothing overtakes.
LEMMA MovedOrder ==
    ASSUME SeqTypes, FlowInv, NEW buffer, MovesOn(buffer), NEW e \in Exts
    PROVE  NoticeOrder(e)'
<1> DEFINE del == On("deleted", e)  new == On("created", e)
<1>1. toml' = toml /\ (toml[e] # 0 => Followed(notices, del, new))
      /\ (toml[e] # 0 /\ Contains(pending, del) => Contains(pending, new) \/ Contains(notices, new))
      /\ (toml[e] # 0 => \A k \in DOMAIN batches : Contains(batches[k], del) =>
               \/ Contains(pending, new) \/ Contains(notices, new)
               \/ \E l \in DOMAIN batches : l >= k /\ Contains(batches[l], new))
  BY DEF FlowInv, NoticeOrder, MovesOn, diskVars
<1> SUFFICES ASSUME toml[e] # 0
    PROVE  /\ Followed(notices', del, new)
           /\ Contains(pending', del) => Contains(pending', new) \/ Contains(notices', new)
           /\ \A k \in DOMAIN batches' : Contains(batches'[k], del) =>
               \/ Contains(pending', new) \/ Contains(notices', new)
               \/ \E l \in DOMAIN batches' : l >= k /\ Contains(batches'[l], new)
  BY <1>1 DEF NoticeOrder
<1> HIDE DEF del, new
<1>2. /\ Followed(notices', del, new)
      /\ Contains(buffer, del) => Contains(pending, del) \/ Contains(notices', new)
      /\ Contains(notices, new) \/ Contains(pending, new)
           => Contains(notices', new) \/ Contains(buffer, new)
  BY <1>1 DEF MovesOn
<1>3. Contains(buffer, del) => Contains(notices', new) \/ Contains(buffer, new)
  BY <1>1, <1>2
<1>4. CASE batches' = batches /\ pending' = buffer
  BY <1>1, <1>2, <1>3, <1>4
<1>5. CASE /\ pending' = <<>>
           /\ Len(batches) \in Nat /\ DOMAIN batches = 1..Len(batches)
           /\ DOMAIN batches' = 1..(Len(batches) + 1)
           /\ \A k \in DOMAIN batches : batches'[k] = batches[k]
           /\ batches'[Len(batches) + 1] = buffer
  <2>1. ~ Contains(pending', del)  BY <1>5, ContainsEmpty
  <2>2. ASSUME NEW k \in DOMAIN batches', Contains(batches'[k], del)
        PROVE  \/ Contains(notices', new)
               \/ \E l \in DOMAIN batches' : l >= k /\ Contains(batches'[l], new)
    <3>1. /\ Len(batches) + 1 \in DOMAIN batches' /\ Len(batches) + 1 >= k
          /\ k \in DOMAIN batches \/ k = Len(batches) + 1
      BY <1>5, <2>2
    <3>2. CASE k = Len(batches) + 1  BY <1>3, <1>5, <2>2, <3>1, <3>2
    <3>3. CASE k \in DOMAIN batches
      <4>1. \/ Contains(pending, new) \/ Contains(notices, new)
            \/ \E l \in DOMAIN batches : l >= k /\ Contains(batches[l], new)
        BY <1>1, <1>5, <2>2, <3>3
      <4>2. \A l \in DOMAIN batches : l \in DOMAIN batches' /\ batches'[l] = batches[l]
        BY <1>5
      <4>3. Contains(buffer, new) =>
                \E l \in DOMAIN batches' : l >= k /\ Contains(batches'[l], new)
        BY <1>5, <3>1
      <4> QED  BY <1>2, <4>1, <4>2, <4>3
    <3> QED  BY <3>1, <3>2, <3>3
  <2> QED  BY <1>2, <2>1, <2>2
<1> QED  BY <1>4, <1>5, MovedBatches

\* The reports follow what moves on.
LEMMA MovedFlow ==
    ASSUME SeqTypes, FlowInv, NEW buffer, MovesOn(buffer)  PROVE FlowInv'
<1>1. /\ UNCHANGED <<toml, edits, phase, app, built, unseen, unbuilt>>
      /\ phase = "watching" /\ buffer # <<>> /\ \A e \in Exts : Input(e)' = Input(e)
  BY InputStays DEF MovesOn, diskVars, ghostVars
<1>2. \A k \in DOMAIN batches' : batches'[k] # <<>>
  BY <1>1, MovedBatches DEF FlowInv
<1>3. ASSUME NEW e \in Exts  PROVE NoticeOrder(e)' /\ ConfigFollows(e)' /\ SourceFollows(e)'
  <2>1. ConfigFollows(e) /\ SourceFollows(e)  BY <1>1 DEF FlowInv
  <2>2. NoticeOrder(e)'  BY MovedOrder
  <2>3. \A n : Reported(n) => Reported(n)'  BY MovedReports
  <2>4. ConfigFollows(e)'  BY <1>1, <2>1, <2>3 DEF ConfigFollows
  <2>5. SourceFollows(e)'  BY <1>1, <2>1, <2>3 DEF SourceFollows
  <2> QED  BY <2>2, <2>4, <2>5
<1>4. \A e \in Exts : app'[e] <= edits' /\ toml'[e] <= edits'  BY <1>1 DEF FlowInv
<1> QED  BY <1>1, <1>2, <1>3, <1>4 DEF FlowInv

\* And the types.
LEMMA MovedTypes ==
    ASSUME SeqTypes, NEW buffer, MovesOn(buffer)  PROVE SeqTypes'
<1>1. /\ UNCHANGED <<toml, source, dist, appToml, edits, phase, echoes, app, built, listening, inbox,
                     unseen, unbuilt>>
      /\ notices' \in Seq(WatcherEvent) /\ buffer \in Seq(WatcherEvent) /\ IsInjective(buffer)
      /\ buffer # <<>>
  BY DEF MovesOn, diskVars, ghostVars, listenVars
<1>2. pending' \in Seq(WatcherEvent) /\ IsInjective(pending')
  <2>1. <<>> \in Seq(WatcherEvent) /\ IsInjective(<<>>)  BY DEF IsInjective
  <2> QED  BY <1>1, <2>1 DEF MovesOn
<1>3. /\ batches' \in Seq(Seq(WatcherEvent))
      /\ \A k \in DOMAIN batches' : batches'[k] # <<>> /\ batches'[k] \in Seq(WatcherEvent)
                                    /\ IsInjective(batches'[k])
  <2>1. /\ batches \in Seq(Seq(WatcherEvent))
        /\ \A k \in DOMAIN batches : batches[k] # <<>> /\ batches[k] \in Seq(WatcherEvent)
                                    /\ IsInjective(batches[k])
    BY DEF SeqTypes, WatchTypeOK
  <2>2. CASE batches' = batches  BY <2>1, <2>2
  <2>3. CASE /\ batches' \in Seq(Seq(WatcherEvent))
             /\ Len(batches) \in Nat /\ DOMAIN batches = 1..Len(batches)
             /\ DOMAIN batches' = 1..(Len(batches) + 1)
             /\ \A k \in DOMAIN batches : batches'[k] = batches[k]
             /\ batches'[Len(batches) + 1] = buffer
    <3>1. \A k \in DOMAIN batches' : k \in DOMAIN batches \/ k = Len(batches) + 1  BY <2>3
    <3> QED  BY <1>1, <2>1, <2>3, <3>1
  <2> QED  BY <2>2, <2>3, MovedBatches
<1> QED  BY <1>1, <1>2, <1>3 DEF SeqTypes, WatchTypeOK

-----------------------------------------------------------------------------
(* The pipeline *)

\* A batch leaves the channel.
BatchTaken(h) ==
    /\ h \in Seq(WatcherEvent) /\ h # <<>>
    /\ batches' \in Seq(Seq(WatcherEvent))
    /\ \A k \in DOMAIN batches' : /\ k + 1 \in DOMAIN batches /\ batches'[k] = batches[k + 1]
                                  /\ k \in Nat
    /\ \A k \in DOMAIN batches : k # 1 => /\ k - 1 \in DOMAIN batches'
                                            /\ batches'[k - 1] = batches[k]
    /\ 1 \in DOMAIN batches /\ h = batches[1] /\ DOMAIN batches \subseteq Nat
    /\ UNCHANGED Outside /\ \A e \in Exts : Input(e)' = Input(e)

\* Processing takes one.
LEMMA ProcessTakes ==
    ASSUME SeqTypes, ProcessBatch
    PROVE  BatchTaken(Head(batches))
<1>1. /\ batches \in Seq(Seq(WatcherEvent)) /\ batches # <<>> /\ batches' = Tail(batches)
      /\ UNCHANGED Outside /\ \A e \in Exts : Input(e)' = Input(e)
      /\ \A k \in DOMAIN batches : batches[k] # <<>>
  BY InputStays DEF SeqTypes, ProcessBatch, diskVars, Outside
<1>2. /\ Tail(batches) \in Seq(Seq(WatcherEvent)) /\ Head(batches) \in Seq(WatcherEvent)
      /\ Head(batches) = batches[1] /\ 1 \in DOMAIN batches
      /\ Len(batches) \in Nat /\ DOMAIN batches = 1..Len(batches)
      /\ DOMAIN Tail(batches) = 1..(Len(batches) - 1)
      /\ \A i \in 1..(Len(batches) - 1) : i + 1 \in DOMAIN batches /\ Tail(batches)[i] = batches[i + 1]
      /\ \A i \in DOMAIN batches : i # 1 => i - 1 \in DOMAIN Tail(batches)
                                            /\ Tail(batches)[i - 1] = batches[i]
  BY <1>1, TailOf
<1>3. \A k \in DOMAIN Tail(batches) : /\ k \in Nat /\ k + 1 \in DOMAIN batches
                                     /\ Tail(batches)[k] = batches[k + 1]
  BY <1>2
<1>4. DOMAIN batches \subseteq Nat  BY <1>2
<1>5. Head(batches) # <<>>
  <2>1. batches[1] # <<>>  BY <1>1, <1>2
  <2> QED  BY <1>2, <2>1
<1> QED  BY <1>1, <1>2, <1>3, <1>4, <1>5 DEF BatchTaken

\* What it held is no longer on its way; the rest is.
LEMMA TakenReports ==
    ASSUME NEW h, BatchTaken(h), NEW n, Reported(n)
    PROVE  Reported(n)' \/ Contains(h, n)
<1>1. CASE Contains(notices, n) \/ Contains(pending, n)  BY <1>1 DEF Reported, BatchTaken, Outside
<1>2. CASE \E k \in DOMAIN batches : Contains(batches[k], n)
  <2>1. PICK k \in DOMAIN batches : Contains(batches[k], n)  BY <1>2
  <2>2. CASE k = 1  BY <2>1, <2>2 DEF BatchTaken
  <2>3. CASE k - 1 \in DOMAIN batches' /\ batches'[k - 1] = batches[k]
    <3>1. Contains(batches'[k - 1], n)  BY <2>1, <2>3
    <3> QED  BY <2>3, <3>1 DEF Reported
  <2> QED  BY <2>2, <2>3 DEF BatchTaken
<1> QED  BY <1>1, <1>2 DEF Reported

\* The order of the rest stays.
LEMMA TakenOrder ==
    ASSUME FlowInv, phase # "dead", NEW h, BatchTaken(h), NEW e \in Exts
    PROVE  /\ NoticeOrder(e)'
           /\ toml[e] # 0 /\ Contains(h, On("deleted", e)) =>
                  Contains(h, On("created", e)) \/ Reported(On("created", e))'
<1> DEFINE del == On("deleted", e)  new == On("created", e)
<1>1. toml' = toml /\ notices' = notices /\ pending' = pending
      /\ (toml[e] # 0 => Followed(notices, del, new))
      /\ (toml[e] # 0 /\ Contains(pending, del) => Contains(pending, new) \/ Contains(notices, new))
      /\ (toml[e] # 0 => \A k \in DOMAIN batches : Contains(batches[k], del) =>
               \/ Contains(pending, new) \/ Contains(notices, new)
               \/ \E l \in DOMAIN batches : l >= k /\ Contains(batches[l], new))
  BY DEF FlowInv, NoticeOrder, BatchTaken, Outside
<1>2. toml[e] # 0 => \A k \in DOMAIN batches' : Contains(batches'[k], del) =>
               \/ Contains(pending, new) \/ Contains(notices, new)
               \/ \E l \in DOMAIN batches' : l >= k /\ Contains(batches'[l], new)
  <2> HIDE DEF del, new
  <2>1. SUFFICES ASSUME toml[e] # 0, NEW k \in DOMAIN batches', Contains(batches'[k], del),
                        ~ Contains(pending, new), ~ Contains(notices, new)
                 PROVE  \E l \in DOMAIN batches' : l >= k /\ Contains(batches'[l], new)
    OBVIOUS
  <2>2. k + 1 \in DOMAIN batches /\ batches'[k] = batches[k + 1] /\ k \in Nat  BY DEF BatchTaken
  <2>3. Contains(batches[k + 1], del)  BY <2>1, <2>2
  <2>4. PICK l \in DOMAIN batches : l >= k + 1 /\ Contains(batches[l], new)
    BY <1>1, <2>1, <2>2, <2>3
  <2>5. l \in Nat /\ 1 \in DOMAIN batches  BY DEF BatchTaken
  <2>6. k # 0
    <3>1. k \in 1..Len(batches')  BY LenProperties DEF BatchTaken
    <3> QED  BY <3>1
  <2>7. l # 1 /\ l - 1 >= k  BY <2>2, <2>4, <2>5, <2>6
  <2>8. l - 1 \in DOMAIN batches' /\ batches'[l - 1] = batches[l]  BY <2>7 DEF BatchTaken
  <2> QED  BY <2>4, <2>7, <2>8
<1>3. NoticeOrder(e)'  BY <1>1, <1>2 DEF NoticeOrder
<1>4. ASSUME toml[e] # 0, Contains(h, del)  PROVE Contains(h, new) \/ Reported(new)'
  <2> HIDE DEF del, new
  <2>1. 1 \in DOMAIN batches /\ h = batches[1]  BY DEF BatchTaken
  <2>2. \/ Contains(pending, new) \/ Contains(notices, new)
        \/ \E l \in DOMAIN batches : Contains(batches[l], new)
    BY <1>1, <1>4, <2>1
  <2>3. Reported(new)  BY <2>2 DEF Reported
  <2> QED  BY <2>3, TakenReports
<1> QED  BY <1>3, <1>4

\* A batch that does not reload has no event of a new extension or of a configuration.
LEMMA NoReload ==
    ASSUME NEW h \in Seq(WatcherEvent), ~ Reloads(h)
    PROVE  \A e \in Exts : ~ Contains(h, On("config", e)) /\ ~ Contains(h, On("created", e))
<1>1. \A e : On("config", e).kind = "config" /\ On("created", e).kind = "created"  BY DEF On
<1>2. \A i \in DOMAIN h : h[i].kind # "config" /\ h[i].kind # "created"
  BY DEF Reloads, Has
<1> QED  BY <1>1, <1>2 DEF Contains

\* A batch of sources and deletions ends with one of them.
LEMMA LastOfBatch ==
    ASSUME NEW h \in Seq(WatcherEvent), h # <<>>, Last(h).kind = "deleted"
    PROVE  /\ Last(h).ext \in Exts /\ Contains(h, On("deleted", Last(h).ext))
<1>1. Len(h) \in Nat /\ Len(h) # 0 /\ DOMAIN h = 1..Len(h)  BY LenProperties, EmptySeq
<1>2. Len(h) \in 1..Len(h) /\ Last(h) = h[Len(h)]  BY <1>1 DEF Last
<1>3. h[Len(h)] \in WatcherEvent  BY <1>1, <1>2
<1>4. Last(h).kind \in {"source", "config", "created", "deleted"}  OBVIOUS
<1>5. Last(h).ext \in Exts /\ Last(h) = On("deleted", Last(h).ext)
  BY <1>2, <1>3, <1>4, ReportShape
<1> QED  BY <1>2, <1>5 DEF Contains

\* What the bundle and the app are after a batch.
LEMMA PublishContents ==
    ASSUME SeqTypes, NEW event, Publish(event),
           event.updated \subseteq Exts
    PROVE  /\ app' = event.app
           /\ \A e \in Exts :
                 /\ e \notin event.updated =>
                        built'[e] = IF e \in event.deleted THEN 0 ELSE built[e]
                 /\ e \in event.updated \ event.deleted => Input(e) <= 0 \/ built'[e] = Input(e)
<1>1. \A e \in Exts : Input(e) > 0 \/ Input(e) <= 0  BY InputNumber
<1>2. \A e \in Exts : built'[e] = IF e \in event.deleted THEN 0
                                  ELSE IF e \in event.updated /\ Input(e) > 0 THEN Input(e)
                                  ELSE IF e \in event.updated /\ built[e] = 0 THEN Stub ELSE built[e]
  BY DEF Publish, Builds
<1>3. app' = event.app  BY DEF Publish
<1> QED  BY <1>1, <1>2, <1>3

\* The app a reload has is what the disk says.
LEMMA LoadedContents ==
    ASSUME SeqTypes, FlowInv
    PROVE  /\ Loaded \in Contents
           /\ \A e \in Exts : Loaded[e] = Parsed(toml[e]) /\ Loaded[e] <= edits
<1>1. toml \in Contents /\ edits \in Nat  BY AppWatchAssumption DEF SeqTypes, WatchTypeOK
<1>2. \A e \in Exts : toml[e] \in Bounded /\ toml[e] <= edits
  BY <1>1, BoundedContents DEF FlowInv
<1>3. \A e \in Exts : Parsed(toml[e]) \in Bounded /\ Parsed(toml[e]) <= edits
  <2> TAKE e \in Exts
  <2>1. toml[e] \in Bounded /\ toml[e] <= edits /\ 0 \in Bounded  BY <1>2, BoundedContents
  <2> QED  BY <1>1, <2>1 DEF Parsed
<1> QED  BY <1>3, BoundedContents DEF Loaded

\* After a reload, the app is what the disk says, and what changed is built.
LEMMA ReloadFlow ==
    ASSUME SeqTypes, FlowInv, NEW h, BatchTaken(h), ReloadBatch(h), phase # "dead", NEW e \in Exts
    PROVE  app'[e] <= edits /\ ConfigFollows(e)' /\ SourceFollows(e)'
<1>1. toml' = toml /\ Input(e)' = Input(e)  BY DEF BatchTaken, Outside
<1>2. Loaded[e] = Parsed(toml[e]) /\ Loaded[e] <= edits  BY LoadedContents
<1>3. /\ ReloadEvent.app = Loaded /\ ReloadEvent.deleted = Present(app) \ Present(Loaded)
      /\ ReloadEvent.updated = {d \in Present(Loaded) : app[d] # Loaded[d]}
  BY DEF ReloadEvent
<1>4. ReloadEvent.updated \subseteq Exts  BY <1>3 DEF Present
<1>5. /\ app' = Loaded
      /\ e \notin ReloadEvent.updated =>
             built'[e] = IF e \in Present(app) \ Present(Loaded) THEN 0 ELSE built[e]
      /\ e \in ReloadEvent.updated \cap Present(Loaded) => Input(e) <= 0 \/ built'[e] = Input(e)
      /\ unbuilt' = (unbuilt \cup Named(h, "source")) \ ReloadEvent.updated
  BY <1>3, <1>4, PublishContents DEF ReloadBatch
<1>6. app'[e] = Parsed(toml[e])  BY <1>2, <1>5
<1>7. ConfigFollows(e)'  BY <1>1, <1>6 DEF ConfigFollows
<1>8. SourceFollows(e)'
  <2>1. CASE Loaded[e] = 0  BY <1>5, <2>1 DEF SourceFollows
  <2>2. CASE e \in ReloadEvent.updated
    <3>1. e \in Present(Loaded)  BY <1>3, <2>2
    <3>3. Input(e) <= 0 \/ built'[e] = Input(e)  BY <1>5, <2>2, <3>1
    <3> QED  BY <1>1, <3>3 DEF SourceFollows
  <2>3. CASE Loaded[e] # 0 /\ app[e] = Loaded[e]
    <3>1. e \in Present(Loaded) /\ e \notin ReloadEvent.updated  BY <1>3, <2>3 DEF Present
    <3>2. built'[e] = built[e]  BY <1>5, <3>1
    <3>3. e \in unbuilt \/ Contains(h, On("source", e)) => e \in unbuilt'
      BY <1>5, <3>1 DEF Named
    <3>4. \/ e \in unbuilt \/ Input(e) <= 0 \/ built[e] = Input(e) \/ Reported(On("source", e))
      BY <1>2, <2>3 DEF FlowInv, SourceFollows
    <3>5. Reported(On("source", e)) => Reported(On("source", e))' \/ Contains(h, On("source", e))
      BY TakenReports
    <3> QED  BY <1>1, <3>2, <3>3, <3>4, <3>5 DEF SourceFollows
  <2> QED  BY <1>3, <2>1, <2>2, <2>3 DEF Present
<1> QED  BY <1>2, <1>5, <1>7, <1>8

\* After events of files alone, the app lost what was deleted last.
LEMMA FileFlow ==
    ASSUME SeqTypes, FlowInv, NEW h, BatchTaken(h), FileBatch(h), phase # "dead", NEW e \in Exts
    PROVE  app'[e] <= edits /\ ConfigFollows(e)' /\ SourceFollows(e)'
<1> DEFINE event == FileEvent(h)
<1>1. /\ toml' = toml /\ Input(e)' = Input(e) /\ h \in Seq(WatcherEvent) /\ h # <<>>
      /\ app \in Contents /\ edits \in Nat
  BY AppWatchAssumption DEF BatchTaken, Outside, SeqTypes, WatchTypeOK
<1>2. /\ event.app = IF Last(h).kind = "deleted" THEN [app EXCEPT ![Last(h).ext] = 0] ELSE app
      /\ event.deleted = Named(h, "deleted") \cap Present(app)
      /\ event.updated = Named(h, "source") \cap Present(app)
  BY DEF FileEvent
<1>3. ~ Reloads(h) /\ Publish(event)
      /\ unseen' = unseen \cup {d \in event.deleted : app'[d] # 0}
      /\ unbuilt' = (unbuilt \ event.updated) \cup {d \in event.deleted : app'[d] # 0}
  BY DEF FileBatch
<1>4. event.updated \subseteq Exts  BY <1>2 DEF Present
<1> HIDE DEF event
<1>5. /\ app' = event.app
      /\ e \notin event.updated => built'[e] = IF e \in event.deleted THEN 0 ELSE built[e]
      /\ e \in event.updated \ event.deleted => Input(e) <= 0 \/ built'[e] = Input(e)
  BY <1>3, <1>4, PublishContents
<1>6. \/ app'[e] = app[e]
      \/ app'[e] = 0 /\ Contains(h, On("deleted", e))
  <2>1. CASE Last(h).kind = "deleted"
    <3>1. Last(h).ext \in Exts /\ Contains(h, On("deleted", Last(h).ext))
      BY <1>1, <2>1, LastOfBatch
    <3>2. app' = [app EXCEPT ![Last(h).ext] = 0]  BY <1>2, <1>5, <2>1
    <3>3. CASE e = Last(h).ext  BY <1>1, <3>1, <3>2, <3>3 DEF Contents
    <3>4. CASE e # Last(h).ext  BY <1>1, <3>2, <3>4 DEF Contents
    <3> QED  BY <3>3, <3>4
  <2>2. CASE Last(h).kind # "deleted"  BY <1>2, <1>5, <2>2
  <2> QED  BY <2>1, <2>2
<1>7. ~ Contains(h, On("config", e)) /\ ~ Contains(h, On("created", e))
  BY <1>1, <1>3, NoReload
<1>8. \/ app'[e] = 0 /\ toml[e] = 0
      \/ ~ Contains(h, On("deleted", e))
      \/ Reported(On("created", e))'
      \/ e \in unseen' /\ e \in unbuilt'
  <2>1. toml[e] # 0 /\ Contains(h, On("deleted", e)) => Reported(On("created", e))'
    BY <1>7, TakenOrder
  <2>2. ASSUME Contains(h, On("deleted", e)), app'[e] # 0  PROVE e \in unseen' /\ e \in unbuilt'
    <3>1. app'[e] = app[e]  BY <1>6, <2>2
    <3>2. e \in event.deleted  BY <1>2, <2>2, <3>1 DEF Named, Present
    <3> QED  BY <1>3, <2>2, <3>2
  <2> QED  BY <2>1, <2>2
<1>9. Parsed(0) = 0  BY DEF Parsed
<1>10. /\ \A kind : Reported(On(kind, e)) => Reported(On(kind, e))' \/ Contains(h, On(kind, e))
       /\ ConfigFollows(e) /\ SourceFollows(e)
  BY TakenReports DEF FlowInv
<1>11. ConfigFollows(e)'
  <2>1. CASE Contains(h, On("deleted", e))
    BY <1>1, <1>8, <1>9, <2>1 DEF ConfigFollows
  <2>2. CASE ~ Contains(h, On("deleted", e))
    <3>1. app'[e] = app[e]  BY <1>6, <2>2
    <3>2. \/ e \in unseen \/ app[e] = Parsed(toml[e])
          \/ \E kind \in {"config", "created", "deleted"} : Reported(On(kind, e))
      BY <1>10 DEF ConfigFollows
    <3>3. \A kind \in {"config", "created", "deleted"} :
              Reported(On(kind, e)) => Reported(On(kind, e))'
      BY <1>7, <1>10, <2>2
    <3> QED  BY <1>1, <1>3, <3>1, <3>2, <3>3 DEF ConfigFollows
  <2> QED  BY <2>1, <2>2
<1>12. SourceFollows(e)'
  <2>1. CASE app'[e] = 0  BY <2>1 DEF SourceFollows
  <2>2. CASE app'[e] # 0
    <3>1. app'[e] = app[e] /\ app[e] # 0  BY <1>6, <2>2
    <3>2. CASE e \in event.deleted
      <4>1. e \in unbuilt'  BY <1>3, <2>2, <3>2
      <4> QED  BY <4>1 DEF SourceFollows
    <3>3. CASE e \notin event.deleted /\ e \in event.updated
      <4>1. Input(e) <= 0 \/ built'[e] = Input(e)  BY <1>5, <3>3
      <4> QED  BY <1>1, <4>1 DEF SourceFollows
    <3>4. CASE e \notin event.deleted /\ e \notin event.updated
      <4>1. built'[e] = built[e] /\ (e \in unbuilt => e \in unbuilt')  BY <1>3, <1>5, <3>4
      <4>2. ~ Contains(h, On("source", e))  BY <1>2, <3>1, <3>4 DEF Named, Present
      <4>3. /\ Reported(On("source", e)) => Reported(On("source", e))'
            /\ Reported(On("created", e)) => Reported(On("created", e))'
        BY <1>7, <1>10, <4>2
      <4>4. SourceFollows(e)  BY <1>10
      <4> QED  BY <1>1, <3>1, <4>1, <4>3, <4>4 DEF SourceFollows
    <3> QED  BY <3>2, <3>3, <3>4
  <2> QED  BY <2>1, <2>2
<1>13. app'[e] <= edits
  <2>1. app[e] <= edits /\ 0 <= edits  BY <1>1 DEF FlowInv
  <2> QED  BY <1>6, <2>1
<1> QED  BY <1>11, <1>12, <1>13

\* A rejected batch is accounted for.
LEMMA RejectedFlow ==
    ASSUME FlowInv, NEW h, BatchTaken(h), RejectedBatch(h), phase # "dead", NEW e \in Exts
    PROVE  ConfigFollows(e)' /\ SourceFollows(e)'
<1>1. /\ UNCHANGED <<toml, app, built>> /\ Input(e)' = Input(e)
      /\ unseen' = unseen \cup Named(h, "config") \cup Named(h, "created") \cup Named(h, "deleted")
      /\ unbuilt' = unbuilt \cup Named(h, "source") \cup Named(h, "created")
  BY DEF BatchTaken, Outside, RejectedBatch
<1>2. /\ Contains(h, On("config", e)) \/ Contains(h, On("created", e))
             \/ Contains(h, On("deleted", e)) => e \in unseen'
      /\ Contains(h, On("source", e)) \/ Contains(h, On("created", e)) => e \in unbuilt'
  BY <1>1 DEF Named
<1>3. \A kind : Reported(On(kind, e)) => Reported(On(kind, e))' \/ Contains(h, On(kind, e))
  BY TakenReports
<1>4. ConfigFollows(e) /\ SourceFollows(e)  BY DEF FlowInv
<1>5. ConfigFollows(e)'
  <2>1. \/ e \in unseen \/ app[e] = Parsed(toml[e])
        \/ Reported(On("config", e)) \/ Reported(On("created", e)) \/ Reported(On("deleted", e))
    BY <1>4 DEF ConfigFollows
  <2> QED  BY <1>1, <1>2, <1>3, <2>1 DEF ConfigFollows
<1>6. SourceFollows(e)'  BY <1>1, <1>2, <1>3, <1>4 DEF SourceFollows
<1> QED  BY <1>5, <1>6

\* Whatever a batch leads to, the reports follow.
LEMMA BatchFlow ==
    ASSUME SeqTypes, FlowInv, ProcessBatch  PROVE FlowInv'
<1> DEFINE h == Head(batches)
<1>1. BatchTaken(h)  BY ProcessTakes
<1>2. ReloadBatch(h) \/ FileBatch(h) \/ RejectedBatch(h)  BY DEF ProcessBatch
<1> HIDE DEF h
<1>3. /\ UNCHANGED <<toml, edits, phase, notices, pending>>
      /\ \A k \in DOMAIN batches' : k + 1 \in DOMAIN batches /\ batches'[k] = batches[k + 1]
      /\ 1 \in DOMAIN batches
  BY <1>1 DEF BatchTaken, Outside
<1>4. phase \notin {"starting", "built"}
  <2>1. batches # <<>>  BY <1>3
  <2> QED  BY <2>1 DEF FlowInv
<1>5. \A k \in DOMAIN batches' : batches'[k] # <<>>  BY <1>3 DEF FlowInv
<1>6. \A e \in Exts : app'[e] <= edits
  <2> TAKE e \in Exts
  <2>1. CASE ReloadBatch(h)
    <3>1. ReloadEvent.app = Loaded  BY DEF ReloadEvent
    <3>2. app' = Loaded  BY <2>1, <3>1 DEF ReloadBatch, Publish
    <3> QED  BY <3>2, LoadedContents
  <2>2. CASE FileBatch(h)
    <3>1. app' = FileEvent(h).app  BY <2>2 DEF FileBatch, Publish
    <3>2. FileEvent(h).app \in {app, [app EXCEPT ![Last(h).ext] = 0]}  BY DEF FileEvent
    <3>3. app \in Contents /\ edits \in Nat  BY AppWatchAssumption DEF SeqTypes, WatchTypeOK
    <3>4. app'[e] = app[e] \/ app'[e] = 0  BY <3>1, <3>2, <3>3 DEF Contents
    <3> QED  BY <3>3, <3>4 DEF FlowInv
  <2>3. CASE RejectedBatch(h)  BY <2>3 DEF RejectedBatch, FlowInv
  <2> QED  BY <1>2, <2>1, <2>2, <2>3
<1>7. ASSUME NEW e \in Exts, phase # "dead"
      PROVE  NoticeOrder(e)' /\ ConfigFollows(e)' /\ SourceFollows(e)'
  <2>1. NoticeOrder(e)'  BY <1>1, <1>7, TakenOrder
  <2>2. ConfigFollows(e)' /\ SourceFollows(e)'
    BY <1>1, <1>2, <1>7, ReloadFlow, FileFlow, RejectedFlow
  <2> QED  BY <2>1, <2>2
<1> QED  BY <1>3, <1>4, <1>5, <1>6, <1>7 DEF FlowInv

\* What is built is a source, or was.
LEMMA BuildsTypes ==
    ASSUME SeqTypes, NEW S  PROVE Builds(S) \in Contents
<1>1. \A e \in Exts : Input(e) \in Bounded /\ built[e] \in Bounded
  BY InputNumber, BoundedContents DEF SeqTypes, WatchTypeOK
<1>2. Stub \in Bounded  BY BoundedContents DEF Stub
<1> QED  BY <1>1, <1>2, BoundedContents DEF Builds

\* What is published is an event of the app.
LEMMA PublishTypes ==
    ASSUME SeqTypes, NEW event \in AppEvent, Publish(event), Len(inbox) < InboxCap
    PROVE  /\ app' \in Contents /\ built' \in Contents /\ inbox' \in Seq(AppEvent)
           /\ echoes' \subseteq Initial /\ Len(inbox') <= InboxCap
<1>1. app' \in Contents  BY DEF Publish, AppEvent
<1>2. Builds(event.updated) \in Contents  BY BuildsTypes
<1>3. built' \in Contents
  <2>1. \A e \in Exts : Builds(event.updated)[e] \in Bounded /\ 0 \in Bounded
    BY <1>2, BoundedContents
  <2> QED  BY <2>1, BoundedContents DEF Publish
<1>4. inbox' \in Seq(AppEvent)
  <2>1. inbox \in Seq(AppEvent)  BY DEF SeqTypes
  <2>2. Append(inbox, event) \in Seq(AppEvent)  BY <2>1, AppendProperties
  <2> QED  BY <2>1, <2>2 DEF Publish
<1>5. Len(inbox') <= InboxCap
  <2>1. inbox \in Seq(AppEvent) /\ Len(inbox) \in Nat /\ InboxCap \in Nat
    BY AppWatchAssumption, LenProperties DEF SeqTypes
  <2>2. Len(Append(inbox, event)) = Len(inbox) + 1  BY <2>1, AppendProperties
  <2> QED  BY <2>1, <2>2 DEF Publish
<1>6. echoes' \subseteq Initial  BY DEF Publish, Echoing, SeqTypes, WatchTypeOK
<1> QED  BY <1>1, <1>3, <1>4, <1>5, <1>6

\* So are the events of a reload and of files.
LEMMA EventTypes ==
    ASSUME SeqTypes, FlowInv, NEW h \in Seq(WatcherEvent), h # <<>>
    PROVE  ReloadEvent \in AppEvent /\ FileEvent(h) \in AppEvent
<1>1. Loaded \in Contents /\ app \in Contents  BY LoadedContents DEF SeqTypes, WatchTypeOK
<1>2. ReloadEvent \in AppEvent
  BY <1>1 DEF ReloadEvent, AppEvent, Present, Fails
<1>3. (IF Last(h).kind = "deleted" THEN [app EXCEPT ![Last(h).ext] = 0] ELSE app) \in Contents
  BY <1>1, BoundedContents, LastOfBatch
<1>4. FileEvent(h) \in AppEvent
  BY <1>3 DEF FileEvent, AppEvent, Present, Fails, Named
<1> QED  BY <1>2, <1>4

\* A batch keeps the types.
LEMMA BatchTypes ==
    ASSUME SeqTypes, FlowInv, ProcessBatch  PROVE SeqTypes'
<1> DEFINE h == Head(batches)
<1>1. BatchTaken(h)  BY ProcessTakes
<1>2. ReloadBatch(h) \/ FileBatch(h) \/ RejectedBatch(h)  BY DEF ProcessBatch
<1> HIDE DEF h
<1>3. /\ h \in Seq(WatcherEvent) /\ h # <<>>
      /\ UNCHANGED <<toml, source, dist, appToml, edits, phase, notices, pending>>
      /\ batches' \in Seq(Seq(WatcherEvent)) /\ Len(inbox) < InboxCap
      /\ \A k \in DOMAIN batches' : k + 1 \in DOMAIN batches /\ batches'[k] = batches[k + 1]
  BY <1>1 DEF BatchTaken, Outside, ProcessBatch
<1>4. ReloadEvent \in AppEvent /\ FileEvent(h) \in AppEvent  BY <1>3, EventTypes
<1>5. \A kind : Named(h, kind) \subseteq Exts  BY DEF Named
<1>6. \A event \in AppEvent : event.updated \subseteq Exts /\ event.deleted \subseteq Exts
  BY DEF AppEvent
<1>7. /\ app' \in Contents /\ built' \in Contents /\ inbox' \in Seq(AppEvent)
      /\ listening' = listening /\ unseen' \subseteq Exts /\ unbuilt' \subseteq Exts
      /\ echoes' \subseteq Initial /\ Len(inbox') <= InboxCap
  <2>0. unseen \subseteq Exts /\ unbuilt \subseteq Exts  BY DEF SeqTypes, WatchTypeOK
  <2>1. CASE ReloadBatch(h)
    <3>1. /\ Publish(ReloadEvent) /\ unseen' = {} /\ listening' = listening
          /\ unbuilt' = (unbuilt \cup Named(h, "source")) \ ReloadEvent.updated
      BY <2>1 DEF ReloadBatch, Publish
    <3> QED  BY <1>3, <1>4, <1>5, <2>0, <3>1, PublishTypes
  <2>2. CASE FileBatch(h)
    <3>1. /\ Publish(FileEvent(h)) /\ listening' = listening
          /\ unseen' \subseteq unseen \cup FileEvent(h).deleted
          /\ unbuilt' \subseteq unbuilt \cup FileEvent(h).deleted
      BY <2>2 DEF FileBatch, Publish
    <3> QED  BY <1>3, <1>4, <1>6, <2>0, <3>1, PublishTypes
  <2>3. CASE RejectedBatch(h)
    BY <1>5, <2>0, <2>3 DEF RejectedBatch, SeqTypes, WatchTypeOK, listenVars
  <2> QED  BY <1>2, <2>1, <2>2, <2>3
<1>8. \A k \in DOMAIN batches' :
          batches'[k] # <<>> /\ batches'[k] \in Seq(WatcherEvent) /\ IsInjective(batches'[k])
  BY <1>3 DEF SeqTypes, WatchTypeOK
<1>9. \A i \in DOMAIN inbox' : inbox'[i] \in AppEvent  BY <1>7
<1> QED  BY <1>3, <1>7, <1>8, <1>9 DEF SeqTypes, WatchTypeOK

\* The initial build builds what there is.
LEMMA InitialFlow ==
    ASSUME SeqTypes, FlowInv, InitialBuild  PROVE FlowInv' /\ SeqTypes'
<1>1. /\ UNCHANGED <<toml, source, dist, appToml, edits, echoes, notices, pending, batches, app,
                     listening, inbox, unseen>>
      /\ phase = "starting" /\ phase' = "built" /\ built' = Builds(Present(app))
      /\ unbuilt' = unbuilt \ Present(app) /\ \A e \in Exts : Input(e)' = Input(e)
  BY InputStays DEF InitialBuild, diskVars, listenVars
<1>2. \A n : Reported(n)' = Reported(n)  BY <1>1 DEF Reported
<1>3. ASSUME NEW e \in Exts  PROVE NoticeOrder(e)' /\ ConfigFollows(e)' /\ SourceFollows(e)'
  <2>1. NoticeOrder(e) /\ ConfigFollows(e)  BY <1>1 DEF FlowInv
  <2>2. NoticeOrder(e)'  BY <1>1, <2>1 DEF NoticeOrder
  <2>3. ConfigFollows(e)'  BY <1>1, <1>2, <2>1 DEF ConfigFollows
  <2>4. app[e] = 0 \/ built'[e] = Input(e) \/ Input(e) <= 0
    <3>1. Input(e) \in Int  BY InputNumber
    <3> QED  BY <1>1, <3>1 DEF Builds, Present
  <2>5. SourceFollows(e)'  BY <1>1, <2>4 DEF SourceFollows
  <2> QED  BY <2>2, <2>3, <2>5
<1>4. FlowInv'  BY <1>1, <1>3 DEF FlowInv
<1>5. built' \in Contents  BY <1>1, BuildsTypes
<1>6. SeqTypes'  BY <1>1, <1>5 DEF SeqTypes, WatchTypeOK
<1> QED  BY <1>4, <1>6

\* Starting to watch, and ceasing to, change nothing else.
LEMMA PhaseFlow ==
    ASSUME SeqTypes, FlowInv, StartWatching \/ WatchError  PROVE FlowInv' /\ SeqTypes'
<1>1. /\ UNCHANGED <<toml, source, dist, appToml, edits, echoes, notices, pending, batches, app,
                     built, listening, inbox, unseen, unbuilt>>
      /\ phase # "dead" /\ phase' \in {"watching", "dead"} /\ \A e \in Exts : Input(e)' = Input(e)
  BY InputStays DEF StartWatching, WatchError, diskVars, listenVars, ghostVars
<1>2. \A n : Reported(n)' = Reported(n)  BY <1>1 DEF Reported
<1>3. ASSUME NEW e \in Exts  PROVE NoticeOrder(e)' /\ ConfigFollows(e)' /\ SourceFollows(e)'
  <2>1. NoticeOrder(e) /\ ConfigFollows(e) /\ SourceFollows(e)  BY <1>1 DEF FlowInv
  <2>2. NoticeOrder(e)'  BY <1>1, <2>1 DEF NoticeOrder
  <2>3. ConfigFollows(e)'  BY <1>1, <1>2, <2>1 DEF ConfigFollows
  <2>4. SourceFollows(e)'  BY <1>1, <1>2, <2>1 DEF SourceFollows
  <2> QED  BY <2>2, <2>3, <2>4
<1>4. FlowInv'  BY <1>1, <1>3 DEF FlowInv
<1>5. SeqTypes'  BY <1>1 DEF SeqTypes, WatchTypeOK
<1> QED  BY <1>4, <1>5

\* Every step of the watcher.
LEMMA WatchFlow ==
    ASSUME SeqTypes, FlowInv, WatchNext  PROVE FlowInv' /\ SeqTypes'
<1>1. CASE Developer  BY <1>1, DeveloperStep, EditFlow, EditTypes
<1>2. CASE Watcher
  <2>4. CASE \E e \in Exts : Echo(e)  BY <2>4, EchoStep, EditFlow, EditTypes
  <2>1. CASE TakeNotice  BY <2>1, TakeNoticeStep, MovedFlow, MovedTypes
  <2>2. CASE FlushPending  BY <2>2, FlushStep, MovedFlow, MovedTypes
  <2>3. CASE WatchError  BY <2>3, PhaseFlow
  <2> QED  BY <1>2, <2>1, <2>2, <2>3, <2>4 DEF Watcher
<1>3. CASE Pipeline
  <2>1. CASE InitialBuild  BY <2>1, InitialFlow
  <2>2. CASE StartWatching  BY <2>2, PhaseFlow
  <2>3. CASE ProcessBatch  BY <2>3, BatchFlow, BatchTypes
  <2> QED  BY <1>3, <2>1, <2>2, <2>3 DEF Pipeline
<1> QED  BY <1>1, <1>2, <1>3 DEF WatchNext

\* As the watcher starts, nothing is on its way and the app is what the disk says.
LEMMA WatchStarts ==
    ASSUME WatchInit  PROVE FlowInv /\ SeqTypes
<1>1. /\ toml = [e \in Exts |-> IF e \in Initial THEN 1 ELSE 0] /\ source = toml /\ app = toml
      /\ built = [e \in Exts |-> 0] /\ edits = 1 /\ appToml = 1 /\ phase = "starting"
      /\ notices = <<>> /\ pending = <<>> /\ batches = <<>> /\ inbox = <<>>
      /\ listening = FALSE /\ unseen = {} /\ unbuilt = Initial
      /\ dist = [e \in Exts |-> 0] /\ echoes = {}
  BY DEF WatchInit
<1>2. toml \in Contents /\ built \in Contents
  <2>1. 1 \in Bounded /\ 0 \in Bounded  BY BoundedContents
  <2> QED  BY <1>1, <2>1, BoundedContents
<1>3. edits \in 1..(MaxEdits + 1)  BY <1>1, AppWatchAssumption
<1>4. /\ <<>> \in Seq(WatcherEvent) /\ <<>> \in Seq(Seq(WatcherEvent)) /\ <<>> \in Seq(AppEvent)
      /\ DOMAIN <<>> = {}
  OBVIOUS
<1>5. IsInjective(<<>>)  BY DEF IsInjective
<1>6. SeqTypes
  <2>1. /\ source \in Contents /\ dist \in Contents /\ app \in Contents /\ appToml \in -1..1
        /\ echoes \subseteq Initial
        /\ phase \in {"starting", "built", "watching", "dead"} /\ listening \in BOOLEAN
        /\ unseen \subseteq Exts /\ unbuilt \subseteq Exts
    <3>1. 1 \in -1..1 /\ Initial \subseteq Exts  BY AppWatchAssumption
    <3> QED  BY <1>1, <1>2, <3>1
  <2>2. /\ notices \in Seq(WatcherEvent) /\ pending \in Seq(WatcherEvent)
        /\ batches \in Seq(Seq(WatcherEvent)) /\ inbox \in Seq(AppEvent)
        /\ IsInjective(pending)
    BY <1>1, <1>4, <1>5
  <2>3. /\ \A i \in DOMAIN batches : batches[i] \in Seq(WatcherEvent) /\ IsInjective(batches[i])
        /\ \A i \in DOMAIN batches : batches[i] # <<>>
        /\ \A i \in DOMAIN inbox : inbox[i] \in AppEvent
        /\ Len(inbox) <= InboxCap
    <3>1. Len(<<>>) = 0 /\ 0 <= InboxCap  BY AppWatchAssumption
    <3> QED  BY <1>1, <1>4, <3>1
  <2> QED  BY <1>2, <1>3, <2>1, <2>2, <2>3 DEF SeqTypes, WatchTypeOK
<1>7. \A e \in Exts : toml[e] <= edits /\ Parsed(toml[e]) = toml[e]  BY <1>1 DEF Parsed
<1>8. ASSUME NEW e \in Exts  PROVE NoticeOrder(e) /\ ConfigFollows(e) /\ SourceFollows(e)
  <2>1. NoticeOrder(e)  BY <1>1, <1>4, ContainsEmpty DEF NoticeOrder, Followed
  <2>2. ConfigFollows(e)  BY <1>1, <1>7 DEF ConfigFollows
  <2>3. app[e] = 0 \/ e \in unbuilt  BY <1>1
  <2>4. SourceFollows(e)  BY <2>3 DEF SourceFollows
  <2> QED  BY <2>1, <2>2, <2>4
<1>9. FlowInv  BY <1>1, <1>4, <1>7, <1>8 DEF FlowInv
<1> QED  BY <1>6, <1>9

\* With nothing on its way, the bundle is what the disk says.
LEMMA FlowEnds ==
    ASSUME SeqTypes, FlowInv  PROVE BundleFollowsDisk
<1> SUFFICES ASSUME Quiet
             PROVE  /\ \A e \in Exts \ unseen : app[e] = Parsed(toml[e])
                    /\ \A e \in Present(app) \ unbuilt : Input(e) > 0 => built[e] = Input(e)
  BY DEF BundleFollowsDisk
<1>1. \A n : ~ Reported(n)
  <2>1. DOMAIN <<>> = {}  OBVIOUS
  <2> QED  BY <2>1, ContainsEmpty DEF Quiet, Reported
<1>2. \A e \in Exts : ConfigFollows(e) /\ SourceFollows(e)  BY DEF Quiet, FlowInv
<1>3. \A e \in Exts \ unseen : app[e] = Parsed(toml[e])  BY <1>1, <1>2 DEF ConfigFollows
<1>4. ASSUME NEW e \in Present(app) \ unbuilt, Input(e) > 0  PROVE built[e] = Input(e)
  <2>1. e \in Exts /\ app[e] # 0  BY DEF Present
  <2>2. ~ (Input(e) <= 0)
    <3>1. Input(e) \in Int  BY <2>1, InputNumber
    <3> QED  BY <1>4, <3>1
  <2> QED  BY <1>1, <1>2, <2>1, <2>2 DEF SourceFollows
<1> QED  BY <1>3, <1>4

-----------------------------------------------------------------------------
(* The dev session process *)

\* What the process keeps.
SessionTypes ==
    /\ cancelled \in BOOLEAN
    /\ session \in {"creating", "listening", "updating", "deleting", "done"}
    /\ current \in AppEvent
    /\ live \in BOOLEAN /\ modules \in Contents /\ ((\E e \in Exts : modules[e] # 0) => live)
    /\ status \in {"loading", "ready", "error"}
    /\ said \in {"nothing", "preview available", "stopped"}
    /\ faults \in 0..MaxFaults
    /\ unsent \subseteq Exts
    /\ session = "creating" => ~live

\* No event and no modules are among those the process may keep.
LEMMA NothingTypes ==
    NoEvent \in AppEvent /\ [e \in Exts |-> 0] \in Contents
<1>1. [e \in Exts |-> 0] \in Contents  BY BoundedContents
<1> QED  BY <1>1 DEF NoEvent, AppEvent

\* A request keeps count of the faults.
LEMMA AnswerTypes ==
    ASSUME faults \in 0..MaxFaults, NEW applied \in BOOLEAN, NEW good \in BOOLEAN,
           Answer(applied, good)
    PROVE  faults' \in 0..MaxFaults /\ (faults' = faults => applied)
BY AppDevSessionAssumption DEF Answer

\* A session that starts has the modules of the app.
LEMMA ModulesTypes ==
    ASSUME SeqTypes, SessionTypes
    PROVE  /\ [e \in Exts |-> IF app[e] # 0 THEN built[e] ELSE 0] \in Contents
           /\ [e \in Exts |-> IF current.app[e] = 0 THEN 0
                              ELSE IF e \in Inherited(current) THEN modules[e]
                              ELSE built[e]] \in Contents
<1>1. built \in Contents /\ modules \in Contents
  BY DEF SeqTypes, WatchTypeOK, SessionTypes
<1>2. \A e \in Exts : built[e] \in Bounded /\ modules[e] \in Bounded /\ 0 \in Bounded
  BY <1>1, BoundedContents
<1> QED  BY <1>2, BoundedContents

\* What a request with an answer, or without, leaves.
LEMMA ReplyTypes ==
    ASSUME SeqTypes, SessionTypes, Replies  PROVE SessionTypes'
<1>1. ASSUME NEW applied \in BOOLEAN, NEW good \in BOOLEAN, Created(applied, good)
      PROVE  SessionTypes'
  <2>1. /\ live' = applied /\ live = FALSE
        /\ modules' = IF applied THEN [e \in Exts |-> IF app[e] # 0 THEN built[e] ELSE 0]
                      ELSE modules
        /\ status' \in {"loading", "ready", "error"}
        /\ session' = "listening" /\ unsent' \subseteq Exts
        /\ UNCHANGED <<cancelled, current, said>> /\ Answer(applied, good)
    BY <1>1 DEF Created, SessionTypes
  <2>2. modules' \in Contents /\ ((\E e \in Exts : modules'[e] # 0) => live')
    BY <2>1, ModulesTypes DEF SessionTypes
  <2>4. faults' \in 0..MaxFaults  BY <2>1, AnswerTypes DEF SessionTypes
  <2> QED  BY <2>1, <2>2, <2>4 DEF SessionTypes
<1>2. ASSUME NEW applied \in BOOLEAN, NEW good \in BOOLEAN, UpdateEnds(applied, good),
             applied => live, faults' \in 0..MaxFaults
      PROVE  SessionTypes'
  <2>1. /\ modules' = IF ~applied THEN modules
                      ELSE [e \in Exts |-> IF current.app[e] = 0 THEN 0
                                           ELSE IF e \in Inherited(current) THEN modules[e]
                                           ELSE built[e]]
        /\ status' \in {"loading", "ready", "error"}
        /\ session' = "listening" /\ current' = NoEvent
        /\ unsent' = IF applied THEN unsent \ (Changed(current) \cup (Exts \ Present(current.app)))
                     ELSE unsent \cup Changed(current)
        /\ UNCHANGED <<cancelled, live, said>>
    BY <1>2 DEF UpdateEnds
  <2>2. modules' \in Contents  BY <2>1, ModulesTypes DEF SessionTypes
  <2>3. (\E e \in Exts : modules'[e] # 0) => live'  BY <1>2, <2>1 DEF SessionTypes
  <2>4. current' \in AppEvent  BY <2>1, NothingTypes
  <2>6. unsent' \subseteq Exts  BY <2>1 DEF SessionTypes, AppEvent, Changed
  <2> QED  BY <1>2, <2>1, <2>2, <2>3, <2>4, <2>6 DEF SessionTypes
<1>5. ASSUME NEW applied \in BOOLEAN, NEW good \in BOOLEAN, Updated(applied, good)
      PROVE  SessionTypes'
  <2>1. faults' \in 0..MaxFaults  BY <1>5, AnswerTypes DEF SessionTypes, Updated
  <2> QED  BY <1>2, <1>5, <2>1 DEF Updated
<1>3. ASSUME NEW applied \in BOOLEAN, NEW good \in BOOLEAN, Deleted(applied, good)
      PROVE  SessionTypes'
  <2>1. /\ live' = (live /\ ~applied)
        /\ modules' = IF applied THEN [e \in Exts |-> 0] ELSE modules
        /\ session' = "done" /\ Answer(applied, good)
        /\ UNCHANGED <<cancelled, current, status, said, unsent>>
    BY <1>3 DEF Deleted
  <2>2. modules' \in Contents /\ ((\E e \in Exts : modules'[e] # 0) => live')
    BY <2>1, NothingTypes DEF SessionTypes
  <2>3. faults' \in 0..MaxFaults  BY <2>1, AnswerTypes DEF SessionTypes
  <2> QED  BY <2>1, <2>2, <2>3 DEF SessionTypes
<1>4. ASSUME Refused  PROVE SessionTypes'
  <2>1. faults' \in 0..MaxFaults /\ FALSE \in BOOLEAN  BY <1>4 DEF Refused, SessionTypes
  <2> QED  BY <1>2, <1>4, <2>1 DEF Refused
<1> QED  BY <1>1, <1>3, <1>4, <1>5 DEF Replies

\* Every step keeps the types.
LEMMA SessionTypesStep ==
    ASSUME SeqTypes, SessionTypes, DevNext  PROVE SessionTypes'
<1>1. CASE Watching(Developer) \/ Watching(Watcher) \/ Watching(Pipeline)
  <2>1. unsent' \subseteq Exts /\ UNCHANGED <<cancelled, session, current, live, modules, faults,
                                              status, said>>
    BY <1>1 DEF Watching, SessionTypes, sessionVars, platformVars
  <2> QED  BY <2>1 DEF SessionTypes
<1>2. CASE Replies  BY <1>2, ReplyTypes
<1>3. CASE Process
  <2>1. ASSUME TakeEvent  PROVE SessionTypes'
    <3>1. inbox \in Seq(AppEvent) /\ inbox # <<>>  BY <2>1 DEF TakeEvent, SeqTypes
    <3>2. Head(inbox) \in AppEvent  BY <3>1, HeadTailProperties
    <3> QED  BY <2>1, <3>2 DEF TakeEvent, SessionTypes, platformVars
  <2>2. CASE StopListening
    BY <2>2 DEF StopListening, SessionTypes, platformVars
  <2>3. CASE SayGoodbye
    BY <2>3 DEF SayGoodbye, SessionTypes, platformVars, sessionVars
  <2> QED  BY <1>3, <2>1, <2>2, <2>3 DEF Process
<1>4. CASE CtrlC
  BY <1>4 DEF CtrlC, SessionTypes, platformVars, sessionVars
<1> QED  BY <1>1, <1>2, <1>3, <1>4 DEF DevNext

\* A step of the dev session process leaves the watcher, but for the event it takes.
LEMMA ProcessLeavesWatcher ==
    ASSUME SeqTypes, Replies \/ Process \/ CtrlC
    PROVE  /\ UNCHANGED <<Outside, echoes, batches, app, built, unseen, unbuilt>>
           /\ listening' \in BOOLEAN
           /\ inbox' # inbox => inbox # <<>> /\ inbox' = Tail(inbox)
<1>1. listening \in BOOLEAN  BY DEF SeqTypes, WatchTypeOK
<1>2. ASSUME NEW applied, NEW good,
             Created(applied, good) \/ Updated(applied, good) \/ Deleted(applied, good)
      PROVE  /\ UNCHANGED <<Outside, echoes, batches, app, built, unseen, unbuilt>>
             /\ listening' \in BOOLEAN /\ inbox' = inbox
  BY <1>1, <1>2 DEF Outside, Created, Updated, UpdateEnds, Deleted, watchVars, diskVars, threadVars, ghostVars, listenVars
<1>3. CASE Replies
  BY <1>1, <1>2, <1>3 DEF Outside, Replies, Refused, UpdateEnds, watchVars, diskVars, threadVars, ghostVars, listenVars
<1>4. CASE Process
  BY <1>1, <1>4 DEF Outside, Process, TakeEvent, StopListening, SayGoodbye, watchVars, diskVars, threadVars,
        ghostVars, listenVars
<1>5. CASE CtrlC
  BY <1>1, <1>5 DEF Outside, CtrlC, watchVars, diskVars, threadVars, ghostVars, listenVars
<1> QED  BY <1>3, <1>4, <1>5

\* So the reports follow every step.
LEMMA DevFlow ==
    ASSUME SeqTypes, FlowInv, DevNext  PROVE SeqTypes' /\ FlowInv'
<1>1. CASE Watching(Developer) \/ Watching(Watcher) \/ Watching(Pipeline)
  BY <1>1, WatchFlow DEF Watching, WatchNext
<1>2. CASE Replies \/ Process \/ CtrlC
  <2>1. /\ UNCHANGED <<Outside, echoes, batches, app, built, unseen, unbuilt>>
        /\ listening' \in BOOLEAN
        /\ inbox' # inbox => inbox # <<>> /\ inbox' = Tail(inbox)
    BY <1>2, ProcessLeavesWatcher
  <2>2. inbox \in Seq(AppEvent)  BY DEF SeqTypes
  <2>3. inbox # <<>> => Tail(inbox) \in Seq(AppEvent)  BY <2>2, HeadTailProperties
  <2>9. inbox # <<>> => Len(Tail(inbox)) <= Len(inbox)  BY <2>2, TailOf
  <2>4. inbox' \in Seq(AppEvent) /\ Len(inbox') <= InboxCap
    <3>1. Len(inbox) <= InboxCap /\ Len(inbox) \in Nat /\ InboxCap \in Nat
      BY <2>2, AppWatchAssumption, LenProperties DEF SeqTypes, WatchTypeOK
    <3>2. inbox # <<>> => Len(Tail(inbox)) \in Nat  BY <2>3, LenProperties
    <3> QED  BY <2>1, <2>2, <2>3, <2>9, <3>1, <3>2
  <2>5. SeqTypes'  BY <2>1, <2>4 DEF SeqTypes, WatchTypeOK, Outside
  <2>6. \A n : Reported(n)' = Reported(n)  BY <2>1 DEF Reported, Outside
  <2>10. \A e \in Exts : Input(e)' = Input(e)  BY <2>1, InputStays DEF Outside
  <2>7. \A e \in Exts : /\ NoticeOrder(e)' = NoticeOrder(e)
                        /\ ConfigFollows(e)' = ConfigFollows(e)
                        /\ SourceFollows(e)' = SourceFollows(e)
    BY <2>1, <2>6, <2>10 DEF NoticeOrder, ConfigFollows, SourceFollows, Outside
  <2>8. FlowInv'  BY <2>1, <2>7 DEF FlowInv, Outside
  <2> QED  BY <2>5, <2>8
<1> QED  BY <1>1, <1>2 DEF DevNext

-----------------------------------------------------------------------------
(* The events follow the app *)

\* SessionInv without the types, one extension at a time.
SessionFollows(e) ==
    \/ Announced(e)
    \/ /\ \A i \in Slots : AppAt(i, e)
       /\ e \in unsent \/ modules[e] = IF app[e] # 0 THEN built[e] ELSE 0

\* Slots are numbered from 0.
LEMMA SlotNumbers ==
    ASSUME SeqTypes
    PROVE  /\ Slots \subseteq Nat /\ inbox \in Seq(AppEvent)
           /\ Len(inbox) \in Nat /\ DOMAIN inbox = 1..Len(inbox) /\ 0 \notin DOMAIN inbox
<1>1. inbox \in Seq(AppEvent) /\ Len(inbox) \in Nat /\ DOMAIN inbox = 1..Len(inbox)
  BY LenProperties DEF SeqTypes
<1>2. 0 \notin 1..Len(inbox) /\ 1..Len(inbox) \subseteq Nat  BY <1>1
<1> QED  BY <1>1, <1>2 DEF Slots

\* A published event says of every extension it does not name that nothing changed.
PublishesAll(event) ==
    /\ listening /\ inbox' = Append(inbox, event) /\ event \in AppEvent
    /\ app' = event.app
    /\ \A e \in Exts \ Changed(event) : built'[e] = built[e] /\ (app'[e] = 0 <=> app[e] = 0)

\* What a step of the watcher does to the listeners.
LEMMA WatcherPublishes ==
    ASSUME SeqTypes, FlowInv, WatchNext, listening
    PROVE  \/ inbox' = inbox /\ app' = app
           \/ \E event : PublishesAll(event)
<1>1. CASE Developer
  BY <1>1, DeveloperStep DEF EditStep
<1>2. CASE Watcher \/ InitialBuild \/ StartWatching
  BY <1>2 DEF Watcher, Echo, TakeNotice, FlushPending, WatchError, InitialBuild, StartWatching,
        listenVars
<1>3. CASE ProcessBatch
  <2> DEFINE h == Head(batches)
  <2>1. h \in Seq(WatcherEvent) /\ h # <<>>  BY <1>3, ProcessTakes DEF BatchTaken
  <2>2. ReloadEvent \in AppEvent /\ FileEvent(h) \in AppEvent  BY <2>1, EventTypes
  <2>3. ReloadBatch(h) \/ FileBatch(h) \/ RejectedBatch(h)  BY <1>3 DEF ProcessBatch
  <2> HIDE DEF h
  <2>4. ASSUME NEW event \in AppEvent, Publish(event)
        PROVE  /\ inbox' = Append(inbox, event) /\ app' = event.app
               /\ \A e \in Exts \ Changed(event) : built'[e] = built[e]
    BY <2>4, PublishContents DEF Publish, AppEvent, Changed
  <2>5. CASE ReloadBatch(h)
    <3>1. Publish(ReloadEvent) /\ ReloadEvent.app = Loaded
          /\ ReloadEvent.deleted = Present(app) \ Present(Loaded)
          /\ ReloadEvent.updated = {d \in Present(Loaded) : app[d] # Loaded[d]}
      BY <2>5 DEF ReloadBatch, ReloadEvent
    <3>2. \A e \in Exts \ Changed(ReloadEvent) : Loaded[e] = 0 <=> app[e] = 0
      BY <3>1 DEF Changed, Present
    <3> QED  BY <2>2, <2>4, <3>1, <3>2 DEF PublishesAll
  <2>6. CASE FileBatch(h)
    <3>1. /\ Publish(FileEvent(h))
          /\ FileEvent(h).app = IF Last(h).kind = "deleted"
                                THEN [app EXCEPT ![Last(h).ext] = 0] ELSE app
          /\ FileEvent(h).deleted = Named(h, "deleted") \cap Present(app)
      BY <2>6 DEF FileBatch, FileEvent
    <3>2. ASSUME NEW e \in Exts \ Changed(FileEvent(h))
          PROVE  FileEvent(h).app[e] = 0 <=> app[e] = 0
      <4>1. app \in Contents  BY DEF SeqTypes, WatchTypeOK
      <4>2. CASE Last(h).kind = "deleted"
        <5>1. Last(h).ext \in Exts /\ Contains(h, On("deleted", Last(h).ext))
          BY <2>1, <4>2, LastOfBatch
        <5>2. FileEvent(h).app = [app EXCEPT ![Last(h).ext] = 0]  BY <3>1, <4>2
        <5>3. CASE e = Last(h).ext
          <6>1. app[e] = 0  BY <3>1, <5>1, <5>3 DEF Changed, Named, Present
          <6> QED  BY <4>1, <5>2, <5>3, <6>1 DEF Contents
        <5>4. CASE e # Last(h).ext  BY <4>1, <5>2, <5>4 DEF Contents
        <5> QED  BY <5>3, <5>4
      <4>3. CASE Last(h).kind # "deleted"  BY <3>1, <4>3
      <4> QED  BY <4>2, <4>3
    <3> QED  BY <2>2, <2>4, <3>1, <3>2 DEF PublishesAll
  <2>7. CASE RejectedBatch(h)  BY <2>7 DEF RejectedBatch, listenVars
  <2> QED  BY <2>3, <2>5, <2>6, <2>7
<1> QED  BY <1>1, <1>2, <1>3 DEF WatchNext, Pipeline

\* An event in the inbox announces what it changes; what it leaves stays announced.
LEMMA PublishedFollows ==
    ASSUME SeqTypes, SessionTypes, NEW event, PublishesAll(event),
           UNCHANGED <<session, current, modules>>, unsent \subseteq unsent',
           NEW e \in Exts, SessionFollows(e)
    PROVE  SessionFollows(e)'
<1>0. PICK last : last = Len(inbox) + 1  OBVIOUS
<1>1. /\ Slots \subseteq Nat /\ inbox \in Seq(AppEvent)
      /\ Len(inbox) \in Nat /\ DOMAIN inbox = 1..Len(inbox) /\ 0 \notin DOMAIN inbox
  BY SlotNumbers
<1>2. /\ inbox' \in Seq(AppEvent) /\ DOMAIN inbox' = 1..last
      /\ \A i \in 1..Len(inbox) : inbox'[i] = inbox[i]
      /\ inbox'[last] = event
  BY <1>0, <1>1, AppendProperties, LenProperties DEF PublishesAll
<1>3. last \in Nat /\ last # 0 /\ 1..last = 1..Len(inbox) \cup {last}
      /\ \A i \in Slots : i < last
  <2>1. \A i \in Slots : i = 0 \/ i \in 1..Len(inbox)  BY <1>1 DEF Slots
  <2> QED  BY <1>0, <1>1, <2>1
<1>4. Slots' = Slots \cup {last}
  BY <1>1, <1>2, <1>3 DEF Slots
<1>5. \A i \in Slots : EventAt(i)' = EventAt(i)
  <2>1. \A i \in Slots : i = 0 \/ i \in 1..Len(inbox)  BY <1>1 DEF Slots
  <2> QED  BY <1>1, <1>2, <2>1 DEF EventAt
<1>6. EventAt(last)' = event  BY <1>2, <1>3 DEF EventAt
<1>7. AppAt(last, e)'  BY <1>6 DEF AppAt, PublishesAll
<1>8. CASE e \in Changed(event)
  <2>1. e \in Changed(EventAt(last)')  BY <1>6, <1>8
  <2>2. \A j \in Slots' : j >= last => j = last  BY <1>1, <1>3, <1>4
  <2>3. Announced(e)'  BY <1>4, <1>7, <2>1, <2>2 DEF Announced
  <2> QED  BY <2>3 DEF SessionFollows
<1>9. CASE e \notin Changed(event)
  <2>1. built'[e] = built[e] /\ (app'[e] = 0 <=> app[e] = 0)  BY <1>9 DEF PublishesAll
  <2>2. \A i \in Slots : AppAt(i, e) => AppAt(i, e)'  BY <1>5, <2>1 DEF AppAt
  <2>3. CASE Announced(e)
    <3>1. PICK i \in Slots : /\ e \in Changed(EventAt(i))
                             /\ \A j \in Slots : j >= i => AppAt(j, e)
      BY <2>3 DEF Announced
    <3>2. e \in Changed(EventAt(i)')  BY <1>5, <3>1
    <3>3. \A j \in Slots' : j >= i => AppAt(j, e)'  BY <1>4, <1>7, <2>2, <3>1
    <3>4. Announced(e)'  BY <1>4, <3>2, <3>3 DEF Announced
    <3> QED  BY <3>4 DEF SessionFollows
  <2>4. CASE ~ Announced(e)
    <3>1. /\ \A i \in Slots : AppAt(i, e)
          /\ e \in unsent \/ modules[e] = IF app[e] # 0 THEN built[e] ELSE 0
      BY <2>4 DEF SessionFollows
    <3>2. \A i \in Slots' : AppAt(i, e)'  BY <1>4, <1>7, <2>2, <3>1
    <3> QED  BY <2>1, <3>1, <3>2 DEF SessionFollows
  <2> QED  BY <2>3, <2>4
<1> QED  BY <1>8, <1>9

\* A step of the watcher.
LEMMA WatchingFollows ==
    ASSUME SeqTypes, FlowInv, SessionTypes, SessionInv, session \in {"listening", "updating"},
           WatchNext, UNCHANGED <<session, current, modules>>,
           unsent' = IF inbox' # inbox THEN unsent
                     ELSE unsent \cup {e \in Exts : app'[e] # app[e] \/ built'[e] # built[e]},
           NEW e \in Exts
    PROVE  SessionFollows(e)'
<1>1. listening /\ SessionFollows(e)  BY DEF SessionInv, SessionFollows
<1>2. CASE inbox' = inbox /\ app' = app
  <2>1. Slots' = Slots  BY <1>2 DEF Slots
  <2>2. \A i : EventAt(i)' = EventAt(i)  BY <1>2 DEF EventAt
  <2>3. \A i : AppAt(i, e)' = AppAt(i, e)  BY <1>2, <2>2 DEF AppAt
  <2>4. Announced(e) => Announced(e)'  BY <2>1, <2>2, <2>3 DEF Announced
  <2>5. e \in unsent' \/ built'[e] = built[e]  BY <1>2
  <2>6. e \in unsent => e \in unsent'  BY <1>2
  <2> QED  BY <1>1, <1>2, <2>1, <2>3, <2>4, <2>5, <2>6 DEF SessionFollows
<1>3. CASE \E event : PublishesAll(event)
  <2>1. unsent \subseteq unsent'  OBVIOUS
  <2> QED  BY <1>1, <1>3, <2>1, PublishedFollows
<1> QED  BY <1>1, <1>2, <1>3, WatcherPublishes

\* The process takes the first event: the others move up.
LEMMA TakeEventFollows ==
    ASSUME SeqTypes, TakeEvent, NEW e \in Exts, SessionFollows(e)
    PROVE  SessionFollows(e)'
<1>1. /\ session = "listening" /\ inbox # <<>> /\ current' = Head(inbox) /\ inbox' = Tail(inbox)
      /\ session' = "updating" /\ UNCHANGED <<app, built, modules, unsent>>
  BY DEF TakeEvent, platformVars
<1>2. inbox \in Seq(AppEvent) /\ Slots = DOMAIN inbox  BY <1>1 DEF SeqTypes, Slots
<1>3. /\ Head(inbox) = inbox[1] /\ 1 \in DOMAIN inbox
      /\ Len(inbox) \in Nat /\ DOMAIN inbox = 1..Len(inbox)
      /\ DOMAIN Tail(inbox) = 1..(Len(inbox) - 1)
      /\ \A i \in 1..(Len(inbox) - 1) : i + 1 \in DOMAIN inbox /\ Tail(inbox)[i] = inbox[i + 1]
  BY <1>1, <1>2, TailOf
<1>4. /\ Slots' = 0..(Len(inbox) - 1)
      /\ \A i \in Slots' : i + 1 \in Slots
      /\ \A i \in Slots : i - 1 \in Slots' /\ (i - 1) + 1 = i
  BY <1>1, <1>2, <1>3 DEF Slots
<1>5. \A i \in Slots' : EventAt(i)' = EventAt(i + 1)
  <2> TAKE i \in Slots'
  <2>1. i \in 0..(Len(inbox) - 1)  BY <1>4
  <2>2. CASE i = 0  BY <1>1, <1>3, <2>2 DEF EventAt
  <2>3. CASE i # 0
    <3>1. i \in 1..(Len(inbox) - 1) /\ i + 1 # 0  BY <1>3, <2>1, <2>3
    <3> QED  BY <1>1, <1>3, <2>3, <3>1 DEF EventAt
  <2> QED  BY <2>2, <2>3
<1>6. \A i \in Slots' : AppAt(i + 1, e) => AppAt(i, e)'  BY <1>1, <1>5 DEF AppAt
<1>7. CASE Announced(e)
  <2>1. PICK i \in Slots : /\ e \in Changed(EventAt(i))
                           /\ \A j \in Slots : j >= i => AppAt(j, e)
    BY <1>7 DEF Announced
  <2>2. PICK k \in Slots' : k + 1 = i  BY <1>4
  <2>3. e \in Changed(EventAt(k)')  BY <1>5, <2>1, <2>2
  <2>4. ASSUME NEW j \in Slots', j >= k  PROVE AppAt(j, e)'
    <3>1. j + 1 \in Slots  BY <1>4
    <3>2. j + 1 >= i  BY <1>3, <1>4, <2>2, <2>4
    <3> QED  BY <1>6, <2>1, <3>1, <3>2
  <2>5. Announced(e)'  BY <2>3, <2>4 DEF Announced
  <2> QED  BY <2>5 DEF SessionFollows
<1>8. CASE ~ Announced(e)
  <2>1. /\ \A i \in Slots : AppAt(i, e)
        /\ e \in unsent \/ modules[e] = IF app[e] # 0 THEN built[e] ELSE 0
    BY <1>8 DEF SessionFollows
  <2>2. \A i \in Slots' : AppAt(i, e)'  BY <1>4, <1>6, <2>1
  <2> QED  BY <1>1, <2>1, <2>2 DEF SessionFollows
<1> QED  BY <1>7, <1>8

\* The process is done with the event it sent.
LEMMA SentFollows ==
    ASSUME SeqTypes, session = "updating", session' = "listening",
           UNCHANGED <<inbox, app, built>>,
           NEW e \in Exts, SessionFollows(e),
           \* what the platform has of e now
           AppAt(0, e) /\ e \in Changed(current) =>
               e \in unsent' \/ modules'[e] = IF app[e] # 0 THEN built[e] ELSE 0,
           AppAt(0, e) /\ (e \in unsent \/ modules[e] = IF app[e] # 0 THEN built[e] ELSE 0) =>
               e \in unsent' \/ modules'[e] = IF app[e] # 0 THEN built[e] ELSE 0
    PROVE  SessionFollows(e)'
<1>1. /\ Slots \subseteq Nat /\ Slots = {0} \cup DOMAIN inbox /\ Slots' = DOMAIN inbox
      /\ 0 \notin DOMAIN inbox
  BY SlotNumbers DEF Slots
<1>2. \A i \in Slots' : EventAt(i)' = EventAt(i)  BY <1>1 DEF EventAt
<1>3. EventAt(0) = current  BY DEF EventAt
<1>4. \A i \in Slots' : AppAt(i, e)' = AppAt(i, e)  BY <1>2 DEF AppAt
<1>5. CASE Announced(e)
  <2>1. PICK i \in Slots : /\ e \in Changed(EventAt(i))
                           /\ \A j \in Slots : j >= i => AppAt(j, e)
    BY <1>5 DEF Announced
  <2>2. CASE i = 0
    <3>1. \A j \in Slots : AppAt(j, e)  BY <1>1, <2>1, <2>2
    <3>2. e \in unsent' \/ modules'[e] = IF app[e] # 0 THEN built[e] ELSE 0
      BY <1>1, <1>3, <2>1, <2>2, <3>1
    <3>3. \A j \in Slots' : AppAt(j, e)'  BY <1>1, <1>4, <3>1
    <3> QED  BY <3>2, <3>3 DEF SessionFollows
  <2>3. CASE i # 0
    <3>1. i \in Slots'  BY <1>1, <2>3
    <3>2. e \in Changed(EventAt(i)')  BY <1>2, <2>1, <3>1
    <3>3. \A j \in Slots' : j >= i => AppAt(j, e)'  BY <1>1, <1>4, <2>1
    <3>4. Announced(e)'  BY <3>1, <3>2, <3>3 DEF Announced
    <3> QED  BY <3>4 DEF SessionFollows
  <2> QED  BY <2>2, <2>3
<1>6. CASE ~ Announced(e)
  <2>1. /\ \A i \in Slots : AppAt(i, e)
        /\ e \in unsent \/ modules[e] = IF app[e] # 0 THEN built[e] ELSE 0
    BY <1>6 DEF SessionFollows
  <2>2. e \in unsent' \/ modules'[e] = IF app[e] # 0 THEN built[e] ELSE 0  BY <1>1, <2>1
  <2>3. \A i \in Slots' : AppAt(i, e)'  BY <1>1, <1>4, <2>1
  <2> QED  BY <2>2, <2>3 DEF SessionFollows
<1> QED  BY <1>5, <1>6

\* An update brings what changed and inherits the rest; one that fails is remembered.
LEMMA UpdateFollows ==
    ASSUME SeqTypes, SessionTypes, NEW applied \in BOOLEAN, NEW good \in BOOLEAN,
           UpdateEnds(applied, good), NEW e \in Exts, SessionFollows(e)
    PROVE  SessionFollows(e)'
<1>1. /\ session = "updating" /\ session' = "listening" /\ UNCHANGED <<inbox, app, built>>
  BY DEF UpdateEnds, watchVars, listenVars
<1>2. AppAt(0, e) <=> (current.app[e] = 0 <=> app[e] = 0)  BY DEF AppAt, EventAt
<1>3. CASE modules' = modules /\ unsent' = unsent \cup Changed(current)
  BY <1>1, <1>3, SentFollows
<1>4. CASE /\ modules' = [d \in Exts |-> IF current.app[d] = 0 THEN 0
                                         ELSE IF d \in Inherited(current) THEN modules[d]
                                         ELSE built[d]]
           /\ unsent' = unsent \ (Changed(current) \cup (Exts \ Present(current.app)))
  <2>1. e \in Inherited(current) <=> current.app[e] # 0 /\ e \notin Changed(current)
    BY DEF Inherited, Present
  <2>2. modules'[e] = IF current.app[e] = 0 THEN 0
                      ELSE IF e \in Changed(current) THEN built[e] ELSE modules[e]
    BY <1>4, <2>1
  <2>3. e \in unsent /\ current.app[e] # 0 /\ e \notin Changed(current) => e \in unsent'
    BY <1>4 DEF Present
  <2>4. AppAt(0, e) /\ e \in Changed(current) =>
            modules'[e] = IF app[e] # 0 THEN built[e] ELSE 0
    BY <1>2, <2>2
  <2>5. AppAt(0, e) /\ (e \in unsent \/ modules[e] = IF app[e] # 0 THEN built[e] ELSE 0) =>
            e \in unsent' \/ modules'[e] = IF app[e] # 0 THEN built[e] ELSE 0
    BY <1>2, <2>2, <2>3
  <2> QED  BY <1>1, <2>4, <2>5, SentFollows
<1> QED  BY <1>3, <1>4 DEF UpdateEnds

\* The dev session process starts to listen with what the app holds.
LEMMA CreateFollows ==
    ASSUME SeqTypes, SessionInv, NEW applied \in BOOLEAN, NEW good \in BOOLEAN,
           Created(applied, good), NEW e \in Exts
    PROVE  SessionFollows(e)'
<1>1. /\ inbox = <<>> /\ session' = "listening" /\ UNCHANGED <<inbox, app, built>>
      /\ modules' = IF applied THEN [d \in Exts |-> IF app[d] # 0 THEN built[d] ELSE 0] ELSE modules
      /\ unsent' = IF applied THEN {} ELSE Exts
  BY DEF Created, SessionInv
<1>2. Slots' = {}
  <2>1. DOMAIN <<>> = {}  OBVIOUS
  <2> QED  BY <1>1, <2>1 DEF Slots
<1>3. e \in unsent' \/ modules'[e] = IF app[e] # 0 THEN built[e] ELSE 0  BY <1>1
<1> QED  BY <1>1, <1>2, <1>3 DEF SessionFollows

\* Every step.
LEMMA SessionStep ==
    ASSUME SeqTypes, FlowInv, SessionTypes, SessionInv, DevNext  PROVE SessionInv'
<1>1. /\ inbox \in Seq(AppEvent) /\ (listening <=> session # "creating")
      /\ ~listening => inbox = <<>>
      /\ session \in {"listening", "updating"} => \A e \in Exts : SessionFollows(e)
  BY DEF SessionInv, SessionFollows
<1>2. inbox' \in Seq(AppEvent)  BY DevFlow DEF SeqTypes
<1> SUFFICES /\ listening' <=> session' # "creating"
             /\ ~listening' => inbox' = <<>>
             /\ session' \in {"listening", "updating"} => \A e \in Exts : SessionFollows(e)'
  BY <1>2 DEF SessionInv, SessionFollows
<1>3. CASE Watching(Developer) \/ Watching(Watcher) \/ Watching(Pipeline)
  <2>1. /\ WatchNext /\ UNCHANGED <<session, current, modules>>
        /\ unsent' = IF inbox' # inbox THEN unsent
                     ELSE unsent \cup {e \in Exts : app'[e] # app[e] \/ built'[e] # built[e]}
    BY <1>3 DEF Watching, WatchNext, sessionVars, platformVars
  <2>2. listening' = listening /\ (~listening => inbox' = inbox)
    <3>1. CASE Developer  BY <3>1, DeveloperStep DEF EditStep
    <3>2. CASE Watcher \/ InitialBuild \/ StartWatching
      BY <3>2 DEF Watcher, Echo, TakeNotice, FlushPending, WatchError, InitialBuild, StartWatching,
            listenVars
    <3>3. CASE ProcessBatch
      BY <3>3 DEF ProcessBatch, ReloadBatch, FileBatch, RejectedBatch, Publish, listenVars
    <3> QED  BY <2>1, <3>1, <3>2, <3>3 DEF WatchNext, Pipeline
  <2> QED  BY <1>1, <2>1, <2>2, WatchingFollows
<1>4. ASSUME NEW applied \in BOOLEAN, NEW good \in BOOLEAN, Created(applied, good)
      PROVE  /\ listening' <=> session' # "creating"
             /\ ~listening' => inbox' = <<>>
             /\ session' \in {"listening", "updating"} => \A e \in Exts : SessionFollows(e)'
  <2>1. listening' /\ session' = "listening"  BY <1>4 DEF Created
  <2> QED  BY <1>4, <2>1, CreateFollows
<1>5. ASSUME NEW applied \in BOOLEAN, NEW good \in BOOLEAN, UpdateEnds(applied, good)
      PROVE  /\ listening' <=> session' # "creating"
             /\ ~listening' => inbox' = <<>>
             /\ session' \in {"listening", "updating"} => \A e \in Exts : SessionFollows(e)'
  <2>1. session = "updating" /\ session' = "listening" /\ UNCHANGED <<listening, inbox>>
    BY <1>5 DEF UpdateEnds, watchVars, listenVars
  <2> QED  BY <1>1, <1>5, <2>1, UpdateFollows
<1>6. CASE TakeEvent
  <2>1. session = "listening" /\ session' = "updating" /\ listening' = listening
    BY <1>6 DEF TakeEvent
  <2> QED  BY <1>1, <1>6, <2>1, TakeEventFollows
<1>7. ASSUME NEW applied \in BOOLEAN, NEW good \in BOOLEAN, Deleted(applied, good) \/ StopListening
      PROVE  /\ listening' <=> session' # "creating"
             /\ ~listening' => inbox' = <<>>
             /\ session' \in {"listening", "updating"} => \A e \in Exts : SessionFollows(e)'
  <2>1. /\ session # "creating" /\ session' \in {"deleting", "done"}
        /\ UNCHANGED <<listening, inbox>>
    BY <1>7 DEF Deleted, StopListening, watchVars, listenVars
  <2> QED  BY <1>1, <2>1
<1>8. CASE SayGoodbye \/ CtrlC
  <2>1. UNCHANGED <<listening, inbox, session, current, modules, unsent, app, built>>
    BY <1>8 DEF SayGoodbye, CtrlC, watchVars, listenVars, sessionVars, platformVars
  <2>2. \A e \in Exts : SessionFollows(e)' = SessionFollows(e)
    BY <2>1 DEF SessionFollows, Announced, Slots, AppAt, EventAt
  <2> QED  BY <1>1, <2>1, <2>2
<1>10. CASE Replies
  <2>1. CASE Refused  BY <1>5, <2>1 DEF Refused
  <2>2. CASE \E applied, good \in BOOLEAN :
                 Created(applied, good) \/ Updated(applied, good) \/ Deleted(applied, good)
    BY <1>4, <1>5, <1>7, <2>2 DEF Updated
  <2> QED  BY <1>10, <2>1, <2>2 DEF Replies
<1>11. CASE Process
  BY <1>6, <1>7, <1>8, <1>11 DEF Process
<1> QED  BY <1>3, <1>8, <1>10, <1>11 DEF DevNext

-----------------------------------------------------------------------------
(* Theorems *)

DevInv == SeqTypes /\ FlowInv /\ SessionTypes /\ SessionInv

\* The process starts with nothing.
LEMMA DevStarts ==
    ASSUME DevInit  PROVE DevInv
<1>1. SeqTypes /\ FlowInv  BY WatchStarts DEF DevInit
<1>2. SessionTypes
  <2>1. [e \in Exts |-> 0] \in Contents /\ NoEvent \in AppEvent
    BY NothingTypes
  <2>2. 0 \in 0..MaxFaults  BY AppDevSessionAssumption
  <2> QED  BY <2>1, <2>2 DEF DevInit, SessionTypes
<1>3. SessionInv  BY <1>1 DEF DevInit, WatchInit, SessionInv, SeqTypes
<1> QED  BY <1>1, <1>2, <1>3 DEF DevInv

\* Every step keeps the invariant.
LEMMA DevKeeps ==
    ASSUME DevInv, [DevNext]_devVars  PROVE DevInv'
<1>1. CASE DevNext  BY <1>1, DevFlow, SessionTypesStep, SessionStep DEF DevInv
<1>2. CASE UNCHANGED devVars
  <2>1. /\ UNCHANGED <<toml, source, dist, appToml, edits, phase, echoes, notices, pending, batches,
                       app, built, listening, inbox, unseen, unbuilt>>
        /\ UNCHANGED <<cancelled, session, current, live, modules, faults, status, said, unsent>>
    BY <1>2 DEF devVars, watchVars, diskVars, threadVars, listenVars, ghostVars, sessionVars,
          platformVars
  <2>5. \A e \in Exts : Input(e)' = Input(e)  BY <2>1, InputStays
  <2>2. SeqTypes' /\ FlowInv'
    BY <2>1, <2>5 DEF DevInv, SeqTypes, WatchTypeOK, FlowInv, NoticeOrder, ConfigFollows,
          SourceFollows, Reported
  <2>3. SessionTypes'  BY <2>1 DEF DevInv, SessionTypes
  <2>4. SessionInv'  BY <2>1 DEF DevInv, SessionInv, Announced, Slots, AppAt, EventAt
  <2> QED  BY <2>2, <2>3, <2>4 DEF DevInv
<1> QED  BY <1>1, <1>2

\* So it holds throughout `app dev`.
LEMMA DevInvariant == DevSpec => []DevInv
<1>1. DevInit => DevInv  BY DevStarts
<1>2. DevInv /\ [DevNext]_devVars => DevInv'  BY DevKeeps
<1> QED  BY <1>1, <1>2, PTL DEF DevSpec

\* The variables of `app dev` hold what their comments say.
THEOREM DevTypeCorrect == DevSpec => []DevTypeOK
<1>1. DevInv => DevTypeOK
  BY DEF DevInv, SeqTypes, SessionTypes, DevTypeOK
<1> QED  BY <1>1, DevInvariant, PTL

\* Whatever is edited, however the events are debounced and batched: once the
\* pipeline is quiet, the app and the dev bundle are what the disk says, but
\* for the extensions named (app_event_watcher.rs, file_watcher.rs).
THEOREM BundleFollows == DevSpec => []BundleFollowsDisk
<1>1. DevInv => BundleFollowsDisk  BY FlowEnds DEF DevInv
<1> QED  BY <1>1, DevInvariant, PTL

\* Whatever requests fail: once the dev session process has sent its events,
\* the dev session has what the bundle holds (dev_session/process.rs).
THEOREM SessionFollowsApp == DevSpec => []SessionFollowsBundle
<1>1. ASSUME DevInv  PROVE SessionFollowsBundle
  <2>1. SUFFICES ASSUME session = "listening", inbox = <<>>, NEW e \in Exts \ unsent
                 PROVE  modules[e] = IF app[e] # 0 THEN built[e] ELSE 0
    BY DEF SessionFollowsBundle
  <2>2. DOMAIN <<>> = {}  OBVIOUS
  <2>3. Slots = {}  BY <2>1, <2>2 DEF Slots
  <2>4. ~ Announced(e)  BY <2>3 DEF Announced
  <2> QED  BY <1>1, <2>1, <2>4 DEF DevInv, SessionInv
<1> QED  BY <1>1, DevInvariant, PTL

\* No dev session outlives `app dev`, whenever Ctrl+C comes, unless deleting it
\* fails or is refused (dev_session/process.rs, dev_session/mod.rs).
THEOREM SessionStopped == DevSpec => NoSessionLeft
<1>1. ASSUME DevInv, [DevNext]_devVars
      PROVE  [session # "done" /\ session' = "done" /\ faults' = faults => ~live']_devVars
  <2>1. SUFFICES ASSUME session # "done", session' = "done", faults' = faults, DevNext
                 PROVE  ~live'
    BY <1>1 DEF devVars, sessionVars
  <2>2. \E applied, good \in BOOLEAN : Deleted(applied, good)
    BY <2>1 DEF DevNext, Watching, Replies, Process, CtrlC, Created, Updated, UpdateEnds, Refused,
          TakeEvent, StopListening, SayGoodbye, sessionVars
  <2>3. PICK applied, good \in BOOLEAN : Deleted(applied, good)  BY <2>2
  <2>4. applied
    <3>1. CASE applied /\ good  BY <3>1
    <3>2. CASE ~ (applied /\ good)
      <4>1. faults' = faults + 1  BY <2>3, <3>2 DEF Deleted, Answer
      <4>2. faults \in 0..MaxFaults  BY <1>1 DEF DevInv, SessionTypes
      <4> QED  BY <2>1, <4>1, <4>2
    <3> QED  BY <3>1, <3>2
  <2> QED  BY <2>3, <2>4 DEF Deleted
<1>2. DevInv /\ [DevNext]_devVars =>
          [session # "done" /\ session' = "done" /\ faults' = faults => ~live']_devVars
  BY <1>1
<1>3. DevSpec => []DevInv /\ [][DevNext]_devVars  BY DevInvariant DEF DevSpec
<1> QED  BY <1>2, <1>3, PTL DEF NoSessionLeft

=============================================================================
