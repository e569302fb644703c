---------------------------- MODULE DockerProofs ----------------------------
(***************************************************************************)
(* Theorems about the Docker plugin: its image sources (DockerSources),    *)
(* its log streams (DockerStreams), images (DockerImages) and host         *)
(* (DockerHost), for every number of requests, sockets, containers,        *)
(* images and sources.                                                     *)
(***************************************************************************)
EXTENDS DockerSources, DockerStreams, DockerImages, DockerHost, SequenceTheorems, TLAPS

-----------------------------------------------------------------------------
(* DockerSources: the list of sources in one row.                          *)

\* A list with the default source, and no name and no address of two sources.
Sound(row) ==
  /\ DefaultSources \subseteq row
  /\ \A s, t \in row : s.id # t.id => s.name # t.name /\ s.url # t.url

\* What a request that is about to write knows of the list it has read; a
\* deletion holds the row.
Prepared ==
  \A e \in Editors :
    /\ edit[e] \in {"create", "append"} => about[e].name # Default /\ about[e].url # Default
    /\ edit[e] = "insert" => found[e] = NoRow
    /\ edit[e] = "append" => Free([about[e] EXCEPT !.id = e], Listed(found[e]))
    /\ edit[e] \in {"change", "drop"} => found[e] # NoRow /\ about[e].id # Default
    /\ edit[e] = "change" => Free(about[e], found[e])
    /\ edit[e] \in {"append", "change"} => Sound(Listed(found[e]))
    /\ edit[e] = "drop" => found[e] = saved /\ rowLock = {e}

\* What is saved is sound, and is what the successful requests made of it until
\* one of them wrote over a newer list.
AsDue ==
  /\ Sound(Listed(saved))
  /\ ~writtenOver => Listed(saved) = due

SourceInv == SourceTypeOK /\ Prepared /\ AsDue

\* The sources that are there from the start are sources.
LEMMA SameAllTyped == ASSUME NEW i \in Earlier \cup {Default} PROVE SameAll(i) \in SourceRow
BY DEF SameAll, SourceRow, Ids

\* What a step is.
LEMMA SourceSteps ==
  ASSUME SourceTypeOK, SourceNext
  PROVE  \E e \in Editors :
    \/ \E kind \in Kinds, s \in SourceRow :
         (kind = "create" => s.name # Default /\ s.url # Default) /\ AskSource(e, kind, s)
    \/ ListRegistries(e) \/ CreateRegistry(e) \/ UpdateRegistry(e) \/ DeleteRegistry(e)
    \/ CommitList(e) \/ RollBack(e)
    \/ SetConnected(e, "connect", "true") \/ SetConnected(e, "disconnect", "false")
    \/ \E value \in {"true", "false"} : CommitConnected(e, value)
<1>1. [id : Ids \ {f \in Editors : edit[f] # "done"}, name : Names \cup {Default},
       url : Urls \cup {Default}] \subseteq SourceRow
  BY DEF SourceRow
<1>2. \A e \in Editors : about[e] \in SourceRow BY DEF SourceTypeOK
<1>3. {"list", "connect", "disconnect", "create", "update", "delete"} = Kinds BY DEF Kinds
<1>4. PICK e \in Editors :
    \/ \E kind \in {"list", "connect", "disconnect"} : AskSource(e, kind, about[e])
    \/ \E kind \in {"create", "update", "delete"} :
         \E s \in [id : Ids \ {f \in Editors : edit[f] # "done"}, name : Names \cup {Default},
                   url : Urls \cup {Default}] :
           (kind = "create" => s.name # Default /\ s.url # Default) /\ AskSource(e, kind, s)
    \/ ListRegistries(e) \/ CreateRegistry(e) \/ UpdateRegistry(e) \/ DeleteRegistry(e)
    \/ CommitList(e) \/ RollBack(e)
    \/ SetConnected(e, "connect", "true") \/ SetConnected(e, "disconnect", "false")
    \/ \E value \in {"true", "false"} : CommitConnected(e, value)
  BY DEF SourceNext
<1>5. CASE \E kind \in {"list", "connect", "disconnect"} : AskSource(e, kind, about[e])
  BY <1>2, <1>3, <1>5
<1>6. CASE \E kind \in {"create", "update", "delete"} :
         \E s \in [id : Ids \ {f \in Editors : edit[f] # "done"}, name : Names \cup {Default},
                   url : Urls \cup {Default}] :
           (kind = "create" => s.name # Default /\ s.url # Default) /\ AskSource(e, kind, s)
  BY <1>1, <1>3, <1>6
<1> QED BY <1>4, <1>5, <1>6

\* An addition, a change and a deletion leave a sound list sound.
LEMMA AddSound ==
  ASSUME NEW row \in SUBSET SourceRow, Sound(row), NEW s \in SourceRow,
         s.name # Default, s.url # Default, Free(s, row)
  PROVE  Sound(row \cup {s}) /\ row \cup {s} \in SUBSET SourceRow
BY DEF Sound, Free

\* A change of a source to a name and an address that are free.
LEMMA ChangeSound ==
  ASSUME NEW row \in SUBSET SourceRow, Sound(row), NEW s \in SourceRow,
         s.id # Default, Free(s, row)
  PROVE  LET new == {Changed(s, t) : t \in row} IN Sound(new) /\ new \in SUBSET SourceRow
<1> DEFINE new == {Changed(s, t) : t \in row}
<1>1. \A t \in row : Changed(s, t) \in SourceRow /\ Changed(s, t).id = t.id
  BY DEF Changed, SourceRow
<1>2. \A t \in row : t.id # s.id => Changed(s, t) = t
  BY DEF Changed
<1>3. \A t \in row : t.id = s.id => /\ Changed(s, t).name = IF s.name = Default THEN t.name ELSE s.name
                                   /\ Changed(s, t).url = IF s.url = Default THEN t.url ELSE s.url
  BY DEF Changed, SourceRow
<1>4. DefaultSources \subseteq new
  <2>1. SameAll(Default) \in row /\ SameAll(Default).id = Default
    BY DEF Sound, DefaultSources, SameAll
  <2>2. Changed(s, SameAll(Default)) = SameAll(Default) BY <2>1, <1>2
  <2> QED BY <2>1, <2>2 DEF DefaultSources
<1>5. ASSUME NEW t \in row, NEW u \in row, Changed(s, t).id # Changed(s, u).id
      PROVE  Changed(s, t).name # Changed(s, u).name /\ Changed(s, t).url # Changed(s, u).url
  <2>1. t.id # u.id /\ t.name # u.name /\ t.url # u.url BY <1>1, <1>5 DEF Sound
  <2>2. CASE t.id = s.id BY <2>1, <2>2, <1>2, <1>3 DEF Free
  <2>3. CASE u.id = s.id BY <2>1, <2>3, <1>2, <1>3 DEF Free
  <2>4. CASE t.id # s.id /\ u.id # s.id BY <2>1, <2>4, <1>2
  <2> QED BY <2>2, <2>3, <2>4
<1> QED BY <1>1, <1>4, <1>5 DEF Sound

\* A deletion of a source that is not the default one.
LEMMA DropSound ==
  ASSUME NEW row \in SUBSET SourceRow, Sound(row), NEW id, id # Default
  PROVE  LET new == {t \in row : t.id # id} IN Sound(new) /\ new \in SUBSET SourceRow
BY DEF Sound, DefaultSources, SameAll

\* A commit leaves the lists as they are, or writes a sound list and does the
\* same to the list that is due.
LEMMA CommitSound ==
  ASSUME NoRow \notin SUBSET SourceRow, SourceInv, NEW e \in Editors, CommitList(e)
  PROVE  \/ UNCHANGED <<saved, due>> /\ writtenOver' = writtenOver
         \/ /\ saved' \in Rows /\ Sound(Listed(saved')) /\ due' \in SUBSET SourceRow
            /\ ~writtenOver' => saved' = due'
<1> DEFINE row == Listed(found[e])
           add == [about[e] EXCEPT !.id = e]
<1>0. /\ edit[e] \in {"insert", "append", "change", "drop"}
      /\ about[e] \in SourceRow /\ found[e] \in Rows /\ due \in SUBSET SourceRow
      /\ saved \in Rows /\ writtenOver \in BOOLEAN
  BY DEF SourceInv, SourceTypeOK, CommitList, Writing
<1>1. DefaultSources \in SUBSET SourceRow /\ Sound(DefaultSources)
  BY SameAllTyped DEF Sound, DefaultSources, SameAll
<1>2. /\ row \in SUBSET SourceRow /\ Sound(Listed(saved))
      /\ ~writtenOver => Listed(saved) = due
      /\ add \in SourceRow /\ add.name = about[e].name /\ add.url = about[e].url
  BY <1>0, <1>1 DEF SourceInv, AsDue, Listed, Rows, SourceRow, Ids
<1>3. /\ edit[e] = "insert" => found[e] = NoRow
      /\ edit[e] = "append" => /\ Free(add, row) /\ Sound(row)
                               /\ about[e].name # Default /\ about[e].url # Default
      /\ edit[e] = "change" => /\ found[e] # NoRow /\ row = found[e] /\ Sound(row)
                               /\ Free(about[e], row) /\ about[e].id # Default
      /\ edit[e] = "drop"   => /\ found[e] # NoRow /\ row = found[e] /\ found[e] = saved
                               /\ Sound(row) /\ about[e].id # Default
  BY <1>2 DEF SourceInv, Prepared, Listed
<1> HIDE DEF add
\* The change itself, made to a list.
<1> DEFINE Made(list) ==
      CASE edit[e] = "insert" -> list
        [] edit[e] = "append" -> list \cup {add}
        [] edit[e] = "change" -> {Changed(about[e], t) : t \in list}
        [] edit[e] = "drop"   -> {t \in list : t.id # about[e].id}
<1>4. Effect(e) = Made(due) BY <1>0 DEF Effect, add
<1>5. Result(e) = Made(row)
  <2>1. CASE edit[e] = "insert" BY <2>1, <1>3 DEF Result, Listed
  <2>2. CASE edit[e] # "insert" BY <2>2, <1>0, <1>3 DEF Result, add
  <2> QED BY <2>1, <2>2
<1>6. Made(row) \in SUBSET SourceRow /\ Sound(Made(row))
  <2>1. CASE edit[e] = "insert" BY <2>1, <1>1, <1>3 DEF Listed
  <2>2. CASE edit[e] = "append"
    <3>1. Sound(row \cup {add}) /\ row \cup {add} \in SUBSET SourceRow
      BY <2>2, <1>2, <1>3, AddSound
    <3> QED BY <3>1, <2>2
  <2>3. CASE edit[e] = "change"
    <3>1. LET new == {Changed(about[e], t) : t \in row}
          IN  Sound(new) /\ new \in SUBSET SourceRow
      BY <2>3, <1>0, <1>2, <1>3, ChangeSound
    <3> QED BY <3>1, <2>3
  <2>4. CASE edit[e] = "drop"
    <3>1. LET new == {t \in row : t.id # about[e].id}
          IN  Sound(new) /\ new \in SUBSET SourceRow
      BY <2>4, <1>2, <1>3, DropSound
    <3> QED BY <3>1, <2>4
  <2> QED BY <1>0, <2>1, <2>2, <2>3, <2>4
<1>7. Made(due) \in SUBSET SourceRow
  <2>1. \A t \in due : Changed(about[e], t) \in SourceRow BY <1>0 DEF Changed, SourceRow
  <2> QED BY <2>1, <1>0, <1>2
<1> HIDE DEF Made, row
<1>8. CASE found[e] = NoRow
  <2>1. row = DefaultSources BY <1>8 DEF row, Listed
  <2>2. saved = NoRow => Listed(saved) = DefaultSources BY DEF Listed
  <2>3. writtenOver' = writtenOver BY <1>0, <1>8 DEF CommitList
  <2>4. CASE saved = NoRow
    <3>1. saved' = Made(row) /\ due' = Made(due) BY <1>4, <1>5, <1>8, <2>4 DEF CommitList
    <3>2. ~writtenOver' => row = due BY <2>1, <2>2, <2>3, <2>4, <1>2
    <3>3. Listed(saved') = saved' /\ saved' \in Rows BY <3>1, <1>6 DEF Listed, Rows
    <3> QED BY <3>1, <3>2, <3>3, <1>6, <1>7
  <2>5. CASE saved # NoRow BY <1>8, <2>3, <2>5 DEF CommitList
  <2> QED BY <2>4, <2>5
<1>9. CASE found[e] # NoRow
  <2>1. row = found[e] BY <1>9 DEF row, Listed
  <2>2. /\ saved' = IF Made(row) = found[e] THEN saved ELSE Made(row)
        /\ due' = Made(due)
        /\ writtenOver' = (writtenOver \/ (edit[e] # "drop" /\ saved # found[e]))
    BY <1>4, <1>5, <1>9 DEF CommitList
  <2>3. ~writtenOver' => ~writtenOver /\ saved = found[e] BY <2>2, <1>0, <1>3
  <2>4. ~writtenOver' => due = row BY <2>3, <2>1, <1>2, <1>9 DEF Listed
  <2>5. ~writtenOver' => saved' = due' BY <2>1, <2>2, <2>3, <2>4
  <2>6. saved' = Made(row) \/ (saved' = saved /\ Made(row) = found[e]) BY <2>2
  <2>7. CASE saved' = Made(row)
    <3>1. Listed(saved') = saved' /\ saved' \in Rows BY <2>7, <1>6 DEF Listed, Rows
    <3> QED BY <3>1, <2>7, <2>2, <2>5, <1>6, <1>7
  <2>8. CASE saved' = saved BY <2>8, <2>2, <2>5, <1>0, <1>2, <1>7
  <2> QED BY <2>6, <2>7, <2>8
<1> QED BY <1>8, <1>9

\* The types, one case for each step.
LEMMA SourceTypesKept ==
  NoRow \notin SUBSET SourceRow /\ SourceInv /\ [SourceNext]_sourceVars => SourceTypeOK'
<1> SUFFICES ASSUME NoRow \notin SUBSET SourceRow, SourceInv, [SourceNext]_sourceVars
             PROVE SourceTypeOK' OBVIOUS
<1>0. SameAll(Default) \in SourceRow BY SameAllTyped
<1> USE <1>0 DEF SourceInv, SourceTypeOK, Edits, Knows, Leaving, Kinds, Writes, Rows
<1>1. ASSUME NEW e \in Editors, NEW kind \in Kinds, NEW s \in SourceRow,
             kind = "create" => s.name # Default /\ s.url # Default, AskSource(e, kind, s)
      PROVE SourceTypeOK'
  BY <1>1 DEF AskSource
<1>2. ASSUME NEW e \in Editors, ListRegistries(e) PROVE SourceTypeOK'
  BY <1>2 DEF ListRegistries, Reads
<1>3. ASSUME NEW e \in Editors, CreateRegistry(e) PROVE SourceTypeOK'
  BY <1>3 DEF CreateRegistry, Reads
<1>4. ASSUME NEW e \in Editors, UpdateRegistry(e) PROVE SourceTypeOK'
  BY <1>4 DEF UpdateRegistry, Reads, Editable
<1>5. ASSUME NEW e \in Editors, DeleteRegistry(e) PROVE SourceTypeOK'
  BY <1>5 DEF DeleteRegistry, Reads, Editable
<1>6. ASSUME NEW e \in Editors, CommitList(e) PROVE SourceTypeOK'
  BY <1>6, CommitSound DEF CommitList, Writing
<1>7. ASSUME NEW e \in Editors, RollBack(e) PROVE SourceTypeOK'
  BY <1>7 DEF RollBack
<1>8. ASSUME NEW e \in Editors, SetConnected(e, "connect", "true") PROVE SourceTypeOK'
  BY <1>8 DEF SetConnected, Reads
<1>9. ASSUME NEW e \in Editors, SetConnected(e, "disconnect", "false") PROVE SourceTypeOK'
  BY <1>9 DEF SetConnected, Reads
<1>10. ASSUME NEW e \in Editors, NEW value \in {"true", "false"}, CommitConnected(e, value)
       PROVE SourceTypeOK'
  BY <1>10 DEF CommitConnected
<1>11. CASE UNCHANGED sourceVars BY <1>11 DEF sourceVars
<1> QED
  BY SourceSteps, <1>1, <1>2, <1>3, <1>4, <1>5, <1>6, <1>7, <1>8, <1>9, <1>10,
     <1>11 DEF SourceInv

\* What a request has read is sound and fits what it will write.
LEMMA PreparedKept ==
  NoRow \notin SUBSET SourceRow /\ SourceInv /\ [SourceNext]_sourceVars => Prepared'
<1> SUFFICES ASSUME NoRow \notin SUBSET SourceRow, SourceInv, [SourceNext]_sourceVars
             PROVE Prepared' OBVIOUS
<1>0. SameAll(Default) \in SourceRow BY SameAllTyped
<1> USE <1>0 DEF SourceInv, SourceTypeOK, Edits, Knows, Leaving, Kinds, Writes, Rows,
   Prepared, AsDue
<1>1. ASSUME NEW e \in Editors, NEW kind \in Kinds, NEW s \in SourceRow,
             kind = "create" => s.name # Default /\ s.url # Default, AskSource(e, kind, s)
      PROVE Prepared'
  BY <1>1 DEF AskSource
<1>2. ASSUME NEW e \in Editors, ListRegistries(e) PROVE Prepared'
  BY <1>2 DEF ListRegistries, Reads
<1>3. ASSUME NEW e \in Editors, CreateRegistry(e) PROVE Prepared'
  BY <1>3 DEF CreateRegistry, Reads
<1>4. ASSUME NEW e \in Editors, UpdateRegistry(e) PROVE Prepared'
  BY <1>4 DEF UpdateRegistry, Reads, Editable
<1>5. ASSUME NEW e \in Editors, DeleteRegistry(e) PROVE Prepared'
  BY <1>5 DEF DeleteRegistry, Reads, Editable
<1>6. ASSUME NEW e \in Editors, CommitList(e) PROVE Prepared'
  BY <1>6 DEF CommitList, Writing, Result, Effect
<1>7. ASSUME NEW e \in Editors, RollBack(e) PROVE Prepared'
  BY <1>7 DEF RollBack
<1>8. ASSUME NEW e \in Editors, SetConnected(e, "connect", "true") PROVE Prepared'
  BY <1>8 DEF SetConnected, Reads
<1>9. ASSUME NEW e \in Editors, SetConnected(e, "disconnect", "false") PROVE Prepared'
  BY <1>9 DEF SetConnected, Reads
<1>10. ASSUME NEW e \in Editors, NEW value \in {"true", "false"}, CommitConnected(e, value)
       PROVE Prepared'
  BY <1>10 DEF CommitConnected
<1>11. CASE UNCHANGED sourceVars BY <1>11 DEF sourceVars
<1> QED
  BY SourceSteps, <1>1, <1>2, <1>3, <1>4, <1>5, <1>6, <1>7, <1>8, <1>9, <1>10,
     <1>11 DEF SourceInv

\* Only a commit changes the list, to a sound one and as due.
LEMMA AsDueKept ==
  NoRow \notin SUBSET SourceRow /\ SourceInv /\ [SourceNext]_sourceVars => AsDue'
<1> SUFFICES ASSUME NoRow \notin SUBSET SourceRow, SourceInv, [SourceNext]_sourceVars
             PROVE AsDue' OBVIOUS
<1>0. SameAll(Default) \in SourceRow BY SameAllTyped
<1> USE <1>0 DEF SourceInv, SourceTypeOK, Edits, Knows, Leaving, Kinds, Writes, Rows,
   Prepared, AsDue, Listed
<1>1. ASSUME NEW e \in Editors, NEW kind \in Kinds, NEW s \in SourceRow,
             kind = "create" => s.name # Default /\ s.url # Default, AskSource(e, kind, s)
      PROVE AsDue'
  BY <1>1 DEF AskSource
<1>2. ASSUME NEW e \in Editors, ListRegistries(e) PROVE AsDue'
  BY <1>2 DEF ListRegistries, Reads
<1>3. ASSUME NEW e \in Editors, CreateRegistry(e) PROVE AsDue'
  BY <1>3 DEF CreateRegistry, Reads
<1>4. ASSUME NEW e \in Editors, UpdateRegistry(e) PROVE AsDue'
  BY <1>4 DEF UpdateRegistry, Reads, Editable
<1>5. ASSUME NEW e \in Editors, DeleteRegistry(e) PROVE AsDue'
  BY <1>5 DEF DeleteRegistry, Reads, Editable
<1>6. ASSUME NEW e \in Editors, CommitList(e) PROVE AsDue'
  <2>1. Listed(saved') = saved' \/ saved' = NoRow BY DEF Listed
  <2>2. \/ UNCHANGED <<saved, due>> /\ writtenOver' = writtenOver
        \/ /\ saved' \in Rows /\ Sound(Listed(saved')) /\ due' \in SUBSET SourceRow
           /\ ~writtenOver' => saved' = due'
    BY <1>6, CommitSound
  <2> QED BY <2>1, <2>2
<1>7. ASSUME NEW e \in Editors, RollBack(e) PROVE AsDue'
  BY <1>7 DEF RollBack
<1>8. ASSUME NEW e \in Editors, SetConnected(e, "connect", "true") PROVE AsDue'
  BY <1>8 DEF SetConnected, Reads
<1>9. ASSUME NEW e \in Editors, SetConnected(e, "disconnect", "false") PROVE AsDue'
  BY <1>9 DEF SetConnected, Reads
<1>10. ASSUME NEW e \in Editors, NEW value \in {"true", "false"}, CommitConnected(e, value)
       PROVE AsDue'
  BY <1>10 DEF CommitConnected
<1>11. CASE UNCHANGED sourceVars BY <1>11 DEF sourceVars
<1> QED
  BY SourceSteps, <1>1, <1>2, <1>3, <1>4, <1>5, <1>6, <1>7, <1>8, <1>9, <1>10,
     <1>11 DEF SourceInv

\* The list is sound at the start, and every step keeps all of it.
LEMMA SourceInvHolds ==
  ASSUME NoRow \notin SUBSET SourceRow PROVE SourceSpec => []SourceInv
<1>1. SourceInit => SourceInv
  <2> SUFFICES ASSUME SourceInit PROVE SourceInv OBVIOUS
  <2>1. \A i \in Earlier \cup {Default} : SameAll(i) \in SourceRow BY SameAllTyped
  <2>2. SourceTypeOK BY <2>1 DEF SourceInit, SourceTypeOK, Rows, DefaultSources
  <2>3. Prepared BY DEF SourceInit, Prepared
  <2>4. AsDue BY DEF SourceInit, AsDue, Listed, Sound, DefaultSources, SameAll
  <2> QED BY <2>2, <2>3, <2>4 DEF SourceInv
<1>2. SourceInv /\ [SourceNext]_sourceVars => SourceInv'
  BY SourceTypesKept, PreparedKept, AsDueKept DEF SourceInv
<1> QED BY <1>1, <1>2, PTL DEF SourceSpec

\* Every variable of the image sources has its type, for any number of requests.
THEOREM SourceTypesHold ==
  ASSUME NoRow \notin SUBSET SourceRow PROVE SourceSpec => []SourceTypeOK
BY SourceInvHolds, PTL DEF SourceInv

\* However many requests read, change and write the list of sources whole, the
\* default source stays, names and addresses stay unique, and the list is what
\* the successful requests made of it unless one wrote over a newer list.
THEOREM SourcesKeptHolds ==
  ASSUME NoRow \notin SUBSET SourceRow PROVE SourceSpec => []SourcesKept
<1>1. SourceInv => SourcesKept BY DEF SourceInv, AsDue, Sound, Listed, SourcesKept
<1> QED BY <1>1, SourceInvHolds, PTL

-----------------------------------------------------------------------------
(* DockerStreams: the log of a container over a WebSocket.                 *)

\* Before its first turn a socket has sent and counted nothing; what it has
\* sent since, when it saw the whole log each time, is the log so far.
LinesSent ==
  \A s \in Sockets :
    /\ loops[s] = 0 => got[s] = <<>> /\ counted[s] = 0
    /\ endsOpen /\ ~cut[s] =>
         /\ Len(got[s]) = counted[s] /\ counted[s] <= written
         /\ \A i \in 1 .. Len(got[s]) : got[s][i] = i

\* Both together.
StreamInv == StreamTypeOK /\ LinesSent

\* A read returns the last lines of the log, all of them when none is missing.
LEMMA FetchedIs ==
  ASSUME StreamTypeOK, NEW n \in Nat
  PROVE  /\ Missing(n) \in 0 .. written
         /\ Fetched(n) \in Seq(Entries) /\ Len(Fetched(n)) \in 0 .. MaxLines + 1
         /\ endsOpen /\ Missing(n) = 0 =>
              Len(Fetched(n)) = written /\ \A i \in 1 .. written : Fetched(n)[i] = i
<1> USE DockerStreamsAssumption DEF StreamTypeOK, Entries
<1>1. Limit(n) \in Nat BY DEF Limit
<1>2. Missing(n) \in 0 .. written BY <1>1 DEF Missing
<1> DEFINE lines == [i \in 1 .. written - Missing(n) |-> Missing(n) + i]
<1>3. /\ lines \in Seq(Entries) /\ Len(lines) = written - Missing(n)
      /\ \A i \in 1 .. written - Missing(n) : lines[i] = Missing(n) + i
  <2>1. written - Missing(n) \in Nat BY <1>2
  <2>2. \A i \in 1 .. written - Missing(n) : Missing(n) + i \in Entries BY <1>2
  <2>3. lines \in [1 .. written - Missing(n) -> Entries] BY <2>2
  <2>5. \A i \in 1 .. written - Missing(n) : lines[i] = Missing(n) + i OBVIOUS
  <2> HIDE DEF lines
  <2>6. Seq(Entries) = UNION {[1 .. k -> Entries] : k \in Nat} BY SeqDef
  <2> HIDE DEF Entries, StreamTypeOK
  <2>4. lines \in Seq(Entries) BY <2>1, <2>3, <2>6
  <2> QED BY <2>1, <2>3, <2>4, <2>5, LenProperties
<1>4. CASE written = 0 \/ endsOpen
  <2>1. Fetched(n) = lines BY <1>4 DEF Fetched
  <2> HIDE DEF lines
  <2> QED BY <2>1, <1>2, <1>3
<1>5. CASE ~(written = 0 \/ endsOpen)
  <2>1. Fetched(n) = Append(lines, 0) BY <1>5 DEF Fetched
  <2> HIDE DEF lines
  <2> QED BY <2>1, <1>2, <1>3, <1>5
<1> QED BY <1>4, <1>5

\* What a turn of the loop does to the socket.
LEMMA TurnIs ==
  ASSUME StreamTypeOK, NEW s \in Sockets, Turn(s)
  PROVE  /\ loops' \in [Sockets -> 0 .. 2] /\ loops'[s] # 0
         /\ \A t \in Sockets \ {s} : loops'[t] = loops[t]
         /\ socket' = [socket EXCEPT ![s] = "receive"]
<1>1. loops[s] \in 0 .. 2 BY DEF StreamTypeOK
<1>2. (IF loops[s] = 2 THEN 2 ELSE loops[s] + 1) \in {1, 2} BY <1>1
<1>3. /\ loops' = [loops EXCEPT ![s] = IF loops[s] = 2 THEN 2 ELSE loops[s] + 1]
      /\ socket' = [socket EXCEPT ![s] = "receive"]
  BY DEF Turn, InLoop
<1> QED BY <1>2, <1>3 DEF StreamTypeOK

\* What is sent of entries that are all lines is the entries.
LEMMA LinesAre ==
  ASSUME NEW q \in Seq(Entries)
  PROVE  /\ Lines(q) \in Seq(Entries)
         /\ (\A i \in 1 .. Len(q) : q[i] # 0) => Lines(q) = q
BY DEF Lines

\* The types, one case for each step.
LEMMA StreamTypesKept == StreamInv /\ [StreamNext]_streamVars => StreamTypeOK'
<1> SUFFICES ASSUME StreamInv, [StreamNext]_streamVars PROVE StreamTypeOK' OBVIOUS
<1> USE DockerStreamsAssumption DEF StreamInv, StreamTypeOK, InLoop, Entries
<1>1. CASE WriteLine
  BY <1>1 DEF WriteLine
<1>2. ASSUME NEW s \in Sockets, NEW n \in Tails, ReceiveStart(s, n) PROVE StreamTypeOK'
  <2>1. CASE pushing[s] BY <1>2, <2>1 DEF ReceiveStart
  <2>2. CASE ~pushing[s]
    <3>1. /\ loops' = [loops EXCEPT ![s] = 0] /\ counted' = [counted EXCEPT ![s] = 0]
          /\ tail' = [tail EXCEPT ![s] = n]
          /\ got' = [got EXCEPT ![s] = <<>>] /\ cut' = [cut EXCEPT ![s] = FALSE]
          /\ socket' = [socket EXCEPT ![s] = "push"]
          /\ pushing' = [pushing EXCEPT ![s] = TRUE]
          /\ UNCHANGED <<written, endsOpen, stats>>
      BY <1>2, <2>2 DEF ReceiveStart
    <3>2. <<>> \in Seq(Entries) /\ 0 \in 0 .. MaxLines + 1 OBVIOUS
    <3> QED BY <3>1, <3>2
  <2> QED BY <2>1, <2>2
<1>3. ASSUME NEW s \in Sockets, ReceiveStop(s) PROVE StreamTypeOK'
  BY <1>3 DEF ReceiveStop
<1>4. ASSUME NEW s \in Sockets, ReceiveNothing(s) PROVE StreamTypeOK'
  BY <1>4 DEF ReceiveNothing
<1>5. ASSUME NEW s \in Sockets, Wait(s) PROVE StreamTypeOK'
  BY <1>5 DEF Wait
<1>6. ASSUME NEW s \in Sockets, PushFirst(s) PROVE StreamTypeOK'
  <2> DEFINE all == Fetched(tail[s])
  <2>1. /\ loops[s] = 0
        /\ loops' \in [Sockets -> 0 .. 2] /\ loops'[s] # 0
        /\ (\A t \in Sockets \ {s} : loops'[t] = loops[t])
        /\ socket' = [socket EXCEPT ![s] = "receive"]
        /\ got' = [got EXCEPT ![s] = got[s] \o Lines(all)]
        /\ counted' = [counted EXCEPT ![s] = Len(all)]
        /\ cut' \in [Sockets -> BOOLEAN] /\ (~cut'[s] => ~cut[s] /\ ~(Missing(tail[s]) > 0))
        /\ \A t \in Sockets \ {s} : cut'[t] = cut[t]
        /\ UNCHANGED <<written, endsOpen, stats, pushing, tail>>
    BY <1>6, TurnIs DEF PushFirst
  <2>2. /\ all \in Seq(Entries) /\ Len(all) \in 0 .. MaxLines + 1
        /\ Missing(tail[s]) \in 0 .. written
        /\ endsOpen /\ Missing(tail[s]) = 0 =>
              Len(all) = written /\ \A i \in 1 .. written : all[i] = i
    BY FetchedIs
  <2>3. Lines(all) \in Seq(Entries) /\ ((\A i \in 1 .. Len(all) : all[i] # 0) => Lines(all) = all)
    BY <2>2, LinesAre
  <2> HIDE DEF all
  <2> QED BY <2>1, <2>2, <2>3
<1>7. ASSUME NEW s \in Sockets, PushNew(s) PROVE StreamTypeOK'
  <2> DEFINE all == Fetched(0)
             new == SubSeq(all, counted[s] + 1, Len(all))
  <2>1. /\ loops' \in [Sockets -> 0 .. 2] /\ loops'[s] # 0
        /\ (\A t \in Sockets \ {s} : loops'[t] = loops[t])
        /\ socket' = [socket EXCEPT ![s] = "receive"]
        /\ got' = [got EXCEPT ![s] = got[s] \o Lines(new)]
        /\ counted' = [counted EXCEPT ![s] = IF Len(all) > counted[s] THEN Len(all) ELSE counted[s]]
        /\ cut' \in [Sockets -> BOOLEAN] /\ (~cut'[s] => ~cut[s] /\ ~(Missing(0) > 0))
        /\ \A t \in Sockets \ {s} : cut'[t] = cut[t]
        /\ UNCHANGED <<written, endsOpen, stats, pushing, tail>>
    BY <1>7, TurnIs DEF PushNew
  <2>2. /\ all \in Seq(Entries) /\ Len(all) \in 0 .. MaxLines + 1
        /\ Missing(0) \in 0 .. written
        /\ endsOpen /\ Missing(0) = 0 =>
              Len(all) = written /\ \A i \in 1 .. written : all[i] = i
    BY FetchedIs
  <2> HIDE DEF all
  <2>3. new \in Seq(Entries) BY <2>2
  <2>4. Lines(new) \in Seq(Entries) /\ ((\A i \in 1 .. Len(new) : new[i] # 0) => Lines(new) = new)
    BY <2>3, LinesAre
  <2> HIDE DEF new
  <2> QED BY <2>1, <2>2, <2>4
<1>8. ASSUME NEW s \in Sockets, PushError(s) PROVE StreamTypeOK'
  BY <1>8, TurnIs DEF PushError
<1>9. ASSUME NEW s \in Sockets, PushStats(s) PROVE StreamTypeOK'
  BY <1>9, TurnIs DEF PushStats
<1>10. ASSUME NEW s \in Sockets, Disconnect(s) PROVE StreamTypeOK'
  BY <1>10 DEF Disconnect
<1>11. CASE UNCHANGED streamVars BY <1>11 DEF streamVars
<1> QED
  BY <1>1, <1>2, <1>3, <1>4, <1>5, <1>6, <1>7, <1>8, <1>9, <1>10, <1>11 DEF StreamNext

\* What was sent is what was counted, one case for each step.
LEMMA SentKept == StreamInv /\ [StreamNext]_streamVars => LinesSent'
<1> SUFFICES ASSUME StreamInv, [StreamNext]_streamVars PROVE LinesSent' OBVIOUS
<1> USE DockerStreamsAssumption DEF StreamInv, StreamTypeOK, InLoop, LinesSent
<1>1. CASE WriteLine
  BY <1>1 DEF WriteLine
<1>2. ASSUME NEW s \in Sockets, NEW n \in Tails, ReceiveStart(s, n) PROVE LinesSent'
  BY <1>2 DEF ReceiveStart
<1>3. ASSUME NEW s \in Sockets, ReceiveStop(s) PROVE LinesSent'
  BY <1>3 DEF ReceiveStop
<1>4. ASSUME NEW s \in Sockets, ReceiveNothing(s) PROVE LinesSent'
  BY <1>4 DEF ReceiveNothing
<1>5. ASSUME NEW s \in Sockets, Wait(s) PROVE LinesSent'
  BY <1>5 DEF Wait
<1>6. ASSUME NEW s \in Sockets, PushFirst(s) PROVE LinesSent'
  <2> DEFINE all == Fetched(tail[s])
  <2>1. /\ loops[s] = 0
        /\ loops' \in [Sockets -> 0 .. 2] /\ loops'[s] # 0
        /\ (\A t \in Sockets \ {s} : loops'[t] = loops[t])
        /\ socket' = [socket EXCEPT ![s] = "receive"]
        /\ got' = [got EXCEPT ![s] = got[s] \o Lines(all)]
        /\ counted' = [counted EXCEPT ![s] = Len(all)]
        /\ cut' \in [Sockets -> BOOLEAN] /\ (~cut'[s] => ~cut[s] /\ ~(Missing(tail[s]) > 0))
        /\ \A t \in Sockets \ {s} : cut'[t] = cut[t]
        /\ UNCHANGED <<written, endsOpen, stats, pushing, tail>>
    BY <1>6, TurnIs DEF PushFirst
  <2>2. /\ all \in Seq(Entries) /\ Len(all) \in 0 .. MaxLines + 1
        /\ Missing(tail[s]) \in 0 .. written
        /\ endsOpen /\ Missing(tail[s]) = 0 =>
              Len(all) = written /\ \A i \in 1 .. written : all[i] = i
    BY FetchedIs
  <2>3. Lines(all) \in Seq(Entries) /\ ((\A i \in 1 .. Len(all) : all[i] # 0) => Lines(all) = all)
    BY <2>2, LinesAre
  <2> HIDE DEF all
  <2>4. got[s] = <<>> BY <2>1
  <2>5. got'[s] = Lines(all) BY <2>1, <2>3, <2>4
  <2>6. ASSUME endsOpen, ~cut'[s]
        PROVE  Len(got'[s]) = counted'[s] /\ counted'[s] <= written
               /\ \A i \in 1 .. Len(got'[s]) : got'[s][i] = i
    <3>1. Missing(tail[s]) = 0 BY <2>1, <2>2, <2>6
    <3>2. got'[s] = all BY <3>1, <2>2, <2>3, <2>5, <2>6
    <3> QED BY <3>1, <3>2, <2>1, <2>2, <2>6
  <2> QED BY <2>1, <2>6
<1>7. ASSUME NEW s \in Sockets, PushNew(s) PROVE LinesSent'
  <2> DEFINE all == Fetched(0)
             new == SubSeq(all, counted[s] + 1, Len(all))
  <2>1. /\ loops' \in [Sockets -> 0 .. 2] /\ loops'[s] # 0
        /\ (\A t \in Sockets \ {s} : loops'[t] = loops[t])
        /\ socket' = [socket EXCEPT ![s] = "receive"]
        /\ got' = [got EXCEPT ![s] = got[s] \o Lines(new)]
        /\ counted' = [counted EXCEPT ![s] = IF Len(all) > counted[s] THEN Len(all) ELSE counted[s]]
        /\ cut' \in [Sockets -> BOOLEAN] /\ (~cut'[s] => ~cut[s] /\ ~(Missing(0) > 0))
        /\ \A t \in Sockets \ {s} : cut'[t] = cut[t]
        /\ UNCHANGED <<written, endsOpen, stats, pushing, tail>>
    BY <1>7, TurnIs DEF PushNew
  <2>2. /\ all \in Seq(Entries) /\ Len(all) \in 0 .. MaxLines + 1
        /\ Missing(0) \in 0 .. written
        /\ endsOpen /\ Missing(0) = 0 =>
              Len(all) = written /\ \A i \in 1 .. written : all[i] = i
    BY FetchedIs
  <2> HIDE DEF all
  <2>3. new \in Seq(Entries) BY <2>2
  <2>4. Lines(new) \in Seq(Entries) /\ ((\A i \in 1 .. Len(new) : new[i] # 0) => Lines(new) = new)
    BY <2>3, LinesAre
  <2>6. ASSUME endsOpen, ~cut'[s]
        PROVE  Len(got'[s]) = counted'[s] /\ counted'[s] <= written
               /\ \A i \in 1 .. Len(got'[s]) : got'[s][i] = i
    <3>1. Missing(0) = 0 /\ ~cut[s] BY <2>1, <2>2, <2>6
    <3>2. Len(all) = written /\ \A i \in 1 .. written : all[i] = i BY <3>1, <2>2, <2>6
    <3>3. /\ Len(got[s]) = counted[s] /\ counted[s] <= written
          /\ \A i \in 1 .. Len(got[s]) : got[s][i] = i
      BY <3>1, <2>6
    <3>4. counted'[s] = written BY <2>1, <3>2, <3>3
    <3>5. Len(new) = written - counted[s] /\ \A i \in 1 .. Len(new) : new[i] = counted[s] + i
      BY <2>2, <3>2, <3>3
    <3>6. Lines(new) = new BY <2>4, <3>5
    <3>7. got'[s] = got[s] \o new BY <2>1, <3>6
    <3> HIDE DEF new
    <3>8. got[s] \in Seq(Entries) OBVIOUS
    <3>9. Len(got'[s]) = written
      <4>1. Len(got[s] \o new) = Len(got[s]) + Len(new) BY <2>3, <3>8
      <4> QED BY <4>1, <3>3, <3>5, <3>7
    <3>10. ASSUME NEW i \in 1 .. written PROVE got'[s][i] = i
      <4>1. CASE i <= counted[s] BY <4>1, <2>3, <3>3, <3>5, <3>7, <3>8
      <4>2. CASE i > counted[s]
        <5>1. got'[s][i] = new[i - counted[s]] BY <4>2, <2>3, <3>3, <3>5, <3>7, <3>8
        <5>2. i - counted[s] \in 1 .. Len(new) BY <4>2, <3>5
        <5> QED BY <5>1, <5>2, <3>5
      <4> QED BY <4>1, <4>2
    <3> QED BY <3>4, <3>9, <3>10
  <2> HIDE DEF new
  <2> QED BY <2>1, <2>6
<1>8. ASSUME NEW s \in Sockets, PushError(s) PROVE LinesSent'
  BY <1>8, TurnIs DEF PushError
<1>9. ASSUME NEW s \in Sockets, PushStats(s) PROVE LinesSent'
  BY <1>9, TurnIs DEF PushStats
<1>10. ASSUME NEW s \in Sockets, Disconnect(s) PROVE LinesSent'
  BY <1>10 DEF Disconnect
<1>11. CASE UNCHANGED streamVars BY <1>11 DEF streamVars
<1> QED
  BY <1>1, <1>2, <1>3, <1>4, <1>5, <1>6, <1>7, <1>8, <1>9, <1>10, <1>11 DEF StreamNext

\* Nothing is sent at the start, and every step keeps both.
LEMMA StreamInvHolds == StreamSpec => []StreamInv
<1>1. StreamInit => StreamInv
  BY DockerStreamsAssumption DEF StreamInit, StreamInv, StreamTypeOK, LinesSent, Entries
<1>2. StreamInv /\ [StreamNext]_streamVars => StreamInv'
  BY StreamTypesKept, SentKept DEF StreamInv
<1> QED BY <1>1, <1>2, PTL DEF StreamSpec

\* Every variable of the streams has its type, for any number of sockets and
\* any length of the log.
THEOREM StreamTypesHold == StreamSpec => []StreamTypeOK
BY StreamInvHolds, PTL DEF StreamInv

\* For any log, cap and tail: a client gets every line once and in order while
\* the reads return the whole log, through failed reads, stops and restarts.
THEOREM LinesOnceInOrderHolds == StreamSpec => []LinesOnceInOrder
<1>1. StreamInv => LinesOnceInOrder
  <2> SUFFICES ASSUME StreamInv, NEW s \in Sockets, endsOpen, ~cut[s]
               PROVE  /\ \A i \in 2 .. Len(got[s]) : got[s][i] = got[s][i - 1] + 1
                      /\ got[s] # <<>> => got[s][1] = 1 /\ Len(got[s]) = counted[s]
    BY DEF LinesOnceInOrder
  <2>1. got[s] \in Seq(Entries) /\ Len(got[s]) = counted[s]
        /\ \A i \in 1 .. Len(got[s]) : got[s][i] = i
    BY DEF StreamInv, StreamTypeOK, LinesSent
  <2> QED BY <2>1
<1> QED BY <1>1, StreamInvHolds, PTL

-----------------------------------------------------------------------------
(* DockerImages: an import, an export and a detail in several calls.       *)

\* What a request was given is there for the step that uses it.
Given ==
  \A p \in Pullers :
    /\ job[p] \in {"build", "load"} => archive[p] \in Images
    /\ job[p] = "tag" => ref[p].id # NoImage \/ ref[p].tag \in Tags

\* Between two steps of a request the daemon still answers as meant, unless it
\* changed; a request that has not begun means no image yet.
Aimed ==
  \A p \in Pullers :
    /\ job[p] \in {"idle", "load", "tag", "inspect"} \cup Direct \cup Creating
         => meant[p] = NoImage
    /\ job[p] = "search" /\ ~shifted[p] =>
         meant[p] = archive[p] /\ archive[p] \in stored /\ \A t \in marks[p] : tagged[t] = archive[p]
    /\ job[p] = "save" /\ ~shifted[p] => meant[p] = Denoted(ref[p])
    /\ job[p] = "history" /\ ref[p].id # NoImage => meant[p] = ref[p].id

\* All of it together.
ImageInv == ImageTypeOK /\ Given /\ Aimed /\ AnswersAsMeant

\* What a request may name an image by.
Refs == [id : Images \cup {NoImage}, tag : Tags \cup {NoImage}]

\* What a step is.
LEMMA ImageSteps ==
  ASSUME ImageTypeOK, ImageNext
  PROVE  \E p \in Pullers :
    \/ \E step \in Direct \cup {"load", "tag", "inspect", "fetch", "create"},
          r \in Refs, i \in Images \cup {NoImage}, ts \in SUBSET Tags :
         /\ step \in {"build", "load"} => i \in Images
         /\ step = "tag" => r.id # NoImage \/ r.tag \in Tags
         /\ AskImage(p, step, r, i, ts)
    \/ \E i \in Images : PullImage(p, i) \/ PullFirst(p, i)
    \/ RefuseImage(p) \/ ListImages(p) \/ BuildImage(p)
    \/ \E force \in BOOLEAN : RemoveImage(p, force)
    \/ DockerLoad(p) \/ SearchLoaded(p) \/ FindTag(p) \/ DockerSave(p)
    \/ InspectImage(p) \/ ReadHistory(p) \/ CreateFromImage(p)
<1>1. PICK p \in Pullers :
    \/ \E t \in Tags, i \in Images :
         LET byTag == [id |-> NoImage, tag |-> t]
             byId == [byTag EXCEPT !.id = i]
         IN  \/ AskImage(p, "list", ref[p], archive[p], {})
             \/ \E step \in {"pull", "fetch", "create"} :
                  AskImage(p, step, byTag, archive[p], {})
             \/ AskImage(p, "build", byTag, i, {})
             \/ \E ts \in SUBSET Tags : AskImage(p, "load", ref[p], i, ts)
             \/ \E step \in {"remove", "force", "tag", "inspect"}, r \in {byTag, byId} :
                  AskImage(p, step, r, archive[p], {})
    \/ \E i \in Images : PullImage(p, i) \/ PullFirst(p, i)
    \/ RefuseImage(p) \/ ListImages(p) \/ BuildImage(p)
    \/ RemoveImage(p, TRUE) \/ RemoveImage(p, FALSE)
    \/ DockerLoad(p) \/ SearchLoaded(p) \/ FindTag(p) \/ DockerSave(p)
    \/ InspectImage(p) \/ ReadHistory(p) \/ CreateFromImage(p)
  BY DEF ImageNext
<1>2. CASE \E t \in Tags, i \in Images :
         LET byTag == [id |-> NoImage, tag |-> t]
             byId == [byTag EXCEPT !.id = i]
         IN  \/ AskImage(p, "list", ref[p], archive[p], {})
             \/ \E step \in {"pull", "fetch", "create"} :
                  AskImage(p, step, byTag, archive[p], {})
             \/ AskImage(p, "build", byTag, i, {})
             \/ \E ts \in SUBSET Tags : AskImage(p, "load", ref[p], i, ts)
             \/ \E step \in {"remove", "force", "tag", "inspect"}, r \in {byTag, byId} :
                  AskImage(p, step, r, archive[p], {})
  <2>1. PICK t \in Tags, i \in Images :
         LET byTag == [id |-> NoImage, tag |-> t]
             byId == [byTag EXCEPT !.id = i]
         IN  \/ AskImage(p, "list", ref[p], archive[p], {})
             \/ \E step \in {"pull", "fetch", "create"} :
                  AskImage(p, step, byTag, archive[p], {})
             \/ AskImage(p, "build", byTag, i, {})
             \/ \E ts \in SUBSET Tags : AskImage(p, "load", ref[p], i, ts)
             \/ \E step \in {"remove", "force", "tag", "inspect"}, r \in {byTag, byId} :
                  AskImage(p, step, r, archive[p], {})
    BY <1>2
  <2> DEFINE byTag == [id |-> NoImage, tag |-> t]
             byId == [byTag EXCEPT !.id = i]
  <2>2. /\ byTag \in Refs /\ byId \in Refs /\ ref[p] \in Refs
        /\ archive[p] \in Images \cup {NoImage} /\ {} \in SUBSET Tags
        /\ byTag.tag \in Tags /\ byId.tag \in Tags
    BY DEF Refs, ImageTypeOK
  <2>3. CASE AskImage(p, "list", ref[p], archive[p], {}) BY <2>2, <2>3 DEF Direct
  <2>4. CASE \E step \in {"pull", "fetch", "create"} : AskImage(p, step, byTag, archive[p], {})
    BY <2>2, <2>4 DEF Direct
  <2>5. CASE AskImage(p, "build", byTag, i, {}) BY <2>2, <2>5 DEF Direct
  <2>6. CASE \E ts \in SUBSET Tags : AskImage(p, "load", ref[p], i, ts) BY <2>2, <2>6
  <2>7. CASE \E step \in {"remove", "force", "tag", "inspect"}, r \in {byTag, byId} :
                  AskImage(p, step, r, archive[p], {})
    <3>1. PICK step \in {"remove", "force", "tag", "inspect"}, r \in {byTag, byId} :
                  AskImage(p, step, r, archive[p], {})
      BY <2>7
    <3>2. r \in Refs /\ r.tag \in Tags BY <2>2
    <3> HIDE DEF byTag, byId
    <3> QED BY <2>2, <3>1, <3>2 DEF Direct
  <2> QED BY <2>1, <2>3, <2>4, <2>5, <2>6, <2>7
<1> QED BY <1>1, <1>2

\* The types, one case for each step.
LEMMA ImageTypesKept == ImageInv /\ [ImageNext]_imageVars => ImageTypeOK'
<1> SUFFICES ASSUME ImageInv, [ImageNext]_imageVars PROVE ImageTypeOK' OBVIOUS
<1> USE DockerImagesAssumption DEF ImageInv, ImageTypeOK, Ends, Direct, Loading, Saving,
   Detailing, Creating, Moves, Leaves, NoRef, daemon, Given, Refs, Denoted
<1>1. ASSUME NEW p \in Pullers,
             NEW step \in Direct \cup {"load", "tag", "inspect", "fetch", "create"},
             NEW r \in Refs, NEW i \in Images \cup {NoImage}, NEW ts \in SUBSET Tags,
             step \in {"build", "load"} => i \in Images,
             step = "tag" => r.id # NoImage \/ r.tag \in Tags,
             AskImage(p, step, r, i, ts) PROVE ImageTypeOK'
  BY <1>1 DEF AskImage
<1>2. ASSUME NEW p \in Pullers, NEW i \in Images, PullImage(p, i) PROVE ImageTypeOK'
  BY <1>2 DEF PullImage, Takes, Shifts, Answers
<1>3. ASSUME NEW p \in Pullers, NEW i \in Images, PullFirst(p, i) PROVE ImageTypeOK'
  BY <1>3 DEF PullFirst, Takes, Shifts
<1>4. ASSUME NEW p \in Pullers, RefuseImage(p) PROVE ImageTypeOK'
  BY <1>4 DEF RefuseImage
<1>5. ASSUME NEW p \in Pullers, ListImages(p) PROVE ImageTypeOK'
  BY <1>5 DEF ListImages
<1>6. ASSUME NEW p \in Pullers, BuildImage(p) PROVE ImageTypeOK'
  BY <1>6 DEF BuildImage, Takes, Shifts, Answers
<1>7. ASSUME NEW p \in Pullers, NEW force \in BOOLEAN, RemoveImage(p, force)
      PROVE ImageTypeOK'
  BY <1>7 DEF RemoveImage, Present, Shifts
<1>8. ASSUME NEW p \in Pullers, DockerLoad(p) PROVE ImageTypeOK'
  BY <1>8 DEF DockerLoad, Takes, Shifts
<1>9. ASSUME NEW p \in Pullers, SearchLoaded(p) PROVE ImageTypeOK'
  BY <1>9 DEF SearchLoaded, Answers, Reported
<1>10. ASSUME NEW p \in Pullers, FindTag(p) PROVE ImageTypeOK'
  <2>1. /\ job[p] = "tag" /\ job' = [job EXCEPT ![p] = "save"]
        /\ meant' = [meant EXCEPT ![p] = Denoted(ref[p])]
        /\ \/ ref' = ref
           \/ \E t \in Tags : ref' = [ref EXCEPT ![p] = [id |-> NoImage, tag |-> t]]
        /\ UNCHANGED <<stored, tagged, archive, marks, answer, shifted>>
    BY <1>10 DEF FindTag
  <2>2. Denoted(ref[p]) \in Images \cup {NoImage} BY <2>1
  <2>3. ref' \in [Pullers -> [id : Images \cup {NoImage}, tag : Tags \cup {NoImage}]]
    BY <2>1
  <2> QED BY <2>1, <2>2, <2>3
<1>11. ASSUME NEW p \in Pullers, DockerSave(p) PROVE ImageTypeOK'
  BY <1>11 DEF DockerSave, Present, Answers
<1>12. ASSUME NEW p \in Pullers, InspectImage(p) PROVE ImageTypeOK'
  BY <1>12 DEF InspectImage, Present
<1>13. ASSUME NEW p \in Pullers, ReadHistory(p) PROVE ImageTypeOK'
  BY <1>13 DEF ReadHistory, Answers
<1>14. ASSUME NEW p \in Pullers, CreateFromImage(p) PROVE ImageTypeOK'
  BY <1>14 DEF CreateFromImage, Present, Answers
<1>15. CASE UNCHANGED imageVars BY <1>15 DEF imageVars
<1> QED
  BY ImageSteps, <1>1, <1>2, <1>3, <1>4, <1>5, <1>6, <1>7, <1>8, <1>9, <1>10, <1>11,
     <1>12, <1>13,
      <1>14, <1>15 DEF ImageInv

\* No step takes away what a later one needs.
LEMMA GivenKept == ImageInv /\ [ImageNext]_imageVars => Given'
<1> SUFFICES ASSUME ImageInv, [ImageNext]_imageVars PROVE Given' OBVIOUS
<1> USE DockerImagesAssumption DEF ImageInv, ImageTypeOK, Ends, Direct, Loading, Saving,
   Detailing, Creating, Moves, Leaves, NoRef, daemon, Given, Refs
<1>1. ASSUME NEW p \in Pullers,
             NEW step \in Direct \cup {"load", "tag", "inspect", "fetch", "create"},
             NEW r \in Refs, NEW i \in Images \cup {NoImage}, NEW ts \in SUBSET Tags,
             step \in {"build", "load"} => i \in Images,
             step = "tag" => r.id # NoImage \/ r.tag \in Tags,
             AskImage(p, step, r, i, ts) PROVE Given'
  BY <1>1 DEF AskImage
<1>2. ASSUME NEW p \in Pullers, NEW i \in Images, PullImage(p, i) PROVE Given'
  BY <1>2 DEF PullImage, Takes, Shifts, Answers
<1>3. ASSUME NEW p \in Pullers, NEW i \in Images, PullFirst(p, i) PROVE Given'
  BY <1>3 DEF PullFirst, Takes, Shifts
<1>4. ASSUME NEW p \in Pullers, RefuseImage(p) PROVE Given'
  BY <1>4 DEF RefuseImage
<1>5. ASSUME NEW p \in Pullers, ListImages(p) PROVE Given'
  BY <1>5 DEF ListImages
<1>6. ASSUME NEW p \in Pullers, BuildImage(p) PROVE Given'
  BY <1>6 DEF BuildImage, Takes, Shifts, Answers
<1>7. ASSUME NEW p \in Pullers, NEW force \in BOOLEAN, RemoveImage(p, force) PROVE Given'
  BY <1>7 DEF RemoveImage, Present, Shifts
<1>8. ASSUME NEW p \in Pullers, DockerLoad(p) PROVE Given'
  BY <1>8 DEF DockerLoad, Takes, Shifts
<1>9. ASSUME NEW p \in Pullers, SearchLoaded(p) PROVE Given'
  BY <1>9 DEF SearchLoaded, Answers, Reported
<1>10. ASSUME NEW p \in Pullers, FindTag(p) PROVE Given'
  BY <1>10 DEF FindTag
<1>11. ASSUME NEW p \in Pullers, DockerSave(p) PROVE Given'
  BY <1>11 DEF DockerSave, Present, Answers
<1>12. ASSUME NEW p \in Pullers, InspectImage(p) PROVE Given'
  BY <1>12 DEF InspectImage, Present
<1>13. ASSUME NEW p \in Pullers, ReadHistory(p) PROVE Given'
  BY <1>13 DEF ReadHistory, Answers
<1>14. ASSUME NEW p \in Pullers, CreateFromImage(p) PROVE Given'
  BY <1>14 DEF CreateFromImage, Present, Answers
<1>15. CASE UNCHANGED imageVars BY <1>15 DEF imageVars
<1> QED
  BY ImageSteps, <1>1, <1>2, <1>3, <1>4, <1>5, <1>6, <1>7, <1>8, <1>9, <1>10, <1>11,
     <1>12, <1>13,
      <1>14, <1>15 DEF ImageInv

\* A step that leaves the daemon as it is leaves what is meant as it is.
LEMMA AimedKept == ImageInv /\ [ImageNext]_imageVars => Aimed'
<1> SUFFICES ASSUME ImageInv, [ImageNext]_imageVars PROVE Aimed' OBVIOUS
<1> USE DockerImagesAssumption DEF ImageInv, ImageTypeOK, Ends, Direct, Loading, Saving,
   Detailing, Creating, Moves, Leaves, NoRef, daemon, Given, Aimed, Refs, Denoted
<1>1. ASSUME NEW p \in Pullers,
             NEW step \in Direct \cup {"load", "tag", "inspect", "fetch", "create"},
             NEW r \in Refs, NEW i \in Images \cup {NoImage}, NEW ts \in SUBSET Tags,
             step \in {"build", "load"} => i \in Images,
             step = "tag" => r.id # NoImage \/ r.tag \in Tags,
             AskImage(p, step, r, i, ts) PROVE Aimed'
  BY <1>1 DEF AskImage
<1>2. ASSUME NEW p \in Pullers, NEW i \in Images, PullImage(p, i) PROVE Aimed'
  BY <1>2 DEF PullImage, Takes, Shifts, Answers
<1>3. ASSUME NEW p \in Pullers, NEW i \in Images, PullFirst(p, i) PROVE Aimed'
  <2>1. /\ job[p] = "fetch" /\ job' = [job EXCEPT ![p] = "create"]
        /\ UNCHANGED <<ref, archive, marks, answer, meant>>
    BY <1>3 DEF PullFirst
  <2>2. CASE Takes(p, i, {ref[p].tag}) BY <2>1, <2>2 DEF Takes, Shifts
  <2>3. CASE UNCHANGED <<daemon, shifted>> BY <2>1, <2>3
  <2> QED BY <1>3, <2>2, <2>3 DEF PullFirst
<1>4. ASSUME NEW p \in Pullers, RefuseImage(p) PROVE Aimed'
  BY <1>4 DEF RefuseImage
<1>5. ASSUME NEW p \in Pullers, ListImages(p) PROVE Aimed'
  BY <1>5 DEF ListImages
<1>6. ASSUME NEW p \in Pullers, BuildImage(p) PROVE Aimed'
  BY <1>6 DEF BuildImage, Takes, Shifts, Answers
<1>7. ASSUME NEW p \in Pullers, NEW force \in BOOLEAN, RemoveImage(p, force) PROVE Aimed'
  BY <1>7 DEF RemoveImage, Present, Shifts
<1>8. ASSUME NEW p \in Pullers, DockerLoad(p) PROVE Aimed'
  BY <1>8 DEF DockerLoad, Takes, Shifts
<1>9. ASSUME NEW p \in Pullers, SearchLoaded(p) PROVE Aimed'
  BY <1>9 DEF SearchLoaded, Answers, Reported
<1>10. ASSUME NEW p \in Pullers, FindTag(p) PROVE Aimed'
  <2>1. /\ job[p] = "tag" /\ job' = [job EXCEPT ![p] = "save"]
        /\ meant' = [meant EXCEPT ![p] = Denoted(ref[p])]
        /\ \/ ref' = ref
           \/ \E t \in Tags : /\ ref[p].id \in stored /\ tagged[t] = ref[p].id
                              /\ ref' = [ref EXCEPT ![p] = [id |-> NoImage, tag |-> t]]
        /\ UNCHANGED <<stored, tagged, archive, marks, answer, shifted>>
    BY <1>10 DEF FindTag
  <2>2. meant'[p] = IF ref'[p].id # NoImage THEN ref'[p].id ELSE tagged[ref'[p].tag]
    <3>1. meant'[p] = Denoted(ref[p]) BY <2>1
    <3>2. CASE ref' = ref BY <3>1, <3>2, <2>1
    <3>3. CASE \E t \in Tags : /\ ref[p].id \in stored /\ tagged[t] = ref[p].id
                              /\ ref' = [ref EXCEPT ![p] = [id |-> NoImage, tag |-> t]]
      <4>1. PICK t \in Tags : /\ ref[p].id \in stored /\ tagged[t] = ref[p].id
                              /\ ref' = [ref EXCEPT ![p] = [id |-> NoImage, tag |-> t]]
        BY <3>3
      <4>2. ref'[p].id = NoImage /\ ref'[p].tag = t BY <4>1
      <4>3. Denoted(ref[p]) = tagged[t] BY <4>1
      <4> QED BY <3>1, <4>2, <4>3
    <3> QED BY <2>1, <3>2, <3>3
  <2>3. \A q \in Pullers \ {p} : ref'[q] = ref[q] /\ job'[q] = job[q] /\ meant'[q] = meant[q]
    BY <2>1
  <2> QED BY <2>1, <2>2, <2>3
<1>11. ASSUME NEW p \in Pullers, DockerSave(p) PROVE Aimed'
  BY <1>11 DEF DockerSave, Present, Answers
<1>12. ASSUME NEW p \in Pullers, InspectImage(p) PROVE Aimed'
  BY <1>12 DEF InspectImage, Present
<1>13. ASSUME NEW p \in Pullers, ReadHistory(p) PROVE Aimed'
  BY <1>13 DEF ReadHistory, Answers
<1>14. ASSUME NEW p \in Pullers, CreateFromImage(p) PROVE Aimed'
  BY <1>14 DEF CreateFromImage, Present, Answers
<1>15. CASE UNCHANGED imageVars BY <1>15 DEF imageVars
<1> QED
  BY ImageSteps, <1>1, <1>2, <1>3, <1>4, <1>5, <1>6, <1>7, <1>8, <1>9, <1>10, <1>11,
     <1>12, <1>13,
      <1>14, <1>15 DEF ImageInv

\* A step that answers answers as meant.
LEMMA AnswersKept == ImageInv /\ [ImageNext]_imageVars => AnswersAsMeant'
<1> SUFFICES ASSUME ImageInv, [ImageNext]_imageVars PROVE AnswersAsMeant' OBVIOUS
<1> USE DockerImagesAssumption DEF ImageInv, ImageTypeOK, Ends, Direct, Loading, Saving,
   Detailing, Creating, Moves, Leaves, NoRef, daemon, Given, Aimed, AnswersAsMeant, Refs,
   Denoted
<1>1. ASSUME NEW p \in Pullers,
             NEW step \in Direct \cup {"load", "tag", "inspect", "fetch", "create"},
             NEW r \in Refs, NEW i \in Images \cup {NoImage}, NEW ts \in SUBSET Tags,
             step \in {"build", "load"} => i \in Images,
             step = "tag" => r.id # NoImage \/ r.tag \in Tags,
             AskImage(p, step, r, i, ts) PROVE AnswersAsMeant'
  BY <1>1 DEF AskImage
<1>2. ASSUME NEW p \in Pullers, NEW i \in Images, PullImage(p, i) PROVE AnswersAsMeant'
  BY <1>2 DEF PullImage, Takes, Shifts, Answers
<1>3. ASSUME NEW p \in Pullers, NEW i \in Images, PullFirst(p, i) PROVE AnswersAsMeant'
  BY <1>3 DEF PullFirst, Takes, Shifts
<1>4. ASSUME NEW p \in Pullers, RefuseImage(p) PROVE AnswersAsMeant'
  BY <1>4 DEF RefuseImage
<1>5. ASSUME NEW p \in Pullers, ListImages(p) PROVE AnswersAsMeant'
  BY <1>5 DEF ListImages
<1>6. ASSUME NEW p \in Pullers, BuildImage(p) PROVE AnswersAsMeant'
  BY <1>6 DEF BuildImage, Takes, Shifts, Answers
<1>7. ASSUME NEW p \in Pullers, NEW force \in BOOLEAN, RemoveImage(p, force)
      PROVE AnswersAsMeant'
  BY <1>7 DEF RemoveImage, Present, Shifts
<1>8. ASSUME NEW p \in Pullers, DockerLoad(p) PROVE AnswersAsMeant'
  BY <1>8 DEF DockerLoad, Takes, Shifts
<1>9. ASSUME NEW p \in Pullers, SearchLoaded(p) PROVE AnswersAsMeant'
  BY <1>9 DEF SearchLoaded, Answers, Reported
<1>10. ASSUME NEW p \in Pullers, FindTag(p) PROVE AnswersAsMeant'
  BY <1>10 DEF FindTag
<1>11. ASSUME NEW p \in Pullers, DockerSave(p) PROVE AnswersAsMeant'
  BY <1>11 DEF DockerSave, Present, Answers
<1>12. ASSUME NEW p \in Pullers, InspectImage(p) PROVE AnswersAsMeant'
  BY <1>12 DEF InspectImage, Present
<1>13. ASSUME NEW p \in Pullers, ReadHistory(p) PROVE AnswersAsMeant'
  BY <1>13 DEF ReadHistory, Answers
<1>14. ASSUME NEW p \in Pullers, CreateFromImage(p) PROVE AnswersAsMeant'
  BY <1>14 DEF CreateFromImage, Present, Answers
<1>15. CASE UNCHANGED imageVars BY <1>15 DEF imageVars
<1> QED
  BY ImageSteps, <1>1, <1>2, <1>3, <1>4, <1>5, <1>6, <1>7, <1>8, <1>9, <1>10, <1>11,
     <1>12, <1>13,
      <1>14, <1>15 DEF ImageInv

\* Nothing is under way at the start, and every step keeps all of it.
LEMMA ImageInvHolds == ImageSpec => []ImageInv
<1>1. ImageInit => ImageInv
  BY DEF ImageInit, ImageInv, ImageTypeOK, Given, Aimed, AnswersAsMeant, NoRef,
         Ends, Direct, Loading, Saving, Detailing, Creating
<1>2. ImageInv /\ [ImageNext]_imageVars => ImageInv'
  BY ImageTypesKept, GivenKept, AimedKept, AnswersKept DEF ImageInv
<1> QED BY <1>1, <1>2, PTL DEF ImageSpec

\* Every variable of the images has its type: no tag stands for an image that
\* the daemon does not have.
THEOREM ImageTypesHold == ImageSpec => []ImageTypeOK
BY ImageInvHolds, PTL DEF ImageInv

\* For any number of requests, images and tags: what an import reports, an
\* export holds and a detail shows is the image that was meant, unless the
\* daemon changed between two calls of that very request.
THEOREM AnswersAsMeantHolds == ImageSpec => []AnswersAsMeant
BY ImageInvHolds, PTL DEF ImageInv

-----------------------------------------------------------------------------
(* DockerHost: containers, networks, volumes and stacks.                   *)

\* What a listing may show of a container.
Told == Boxes \X (There \cup Items \cup {"stack", "unknown"})

\* A request on its way, whatever step it is at.
Requests ==
  [step : {"idle", "act", "look", "over"}, op : Ops, ref : Boxes \cup BoxNames \cup {NoBox},
   item : Items \cup {NoBox}, new : BoxNames \cup {NoBox}, target : Boxes \cup {NoBox},
   rest : SUBSET ((Boxes \cup Items \cup {"stack"}) \X (Boxes \cup {NoBox})),
   rows : SUBSET Told, missed : BOOLEAN]

\* The types, in parts.
BoxesTyped == box \in [Boxes -> Box] /\ exists \subseteq Items

AskedTyped == asked \in [Clients -> Requests]

HostTypes ==
  /\ BoxesTyped /\ AskedTyped
  /\ steady \in [Clients -> SUBSET Told] /\ ever \in [Clients -> SUBSET Told]

\* The histories: what is steady is true now, and what is true now is among
\* what was ever true.
Witnessed ==
  \A c \in Clients :
    /\ steady[c] \subseteq Facts /\ steady[c] \subseteq ever[c]
    /\ asked[c].step = "look" => Facts \subseteq ever[c]

\* What a listing of this kind has to look at before it shows this fact.
Awaits(op, r) ==
  CASE op \in {"running", "all"} -> {<<r[1], NoBox>>}
    [] op = "nets" -> {<<r[2], NoBox>>}
    [] op = "vols" -> {<<r[2], NoBox>>, <<r[2], r[1]>>}
    [] OTHER -> {}

\* The rows of a listing under way are of the time, and what has been true all
\* the while is among them or still to be looked at.
Gathered ==
  \A c \in Clients : asked[c].step = "look" /\ ~asked[c].missed =>
    /\ asked[c].rows \subseteq ever[c]
    /\ \A r \in steady[c] : r[2] \in Scope(asked[c].op) =>
         r \in asked[c].rows \/ Awaits(asked[c].op, r) \cap asked[c].rest # {}

HostInv == HostTypes /\ Witnessed /\ Gathered

\* What a fact is: of a container that is there, about its status, its stack, or
\* a network or volume that is there.
LEMMA FactsAre ==
  BoxesTyped => /\ Facts \subseteq Told
                /\ \A r \in Facts :
                     /\ r = <<r[1], r[2]>> /\ r[1] \in Boxes /\ IsThere(r[1])
                     /\ r[2] \in Items => r[2] \in exists
                     /\ r[2] \in There \cup {"stack"} =>
                          r \in StatusShown(r[1]) \cup StackShown(r[1])
<1> SUFFICES ASSUME BoxesTyped, NEW r \in Facts
             PROVE  /\ r \in Told
                    /\ r = <<r[1], r[2]>> /\ r[1] \in Boxes /\ IsThere(r[1])
                    /\ r[2] \in Items => r[2] \in exists
                    /\ r[2] \in There \cup {"stack"} =>
                         r \in StatusShown(r[1]) \cup StackShown(r[1])
  OBVIOUS
<1>1. PICK b \in Boxes : IsThere(b) /\
        r \in StatusShown(b) \cup NetsShown(b) \cup MountsShown(b) \cup StackShown(b)
  BY DEF Facts
<1> USE DockerHostAssumption DEF Told, There, Live, Items
<1>2. CASE r \in StatusShown(b) BY <1>1, <1>2 DEF StatusShown, IsThere
<1>3. CASE r \in StackShown(b) BY <1>1, <1>3 DEF StackShown
<1>4. CASE r \in NetsShown(b) \cup MountsShown(b)
  <2>1. r \in {b} \X (exists \cap Items) BY <1>4 DEF NetsShown, MountsShown, BoxesTyped
  <2> QED BY <2>1, <1>1
<1> QED BY <1>1, <1>2, <1>3, <1>4

\* A reference that names a container finds one.
LEMMA FoundIs == ASSUME NEW which, Named(which) # {} PROVE Found(which) \in Boxes
BY DEF Named, Found

\* A request that has not begun, and one that is over, are requests.
LEMMA IdleIs == Idle \in Requests /\ Served \in Requests
BY DEF Idle, Served, Requests, Ops, Told

\* A step of a request leaves a request.
LEMMA HandlesTyped ==
  ASSUME AskedTyped, NEW c \in Clients, NEW ops, NEW step, NEW w \in Requests,
         Handles(c, ops, step, w)
  PROVE  AskedTyped'
BY DEF AskedTyped, Handles

\* A container that changes its status is a container.
LEMMA BecameTyped ==
  ASSUME BoxesTyped, NEW b \in Boxes, NEW s \in There \cup {"gone"}
  PROVE  Became(b, s) \in Box
BY DEF BoxesTyped, Became, Box, There, Live

\* What a request carries.
LEMMA AskedFields ==
  ASSUME HostInv, NEW c \in Clients
  PROVE  /\ asked[c] \in Requests /\ asked[c].new \in BoxNames \cup {NoBox}
         /\ asked[c].rows \subseteq Told
         /\ asked[c].rest \subseteq (Boxes \cup Items \cup {"stack"}) \X (Boxes \cup {NoBox})
BY DEF HostInv, HostTypes, AskedTyped, Requests

\* What a row shows is true when it is made.
LEMMA RowIs ==
  ASSUME HostInv, NEW x, x \in Boxes => IsThere(x)
  PROVE  Row(x) \subseteq Facts /\ Row(x) \subseteq Told
<1>1. AddressShown(x) \subseteq NetsShown(x) BY DEF AddressShown
<1>2. Row(x) \subseteq Facts BY <1>1 DEF Row, Facts
<1> QED BY <1>2, FactsAre DEF HostInv, HostTypes

\* The types of the host, one case for each step.
LEMMA BoxesTypedKept == HostInv /\ [HostNext]_hostVars => BoxesTyped'
<1> SUFFICES ASSUME HostInv, [HostNext]_hostVars PROVE BoxesTyped' OBVIOUS
<1> USE DEF Same, BoxesTyped, HostInv, HostTypes, Asks, Replies, Handles
<1>1. ASSUME NEW b \in Boxes,
             Exits(b)
     PROVE  BoxesTyped'
  <2>1. box'[b] = [box[b] EXCEPT !.status = "exited"] BY <1>1 DEF Exits
  <2> QED BY <1>1, <2>1 DEF Exits, Box, There
<1>2. ASSUME NEW b \in Boxes, NEW n \in BoxNames,
             Renamed(b, n)
     PROVE  BoxesTyped'
  BY <1>2 DEF Renamed, Box
<1>3. ASSUME NEW c \in Clients, NEW which \in Boxes \cup BoxNames, NEW op \in ById \ {"rename"},
             Inspect(c, op, which, NoBox, NoBox)
     PROVE  BoxesTyped'
  BY <1>3 DEF Inspect
<1>4. ASSUME NEW c \in Clients, NEW which \in Boxes \cup BoxNames, NEW n \in BoxNames,
             Inspect(c, "rename", which, NoBox, n)
     PROVE  BoxesTyped'
  BY <1>4 DEF Inspect
<1>5. ASSUME NEW c \in Clients, NEW which \in Boxes \cup BoxNames,
             NEW op \in ByRef, NEW i \in Nets,
             Inspect(c, op, which, i, NoBox)
     PROVE  BoxesTyped'
  BY <1>5 DEF Inspect
<1>6. ASSUME NEW c \in Clients, NEW which \in Boxes \cup BoxNames,
             ReadDetail(c, which)
     PROVE  BoxesTyped'
  BY <1>6 DEF ReadDetail, Begins
<1>7. ASSUME NEW c \in Clients,
             Finishes(c)
     PROVE  BoxesTyped'
  BY <1>7 DEF Finishes
<1>8. ASSUME NEW c \in Clients,
             Act(c)
     PROVE  BoxesTyped'
  <2>1. PICK b \in {asked[c].target}, s \in After(asked[c].op, box[asked[c].target].status) :
           box' = [box EXCEPT ![b] = Became(b, s)]
    BY <1>8 DEF Act
  <2>2. asked[c].op \in ById \ {"rename"} /\ IsThere(b) BY <1>8, <2>1 DEF Act
  <2>3. s \in There \cup {"gone"} BY <2>1, <2>2 DEF After, ById, There, Live, IsThere
  <2>4. b \in Boxes => Became(b, s) \in Box BY <2>3, BecameTyped
  <2> QED BY <1>8, <2>1, <2>4 DEF Act
<1>9. ASSUME NEW c \in Clients,
             Rename(c)
     PROVE  BoxesTyped'
  <2>1. asked[c].new \in BoxNames \cup {NoBox} BY AskedFields
  <2> QED BY <1>9, <2>1 DEF Rename, Box
<1>10. ASSUME NEW c \in Clients,
             Attach(c)
     PROVE  BoxesTyped'
  <2>1. asked[c].item \in Items /\ Found(asked[c].ref) = Found(asked[c].ref)
    BY <1>10 DEF Attach
  <2> QED BY <1>10, <2>1 DEF Attach, Box
<1>11. ASSUME NEW c \in Clients, NEW i \in Items,
             CreateItem(c, i)
     PROVE  BoxesTyped'
  BY <1>11 DEF CreateItem
<1>12. ASSUME NEW c \in Clients, NEW i \in Items, NEW n \in BoxNames,
             CreateContainer(c, i, n)
     PROVE  BoxesTyped'
  <2>1. i \in Items /\ exists' \subseteq Items BY <1>12 DEF CreateContainer, Items
  <2> QED BY <1>12, <2>1 DEF CreateContainer, Box, There
<1>13. ASSUME NEW c \in Clients, NEW i \in Nets, NEW failed \in BOOLEAN,
             CheckNetwork(c, i, failed)
     PROVE  BoxesTyped'
  BY <1>13 DEF CheckNetwork
<1>14. ASSUME NEW c \in Clients,
             RemoveNetwork(c)
     PROVE  BoxesTyped'
  BY <1>14 DEF RemoveNetwork, Drop
<1>15. ASSUME NEW c \in Clients, NEW i \in Vols,
             RemoveVolume(c, i)
     PROVE  BoxesTyped'
  BY <1>15 DEF RemoveVolume, Drop
<1>16. ASSUME NEW c \in Clients,
             DeployStack(c)
     PROVE  BoxesTyped'
  <2>1. exists' \subseteq Items BY <1>16 DEF DeployStack
  <2> DEFINE new == {b \in InStack \cap Boxes : box[b].status = "none"}
  <2>2. PICK name \in [new -> BoxNames \ {box[b].name : b \in Boxes}] :
          box' = [b \in Boxes |->
                IF b \in new
                THEN [status |-> "running", name |-> name[b], uses |-> InStack \cap Items]
                ELSE IF b \in InStack /\ IsThere(b) THEN Became(b, "running") ELSE box[b]]
    BY <1>16 DEF DeployStack
  <2>3. \A b \in Boxes : Became(b, "running") \in Box BY BecameTyped DEF There, Live
  <2>4. \A b \in new : [status |-> "running", name |-> name[b], uses |-> InStack \cap Items] \in Box
    BY DEF Box, There, Live
  <2> QED BY <2>1, <2>2, <2>3, <2>4
<1>17. ASSUME NEW c \in Clients,
             StopStack(c)
     PROVE  BoxesTyped'
  <2>1. \A b \in Boxes : Became(b, "exited") \in Box BY BecameTyped DEF There
  <2> QED BY <1>17, <2>1 DEF StopStack
<1>18. ASSUME NEW c \in Clients, NEW volumes \in BOOLEAN,
             RemoveStack(c, volumes)
     PROVE  BoxesTyped'
  <2>1. \A b \in Boxes : Became(b, "gone") \in Box BY BecameTyped
  <2> QED BY <1>18, <2>1 DEF RemoveStack
<1>19. ASSUME NEW c \in Clients, NEW op \in Listings,
             List(c, op)
     PROVE  BoxesTyped'
  BY <1>19 DEF List, Begins
<1>20. ASSUME NEW c \in Clients, NEW x \in Boxes \cup Items \cup {"stack"},
             Look(c, x)
     PROVE  BoxesTyped'
  BY <1>20 DEF Look, Looks
<1>21. ASSUME NEW c \in Clients, NEW x \in Boxes \cup Items \cup {"stack"},
             LookVolume(c, x)
     PROVE  BoxesTyped'
  BY <1>21 DEF LookVolume, Looks
<1>22. ASSUME NEW c \in Clients,
              NEW x \in Boxes \cup Items \cup {"stack"}, NEW b \in Boxes \cup {NoBox},
             LookFails(c, x, b)
     PROVE  BoxesTyped'
  BY <1>22 DEF LookFails
<1>23. ASSUME NEW c \in Clients, NEW i \in Vols, NEW b \in Boxes,
             LookUser(c, i, b)
     PROVE  BoxesTyped'
  BY <1>23 DEF LookUser, Looks
<1>24. ASSUME NEW c \in Clients,
             Show(c)
     PROVE  BoxesTyped'
  BY <1>24 DEF Show
<1>25. CASE UNCHANGED hostVars BY <1>25 DEF hostVars, BoxesTyped
<1> QED BY <1>1, <1>2, <1>3, <1>4, <1>5, <1>6, <1>7, <1>8, <1>9, <1>10, <1>11, <1>12,
      <1>13, <1>14, <1>15, <1>16, <1>17, <1>18, <1>19, <1>20, <1>21, <1>22, <1>23,
      <1>24, <1>25 DEF HostNext

\* The types of the requests, one case for each step.
LEMMA AskedTypedKept == HostInv /\ [HostNext]_hostVars => AskedTyped'
<1> SUFFICES ASSUME HostInv, [HostNext]_hostVars PROVE AskedTyped' OBVIOUS
<1> USE DEF HostInv, HostTypes
<1>1. ASSUME NEW b \in Boxes,
             Exits(b)
     PROVE  AskedTyped'
  BY <1>1 DEF Exits, AskedTyped
<1>2. ASSUME NEW b \in Boxes, NEW n \in BoxNames,
             Renamed(b, n)
     PROVE  AskedTyped'
  BY <1>2 DEF Renamed, AskedTyped
<1>3. ASSUME NEW c \in Clients, NEW which \in Boxes \cup BoxNames, NEW op \in ById \ {"rename"},
             Inspect(c, op, which, NoBox, NoBox)
     PROVE  AskedTyped'
  <2>1. [Idle EXCEPT !.step = "act", !.op = op, !.ref = which, !.item = NoBox, !.new = NoBox,
                      !.target = Found(which)] \in Requests
    BY <1>3, IdleIs, FoundIs DEF Inspect, Requests, Ops, ById, ByRef, Items
  <2> QED BY <1>3, <2>1, HandlesTyped DEF Inspect, Asks
<1>4. ASSUME NEW c \in Clients, NEW which \in Boxes \cup BoxNames, NEW n \in BoxNames,
             Inspect(c, "rename", which, NoBox, n)
     PROVE  AskedTyped'
  <2>1. [Idle EXCEPT !.step = "act", !.op = "rename", !.ref = which, !.item = NoBox, !.new = n,
                      !.target = Found(which)] \in Requests
    BY <1>4, IdleIs, FoundIs DEF Inspect, Requests, Ops, ById, ByRef, Items
  <2> QED BY <1>4, <2>1, HandlesTyped DEF Inspect, Asks
<1>5. ASSUME NEW c \in Clients, NEW which \in Boxes \cup BoxNames,
             NEW op \in ByRef, NEW i \in Nets,
             Inspect(c, op, which, i, NoBox)
     PROVE  AskedTyped'
  <2>1. [Idle EXCEPT !.step = "act", !.op = op, !.ref = which, !.item = i, !.new = NoBox,
                      !.target = Found(which)] \in Requests
    BY <1>5, IdleIs, FoundIs DEF Inspect, Requests, Ops, ById, ByRef, Items
  <2> QED BY <1>5, <2>1, HandlesTyped DEF Inspect, Asks
<1>6. ASSUME NEW c \in Clients, NEW which \in Boxes \cup BoxNames,
             ReadDetail(c, which)
     PROVE  AskedTyped'
  <2>1. {r \in Facts : r[1] = Found(which)} \subseteq Told BY FactsAre
  <2>2. [Idle EXCEPT !.step = "look", !.op = "detail", !.rest = {},
                     !.rows = {r \in Facts : r[1] = Found(which)}] \in Requests
    BY <2>1, IdleIs DEF Requests, Ops
  <2> QED BY <1>6, <2>2, HandlesTyped DEF ReadDetail, Begins, Asks
<1>7. ASSUME NEW c \in Clients,
             Finishes(c)
     PROVE  AskedTyped'
  BY <1>7, IdleIs, HandlesTyped DEF Finishes, Replies, Asks, Same
<1>8. ASSUME NEW c \in Clients,
             Act(c)
     PROVE  AskedTyped'
  BY <1>8, IdleIs, HandlesTyped DEF Act, Replies, Asks, Same
<1>9. ASSUME NEW c \in Clients,
             Rename(c)
     PROVE  AskedTyped'
  BY <1>9, IdleIs, HandlesTyped DEF Rename, Replies, Asks, Same
<1>10. ASSUME NEW c \in Clients,
             Attach(c)
     PROVE  AskedTyped'
  BY <1>10, IdleIs, HandlesTyped DEF Attach, Replies, Asks, Same
<1>11. ASSUME NEW c \in Clients, NEW i \in Items,
             CreateItem(c, i)
     PROVE  AskedTyped'
  BY <1>11, IdleIs, HandlesTyped DEF CreateItem, Replies, Asks, Same
<1>12. ASSUME NEW c \in Clients, NEW i \in Items, NEW n \in BoxNames,
             CreateContainer(c, i, n)
     PROVE  AskedTyped'
  BY <1>12, IdleIs, HandlesTyped DEF CreateContainer, Replies, Asks, Same
<1>13. ASSUME NEW c \in Clients, NEW i \in Nets, NEW failed \in BOOLEAN,
             CheckNetwork(c, i, failed)
     PROVE  AskedTyped'
  <2>1. [Idle EXCEPT !.step = "act", !.op = "unnet", !.item = i] \in Requests
    BY IdleIs DEF Requests, Ops, Items
  <2> QED BY <1>13, <2>1, HandlesTyped DEF CheckNetwork, Asks
<1>14. ASSUME NEW c \in Clients,
             RemoveNetwork(c)
     PROVE  AskedTyped'
  BY <1>14, IdleIs, HandlesTyped DEF RemoveNetwork, Drop, Replies, Asks, Same
<1>15. ASSUME NEW c \in Clients, NEW i \in Vols,
             RemoveVolume(c, i)
     PROVE  AskedTyped'
  BY <1>15, IdleIs, HandlesTyped DEF RemoveVolume, Drop, Replies, Asks, Same
<1>16. ASSUME NEW c \in Clients,
             DeployStack(c)
     PROVE  AskedTyped'
  BY <1>16, IdleIs, HandlesTyped DEF DeployStack, Replies, Asks, Same
<1>17. ASSUME NEW c \in Clients,
             StopStack(c)
     PROVE  AskedTyped'
  BY <1>17, IdleIs, HandlesTyped DEF StopStack, Replies, Asks, Same
<1>18. ASSUME NEW c \in Clients, NEW volumes \in BOOLEAN,
             RemoveStack(c, volumes)
     PROVE  AskedTyped'
  BY <1>18, IdleIs, HandlesTyped DEF RemoveStack, Replies, Asks, Same
<1>19. ASSUME NEW c \in Clients, NEW op \in Listings,
             List(c, op)
     PROVE  AskedTyped'
  <2>1. ListedFor(op) \subseteq Boxes \cup Items \cup {"stack"}
    BY DEF ListedFor, Listings, Items
  <2>9. ListedFor(op) \X {NoBox} \subseteq (Boxes \cup Items \cup {"stack"}) \X (Boxes \cup {NoBox})
    BY <2>1
  <2>2. [Idle EXCEPT !.step = "look", !.op = op, !.rest = ListedFor(op) \X {NoBox}, !.rows = {}]
          \in Requests
    BY <2>9, IdleIs DEF Requests, Ops
  <2> QED BY <1>19, <2>2, HandlesTyped DEF List, Begins, Asks
<1>20. ASSUME NEW c \in Clients, NEW x \in Boxes \cup Items \cup {"stack"},
             Look(c, x)
     PROVE  AskedTyped'
  <2>1. Row(x) \subseteq Told BY <1>20, RowIs DEF Look
  <2>5. [asked[c] EXCEPT !.rest = (@ \ {<<x, NoBox>>}) \cup {},
                         !.rows = @ \cup Row(x)] \in Requests
    BY AskedFields, <2>1 DEF Requests
  <2> QED BY <1>20, <2>5, HandlesTyped DEF Look, Looks
<1>21. ASSUME NEW c \in Clients, NEW x \in Boxes \cup Items \cup {"stack"},
             LookVolume(c, x)
     PROVE  AskedTyped'
  <2>1. x \in Items BY <1>21 DEF LookVolume, Items
  <2>5. [asked[c] EXCEPT !.rest = (@ \ {<<x, NoBox>>}) \cup ({x} \X {b \in Boxes : IsThere(b)}),
                         !.rows = @ \cup {}] \in Requests
    BY AskedFields, <2>1 DEF Requests
  <2> QED BY <1>21, <2>5, HandlesTyped DEF LookVolume, Looks
<1>22. ASSUME NEW c \in Clients,
              NEW x \in Boxes \cup Items \cup {"stack"}, NEW b \in Boxes \cup {NoBox},
             LookFails(c, x, b)
     PROVE  AskedTyped'
  <2>1. x \in Boxes => <<x, "unknown">> \in Told BY DEF Told
  <2>2. [asked[c] EXCEPT !.rest = @ \ {<<x, b>>}, !.missed = TRUE,
          !.rows = IF x \in Boxes THEN @ \cup {<<x, "unknown">>} ELSE @] \in Requests
    BY <2>1, AskedFields DEF Requests
  <2> QED BY <1>22, <2>2, HandlesTyped DEF LookFails
<1>23. ASSUME NEW c \in Clients, NEW i \in Vols, NEW b \in Boxes,
             LookUser(c, i, b)
     PROVE  AskedTyped'
  <2>1. {r \in Facts : r = <<b, i>>} \subseteq Told BY FactsAre
  <2>5. [asked[c] EXCEPT !.rest = (@ \ {<<i, b>>}) \cup {},
                         !.rows = @ \cup {r \in Facts : r = <<b, i>>}] \in Requests
    BY AskedFields, <2>1 DEF Requests
  <2> QED BY <1>23, <2>5, HandlesTyped DEF LookUser, Looks
<1>24. ASSUME NEW c \in Clients,
             Show(c)
     PROVE  AskedTyped'
  BY <1>24, IdleIs, HandlesTyped DEF Show, Replies, Asks, Same
<1>25. CASE UNCHANGED hostVars BY <1>25 DEF hostVars, AskedTyped
<1> QED BY <1>1, <1>2, <1>3, <1>4, <1>5, <1>6, <1>7, <1>8, <1>9, <1>10, <1>11, <1>12,
      <1>13, <1>14, <1>15, <1>16, <1>17, <1>18, <1>19, <1>20, <1>21, <1>22, <1>23,
      <1>24, <1>25 DEF HostNext

\* A step that is not one of a listing: what the listings under way could see
\* of it is noted.
Aside ==
  /\ Observed
  /\ \/ UNCHANGED asked
     \/ \E c \in Clients, w \in Requests : w.step # "look" /\ asked' = [asked EXCEPT ![c] = w]

\* A step of the listing of request c.
Listing(c) ==
  \/ \E op \in Listings : List(c, op)
  \/ \E which \in Boxes \cup BoxNames : ReadDetail(c, which)
  \/ \E x \in Boxes \cup Items \cup {"stack"} :
       Look(c, x) \/ LookVolume(c, x) \/ \E b \in Boxes \cup {NoBox} : LookFails(c, x, b)
  \/ \E i \in Vols, b \in Boxes : LookUser(c, i, b)

\* A request that is over, or at its second call, no longer looks.
LEMMA AsideIs ==
  ASSUME NEW c \in Clients, NEW ops, NEW step, NEW w \in Requests, w.step # "look",
         Handles(c, ops, step, w), Observed
  PROVE  Aside
BY DEF Aside, Handles

\* Every step is one of a listing, or aside from the listings.
LEMMA HostSteps ==
  ASSUME HostInv, HostNext
  PROVE  Aside \/ \E d \in Clients : Listing(d)
<1>1. ASSUME NEW b \in Boxes,
             Exits(b)
     PROVE  Aside \/ \E d \in Clients : Listing(d)
  BY <1>1 DEF Exits, Aside
<1>2. ASSUME NEW b \in Boxes, NEW n \in BoxNames,
             Renamed(b, n)
     PROVE  Aside \/ \E d \in Clients : Listing(d)
  BY <1>2 DEF Renamed, Aside
<1>3. ASSUME NEW c \in Clients, NEW which \in Boxes \cup BoxNames, NEW op \in ById \ {"rename"},
             Inspect(c, op, which, NoBox, NoBox)
     PROVE  Aside \/ \E d \in Clients : Listing(d)
  <2> DEFINE w == [Idle EXCEPT !.step = "act", !.op = op, !.ref = which, !.item = NoBox,
                              !.new = NoBox, !.target = Found(which)]
  <2>1. w \in Requests
    BY <1>3, IdleIs, FoundIs DEF Inspect, Requests, Ops, ById, ByRef, Items
  <2>2. w.step = "act" BY DEF Idle
  <2> QED BY <1>3, <2>1, <2>2, AsideIs DEF Inspect, Asks, Same
<1>4. ASSUME NEW c \in Clients, NEW which \in Boxes \cup BoxNames, NEW n \in BoxNames,
             Inspect(c, "rename", which, NoBox, n)
     PROVE  Aside \/ \E d \in Clients : Listing(d)
  <2> DEFINE w == [Idle EXCEPT !.step = "act", !.op = "rename", !.ref = which, !.item = NoBox,
                              !.new = n, !.target = Found(which)]
  <2>1. w \in Requests
    BY <1>4, IdleIs, FoundIs DEF Inspect, Requests, Ops, ById, ByRef, Items
  <2>2. w.step = "act" BY DEF Idle
  <2> QED BY <1>4, <2>1, <2>2, AsideIs DEF Inspect, Asks, Same
<1>5. ASSUME NEW c \in Clients, NEW which \in Boxes \cup BoxNames,
             NEW op \in ByRef, NEW i \in Nets,
             Inspect(c, op, which, i, NoBox)
     PROVE  Aside \/ \E d \in Clients : Listing(d)
  <2> DEFINE w == [Idle EXCEPT !.step = "act", !.op = op, !.ref = which, !.item = i,
                              !.new = NoBox, !.target = Found(which)]
  <2>1. w \in Requests
    BY <1>5, IdleIs, FoundIs DEF Inspect, Requests, Ops, ById, ByRef, Items
  <2>2. w.step = "act" BY DEF Idle
  <2> QED BY <1>5, <2>1, <2>2, AsideIs DEF Inspect, Asks, Same
<1>6. ASSUME NEW c \in Clients, NEW which \in Boxes \cup BoxNames,
             ReadDetail(c, which)
     PROVE  Aside \/ \E d \in Clients : Listing(d)
  BY <1>6 DEF Listing
<1>7. ASSUME NEW c \in Clients,
             Finishes(c)
     PROVE  Aside \/ \E d \in Clients : Listing(d)
  <2>1. Served.step # "look" BY DEF Served, Idle
  <2> QED BY <1>7, <2>1, IdleIs, AsideIs DEF Finishes, Replies, Asks, Same
<1>8. ASSUME NEW c \in Clients,
             Act(c)
     PROVE  Aside \/ \E d \in Clients : Listing(d)
  <2>1. Served.step # "look" BY DEF Served, Idle
  <2> QED BY <1>8, <2>1, IdleIs, AsideIs DEF Act, Replies, Asks, Same
<1>9. ASSUME NEW c \in Clients,
             Rename(c)
     PROVE  Aside \/ \E d \in Clients : Listing(d)
  <2>1. Served.step # "look" BY DEF Served, Idle
  <2> QED BY <1>9, <2>1, IdleIs, AsideIs DEF Rename, Replies, Asks, Same
<1>10. ASSUME NEW c \in Clients,
             Attach(c)
     PROVE  Aside \/ \E d \in Clients : Listing(d)
  <2>1. Served.step # "look" BY DEF Served, Idle
  <2> QED BY <1>10, <2>1, IdleIs, AsideIs DEF Attach, Replies, Asks, Same
<1>11. ASSUME NEW c \in Clients, NEW i \in Items,
             CreateItem(c, i)
     PROVE  Aside \/ \E d \in Clients : Listing(d)
  <2>1. Served.step # "look" BY DEF Served, Idle
  <2> QED BY <1>11, <2>1, IdleIs, AsideIs DEF CreateItem, Replies, Asks, Same
<1>12. ASSUME NEW c \in Clients, NEW i \in Items, NEW n \in BoxNames,
             CreateContainer(c, i, n)
     PROVE  Aside \/ \E d \in Clients : Listing(d)
  <2>1. Served.step # "look" BY DEF Served, Idle
  <2> QED BY <1>12, <2>1, IdleIs, AsideIs DEF CreateContainer, Replies, Asks, Same
<1>13. ASSUME NEW c \in Clients, NEW i \in Nets, NEW failed \in BOOLEAN,
             CheckNetwork(c, i, failed)
     PROVE  Aside \/ \E d \in Clients : Listing(d)
  <2> DEFINE w == [Idle EXCEPT !.step = "act", !.op = "unnet", !.item = i]
  <2>1. w \in Requests /\ w.step = "act" BY IdleIs DEF Requests, Ops, Items, Idle
  <2> QED BY <1>13, <2>1, AsideIs DEF CheckNetwork, Asks, Same
<1>14. ASSUME NEW c \in Clients,
             RemoveNetwork(c)
     PROVE  Aside \/ \E d \in Clients : Listing(d)
  <2>1. Served.step # "look" BY DEF Served, Idle
  <2> QED BY <1>14, <2>1, IdleIs, AsideIs DEF RemoveNetwork, Drop, Replies, Asks, Same
<1>15. ASSUME NEW c \in Clients, NEW i \in Vols,
             RemoveVolume(c, i)
     PROVE  Aside \/ \E d \in Clients : Listing(d)
  <2>1. Served.step # "look" BY DEF Served, Idle
  <2> QED BY <1>15, <2>1, IdleIs, AsideIs DEF RemoveVolume, Drop, Replies, Asks, Same
<1>16. ASSUME NEW c \in Clients,
             DeployStack(c)
     PROVE  Aside \/ \E d \in Clients : Listing(d)
  <2>1. Served.step # "look" BY DEF Served, Idle
  <2> QED BY <1>16, <2>1, IdleIs, AsideIs DEF DeployStack, Replies, Asks, Same
<1>17. ASSUME NEW c \in Clients,
             StopStack(c)
     PROVE  Aside \/ \E d \in Clients : Listing(d)
  <2>1. Served.step # "look" BY DEF Served, Idle
  <2> QED BY <1>17, <2>1, IdleIs, AsideIs DEF StopStack, Replies, Asks, Same
<1>18. ASSUME NEW c \in Clients, NEW volumes \in BOOLEAN,
             RemoveStack(c, volumes)
     PROVE  Aside \/ \E d \in Clients : Listing(d)
  <2>1. Served.step # "look" BY DEF Served, Idle
  <2> QED BY <1>18, <2>1, IdleIs, AsideIs DEF RemoveStack, Replies, Asks, Same
<1>19. ASSUME NEW c \in Clients, NEW op \in Listings,
             List(c, op)
     PROVE  Aside \/ \E d \in Clients : Listing(d)
  BY <1>19 DEF Listing
<1>20. ASSUME NEW c \in Clients, NEW x \in Boxes \cup Items \cup {"stack"},
             Look(c, x)
     PROVE  Aside \/ \E d \in Clients : Listing(d)
  BY <1>20 DEF Listing
<1>21. ASSUME NEW c \in Clients, NEW x \in Boxes \cup Items \cup {"stack"},
             LookVolume(c, x)
     PROVE  Aside \/ \E d \in Clients : Listing(d)
  BY <1>21 DEF Listing
<1>22. ASSUME NEW c \in Clients,
              NEW x \in Boxes \cup Items \cup {"stack"}, NEW b \in Boxes \cup {NoBox},
             LookFails(c, x, b)
     PROVE  Aside \/ \E d \in Clients : Listing(d)
  BY <1>22 DEF Listing
<1>23. ASSUME NEW c \in Clients, NEW i \in Vols, NEW b \in Boxes,
             LookUser(c, i, b)
     PROVE  Aside \/ \E d \in Clients : Listing(d)
  BY <1>23 DEF Listing
<1>24. ASSUME NEW c \in Clients,
             Show(c)
     PROVE  Aside \/ \E d \in Clients : Listing(d)
  <2>1. Served.step # "look" BY DEF Served, Idle
  <2> QED BY <1>24, <2>1, IdleIs, AsideIs DEF Show, Replies, Asks, Same
<1> QED BY <1>1, <1>2, <1>3, <1>4, <1>5, <1>6, <1>7, <1>8, <1>9, <1>10, <1>11, <1>12,
      <1>13, <1>14, <1>15, <1>16, <1>17, <1>18, <1>19, <1>20, <1>21, <1>22, <1>23, <1>24
      DEF HostNext

\* What ActsOnInspected says of a step.
Bystanders ==
  \A c \in Clients : asked[c].op \in ById /\ asked'[c].step = "over" /\ asked[c].step = "act" =>
    \A b \in Boxes \ {asked[c].target} : box'[b] = box[b]

\* Only the request that moves ends.
LEMMA OthersStay ==
  ASSUME HostInv, NEW c \in Clients, NEW w, asked' = [asked EXCEPT ![c] = w]
  PROVE  /\ \A d \in Clients \ {c} : asked'[d] = asked[d]
         /\ asked'[c] = w
BY DEF HostInv, HostTypes, AskedTyped

\* One case for each step that may change a container or end a request.
LEMMA InspectedOnly ==
  ASSUME HostInv, HostNext
  PROVE  Bystanders
<1> USE DEF HostInv, HostTypes, BoxesTyped
<1>1. ASSUME NEW b \in Boxes,
             Exits(b)
     PROVE  Bystanders
  BY <1>1 DEF Exits, Bystanders
<1>2. ASSUME NEW b \in Boxes, NEW n \in BoxNames,
             Renamed(b, n)
     PROVE  Bystanders
  BY <1>2 DEF Renamed, Bystanders
<1>3. ASSUME NEW c \in Clients, NEW which \in Boxes \cup BoxNames, NEW op \in ById \ {"rename"},
             Inspect(c, op, which, NoBox, NoBox)
     PROVE  Bystanders
  BY <1>3 DEF Inspect, Same, Bystanders
<1>4. ASSUME NEW c \in Clients, NEW which \in Boxes \cup BoxNames, NEW n \in BoxNames,
             Inspect(c, "rename", which, NoBox, n)
     PROVE  Bystanders
  BY <1>4 DEF Inspect, Same, Bystanders
<1>5. ASSUME NEW c \in Clients, NEW which \in Boxes \cup BoxNames,
             NEW op \in ByRef, NEW i \in Nets,
             Inspect(c, op, which, i, NoBox)
     PROVE  Bystanders
  BY <1>5 DEF Inspect, Same, Bystanders
<1>6. ASSUME NEW c \in Clients, NEW which \in Boxes \cup BoxNames,
             ReadDetail(c, which)
     PROVE  Bystanders
  BY <1>6 DEF ReadDetail, Begins, Bystanders
<1>7. ASSUME NEW c \in Clients,
             Finishes(c)
     PROVE  Bystanders
  BY <1>7 DEF Finishes, Same, Bystanders
<1>8. ASSUME NEW c \in Clients,
             Act(c)
     PROVE  Bystanders
  <2>1. asked' = [asked EXCEPT ![c] = Served]
        /\ \E s \in After(asked[c].op, box[asked[c].target].status) :
             box' = [box EXCEPT ![asked[c].target] = Became(asked[c].target, s)]
    BY <1>8 DEF Act, Replies, Handles
  <2> QED BY <2>1, OthersStay DEF Bystanders
<1>9. ASSUME NEW c \in Clients,
             Rename(c)
     PROVE  Bystanders
  <2>1. asked' = [asked EXCEPT ![c] = Served]
        /\ box' = [box EXCEPT ![asked[c].target].name = asked[c].new]
    BY <1>9 DEF Rename, Replies, Handles
  <2> QED BY <2>1, OthersStay DEF Bystanders
<1>10. ASSUME NEW c \in Clients,
             Attach(c)
     PROVE  Bystanders
  BY <1>10, OthersStay DEF Attach, Replies, Handles, Bystanders, ById, ByRef
<1>11. ASSUME NEW c \in Clients, NEW i \in Items,
             CreateItem(c, i)
     PROVE  Bystanders
  BY <1>11, OthersStay DEF CreateItem, Asks, Handles, Bystanders
<1>12. ASSUME NEW c \in Clients, NEW i \in Items, NEW n \in BoxNames,
             CreateContainer(c, i, n)
     PROVE  Bystanders
  BY <1>12, OthersStay DEF CreateContainer, Asks, Handles, Bystanders
<1>13. ASSUME NEW c \in Clients, NEW i \in Nets, NEW failed \in BOOLEAN,
             CheckNetwork(c, i, failed)
     PROVE  Bystanders
  BY <1>13 DEF CheckNetwork, Same, Bystanders
<1>14. ASSUME NEW c \in Clients,
             RemoveNetwork(c)
     PROVE  Bystanders
  BY <1>14 DEF RemoveNetwork, Drop, Bystanders
<1>15. ASSUME NEW c \in Clients, NEW i \in Vols,
             RemoveVolume(c, i)
     PROVE  Bystanders
  BY <1>15, OthersStay DEF RemoveVolume, Drop, Asks, Handles, Bystanders
<1>16. ASSUME NEW c \in Clients,
             DeployStack(c)
     PROVE  Bystanders
  BY <1>16, OthersStay DEF DeployStack, Asks, Handles, Bystanders
<1>17. ASSUME NEW c \in Clients,
             StopStack(c)
     PROVE  Bystanders
  BY <1>17, OthersStay DEF StopStack, Asks, Handles, Bystanders
<1>18. ASSUME NEW c \in Clients, NEW volumes \in BOOLEAN,
             RemoveStack(c, volumes)
     PROVE  Bystanders
  BY <1>18, OthersStay DEF RemoveStack, Asks, Handles, Bystanders
<1>19. ASSUME NEW c \in Clients, NEW op \in Listings,
             List(c, op)
     PROVE  Bystanders
  BY <1>19 DEF List, Begins, Bystanders
<1>20. ASSUME NEW c \in Clients, NEW x \in Boxes \cup Items \cup {"stack"},
             Look(c, x)
     PROVE  Bystanders
  BY <1>20 DEF Look, Looks, Same, Bystanders
<1>21. ASSUME NEW c \in Clients, NEW x \in Boxes \cup Items \cup {"stack"},
             LookVolume(c, x)
     PROVE  Bystanders
  BY <1>21 DEF LookVolume, Looks, Same, Bystanders
<1>22. ASSUME NEW c \in Clients,
              NEW x \in Boxes \cup Items \cup {"stack"}, NEW b \in Boxes \cup {NoBox},
             LookFails(c, x, b)
     PROVE  Bystanders
  BY <1>22 DEF LookFails, Same, Bystanders
<1>23. ASSUME NEW c \in Clients, NEW i \in Vols, NEW b \in Boxes,
             LookUser(c, i, b)
     PROVE  Bystanders
  BY <1>23 DEF LookUser, Looks, Same, Bystanders
<1>24. ASSUME NEW c \in Clients,
             Show(c)
     PROVE  Bystanders
  BY <1>24 DEF Show, Same, Bystanders
<1> QED BY <1>1, <1>2, <1>3, <1>4, <1>5, <1>6, <1>7, <1>8, <1>9, <1>10, <1>11, <1>12,
      <1>13, <1>14, <1>15, <1>16, <1>17, <1>18, <1>19, <1>20, <1>21, <1>22, <1>23, <1>24
      DEF HostNext

\* What is true is something that can be shown.
LEMMA FactsTold == BoxesTyped' => Facts' \subseteq Told
<1>1. BoxesTyped => Facts \subseteq Told BY FactsAre
<1>2. BoxesTyped' => (Facts \subseteq Told)' BY <1>1, PTL
<1> QED BY <1>2 DEF Told

\* It changes only with the host.
LEMMA FactsStay == ASSUME UNCHANGED <<box, exists>> PROVE Facts' = Facts
BY DEF Facts, IsThere, StatusShown, NetsShown, MountsShown, StackShown

\* The listings that go on after a step that is not one of a listing.
LEMMA AsideKeeps ==
  ASSUME HostInv, Aside
  PROVE  \A c \in Clients : asked'[c].step = "look" => asked'[c] = asked[c]
BY DEF Aside, HostInv, HostTypes, AskedTyped

\* What the histories note of a step.
LEMMA ObservedIs ==
  ASSUME HostInv, Observed
  PROVE  \A c \in Clients :
           /\ steady'[c] \subseteq steady[c] \cap Facts' /\ steady'[c] \subseteq ever'[c]
           /\ asked'[c].step = "look" =>
                steady'[c] = steady[c] \cap Facts' /\ ever'[c] = ever[c] \cup Facts'
BY DEF Observed, HostInv, Witnessed

\* The histories, after a step that is noted, and after a listing has begun.
LEMMA WitnessedAside == HostInv /\ Observed => Witnessed'
<1> SUFFICES ASSUME HostInv, Observed, NEW c \in Clients
             PROVE  /\ steady'[c] \subseteq Facts' /\ steady'[c] \subseteq ever'[c]
                    /\ asked'[c].step = "look" => Facts' \subseteq ever'[c]
  BY DEF Witnessed
<1> QED BY ObservedIs

\* The listing of request c begins: it has seen nothing but what there is.
LEMMA BeginsKeeps ==
  ASSUME HostInv, NEW c \in Clients, NEW op, NEW rest, NEW rows, Begins(c, op, rest, rows)
  PROVE  /\ Facts' = Facts /\ steady'[c] = Facts /\ ever'[c] = Facts
         /\ asked'[c] = [Idle EXCEPT !.step = "look", !.op = op, !.rest = rest, !.rows = rows]
         /\ \A d \in Clients \ {c} :
              asked'[d] = asked[d] /\ steady'[d] = steady[d] /\ ever'[d] = ever[d]
<1>1. Facts' = Facts BY FactsStay DEF Begins
<1> QED BY <1>1 DEF Begins, Asks, Handles, HostInv, HostTypes, AskedTyped

LEMMA WitnessedBegins ==
  ASSUME HostInv, NEW c \in Clients, NEW op, NEW rest, NEW rows, Begins(c, op, rest, rows)
  PROVE  Witnessed'
<1> SUFFICES ASSUME NEW d \in Clients
             PROVE  /\ steady'[d] \subseteq Facts' /\ steady'[d] \subseteq ever'[d]
                    /\ asked'[d].step = "look" => Facts' \subseteq ever'[d]
  BY DEF Witnessed
<1> QED BY BeginsKeeps DEF HostInv, Witnessed

\* The next look of the listing of request c.
LEMMA LookKeeps ==
  ASSUME HostInv, NEW c \in Clients, NEW w, Handles(c, Listings, "look", w), Same
  PROVE  /\ Facts' = Facts /\ asked'[c] = w /\ asked[c].step = "look" /\ asked[c].op \in Listings
         /\ \A d \in Clients \ {c} : asked'[d] = asked[d]
         /\ \A d \in Clients : asked'[d].step = "look"
              => steady'[d] = steady[d] /\ ever'[d] = ever[d]
<1>1. Facts' = Facts BY FactsStay DEF Same
<1>2. /\ asked'[c] = w /\ asked[c].step = "look" /\ asked[c].op \in Listings
      /\ \A d \in Clients \ {c} : asked'[d] = asked[d]
  BY DEF Handles, HostInv, HostTypes, AskedTyped
<1>3. \A d \in Clients : asked'[d].step = "look" => asked[d].step = "look" BY <1>2
<1>4. \A d \in Clients : asked'[d].step = "look" =>
        steady'[d] = steady[d] \cap Facts /\ ever'[d] = ever[d] \cup Facts
  BY <1>1, ObservedIs DEF Same
<1>5. \A d \in Clients : asked[d].step = "look" => Facts \subseteq ever[d] /\ steady[d] \subseteq Facts
  BY DEF HostInv, Witnessed
<1>6. ASSUME NEW d \in Clients, asked'[d].step = "look"
      PROVE  steady'[d] = steady[d] /\ ever'[d] = ever[d]
  <2>1. asked[d].step = "look" BY <1>3, <1>6
  <2>2. Facts \subseteq ever[d] /\ steady[d] \subseteq Facts BY <1>5, <2>1
  <2>3. steady'[d] = steady[d] \cap Facts /\ ever'[d] = ever[d] \cup Facts BY <1>4, <1>6
  <2> QED BY <2>2, <2>3
<1> QED BY <1>1, <1>2, <1>6

\* The rows, after a step that is not one of a listing.
LEMMA GatheredAside == HostInv /\ Aside => Gathered'
<1> SUFFICES ASSUME HostInv, Aside, NEW c \in Clients, asked'[c].step = "look", ~asked'[c].missed
             PROVE  /\ asked'[c].rows \subseteq ever'[c]
                    /\ \A r \in steady'[c] : r[2] \in Scope(asked'[c].op) =>
                         r \in asked'[c].rows \/ Awaits(asked'[c].op, r) \cap asked'[c].rest # {}
  BY DEF Gathered, Scope, Awaits
<1>1. asked'[c] = asked[c] BY AsideKeeps
<1>2. steady'[c] \subseteq steady[c] /\ ever[c] \subseteq ever'[c] BY ObservedIs DEF Aside
<1> QED BY <1>1, <1>2 DEF HostInv, Gathered

\* After a listing has begun: all that is true awaits a look.
LEMMA GatheredBegins ==
  ASSUME HostInv, NEW c \in Clients, NEW op, NEW rest, NEW rows, Begins(c, op, rest, rows),
         rows \subseteq Facts,
         \A r \in Facts : r[2] \in Scope(op) => Awaits(op, r) \cap rest # {}
  PROVE  Gathered'
<1> SUFFICES ASSUME NEW d \in Clients, asked'[d].step = "look", ~asked'[d].missed
             PROVE  /\ asked'[d].rows \subseteq ever'[d]
                    /\ \A r \in steady'[d] : r[2] \in Scope(asked'[d].op) =>
                         r \in asked'[d].rows \/ Awaits(asked'[d].op, r) \cap asked'[d].rest # {}
  BY DEF Gathered, Scope, Awaits
<1>1. CASE d = c
  <2>0. asked'[c] = [Idle EXCEPT !.step = "look", !.op = op, !.rest = rest, !.rows = rows]
    BY DEF Begins, Asks, Handles, HostInv, HostTypes, AskedTyped
  <2>1. asked'[d].op = op /\ asked'[d].rest = rest /\ asked'[d].rows = rows
    BY <1>1, <2>0 DEF Idle
  <2> QED BY <2>1, <1>1, BeginsKeeps
<1>2. CASE d # c
  <2>1. asked'[d] = asked[d] /\ steady'[d] = steady[d] /\ ever'[d] = ever[d]
    BY <1>2, BeginsKeeps
  <2> QED BY <2>1 DEF HostInv, Gathered
<1> QED BY <1>1, <1>2

\* After a look whose rows are true and show what awaited it.
LEMMA GatheredLook ==
  ASSUME HostInv, NEW c \in Clients, NEW w, Handles(c, Listings, "look", w), Same,
         w.op = asked[c].op,
         ~w.missed => /\ ~asked[c].missed
                      /\ asked[c].rows \subseteq w.rows
                      /\ w.rows \subseteq asked[c].rows \cup Facts
                      /\ \A r \in Facts :
                           r[2] \in Scope(w.op) /\ Awaits(w.op, r) \cap asked[c].rest # {} =>
                             r \in w.rows \/ Awaits(w.op, r) \cap w.rest # {}
  PROVE  Gathered'
<1> SUFFICES ASSUME NEW d \in Clients, asked'[d].step = "look", ~asked'[d].missed
             PROVE  /\ asked'[d].rows \subseteq ever'[d]
                    /\ \A r \in steady'[d] : r[2] \in Scope(asked'[d].op) =>
                         r \in asked'[d].rows \/ Awaits(asked'[d].op, r) \cap asked'[d].rest # {}
  BY DEF Gathered, Scope, Awaits
<1>1. steady'[d] = steady[d] /\ ever'[d] = ever[d] BY LookKeeps
<1>2. CASE d = c
  <2>1. asked'[c] = w /\ asked[c].step = "look" BY LookKeeps
  <2>2. Facts \subseteq ever[c] /\ steady[c] \subseteq Facts
    BY <2>1 DEF HostInv, Witnessed
  <2>3. /\ asked[c].rows \subseteq ever[c]
        /\ \A r \in steady[c] : r[2] \in Scope(w.op) =>
             r \in asked[c].rows \/ Awaits(w.op, r) \cap asked[c].rest # {}
    BY <1>2, <2>1 DEF HostInv, Gathered
  <2> QED BY <1>1, <1>2, <2>1, <2>2, <2>3
<1>3. CASE d # c
  <2>1. asked'[d] = asked[d] BY <1>3, LookKeeps
  <2> QED BY <1>1, <2>1 DEF HostInv, Gathered
<1> QED BY <1>2, <1>3

\* What a listing begins with covers its scope.
LEMMA ListedCovers ==
  ASSUME HostInv, NEW op \in Listings, NEW r \in Facts, r[2] \in Scope(op)
  PROVE  Awaits(op, r) \cap (ListedFor(op) \X {NoBox}) # {}
<1>1. /\ r[1] \in Boxes /\ IsThere(r[1])
      /\ r[2] \in Items => r[2] \in exists
      /\ r[2] \in There \cup {"stack"} => r \in StatusShown(r[1]) \cup StackShown(r[1])
  BY FactsAre DEF HostInv, HostTypes
<1>2. CASE op = "running"
  <2>1. r[2] \in Live BY <1>2 DEF Scope
  <2>2. box[r[1]].status = r[2] BY <1>1, <2>1 DEF StatusShown, StackShown, There, Live
  <2>3. r[1] \in ListedFor(op) BY <1>1, <1>2, <2>1, <2>2 DEF ListedFor
  <2>4. <<r[1], NoBox>> \in Awaits(op, r) BY <1>2 DEF Awaits
  <2> QED BY <2>3, <2>4
<1>3. CASE op = "all"
  <2>1. r[1] \in ListedFor(op) BY <1>1, <1>3 DEF ListedFor
  <2>2. <<r[1], NoBox>> \in Awaits(op, r) BY <1>3 DEF Awaits
  <2> QED BY <2>1, <2>2
<1>4. CASE op = "nets"
  <2>1. r[2] \in exists \cap Nets BY <1>1, <1>4 DEF Scope, Items
  <2>2. r[2] \in ListedFor(op) BY <1>4, <2>1 DEF ListedFor
  <2>3. <<r[2], NoBox>> \in Awaits(op, r) BY <1>4 DEF Awaits
  <2> QED BY <2>2, <2>3
<1>5. CASE op = "vols"
  <2>1. r[2] \in exists \cap Vols BY <1>1, <1>5 DEF Scope, Items
  <2>2. r[2] \in ListedFor(op) BY <1>5, <2>1 DEF ListedFor
  <2>3. <<r[2], NoBox>> \in Awaits(op, r) BY <1>5 DEF Awaits
  <2> QED BY <2>2, <2>3
<1>6. CASE op = "stack" BY <1>6 DEF Scope
<1> QED BY <1>2, <1>3, <1>4, <1>5, <1>6 DEF Listings

\* A look at x shows every fact that waits for it.
LEMMA LookShows ==
  ASSUME HostInv, NEW op \in Listings, NEW x, x \notin Vols, x \in Boxes => IsThere(x),
         NEW r \in Facts, r[2] \in Scope(op), <<x, NoBox>> \in Awaits(op, r)
  PROVE  r \in Row(x)
<1>1. /\ r[1] \in Boxes /\ IsThere(r[1])
      /\ r[2] \in There \cup {"stack"} => r \in StatusShown(r[1]) \cup StackShown(r[1])
  BY FactsAre DEF HostInv, HostTypes
<1>2. CASE op \in {"running", "all"}
  <2>1. x = r[1] /\ r[2] \in There \cup {"stack"} BY <1>2 DEF Awaits, Scope, There, Live
  <2> QED BY <1>1, <2>1 DEF Row
<1>3. CASE op = "nets"
  <2>1. x = r[2] /\ x \in Nets BY <1>3 DEF Awaits, Scope
  <2>2. x \notin Boxes BY <2>1, DockerHostAssumption
  <2> QED BY <2>1, <2>2 DEF Row
<1>4. CASE op = "vols"
  <2>1. <<x, NoBox>> = <<r[2], NoBox>> \/ <<x, NoBox>> = <<r[2], r[1]>> BY <1>4 DEF Awaits
  <2>2. x = r[2] BY <2>1
  <2> QED BY <2>2, <1>4 DEF Scope
<1>5. CASE op = "stack" BY <1>5 DEF Scope
<1> QED BY <1>2, <1>3, <1>4, <1>5 DEF Listings

\* One lemma for each step of a listing.
LEMMA GatheredList ==
  ASSUME HostInv, NEW c \in Clients, NEW op \in Listings, List(c, op) PROVE Gathered'
<1>1. Begins(c, op, ListedFor(op) \X {NoBox}, {}) BY DEF List
<1> QED BY <1>1, GatheredBegins, ListedCovers

LEMMA GatheredDetail ==
  ASSUME HostInv, NEW c \in Clients, NEW which, ReadDetail(c, which) PROVE Gathered'
<1> DEFINE seen == {r \in Facts : r[1] = Found(which)}
<1>1. Begins(c, "detail", {}, seen) BY DEF ReadDetail
<1>2. Scope("detail") = {} BY DEF Scope
<1>3. seen \subseteq Facts OBVIOUS
<1> HIDE DEF seen
<1> QED BY <1>1, <1>2, <1>3, GatheredBegins

LEMMA GatheredLooks ==
  ASSUME HostInv, NEW c \in Clients, NEW x,
         Look(c, x) PROVE Gathered'
<1> DEFINE w == [asked[c] EXCEPT !.rest = (@ \ {<<x, NoBox>>}) \cup {}, !.rows = @ \cup Row(x)]
<1>1. /\ Handles(c, Listings, "look", w) /\ Same
      /\ x \notin Vols /\ (x \in Boxes => IsThere(x))
  BY DEF Look, Looks
<1>2. /\ w.op = asked[c].op /\ w.missed = asked[c].missed
      /\ w.rows = asked[c].rows \cup Row(x) /\ w.rest = asked[c].rest \ {<<x, NoBox>>}
  BY AskedFields DEF Requests
<1>3. asked[c].op \in Listings /\ Row(x) \subseteq Facts BY <1>1, RowIs DEF Handles
<1> HIDE DEF w
<1>4. ASSUME NEW r \in Facts, r[2] \in Scope(w.op), Awaits(w.op, r) \cap asked[c].rest # {}
      PROVE  r \in w.rows \/ Awaits(w.op, r) \cap w.rest # {}
  <2>1. CASE <<x, NoBox>> \in Awaits(w.op, r) BY <2>1, <1>1, <1>2, <1>3, <1>4, LookShows
  <2>2. CASE <<x, NoBox>> \notin Awaits(w.op, r) BY <2>2, <1>2, <1>4
  <2> QED BY <2>1, <2>2
<1> QED BY <1>1, <1>2, <1>3, <1>4, GatheredLook

LEMMA GatheredVolume ==
  ASSUME HostInv, NEW c \in Clients, NEW x, LookVolume(c, x) PROVE Gathered'
<1> DEFINE users == {x} \X {b \in Boxes : IsThere(b)}
           w == [asked[c] EXCEPT !.rest = (@ \ {<<x, NoBox>>}) \cup users, !.rows = @ \cup {}]
<1>1. Handles(c, Listings, "look", w) /\ Same /\ x \in Vols BY DEF LookVolume, Looks
<1>2. /\ w.op = asked[c].op /\ w.missed = asked[c].missed /\ w.rows = asked[c].rows
      /\ w.rest = (asked[c].rest \ {<<x, NoBox>>}) \cup users
  BY AskedFields DEF Requests
<1>3. asked[c].op \in Listings BY <1>1 DEF Handles
<1> HIDE DEF w
<1>4. ASSUME NEW r \in Facts, r[2] \in Scope(w.op), Awaits(w.op, r) \cap asked[c].rest # {}
      PROVE  r \in w.rows \/ Awaits(w.op, r) \cap w.rest # {}
  <2>1. CASE <<x, NoBox>> \in Awaits(w.op, r)
    <3>1. r[1] \in Boxes /\ IsThere(r[1]) BY FactsAre DEF HostInv, HostTypes
    <3>2. CASE w.op = "vols"
      <4>1. Awaits(w.op, r) = {<<r[2], NoBox>>, <<r[2], r[1]>>} BY <3>2 DEF Awaits
      <4>2. x = r[2] BY <2>1, <4>1
      <4>3. <<r[2], r[1]>> \in w.rest BY <1>2, <3>1, <4>2
      <4> QED BY <4>1, <4>3
    <3>3. CASE w.op \in {"running", "all"}
      <4>1. x = r[1] BY <2>1, <3>3 DEF Awaits
      <4> QED BY <1>1, <3>1, <4>1, DockerHostAssumption
    <3>4. CASE w.op = "nets"
      <4>1. x = r[2] /\ r[2] \in Nets BY <2>1, <3>4, <1>4 DEF Awaits, Scope
      <4> QED BY <1>1, <4>1, DockerHostAssumption
    <3>5. CASE w.op = "stack" BY <3>5, <1>4 DEF Scope
    <3> QED BY <1>2, <1>3, <3>2, <3>3, <3>4, <3>5 DEF Listings
  <2>2. CASE <<x, NoBox>> \notin Awaits(w.op, r) BY <2>2, <1>2, <1>4
  <2> QED BY <2>1, <2>2
<1> QED BY <1>1, <1>2, <1>4, GatheredLook

LEMMA GatheredUser ==
  ASSUME HostInv, NEW c \in Clients, NEW i \in Vols, NEW b \in Boxes, LookUser(c, i, b)
  PROVE  Gathered'
<1> DEFINE seen == {r \in Facts : r = <<b, i>>}
           w == [asked[c] EXCEPT !.rest = (@ \ {<<i, b>>}) \cup {}, !.rows = @ \cup seen]
<1>1. Handles(c, Listings, "look", w) /\ Same BY DEF LookUser, Looks
<1>2. /\ w.op = asked[c].op /\ w.missed = asked[c].missed
      /\ w.rows = asked[c].rows \cup seen /\ w.rest = asked[c].rest \ {<<i, b>>}
  BY AskedFields DEF Requests
<1>3. asked[c].op \in Listings BY <1>1 DEF Handles
<1> HIDE DEF w
<1>4. ASSUME NEW r \in Facts, r[2] \in Scope(w.op), Awaits(w.op, r) \cap asked[c].rest # {}
      PROVE  r \in w.rows \/ Awaits(w.op, r) \cap w.rest # {}
  <2>1. CASE <<i, b>> \in Awaits(w.op, r)
    <3>1. b # NoBox BY DockerHostAssumption
    <3>2. <<i, b>> = <<r[2], r[1]>> BY <2>1, <3>1 DEF Awaits
    <3>3. r = <<b, i>>
      <4>1. r = <<r[1], r[2]>> BY FactsAre DEF HostInv, HostTypes
      <4>2. r[2] = i /\ r[1] = b BY <3>2
      <4> QED BY <4>1, <4>2
    <3> QED BY <1>2, <3>3
  <2>2. CASE <<i, b>> \notin Awaits(w.op, r) BY <2>2, <1>2, <1>4
  <2> QED BY <2>1, <2>2
<1>5. seen \subseteq Facts OBVIOUS
<1> HIDE DEF seen
<1> QED BY <1>1, <1>2, <1>4, <1>5, GatheredLook

LEMMA GatheredFails ==
  ASSUME HostInv, NEW c \in Clients, NEW x, NEW b, LookFails(c, x, b) PROVE Gathered'
<1> DEFINE w == [asked[c] EXCEPT !.rest = @ \ {<<x, b>>}, !.missed = TRUE,
                   !.rows = IF x \in Boxes THEN @ \cup {<<x, "unknown">>} ELSE @]
<1>1. Handles(c, Listings, "look", w) /\ Same BY DEF LookFails
<1>2. w.op = asked[c].op /\ w.missed = TRUE BY AskedFields DEF Requests
<1> HIDE DEF w
<1> QED BY <1>1, <1>2, GatheredLook

\* Every step keeps the types.
LEMMA HostTypesKept == HostInv /\ [HostNext]_hostVars => HostTypes'
<1> SUFFICES ASSUME HostInv, [HostNext]_hostVars PROVE HostTypes' OBVIOUS
<1>1. BoxesTyped' /\ AskedTyped' BY BoxesTypedKept, AskedTypedKept
<1>2. Facts' \subseteq Told BY <1>1, FactsTold
<1>3. CASE UNCHANGED hostVars BY <1>1, <1>3 DEF hostVars, HostInv, HostTypes
<1>4. CASE Observed BY <1>1, <1>2, <1>4 DEF Observed, HostInv, HostTypes
<1>5. ASSUME NEW c \in Clients, Listing(c) PROVE HostTypes'
  <2>1. CASE \E op \in Listings : List(c, op)
    BY <1>1, <2>1, FactsAre DEF List, Begins, HostInv, HostTypes
  <2>2. CASE \E which \in Boxes \cup BoxNames : ReadDetail(c, which)
    BY <1>1, <2>2, FactsAre DEF ReadDetail, Begins, HostInv, HostTypes
  <2>3. CASE Observed BY <1>4, <2>3
  <2> QED
    BY <1>5, <2>1, <2>2, <2>3 DEF Listing, Look, LookVolume, LookUser, LookFails, Looks,
       Same
<1> QED BY <1>3, <1>4, <1>5, HostSteps DEF Aside

\* Every step keeps the histories and the rows as they should be.
LEMMA ListingsKept == HostInv /\ [HostNext]_hostVars => Witnessed' /\ Gathered'
<1> SUFFICES ASSUME HostInv, [HostNext]_hostVars PROVE Witnessed' /\ Gathered' OBVIOUS
<1>1. CASE UNCHANGED hostVars
  <2>1. Facts' = Facts BY <1>1, FactsStay DEF hostVars
  <2> QED BY <1>1, <2>1 DEF hostVars, HostInv, Witnessed, Gathered, Scope, Awaits
<1>2. CASE Aside BY <1>2, WitnessedAside, GatheredAside DEF Aside
<1>3. ASSUME NEW c \in Clients, Listing(c) PROVE Witnessed' /\ Gathered'
  <2>1. ASSUME NEW op \in Listings, List(c, op) PROVE Witnessed' /\ Gathered'
    <3>1. Begins(c, op, ListedFor(op) \X {NoBox}, {}) BY <2>1 DEF List
    <3>2. Witnessed' BY <3>1, WitnessedBegins
    <3> QED BY <2>1, <3>2, GatheredList
  <2>2. ASSUME NEW which, ReadDetail(c, which) PROVE Witnessed' /\ Gathered'
    <3>1. Begins(c, "detail", {}, {r \in Facts : r[1] = Found(which)})
      BY <2>2 DEF ReadDetail
    <3>2. Witnessed' BY <3>1, WitnessedBegins
    <3> QED BY <2>2, <3>2, GatheredDetail
  <2>3. ASSUME NEW x, Look(c, x) PROVE Witnessed' /\ Gathered'
    BY <2>3, GatheredLooks, WitnessedAside DEF Look, Looks, Same
  <2>4. ASSUME NEW x, LookVolume(c, x) PROVE Witnessed' /\ Gathered'
    BY <2>4, GatheredVolume, WitnessedAside DEF LookVolume, Looks, Same
  <2>5. ASSUME NEW x, NEW b, LookFails(c, x, b) PROVE Witnessed' /\ Gathered'
    BY <2>5, GatheredFails, WitnessedAside DEF LookFails, Same
  <2>6. ASSUME NEW i \in Vols, NEW b \in Boxes, LookUser(c, i, b)
        PROVE Witnessed' /\ Gathered'
    BY <2>6, GatheredUser, WitnessedAside DEF LookUser, Looks, Same
  <2> QED BY <1>3, <2>1, <2>2, <2>3, <2>4, <2>5, <2>6 DEF Listing
<1> QED BY <1>1, <1>2, <1>3, HostSteps

\* The host is there and nothing is asked at the start; every step keeps all of
\* it.
LEMMA HostInvHolds == HostSpec => []HostInv
<1>1. HostInit => HostInv
  <2> SUFFICES ASSUME HostInit PROVE HostInv OBVIOUS
  <2> DEFINE first == [status : {"none", "exited", "running"}, name : BoxNames \cup {NoBox},
                       uses : SUBSET Items]
  <2>0. first \subseteq Box BY DEF Box, There, Live
  <2>1. BoxesTyped BY <2>0 DEF HostInit, BoxesTyped
  <2>2. AskedTyped BY IdleIs DEF HostInit, AskedTyped
  <2>3. HostTypes BY <2>1, <2>2 DEF HostInit, HostTypes
  <2>4. \A c \in Clients : asked[c].step = "idle" BY DEF HostInit, Idle
  <2>5. Witnessed BY <2>4 DEF HostInit, Witnessed
  <2>6. Gathered BY <2>4 DEF Gathered
  <2> QED BY <2>3, <2>5, <2>6 DEF HostInv
<1>2. HostInv /\ [HostNext]_hostVars => HostInv'
  BY HostTypesKept, ListingsKept DEF HostInv
<1> QED BY <1>1, <1>2, PTL DEF HostSpec

\* Every variable of the daemon's host has its type, for any number of
\* requests, containers, networks and volumes.
THEOREM HostTypesHold == HostSpec => []HostTypeOK
<1>1. HostInv => HostTypeOK
  <2> SUFFICES ASSUME HostInv PROVE HostTypeOK OBVIOUS
  <2>1. BoxesTyped /\ \A c \in Clients : asked[c] \in Requests /\ ever[c] \subseteq Told
                                     /\ steady[c] \subseteq ever[c]
    BY DEF HostInv, HostTypes, AskedTyped, Witnessed
  <2> QED BY <2>1 DEF HostTypeOK, BoxesTyped, Requests, Told
<1> QED BY <1>1, HostInvHolds, PTL

\* A listing that is ready shows what was true at some time while it was made,
\* and all of its kind that was true all the while, however many requests and
\* other changes come between its calls.
THEOREM ListingsOfTheTime == HostSpec => []ListingsAreOfTheTime
<1>1. HostInv => ListingsAreOfTheTime
  <2> SUFFICES ASSUME HostInv, NEW c \in Clients, asked[c].step = "look", asked[c].rest = {},
                      ~asked[c].missed
               PROVE  /\ asked[c].rows \subseteq ever[c]
                      /\ \A r \in steady[c] : r[2] \in Scope(asked[c].op) => r \in asked[c].rows
    BY DEF ListingsAreOfTheTime
  <2> QED BY DEF HostInv, Gathered
<1> QED BY <1>1, HostInvHolds, PTL

\* An operation on a container changes the one it inspected and no other.
THEOREM ActsOnInspectedHolds == HostSpec => ActsOnInspected
<1>1. HostInv /\ [HostNext]_hostVars => [Bystanders]_hostVars BY InspectedOnly
<1> QED BY <1>1, HostInvHolds, PTL DEF HostSpec, ActsOnInspected, Bystanders
=============================================================================
