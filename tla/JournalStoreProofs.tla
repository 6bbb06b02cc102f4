---------------------------- MODULE JournalStoreProofs ----------------------------
(***************************************************************************)
(* The journal's files keep their promise for any processes, any inodes    *)
(* and any number of versions: what is published is whole, what was        *)
(* acknowledged survives, and readers see one register.                    *)
(***************************************************************************)
EXTENDS JournalStore, TLAPS

Working == {"fill", "sync", "compare", "publish"}
Writing == Working \cup {"partial"}
Holding == Writing \cup {"locked", "loaded", "syncDirectory", "cleanup"}

\* Where process p is tells what it holds and what the files look like to it.
Undisturbed(p) ==
    /\ proc[p].at \in Holding => lock = p
    /\ At(p, "reading") =>
          /\ proc[p].ok /\ file[proc[p].fd].whole
          /\ lock = p => proc[p].fd = directory.journal
    /\ At(p, "loaded") => VersionIn(directory) = proc[p].version
    \* A writer has the document's next version.
    /\ proc[p].at \in Writing =>
          IF proc[p].create THEN proc[p].version = 1
                            ELSE /\ proc[p].version = VersionIn(directory) + 1
                                 /\ directory.journal = proc[p].existing
    \* Its partial is as complete as it has got.
    /\ proc[p].at \in Working =>
          directory.part = proc[p].fd /\ file[proc[p].fd].version = proc[p].version
    /\ proc[p].at \in {"sync", "compare", "publish"} => file[proc[p].fd].whole
    /\ proc[p].at \in {"compare", "publish"} => file[proc[p].fd].synced
    \* What it published is what is found, at once and, when it is synced, for ever.
    /\ proc[p].at \in {"syncDirectory", "cleanup"} =>
          directory.part \in {None, proc[p].fd}
    /\ At(p, "syncDirectory") => VersionIn(directory) = proc[p].version
    /\ At(p, "cleanup") /\ proc[p].ok =>
          \A d \in stable : VersionIn(d) = proc[p].version

\* What a power loss may bring back is published, acknowledged and not newer than
\* what readers see now.
Stable ==
    /\ directory \in stable
    /\ \A d \in stable :
          /\ d.journal # None => file[d.journal].whole /\ file[d.journal].synced
          /\ acked <= VersionIn(d) /\ VersionIn(d) <= VersionIn(directory)

IInv == TypeOK /\ Stable /\ \A p \in Proc : Undisturbed(p)

USE NoneAssumption, VersionAssumption

----------------------------------------------------------------------------

\* The values of a process and of a file that has nothing in it.
LEMMA Types ==
    /\ Idle \in Process /\ Idle.at = "idle" /\ Idle.fd = None
    /\ NoFile \in Content
<1>1. 0 \in Version /\ 1 \in Version
  BY DEF Version
<1> QED BY <1>1 DEF Idle, Process, Place, NoFile, Content

\* There is no journal yet, and nobody works on one.
LEMMA InitIInv == Init => IInv
<1> SUFFICES ASSUME Init PROVE IInv
  OBVIOUS
<1>1. directory \in Directory /\ directory.journal = None
  BY DEF Init, Directory
<1>2. TypeOK
  BY <1>1, Types DEF Init, TypeOK, Version, Using
<1>3. Stable
  BY <1>1 DEF Init, Stable, VersionIn
<1>4. \A p \in Proc : proc[p].at = "idle"
  BY Types DEF Init
<1>5. \A p \in Proc : Undisturbed(p)
  BY <1>4 DEF Undisturbed, At, Holding, Writing, Working
<1> QED BY <1>2, <1>3, <1>5 DEF IInv

\* The lock has one holder, so no other process notices what the holder does to the
\* files, nor anybody what a process does that leaves them alone.
LEMMA StepIInv ==
    ASSUME IInv, NEW p \in Proc, TypeOK', Stable', Undisturbed(p)',
           \A q \in Proc \ {p} : proc'[q] = proc[q],
           lock' = lock \/ (lock \in {None, p} /\ lock' \in {None, p}),
           \/ UNCHANGED Files
           \/ /\ lock = p
              /\ \A q \in Proc \ {p}, i \in Inode :
                    i = proc[q].fd /\ file[i].whole => file'[i].whole
    PROVE  IInv'
<1> SUFFICES ASSUME NEW q \in Proc, q # p PROVE Undisturbed(q)'
  BY DEF IInv
<1>1. CASE UNCHANGED Files
  BY <1>1 DEF IInv, Undisturbed, At, Files, VersionIn, TypeOK
<1>2. CASE /\ lock = p
           /\ \A i \in Inode : i = proc[q].fd /\ file[i].whole => file'[i].whole
  <2>1. proc[q].at \notin Holding /\ lock' # q
    BY <1>2 DEF IInv, Undisturbed, TypeOK
  <2>2. At(q, "reading") => proc[q].fd \in Inode
    BY DEF IInv, TypeOK, Using, Process, At
  <2>3. At(q, "reading") => proc[q].ok /\ file'[proc[q].fd].whole
    BY <1>2, <2>2 DEF IInv, Undisturbed
  <2> QED BY <2>1, <2>3 DEF Undisturbed, At, Holding, Writing, Working
<1> QED BY <1>1, <1>2

\* A step that leaves the files and what is acknowledged alone.
LEMMA Quiet ==
    ASSUME IInv, NEW p \in Proc, UNCHANGED <<Files, acked>>,
           NEW s \in Process, proc' = [proc EXCEPT ![p] = s], s.fd # None <=> s.at \in Using,
           lock' = lock \/ (lock \in {None, p} /\ lock' \in {None, p}),
           Undisturbed(p)'
    PROVE  IInv'
<1>1. TypeOK'
  BY DEF IInv, TypeOK, Files
<1>2. Stable'
  BY DEF IInv, Stable, VersionIn, Files
<1>3. \A q \in Proc \ {p} : proc'[q] = proc[q]
  OBVIOUS
<1> QED BY <1>1, <1>2, <1>3, StepIInv

\* A process that leaves, in whatever way, gives up the lock and its file.
LEMMA LeaveIInv ==
    ASSUME IInv, NEW p \in Proc, Leave(p), UNCHANGED <<Files, acked>>
    PROVE  IInv'
<1>1. Undisturbed(p)'
  BY Types DEF Leave, Undisturbed, At, Holding, Writing, Working, IInv, TypeOK
<1>2. lock' = lock \/ (lock \in {None, p} /\ lock' \in {None, p})
  BY DEF Leave
<1>3. "idle" \notin Using
  BY DEF Using
<1> QED BY ONLY IInv, Leave(p), UNCHANGED <<Files, acked>>, <1>1, <1>2, <1>3, Types, Quiet
        DEF Leave

\* The lock is free when it is taken, so nobody else holds it.
LEMMA LockIInv == ASSUME IInv, NEW p \in Proc, Lock(p) PROVE IInv'
<1> DEFINE s == [proc[p] EXCEPT !.at = "locked"]
<1>1. s \in Process /\ s.at = "locked" /\ s.fd = proc[p].fd /\ proc[p].fd = None
  BY DEF IInv, TypeOK, Lock, Process, Place, At, Using
<1>2. proc' = [proc EXCEPT ![p] = s]
  BY DEF Lock, GoTo
<1>3. Undisturbed(p)'
  BY <1>1, <1>2 DEF Undisturbed, At, Holding, Writing, Working, IInv, TypeOK, Lock
<1> QED BY <1>1, <1>2, <1>3, Quiet DEF Lock, Using

\* A reader, with or without the lock, opens what is published.
LEMMA OpenReadIInv == ASSUME IInv, NEW p \in Proc, OpenRead(p) PROVE IInv'
<1> DEFINE s == [proc[p] EXCEPT !.at = "reading", !.fd = directory.journal,
                                !.ok = file[directory.journal].whole]
<1>1. directory.journal \in Inode /\ file[directory.journal].whole \in BOOLEAN
  BY DEF OpenRead, IInv, TypeOK, Directory, Content
<1>2. proc[p] \in Process
  BY DEF IInv, TypeOK
<1>3. s \in Process /\ s.at = "reading" /\ s.fd = directory.journal
      /\ s.ok = file[directory.journal].whole
  BY <1>1, <1>2 DEF Process, Place
<1>4. proc' = [proc EXCEPT ![p] = s]
  BY <1>2 DEF OpenRead, IInv, TypeOK
<1>5. file[directory.journal].whole
  BY <1>1 DEF IInv, Stable
<1> HIDE DEF s
<1>6. Undisturbed(p)'
  BY <1>1, <1>3, <1>4, <1>5
     DEF Undisturbed, At, Holding, Writing, Working, IInv, TypeOK, OpenRead, Files
<1>7. s.fd # None /\ s.at \in Using
  BY <1>1, <1>3 DEF Using
<1> QED BY ONLY IInv, OpenRead(p), <1>3, <1>4, <1>6, <1>7, Quiet DEF OpenRead

\* Under the lock the file that was read is still the published one.
LEMMA FinishReadIInv == ASSUME IInv, NEW p \in Proc, FinishRead(p) PROVE IInv'
<1>1. proc[p] \in Process /\ proc[p].fd \in Inode /\ UNCHANGED <<Files, acked>>
  BY DEF FinishRead, IInv, TypeOK, Using, Process, At
<1>2. CASE proc[p].ok /\ file[proc[p].fd].whole /\ lock = p
  <2> DEFINE s == [proc[p] EXCEPT !.at = "loaded", !.fd = None,
                                  !.version = file[proc[p].fd].version]
  <2>1. s \in Process /\ s.at = "loaded" /\ s.fd = None
        /\ s.version = file[proc[p].fd].version
    BY <1>1 DEF Process, Place, IInv, TypeOK, Content
  <2>2. proc' = [proc EXCEPT ![p] = s] /\ lock' = lock
    BY <1>1, <1>2 DEF FinishRead, IInv, TypeOK
  <2>3. VersionIn(directory) = s.version
    BY <1>1, <1>2, <2>1 DEF FinishRead, IInv, Undisturbed, VersionIn
  <2> HIDE DEF s
  <2>4. Undisturbed(p)'
    BY <1>1, <1>2, <2>1, <2>2, <2>3
       DEF Undisturbed, At, Holding, Writing, Working, IInv, TypeOK, Files, VersionIn
  <2>5. ~(s.fd # None) /\ s.at \notin Using
    BY <2>1 DEF Using
  <2> QED BY ONLY IInv, <1>1, <2>1, <2>2, <2>4, <2>5, Quiet
<1>3. CASE Leave(p)
  BY <1>1, <1>3, LeaveIInv
<1> QED BY <1>2, <1>3 DEF FinishRead

\* create makes the document's first version.
LEMMA BeginCreateIInv == ASSUME IInv, NEW p \in Proc, BeginCreate(p) PROVE IInv'
<1> DEFINE s == [proc[p] EXCEPT !.at = "partial", !.create = TRUE, !.version = 1]
<1>1. proc[p] \in Process /\ proc[p].fd = None
  BY DEF BeginCreate, IInv, TypeOK, Using, At
<1>2. s \in Process /\ s.at = "partial" /\ s.fd = None /\ s.create /\ s.version = 1
  <2>1. 1 \in Version
    BY DEF Version
  <2> QED BY <1>1, <2>1 DEF Process, Place
<1>3. proc' = [proc EXCEPT ![p] = s]
  BY <1>1 DEF BeginCreate, IInv, TypeOK
<1> HIDE DEF s
<1>4. Undisturbed(p)'
  BY <1>2, <1>3 DEF BeginCreate, Undisturbed, At, Holding, Writing, Working, IInv, TypeOK
<1>5. s.at \notin Using
  BY <1>2 DEF Using
<1> QED BY ONLY IInv, BeginCreate(p), <1>2, <1>3, <1>4, <1>5, Quiet DEF BeginCreate

\* write makes the version after the one that was read.
LEMMA BeginWriteIInv == ASSUME IInv, NEW p \in Proc, BeginWrite(p) PROVE IInv'
<1> DEFINE s == [proc[p] EXCEPT !.at = "partial", !.create = FALSE,
                                !.existing = directory.journal,
                                !.version = proc[p].version + 1]
<1>1. proc[p] \in Process /\ proc[p].fd = None
  BY DEF BeginWrite, IInv, TypeOK, Using, At
<1>2. proc[p].version + 1 \in Version /\ directory.journal \in Inode \cup {None}
  BY <1>1 DEF BeginWrite, Process, Version, IInv, TypeOK, Directory
<1>3. s \in Process /\ s.at = "partial" /\ s.fd = None /\ s.create = FALSE
      /\ s.version = proc[p].version + 1 /\ s.existing = directory.journal
  BY <1>1, <1>2 DEF Process, Place
<1>4. proc' = [proc EXCEPT ![p] = s]
  BY <1>1 DEF BeginWrite, IInv, TypeOK
<1> HIDE DEF s
<1>5. Undisturbed(p)'
  BY <1>3, <1>4 DEF BeginWrite, Undisturbed, At, Holding, Writing, Working, IInv, TypeOK,
     Files, VersionIn
<1>6. s.at \notin Using
  BY <1>3 DEF Using
<1> QED BY ONLY IInv, BeginWrite(p), <1>3, <1>4, <1>5, <1>6, Quiet DEF BeginWrite

----------------------------------------------------------------------------
(* The writer's own calls.                                                  *)

\* The process that works on the partial holds the lock and has it open.
LEMMA WriterHolds ==
    ASSUME IInv, NEW p \in Proc, proc[p].at \in Working \cup {"syncDirectory", "cleanup"}
    PROVE  /\ lock = p /\ proc[p] \in Process /\ proc[p].fd \in Inode
           /\ directory \in Directory /\ stable \subseteq Directory
  BY DEF IInv, Undisturbed, TypeOK, Using, Process, Working, Writing, Holding

\* A writer that goes on to its next call keeps what it holds.
LEMMA Moves ==
    ASSUME proc \in [Proc -> Process], NEW p \in Proc, NEW place \in Place, GoTo(p, place)
    PROVE  /\ proc' \in [Proc -> Process]
           /\ proc'[p] = [proc[p] EXCEPT !.at = place] /\ proc'[p].at = place
           /\ proc'[p].fd = proc[p].fd /\ proc'[p].version = proc[p].version
           /\ proc'[p].create = proc[p].create /\ proc'[p].existing = proc[p].existing
           /\ \A q \in Proc \ {p} : proc'[q] = proc[q]
  BY DEF GoTo, Process

\* Writing and syncing the partial makes it more complete, never less.
LEMMA PartialGrows ==
    ASSUME IInv, NEW p \in Proc, proc[p].at \in {"fill", "sync"},
           NEW place \in {"sync", "compare", "publish"}, GoTo(p, place),
           NEW f \in Content, file' = [file EXCEPT ![proc[p].fd] = f],
           f.version = file[proc[p].fd].version, f.whole, place # "sync" => f.synced,
           file[proc[p].fd].synced => f.synced, place = "compare" => ~proc[p].create,
           UNCHANGED <<directory, stable, lock, acked>>
    PROVE  IInv'
<1>1. lock = p /\ proc[p].fd \in Inode
  BY WriterHolds DEF Working
<1>2. /\ \A i \in Inode : /\ file'[i].version = file[i].version
                          /\ file[i].whole => file'[i].whole
                          /\ file[i].synced => file'[i].synced
      /\ file'[proc[p].fd].whole /\ (place # "sync" => file'[proc[p].fd].synced)
      /\ file' \in [Inode -> Content]
  BY <1>1 DEF IInv, TypeOK
<1>3. /\ proc' \in [Proc -> Process] /\ proc'[p].at = place
      /\ proc'[p].fd = proc[p].fd /\ proc'[p].version = proc[p].version
      /\ proc'[p].create = proc[p].create /\ proc'[p].existing = proc[p].existing
      /\ \A q \in Proc \ {p} : proc'[q] = proc[q]
  BY Moves DEF IInv, TypeOK, Place
<1>4. TypeOK'
  BY <1>1, <1>2, <1>3 DEF IInv, TypeOK, Using
<1>5. directory' = directory /\ \A d \in stable \cup {directory} : VersionIn(d)' = VersionIn(d)
  BY <1>2 DEF VersionIn, IInv, TypeOK, Directory
<1>6. Stable'
  BY <1>2, <1>5 DEF IInv, Stable, TypeOK, Directory
<1>7. Undisturbed(p)'
  BY <1>1, <1>2, <1>3, <1>5 DEF IInv, Undisturbed, At, Holding, Writing, Working
<1> QED BY <1>1, <1>2, <1>3, <1>4, <1>6, <1>7, StepIInv

\* All bytes are in the partial before it is synced,
LEMMA FillIInv == ASSUME IInv, NEW p \in Proc, Fill(p) PROVE IInv'
<1>1. proc[p].fd \in Inode /\ proc[p].at = "fill"
  BY WriterHolds DEF Fill, At, Working
<1>2. file[proc[p].fd] \in Content
  BY <1>1 DEF IInv, TypeOK
<1> DEFINE f == [file[proc[p].fd] EXCEPT !.whole = TRUE]
<1>3. /\ f \in Content /\ f.version = file[proc[p].fd].version /\ f.whole
      /\ f.synced = file[proc[p].fd].synced
  BY <1>1, <1>2 DEF Content
<1>4. file' = [file EXCEPT ![proc[p].fd] = f]
  BY DEF Fill
<1> HIDE DEF f
<1> QED BY <1>1, <1>3, <1>4, PartialGrows DEF Fill

\* and synced before it is published.
LEMMA SyncPartialIInv == ASSUME IInv, NEW p \in Proc, SyncPartial(p) PROVE IInv'
<1>1. proc[p].fd \in Inode /\ proc[p].at = "sync" /\ file[proc[p].fd].whole
  BY WriterHolds DEF SyncPartial, At, Working, IInv, Undisturbed
<1>2. file[proc[p].fd] \in Content
  BY <1>1 DEF IInv, TypeOK
<1> DEFINE f == [file[proc[p].fd] EXCEPT !.synced = TRUE]
<1>3. /\ f \in Content /\ f.version = file[proc[p].fd].version /\ f.whole
      /\ f.synced
  BY <1>1, <1>2 DEF Content
<1>4. file' = [file EXCEPT ![proc[p].fd] = f]
  BY DEF SyncPartial
<1> HIDE DEF f
<1>5. PICK place \in {"compare", "publish"} :
         GoTo(p, place) /\ (place = "compare" => ~proc[p].create)
  BY DEF SyncPartial
<1> QED BY <1>1, <1>3, <1>4, <1>5, PartialGrows DEF SyncPartial

\* The journal is still the one that write started from.
LEMMA CompareIInv == ASSUME IInv, NEW p \in Proc, Compare(p) PROVE IInv'
<1>1. /\ proc' \in [Proc -> Process] /\ proc'[p] = [proc[p] EXCEPT !.at = "publish"]
      /\ proc'[p].at = "publish"
      /\ proc'[p].fd = proc[p].fd /\ proc'[p].version = proc[p].version
      /\ proc'[p].create = proc[p].create /\ proc'[p].existing = proc[p].existing
      /\ \A q \in Proc \ {p} : proc'[q] = proc[q]
  BY Moves DEF IInv, TypeOK, Place, Compare
<1>2. Undisturbed(p)'
  BY <1>1 DEF IInv, Compare, Undisturbed, At, Holding, Writing, Working, Files, VersionIn
<1>3. TypeOK'
  <2>1. \A q \in Proc : proc'[q].fd # None <=> proc'[q].at \in Using
    BY <1>1 DEF IInv, TypeOK, Using, Compare, At
  <2> QED BY <1>1, <2>1 DEF IInv, TypeOK, Compare, Files
<1>4. Stable'
  BY DEF IInv, Stable, VersionIn, Compare, Files
<1> QED BY <1>1, <1>2, <1>3, <1>4, StepIInv DEF Compare

\* The inode of a new partial is nobody's and no directory's.
LEMMA OpenPartialIInv == ASSUME IInv, NEW p \in Proc, OpenPartial(p) PROVE IInv'
<1>1. PICK i \in Inode :
          /\ \A d \in stable \cup {directory} : i \notin {d.journal, d.part}
          /\ \A q \in Proc : proc[q].fd # i
          /\ Enter([directory EXCEPT !.part = i])
          /\ file' = [file EXCEPT ![i] = [NoFile EXCEPT !.version = proc[p].version]]
          /\ proc' = [proc EXCEPT ![p].at = "fill", ![p].fd = i]
  BY DEF OpenPartial
<1> DEFINE s == [proc[p] EXCEPT !.at = "fill", !.fd = i]
<1>2. proc[p] \in Process /\ directory \in Directory /\ lock = p /\ proc[p].at = "partial"
  BY DEF OpenPartial, At, IInv, TypeOK, Undisturbed, Holding, Writing
<1>3. /\ s \in Process /\ s.at = "fill" /\ s.fd = i /\ s.create = proc[p].create
      /\ s.version = proc[p].version /\ s.existing = proc[p].existing
  BY <1>1, <1>2 DEF Process, Place
<1>4. proc' = [proc EXCEPT ![p] = s]
  BY <1>1, <1>2 DEF IInv, TypeOK
<1> HIDE DEF s
<1>5. /\ directory' \in Directory /\ directory'.journal = directory.journal
      /\ directory'.part = i /\ stable' = stable \cup {directory'}
  BY <1>1, <1>2 DEF Enter, Directory
<1>6. /\ [NoFile EXCEPT !.version = proc[p].version] \in Content
      /\ [NoFile EXCEPT !.version = proc[p].version].version = proc[p].version
  BY <1>2 DEF NoFile, Content, Process
<1>7. /\ file' \in [Inode -> Content] /\ file'[i].version = proc[p].version
      /\ \A j \in Inode : j # i => file'[j] = file[j]
  BY <1>1, <1>6 DEF IInv, TypeOK
<1>8. TypeOK'
  <2>1. \A q \in Proc : proc'[q].fd # None <=> proc'[q].at \in Using
    BY <1>3, <1>4 DEF IInv, TypeOK, Using
  <2> QED BY <1>3, <1>4, <1>5, <1>7, <2>1 DEF IInv, TypeOK, OpenPartial
<1>9. \A d \in stable \cup {directory} :
         /\ VersionIn(d)' = VersionIn(d)
         /\ d.journal # None => d.journal \in Inode /\ file'[d.journal] = file[d.journal]
  BY <1>1, <1>7 DEF VersionIn, IInv, TypeOK, Directory
<1>10. VersionIn(directory)' = VersionIn(directory)
  BY <1>5, <1>9 DEF VersionIn
<1>11. Stable'
  BY <1>5, <1>9, <1>10 DEF IInv, Stable, OpenPartial, VersionIn
<1>12. Undisturbed(p)'
  BY <1>2, <1>3, <1>4, <1>5, <1>7, <1>10
     DEF IInv, TypeOK, OpenPartial, Undisturbed, At, Holding, Writing, Working
<1>13. \A q \in Proc \ {p}, j \in Inode :
          j = proc[q].fd /\ file[j].whole => file'[j].whole
  BY <1>1, <1>7
<1>14. \A q \in Proc \ {p} : proc'[q] = proc[q]
  BY <1>4 DEF IInv, TypeOK
<1>15. lock' = lock
  BY DEF OpenPartial
<1> QED BY ONLY IInv, <1>2, <1>8, <1>11, <1>12, <1>13, <1>14, <1>15, StepIInv

\* The partial becomes the journal: the document's next version.
LEMMA PublishIInv ==
    ASSUME IInv, NEW p \in Proc, At(p, "publish"), proc[p].create => directory.journal = None,
           NEW d \in Directory, d.journal = directory.part, d.part \in {None, directory.part},
           Enter(d), GoTo(p, "syncDirectory"), UNCHANGED <<file, lock, acked>>
    PROVE  IInv' /\ VersionIn(directory)' = VersionIn(directory) + 1
<1>1. lock = p /\ proc[p].fd \in Inode /\ directory.part = proc[p].fd
  BY WriterHolds DEF At, Working, IInv, Undisturbed
<1>2. /\ file[proc[p].fd].version = proc[p].version
      /\ file[proc[p].fd].whole /\ file[proc[p].fd].synced
  BY DEF At, IInv, Undisturbed, Working
<1>3. proc[p].version = VersionIn(directory) + 1
  BY DEF At, IInv, Undisturbed, Writing, Working, VersionIn
<1>4. /\ proc' \in [Proc -> Process] /\ proc'[p].at = "syncDirectory"
      /\ proc'[p].fd = proc[p].fd /\ proc'[p].version = proc[p].version
      /\ \A q \in Proc \ {p} : proc'[q] = proc[q]
  BY Moves DEF IInv, TypeOK, Place
<1>5. directory' = d /\ stable' = stable \cup {d}
  BY DEF Enter
<1>6. \A e \in Directory : VersionIn(e)' = VersionIn(e) /\ VersionIn(e) \in Nat
  BY DEF VersionIn, IInv, TypeOK, Directory, Content, Version
<1>7. VersionIn(d) = proc[p].version
  BY <1>1, <1>2 DEF VersionIn
<1>8. VersionIn(directory)' = VersionIn(directory) + 1
  BY <1>3, <1>5, <1>6, <1>7 DEF VersionIn
<1>9. TypeOK'
  <2>1. \A q \in Proc : proc'[q].fd # None <=> proc'[q].at \in Using
    BY <1>1, <1>4 DEF IInv, TypeOK, Using
  <2> QED BY <1>4, <1>5, <2>1 DEF IInv, TypeOK
<1>10. Stable'
  <2>1. \A e \in stable : /\ e \in Directory /\ acked <= VersionIn(e)
                          /\ VersionIn(e) <= VersionIn(directory)
    BY DEF IInv, Stable, TypeOK
  <2>2. directory \in stable /\ acked \in Nat
    BY DEF IInv, Stable, TypeOK, Version
  <2>3. /\ acked <= VersionIn(d) /\ \A e \in stable \cup {d} : VersionIn(e) <= VersionIn(d)
    BY <1>3, <1>6, <1>7, <2>1, <2>2
  <2>4. \A e \in stable \cup {d} : VersionIn(e)' = VersionIn(e)
    BY <1>6, <2>1
  <2>5. VersionIn(directory)' = VersionIn(d)
    BY <1>3, <1>7, <1>8
  <2>6. \A e \in stable \cup {d} : e.journal # None => file[e.journal].whole /\ file[e.journal].synced
    BY <1>1, <1>2 DEF IInv, Stable
  <2> QED BY <1>5, <2>1, <2>3, <2>4, <2>5, <2>6 DEF Stable
<1>11. Undisturbed(p)'
  <2>1. VersionIn(directory)' = proc'[p].version /\ directory'.part \in {None, proc'[p].fd}
    BY <1>1, <1>3, <1>4, <1>5, <1>8
  <2> QED BY ONLY <1>1, <1>4, <2>1, UNCHANGED <<file, lock, acked>>
          DEF Undisturbed, At, Writing, Working
<1> QED BY <1>1, <1>4, <1>8, <1>9, <1>10, <1>11, StepIInv

\* create publishes the first version, where there is none.
LEMMA LinkIInv ==
    ASSUME IInv, NEW p \in Proc, Link(p)
    PROVE  IInv' /\ VersionIn(directory)' = VersionIn(directory) + 1
<1> DEFINE d == [directory EXCEPT !.journal = directory.part]
<1>1. d \in Directory /\ d.journal = directory.part /\ d.part = directory.part
  BY DEF IInv, TypeOK, Directory
<1> QED BY <1>1, PublishIInv DEF Link

\* write publishes the next one, over its predecessor.
LEMMA ReplaceIInv ==
    ASSUME IInv, NEW p \in Proc, Replace(p)
    PROVE  IInv' /\ VersionIn(directory)' = VersionIn(directory) + 1
<1> DEFINE d == [journal |-> directory.part, part |-> None]
<1>1. d \in Directory /\ d.journal = directory.part /\ d.part = None
  BY DEF IInv, TypeOK, Directory
<1> QED BY <1>1, PublishIInv DEF Replace

\* With the directory on the disk what was published is there for good.
LEMMA SyncDirectoryIInv == ASSUME IInv, NEW p \in Proc, SyncDirectory(p) PROVE IInv'
<1> DEFINE s == [proc[p] EXCEPT !.at = "cleanup", !.ok = TRUE]
<1>1. lock = p /\ proc[p] \in Process /\ proc[p].fd \in Inode
  BY WriterHolds DEF SyncDirectory, At
<1>2. s \in Process /\ s.at = "cleanup" /\ s.fd = proc[p].fd /\ s.version = proc[p].version
  BY <1>1 DEF Process, Place
<1>3. proc' = [proc EXCEPT ![p] = s]
  BY <1>1 DEF SyncDirectory, IInv, TypeOK
<1> HIDE DEF s
<1>4. proc'[p] = s /\ \A q \in Proc \ {p} : proc'[q] = proc[q]
  BY <1>3 DEF IInv, TypeOK
<1>5. stable' = {directory} /\ UNCHANGED <<directory, file, lock, acked>>
  BY DEF SyncDirectory
<1>6. TypeOK'
  <2>1. \A q \in Proc : proc'[q].fd # None <=> proc'[q].at \in Using
    BY <1>1, <1>2, <1>4 DEF IInv, TypeOK, Using
  <2> QED BY <1>2, <1>3, <1>5, <2>1 DEF IInv, TypeOK
<1>7. Stable'
  BY <1>5 DEF IInv, Stable, VersionIn
<1>8. Undisturbed(p)'
  BY <1>1, <1>2, <1>4, <1>5
     DEF SyncDirectory, IInv, Undisturbed, At, Writing, Working, VersionIn
<1> QED BY <1>1, <1>4, <1>5, <1>6, <1>7, <1>8, StepIInv

\* A call that fails leaves the partial to the clean-up.
LEMMA FailsIInv == ASSUME IInv, NEW p \in Proc, Fails(p) PROVE IInv'
<1> DEFINE s == [proc[p] EXCEPT !.at = "cleanup", !.ok = FALSE]
<1>1. /\ lock = p /\ proc[p] \in Process /\ proc[p].fd \in Inode
      /\ directory.part \in {None, proc[p].fd}
  BY WriterHolds DEF Fails, At, IInv, Undisturbed, Working
<1>2. /\ s \in Process /\ s.at = "cleanup" /\ s.fd = proc[p].fd /\ ~s.ok
  BY <1>1 DEF Process, Place
<1>3. proc' = [proc EXCEPT ![p] = s]
  BY <1>1 DEF Fails, IInv, TypeOK
<1> HIDE DEF s
<1>4. proc'[p] = s /\ UNCHANGED <<Files, lock, acked>>
  BY <1>3 DEF IInv, TypeOK, Fails
<1>5. Undisturbed(p)'
  BY <1>1, <1>2, <1>4 DEF Undisturbed, At, Writing, Working, Files
<1>6. s.fd # None /\ s.at \in Using
  BY <1>1, <1>2 DEF Using
<1> QED BY ONLY IInv, <1>2, <1>3, <1>4, <1>5, <1>6, Quiet

\* The process unlinks its own partial, if it is still there, and is done or fails.
LEMMA CleanupIInv == ASSUME IInv, NEW p \in Proc, Cleanup(p) PROVE IInv'
<1>1. lock = p /\ proc[p] \in Process /\ proc[p].fd \in Inode /\ directory \in Directory
  BY WriterHolds DEF Cleanup, At
<1>2. /\ directory' \in Directory /\ directory'.journal = directory.journal
      /\ directory' \in stable' /\ stable \subseteq stable'
      /\ \A d \in stable' : d \in Directory /\ \E e \in stable : d.journal = e.journal
      /\ file' = file
  BY <1>1 DEF Cleanup, Enter, Directory, IInv, Stable, TypeOK
<1>3. VersionIn(directory)' = VersionIn(directory)
  BY <1>2 DEF VersionIn
<1>4. \A d \in stable' : \E e \in stable :
          VersionIn(d)' = VersionIn(e) /\ d.journal = e.journal
  BY <1>2 DEF VersionIn
<1>5. CASE proc[p].ok /\ lock' = lock /\ acked' = proc[p].version
           /\ proc' = [proc EXCEPT ![p] = [Idle EXCEPT !.at = "loaded",
                                                      !.version = proc[p].version]]
  <2> DEFINE s == [Idle EXCEPT !.at = "loaded", !.version = proc[p].version]
  <2>1. s \in Process /\ s.at = "loaded" /\ s.fd = None /\ s.version = proc[p].version
    BY <1>1, Types DEF Process, Place, Idle
  <2>2. proc' = [proc EXCEPT ![p] = s]
    BY <1>5
  <2> HIDE DEF s
  <2>3. proc'[p] = s /\ \A q \in Proc \ {p} : proc'[q] = proc[q]
    BY <2>2 DEF IInv, TypeOK
  <2>4. \A d \in stable : VersionIn(d) = proc[p].version
    BY <1>5 DEF Cleanup, IInv, Undisturbed
  <2>5. proc[p].version \in Version /\ directory \in stable
    BY <1>1 DEF Process, IInv, Stable
  <2>6. TypeOK'
    <3>1. \A q \in Proc : proc'[q].fd # None <=> proc'[q].at \in Using
      BY <2>1, <2>3 DEF IInv, TypeOK, Using
    <3>2. stable' \subseteq Directory
      BY <1>2
    <3> QED BY <1>2, <1>5, <2>1, <2>2, <2>5, <3>1, <3>2 DEF IInv, TypeOK
  <2>7. Stable'
    <3>1. \A d \in stable' : VersionIn(d)' = proc[p].version
      BY <1>4, <2>4
    <3>2. VersionIn(directory)' = proc[p].version
      BY <1>3, <2>4, <2>5
    <3>3. \A d \in stable' : d.journal # None => file[d.journal].whole /\ file[d.journal].synced
      BY <1>4 DEF IInv, Stable
    <3> QED BY <1>2, <1>5, <2>5, <3>1, <3>2, <3>3 DEF Stable, Version
  <2>8. Undisturbed(p)'
    BY <1>1, <1>3, <1>5, <2>1, <2>3, <2>4, <2>5 DEF Undisturbed, At, Writing, Working
  <2> QED BY <1>1, <1>2, <1>5, <2>3, <2>6, <2>7, <2>8, StepIInv
<1>6. CASE Leave(p) /\ UNCHANGED acked
  <2>1. proc' = [proc EXCEPT ![p] = Idle] /\ lock' = None
    BY <1>1, <1>6 DEF Leave
  <2>2. proc'[p] = Idle /\ \A q \in Proc \ {p} : proc'[q] = proc[q]
    BY <2>1 DEF IInv, TypeOK
  <2>3. TypeOK'
    <3>1. \A q \in Proc : proc'[q].fd # None <=> proc'[q].at \in Using
      BY <2>2, Types DEF IInv, TypeOK, Using
    <3>2. stable' \subseteq Directory
      BY <1>2
    <3> QED BY <1>2, <1>6, <2>1, <3>1, <3>2, Types DEF IInv, TypeOK
  <2>4. Stable'
    BY <1>2, <1>3, <1>4, <1>6 DEF IInv, Stable
  <2>5. Undisturbed(p)'
    BY <2>2, Types DEF Undisturbed, At, Holding, Writing, Working
  <2> QED BY <1>1, <1>2, <2>1, <2>2, <2>3, <2>4, <2>5, StepIInv
<1> QED BY <1>5, <1>6 DEF Cleanup

----------------------------------------------------------------------------
(* Failures, and all steps together.                                        *)

\* What a power loss leaves is one of the stable directories, and whole.
LEMMA PowerLossIInv ==
    ASSUME IInv, PowerLoss
    PROVE  IInv' /\ VersionIn(directory)' \in acked .. VersionIn(directory)
<1>1. PICK d \in stable : directory' = d /\ stable' = {d}
  BY DEF PowerLoss
<1>2. PICK torn \in SUBSET {i \in Inode : ~file[i].synced} :
          file' = [i \in Inode |-> IF i \in torn THEN [file[i] EXCEPT !.whole = FALSE]
                                                 ELSE [file[i] EXCEPT !.synced = TRUE]]
  BY DEF PowerLoss
<1>3. \A i \in Inode : /\ file'[i] \in Content /\ file'[i].version = file[i].version
                       /\ file[i].synced => file'[i].synced /\ file'[i].whole = file[i].whole
  <2> SUFFICES ASSUME NEW i \in Inode
               PROVE  /\ file'[i] \in Content /\ file'[i].version = file[i].version
                      /\ file[i].synced => file'[i].synced /\ file'[i].whole = file[i].whole
    OBVIOUS
  <2>1. file[i] \in Content
    BY DEF IInv, TypeOK
  <2>2. CASE i \in torn
    BY <1>2, <2>1, <2>2 DEF Content
  <2>3. CASE i \notin torn
    BY <1>2, <2>1, <2>3 DEF Content
  <2> QED BY <2>2, <2>3
<1>4. d \in Directory /\ VersionIn(d)' = VersionIn(d)
  BY <1>3 DEF VersionIn, IInv, TypeOK, Directory
<1>5. /\ acked <= VersionIn(d) /\ VersionIn(d) <= VersionIn(directory)
      /\ d.journal # None => file[d.journal].whole /\ file[d.journal].synced
  BY DEF IInv, Stable
<1>6. /\ acked \in Nat /\ VersionIn(directory) \in Nat /\ VersionIn(d) \in Nat
      /\ VersionIn(directory)' = VersionIn(d)
  BY <1>1, <1>3, <1>4 DEF VersionIn, IInv, TypeOK, Directory, Content, Version
<1>7. TypeOK'
  <2>1. proc' \in [Proc -> Process] /\ \A p \in Proc : proc'[p] = Idle
    BY Types DEF PowerLoss
  <2>2. \A q \in Proc : proc'[q].fd # None <=> proc'[q].at \in Using
    BY <2>1, Types DEF Using
  <2>3. file' \in [Inode -> Content]
    BY <1>2, <1>3
  <2> QED BY <1>1, <1>4, <2>1, <2>2, <2>3 DEF IInv, TypeOK, PowerLoss
<1>8. Stable'
  BY <1>1, <1>3, <1>4, <1>5, <1>6 DEF Stable, PowerLoss, Directory
<1>9. \A p \in Proc : Undisturbed(p)'
  BY Types DEF PowerLoss, Undisturbed, At, Holding, Writing, Working
<1> QED BY <1>1, <1>4, <1>5, <1>6, <1>7, <1>8, <1>9 DEF IInv

\* Nothing moves.
LEMMA UnchangedIInv == IInv /\ UNCHANGED vars => IInv'
  BY DEF vars, IInv, TypeOK, Stable, Undisturbed, At, VersionIn

\* Every step keeps the invariant.
LEMMA NextIInv == IInv /\ [Next]_vars => IInv'
<1> SUFFICES ASSUME IInv, Next PROVE IInv'
  BY UnchangedIInv
<1>1. ASSUME NEW p \in Proc, Release(p) \/ OpenPartialFails(p) \/ Kill(p) PROVE IInv'
  BY <1>1, LeaveIInv DEF Release, OpenPartialFails, Kill
<1>2. ASSUME NEW p \in Proc, Step(p) PROVE IInv'
  BY <1>1, <1>2, LockIInv, OpenReadIInv, FinishReadIInv, BeginCreateIInv, BeginWriteIInv,
     OpenPartialIInv, FillIInv, SyncPartialIInv, CompareIInv, LinkIInv, ReplaceIInv,
     SyncDirectoryIInv, FailsIInv, CleanupIInv DEF Step
<1> QED BY <1>1, <1>2, PowerLossIInv DEF Next

\* Every state of the processes, the files and the disk has the inductive invariant.
THEOREM Invariance == Spec => []IInv
  BY InitIInv, NextIInv, PTL DEF Spec

\* Files, processes and lock stay well formed; a process has a file open exactly while
\* it reads or writes one.
THEOREM SpecTypeOK == Spec => []TypeOK
<1>1. IInv => TypeOK
  BY DEF IInv
<1> QED BY <1>1, Invariance, PTL

\* Nobody ever finds a torn journal, after kills and power losses either (create and
\* write fill and sync the partial before they publish it).
THEOREM SpecJournalWhole == Spec => []JournalWhole
<1>1. IInv => JournalWhole
  BY DEF IInv, Stable, Undisturbed, JournalWhole
<1> QED BY <1>1, Invariance, PTL

\* No writer publishes, replaces or unlinks a file that is not its own
\* (mutation_lock, the exclusive partial, _unlink_owned_partial).
THEOREM SpecWriterUndisturbed == Spec => []WriterUndisturbed
<1>1. IInv => WriterUndisturbed
  BY DEF IInv, Undisturbed, WriterUndisturbed, Writing, Working
<1> QED BY <1>1, Invariance, PTL

\* What create or write returned for is found after every power loss (both sync the
\* directory before they return).
THEOREM SpecAcknowledgedSurvives == Spec => []AcknowledgedSurvives
<1>1. IInv => AcknowledgedSurvives
  BY DEF IInv, Stable, AcknowledgedSurvives, VersionIn, TypeOK, Directory, Content, Version
<1> QED BY <1>1, Invariance, PTL

----------------------------------------------------------------------------
(* The refinement.                                                          *)

\* A publication is the register's write, the return of create or write its
\* acknowledgement, a power loss its loss; every other step leaves it alone.
LEMMA StepRefines ==
    ASSUME IInv, IInv', Next
    PROVE  [Register!Next]_<<VersionIn(directory), acked>>
<1> DEFINE value == VersionIn(directory)
<1>1. ASSUME directory'.journal = directory.journal,
             \A i \in Inode : i = directory.journal => file'[i].version = file[i].version
      PROVE  value' = value
  BY <1>1 DEF VersionIn, IInv, TypeOK, Directory
<1>2. ASSUME UNCHANGED Files PROVE value' = value
  BY <1>2, <1>1 DEF Files
<1>3. ASSUME NEW p \in Proc, Link(p) \/ Replace(p) PROVE Register!Write
  <2>1. acked' = acked /\ value' = value + 1
    BY <1>3, LinkIInv, ReplaceIInv DEF Link, Replace
  <2> QED BY ONLY <2>1 DEF Register!Write
<1>4. ASSUME NEW p \in Proc, Cleanup(p) PROVE [Register!Next]_<<value, acked>>
  <2>1. /\ proc[p] \in Process /\ file' = file /\ directory'.journal = directory.journal
    BY <1>4, WriterHolds DEF Cleanup, Enter, Directory, At
  <2>2. value' = value
    BY <1>1, <2>1
  <2>3. acked' = acked \/ acked' = value
    BY <1>4 DEF Cleanup, IInv, Stable, Undisturbed
  <2> QED BY ONLY <2>2, <2>3 DEF Register!Next, Register!Acknowledge
<1>5. ASSUME PowerLoss PROVE Register!Lose
  <2>1. acked' = acked /\ value' \in acked .. value
    BY <1>5, PowerLossIInv DEF PowerLoss
  <2> QED BY ONLY <2>1 DEF Register!Lose
<1>6. ASSUME NEW p \in Proc, Fill(p) \/ SyncPartial(p) PROVE UNCHANGED <<value, acked>>
  <2>1. directory' = directory /\ acked' = acked
    BY <1>6 DEF Fill, SyncPartial
  <2>2. proc[p].fd \in Inode
    BY <1>6, WriterHolds DEF Fill, SyncPartial, At, Working
  <2>3. \A i \in Inode : file'[i].version = file[i].version
    BY <1>6, <2>2 DEF Fill, SyncPartial, IInv, TypeOK, Content
  <2> QED BY <1>1, <2>1, <2>3
<1>7. ASSUME NEW p \in Proc, OpenPartial(p) PROVE UNCHANGED <<value, acked>>
  <2>1. PICK i \in Inode :
            /\ \A d \in stable \cup {directory} : i \notin {d.journal, d.part}
            /\ directory' = [directory EXCEPT !.part = i]
            /\ file' = [file EXCEPT ![i] = [NoFile EXCEPT !.version = proc[p].version]]
    BY <1>7 DEF OpenPartial, Enter
  <2>2. directory'.journal = directory.journal
    BY <2>1 DEF IInv, TypeOK, Directory
  <2>3. \A j \in Inode : j = directory.journal => file'[j].version = file[j].version
    BY <2>1 DEF IInv, TypeOK
  <2>4. acked' = acked
    BY <1>7 DEF OpenPartial
  <2> QED BY <1>1, <2>2, <2>3, <2>4
<1>8. ASSUME NEW p \in Proc, SyncDirectory(p) PROVE UNCHANGED <<value, acked>>
  BY <1>1, <1>8 DEF SyncDirectory
<1>9. ASSUME NEW p \in Proc,
             \/ Lock(p) \/ Release(p) \/ OpenRead(p) \/ FinishRead(p) \/ BeginCreate(p)
             \/ BeginWrite(p) \/ OpenPartialFails(p) \/ Compare(p) \/ Fails(p) \/ Kill(p)
      PROVE  UNCHANGED <<value, acked>>
  <2>1. UNCHANGED <<Files, acked>>
    BY <1>9 DEF Lock, Release, OpenRead, FinishRead, BeginCreate, BeginWrite,
       OpenPartialFails, Compare, Fails, Kill
  <2> QED BY <1>2, <2>1
<1> HIDE DEF value
<1>10. ASSUME NEW p \in Proc, Step(p) \/ Kill(p) PROVE [Register!Next]_<<value, acked>>
  BY <1>3, <1>4, <1>6, <1>7, <1>8, <1>9, <1>10 DEF Step, Register!Next
<1>11. [Register!Next]_<<value, acked>>
  BY <1>5, <1>10 DEF Next, Register!Next
<1> QED BY <1>11 DEF value

\* To its readers, status included, the store is one register: its versions follow one
\* another, and an acknowledged one is never taken back.
THEOREM SpecRefinesRegister == Spec => RegisterSpec
<1>1. Init => Register!Init
  BY DEF Init, Register!Init, VersionIn
<1>2. IInv /\ IInv' /\ [Next]_vars => [Register!Next]_<<VersionIn(directory), acked>>
  <2>1. UNCHANGED vars => UNCHANGED <<VersionIn(directory), acked>>
    BY DEF vars, VersionIn
  <2> QED BY <2>1, StepRefines
<1> QED BY <1>1, <1>2, Invariance, PTL DEF Spec, RegisterSpec, Register!Spec
=============================================================================
