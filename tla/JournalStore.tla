------------------------------- MODULE JournalStore -------------------------------
(***************************************************************************)
(* The files behind one operation's journal: OPERATION.lock, the published *)
(* OPERATION.json and the exclusive OPERATION.json.part, and the processes *)
(* that use them: plan() creates, apply() and resume_prepare() load and    *)
(* write, all under mutation_lock, while status() reads without it.        *)
(*                                                                         *)
(* A process may be killed at any system call, a call may fail, and the    *)
(* machine may lose power.  The file system is external: a directory       *)
(* operation takes effect at once and reaches the disk at the next fsync   *)
(* of the directory or earlier, in order; a file's bytes are on the disk   *)
(* once the file is fsynced.  The lock file itself is never removed, so    *)
(* only its flock is kept.                                                 *)
(***************************************************************************)
EXTENDS Integers

CONSTANTS Proc,         \* client processes
          Inode,        \* bound of the model: files alive at the same time
          MaxVersion,   \* bound of the model: versions of the document
          None          \* no inode, no process

ASSUME NoneAssumption == None \notin Inode \cup Proc
ASSUME VersionAssumption == MaxVersion \in Nat \ {0}

VARIABLES
    directory,  \* inode under each name, None when the name is free
    stable,     \* directories that may be found after a power loss
    file,       \* content of each inode
    lock,       \* holder of the advisory lock
    proc,       \* where each process is
    acked       \* newest version a create or a write has returned for

vars == <<directory, stable, file, lock, proc, acked>>

Version == 0 .. MaxVersion
Directory == [journal : Inode \cup {None}, part : Inode \cup {None}]
Place == {"idle", "locked", "reading", "loaded", "partial", "fill", "sync", "compare",
          "publish", "syncDirectory", "cleanup"}
Using == {"reading", "fill", "sync", "compare", "publish", "syncDirectory", "cleanup"}

Content == [version : Version, whole : BOOLEAN, synced : BOOLEAN]
Process == [at : Place, create : BOOLEAN, version : Version, fd : Inode \cup {None},
            existing : Inode \cup {None}, ok : BOOLEAN]

TypeOK ==
    /\ directory \in Directory
    /\ stable \subseteq Directory
    /\ file \in [Inode -> Content]
    /\ lock \in Proc \cup {None}
    /\ proc \in [Proc -> Process]
    /\ acked \in Version
    \* A process has a file exactly while it reads or writes one.
    /\ \A p \in Proc : proc[p].fd # None <=> proc[p].at \in Using

\* fd is the file being read, or the process's own partial (its descriptor, then its
\* identity).  ok: the read found the file whole; the write got through.
Idle == [at |-> "idle", create |-> FALSE, version |-> 0, fd |-> None, existing |-> None,
         ok |-> FALSE]

NoFile == [version |-> 0, whole |-> FALSE, synced |-> FALSE]

Init == /\ directory = [journal |-> None, part |-> None]
        /\ stable = {directory}
        /\ file = [i \in Inode |-> NoFile]
        /\ lock = None
        /\ proc = [p \in Proc |-> Idle]
        /\ acked = 0

----------------------------------------------------------------------------

At(p, place) == proc[p].at = place
GoTo(p, place) == proc' = [proc EXCEPT ![p].at = place]
Files == <<directory, stable, file>>

\* A system call on the directory: visible at once, on the disk perhaps.
Enter(d) == directory' = d /\ stable' = stable \cup {d}

\* The process leaves, by return, exception or death; its descriptors close.
Leave(p) ==
    /\ proc' = [proc EXCEPT ![p] = Idle]
    /\ lock' = IF lock = p THEN None ELSE lock

----------------------------------------------------------------------------
(* mutation_lock.  A second process is refused and changes nothing.         *)

\* Mutant of Lock: flock is not exclusive.
LockShared(p) ==
    /\ At(p, "idle")
    /\ lock' = p
    /\ GoTo(p, "locked")
    /\ UNCHANGED <<Files, acked>>

Lock(p) ==
    /\ At(p, "idle")
    /\ lock = None
    /\ lock' = p
    /\ GoTo(p, "locked")
    /\ UNCHANGED <<Files, acked>>

\* The command is done, or there is no journal to load.
Release(p) ==
    /\ proc[p].at \in {"locked", "loaded"}
    /\ Leave(p)
    /\ UNCHANGED <<Files, acked>>

----------------------------------------------------------------------------
(* read, with or without the lock.                                          *)

OpenRead(p) ==
    /\ proc[p].at \in {"idle", "locked"}
    /\ directory.journal # None
    /\ proc' = [proc EXCEPT ![p].at = "reading", ![p].fd = directory.journal,
                            ![p].ok = file[directory.journal].whole]
    /\ UNCHANGED <<Files, lock, acked>>

\* Mutant of FinishRead: the descriptor is not closed.
FinishReadLeaks(p) ==
    /\ At(p, "reading")
    /\ IF proc[p].ok /\ file[proc[p].fd].whole /\ lock = p
         THEN /\ proc' = [proc EXCEPT ![p].at = "loaded",
                                      ![p].version = file[proc[p].fd].version]
              /\ UNCHANGED lock
         ELSE Leave(p)
    /\ UNCHANGED <<Files, acked>>

\* A file that is torn or changed meanwhile is an error.
FinishRead(p) ==
    /\ At(p, "reading")
    /\ IF proc[p].ok /\ file[proc[p].fd].whole /\ lock = p
         THEN /\ proc' = [proc EXCEPT ![p].at = "loaded", ![p].fd = None,
                                      ![p].version = file[proc[p].fd].version]
              /\ UNCHANGED lock
         ELSE Leave(p)
    /\ UNCHANGED <<Files, acked>>

----------------------------------------------------------------------------
(* create and write.                                                        *)

BeginCreate(p) ==
    /\ At(p, "locked")
    /\ proc' = [proc EXCEPT ![p].at = "partial", ![p].create = TRUE, ![p].version = 1]
    /\ UNCHANGED <<Files, lock, acked>>

\* write starts from the identity of the file it is going to replace.
BeginWrite(p) ==
    /\ At(p, "loaded")
    /\ proc[p].version < MaxVersion
    /\ directory.journal # None
    /\ proc' = [proc EXCEPT ![p].at = "partial", ![p].create = FALSE,
                            ![p].existing = directory.journal, ![p].version = @ + 1]
    /\ UNCHANGED <<Files, lock, acked>>

\* The partial is created exclusively; one that is there already is an error.
OpenPartial(p) ==
    /\ At(p, "partial")
    /\ directory.part = None
    /\ \E i \in Inode :
          /\ \A d \in stable \cup {directory} : i \notin {d.journal, d.part}
          /\ \A q \in Proc : proc[q].fd # i
          /\ Enter([directory EXCEPT !.part = i])
          /\ file' = [file EXCEPT ![i] = [NoFile EXCEPT !.version = proc[p].version]]
          /\ proc' = [proc EXCEPT ![p].at = "fill", ![p].fd = i]
    /\ UNCHANGED <<lock, acked>>

OpenPartialFails(p) ==
    /\ At(p, "partial")
    /\ Leave(p)
    /\ UNCHANGED <<Files, acked>>

Fill(p) ==
    /\ At(p, "fill")
    /\ file' = [file EXCEPT ![proc[p].fd].whole = TRUE]
    /\ GoTo(p, "sync")
    /\ UNCHANGED <<directory, stable, lock, acked>>

\* Mutant of SyncPartial: the bytes are left to the kernel.
SyncPartialSkipped(p) ==
    /\ At(p, "sync")
    /\ GoTo(p, IF proc[p].create THEN "publish" ELSE "compare")
    /\ UNCHANGED <<directory, stable, file, lock, acked>>

SyncPartial(p) ==
    /\ At(p, "sync")
    /\ file' = [file EXCEPT ![proc[p].fd].synced = TRUE]
    /\ GoTo(p, IF proc[p].create THEN "publish" ELSE "compare")
    /\ UNCHANGED <<directory, stable, lock, acked>>

Compare(p) ==
    /\ At(p, "compare")
    /\ directory.journal = proc[p].existing
    /\ GoTo(p, "publish")
    /\ UNCHANGED <<Files, lock, acked>>

\* Mutant of Link: create puts its document over one that exists.
LinkOver(p) ==
    /\ At(p, "publish")
    /\ proc[p].create
    /\ directory.part # None
    /\ Enter([directory EXCEPT !.journal = directory.part])
    /\ GoTo(p, "syncDirectory")
    /\ UNCHANGED <<file, lock, acked>>

\* create links the partial, which refuses to replace a journal.
Link(p) ==
    /\ At(p, "publish")
    /\ proc[p].create
    /\ directory.part # None
    /\ directory.journal = None
    /\ Enter([directory EXCEPT !.journal = directory.part])
    /\ GoTo(p, "syncDirectory")
    /\ UNCHANGED <<file, lock, acked>>

\* write renames the partial over the journal.
Replace(p) ==
    /\ At(p, "publish")
    /\ ~proc[p].create
    /\ directory.part # None
    /\ Enter([journal |-> directory.part, part |-> None])
    /\ GoTo(p, "syncDirectory")
    /\ UNCHANGED <<file, lock, acked>>

\* Mutant of SyncDirectory: the new name is left to the kernel.
SyncDirectorySkipped(p) ==
    /\ At(p, "syncDirectory")
    /\ proc' = [proc EXCEPT ![p].at = "cleanup", ![p].ok = TRUE]
    /\ UNCHANGED <<directory, stable, file, lock, acked>>

SyncDirectory(p) ==
    /\ At(p, "syncDirectory")
    /\ stable' = {directory}
    /\ proc' = [proc EXCEPT ![p].at = "cleanup", ![p].ok = TRUE]
    /\ UNCHANGED <<directory, file, lock, acked>>

\* Any of these calls may fail, and Compare and Link also refuse; the exception
\* passes through the same clean-up.
Fails(p) ==
    /\ proc[p].at \in {"fill", "sync", "compare", "publish", "syncDirectory"}
    /\ proc' = [proc EXCEPT ![p].at = "cleanup", ![p].ok = FALSE]
    /\ UNCHANGED <<Files, lock, acked>>

\* _unlink_owned_partial: only the process's own partial; then create or write
\* returns, or its exception ends the command.
Cleanup(p) ==
    /\ At(p, "cleanup")
    /\ IF directory.part = proc[p].fd THEN Enter([directory EXCEPT !.part = None])
                                      ELSE UNCHANGED <<directory, stable>>
    /\ IF proc[p].ok
         THEN /\ proc' = [proc EXCEPT ![p] = [Idle EXCEPT !.at = "loaded",
                                                          !.version = proc[p].version]]
              /\ acked' = proc[p].version
              /\ UNCHANGED lock
         ELSE Leave(p) /\ UNCHANGED acked
    /\ UNCHANGED file

----------------------------------------------------------------------------
(* Failures.                                                                *)

Kill(p) ==
    /\ ~At(p, "idle")
    /\ Leave(p)
    /\ UNCHANGED <<Files, acked>>

PowerLoss ==
    /\ \E d \in stable : directory' = d /\ stable' = {d}
    /\ \E torn \in SUBSET {i \in Inode : ~file[i].synced} :
          file' = [i \in Inode |-> IF i \in torn THEN [file[i] EXCEPT !.whole = FALSE]
                                                 ELSE [file[i] EXCEPT !.synced = TRUE]]
    /\ lock' = None
    /\ proc' = [p \in Proc |-> Idle]
    /\ UNCHANGED acked

Step(p) ==
    \/ Lock(p) \/ Release(p) \/ OpenRead(p) \/ FinishRead(p)
    \/ BeginCreate(p) \/ BeginWrite(p) \/ OpenPartial(p) \/ OpenPartialFails(p)
    \/ Fill(p) \/ SyncPartial(p) \/ Compare(p) \/ Link(p) \/ Replace(p)
    \/ SyncDirectory(p) \/ Fails(p) \/ Cleanup(p)

Next == (\E p \in Proc : Step(p) \/ Kill(p)) \/ PowerLoss

Spec == Init /\ [][Next]_vars

----------------------------------------------------------------------------
(* Properties.                                                              *)

VersionIn(d) == IF d.journal = None THEN 0 ELSE file[d.journal].version

\* Nobody, status readers included, ever finds a torn journal under the published
\* name, after a kill or a power loss either (create and write fill and sync the
\* partial before they publish it), and no read sees its file change.
JournalWhole ==
    /\ \A d \in stable : d.journal # None => file[d.journal].whole /\ file[d.journal].synced
    /\ \A p \in Proc : At(p, "reading") => proc[p].ok /\ file[proc[p].fd].whole

\* Between opening its partial and publishing it a writer works on its own file and
\* on the journal it started from: nothing another process does, or left behind
\* when it died, makes it publish or unlink a file that is not its own.
WriterUndisturbed ==
    \A p \in Proc :
        /\ proc[p].at \in {"fill", "sync", "compare", "publish"} => directory.part = proc[p].fd
        /\ proc[p].at \in {"compare", "publish"} /\ ~proc[p].create =>
              directory.journal = proc[p].existing
        /\ proc[p].at \in {"syncDirectory", "cleanup"} /\ directory.part # None =>
              directory.part = proc[p].fd

\* A version that create or write returned for is found after every power loss
\* (both sync the directory before they return).
AcknowledgedSurvives == \A d \in stable : VersionIn(d) >= acked

\* To its readers the store is one register that nobody's lost update turns back.
Register == INSTANCE JournalRegister WITH value <- VersionIn(directory)
RegisterSpec == Register!Spec

\* "process death releases writer ownership" (client.md): a writer that holds the
\* lock finds the exclusive partial's name free.
DeathReleasesWriter == \A p \in Proc : At(p, "partial") => directory.part = None
=============================================================================
