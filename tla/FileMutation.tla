---------------------------- MODULE FileMutation ----------------------------
(* Tool calls that change files (packages/core/src/tool/edit.ts, write.ts and  *)
(* apply-patch.ts) over FileMutation (packages/core/src/file-mutation.ts): a   *)
(* call first reads, without a lock, the files it derives its changes from,    *)
(* and then makes one change after another, each under the lock of its target. *)
(* A file is the set of the calls whose change it contains; other processes    *)
(* may edit it at any time.                                                    *)
EXTENDS KeyedMutex, Sequences

CONSTANTS Plans,        \* what a call may set out to do: sequences of changes
          MaxForeign,   \* bound on the edits of other processes
          MaxFailures   \* bound on the file-system calls that fail

Changes == [kind : {"add", "delete", "update", "write"}, key : Keys]

ASSUME PlansAssumption == \A p \in Plans : p \in Seq(Changes) /\ p # <<>>

ASSUME BoundsAssumption == MaxForeign \in Nat /\ MaxFailures \in Nat

VARIABLES file,      \* the file at each path
          job,       \* a tool call: its phase, plan, the contents it read, the next change
          kept,      \* history: the calls whose change to the file must still be there
          foreign,   \* edits of other processes so far
          failures   \* failed file-system calls so far

vars == <<lockVars, file, job, kept, foreign, failures>>

Whole(marks) == [marks |-> marks, whole |-> TRUE]

\* What open with truncation, or exclusive creation, leaves before the bytes are written.
Torn == [marks |-> {}, whole |-> FALSE]

Contents == [marks : SUBSET Fibers, whole : BOOLEAN] \cup {None}

Doing(phase, plan, seen, at) == [phase |-> phase, plan |-> plan, seen |-> seen, at |-> at]

NoJob == Doing("idle", <<>>, <<>>, 1)

Ended == Doing("ended", <<>>, <<>>, 1)

TypeOK ==
  /\ LockTypeOK
  /\ file \in [Keys -> Contents]
  /\ \A f \in Fibers :
       /\ job[f].phase \in {"idle", "prepare", "apply", "open", "fill", "ended"}
       /\ job[f].plan \in Plans \cup {<<>>}
       /\ job[f].seen \in Seq(Contents)
       /\ Len(job[f].seen) <= Len(job[f].plan)
       /\ job[f].phase \in {"apply", "open", "fill"} =>
            job[f].at \in 1 .. Len(job[f].plan) /\ Len(job[f].seen) = Len(job[f].plan)
  /\ kept \in [Keys -> SUBSET Fibers]
  /\ foreign \in 0 .. MaxForeign
  /\ failures \in 0 .. MaxFailures

Init ==
  /\ LockInit
  /\ file \in [Keys -> {None, Whole({})}]
  /\ job = [f \in Fibers |-> NoJob]
  /\ kept = [k \in Keys |-> {}]
  /\ foreign = 0
  /\ failures = 0

Change(f) == job[f].plan[job[f].at]

Become(f, j) == job' = [job EXCEPT ![f] = j]

Phase(f, p) == Become(f, Doing(p, job[f].plan, job[f].seen, job[f].at))

-----------------------------------------------------------------------------
(* Before the first change.                                                    *)

Begin(f) ==
  /\ job[f].phase = "idle"
  /\ \E p \in Plans : Become(f, Doing("prepare", p, <<>>, 1))
  /\ UNCHANGED <<lockVars, file, kept, foreign, failures>>

\* Read for the next change; only an update and a delete need the file.
Prepare(f) ==
  /\ job[f].phase = "prepare"
  /\ LET i == Len(job[f].seen) + 1
         c == job[f].plan[i]
         read == IF c.kind \in {"update", "delete"} THEN file[c.key] ELSE None
     IN  /\ c.kind \in {"update", "delete"} => file[c.key] # None
         /\ Become(f, Doing(IF i = Len(job[f].plan) THEN "apply" ELSE "prepare",
                            job[f].plan, Append(job[f].seen, read), job[f].at))
  /\ UNCHANGED <<lockVars, file, kept, foreign, failures>>

\* The file to read is missing, the text to replace is not in it, or the call is interrupted.
PrepareFails(f) ==
  /\ job[f].phase = "prepare"
  /\ Become(f, Ended)
  /\ UNCHANGED <<lockVars, file, kept, foreign, failures>>

-----------------------------------------------------------------------------
(* One change under the lock of its target.                                    *)

LockTarget(f) ==
  /\ job[f].phase = "apply"
  /\ Enter(f, Change(f).key)
  /\ UNCHANGED <<file, job, kept, foreign, failures>>

TakeTarget(f) == Take(f) /\ UNCHANGED <<file, job, kept, foreign, failures>>

\* The call is interrupted before a change or while it waits for the lock.
Interrupt(f) ==
  /\ job[f].phase = "apply"
  /\ \/ GiveUp(f)
     \/ call[f].pc = "out" /\ UNCHANGED lockVars
  /\ Become(f, Ended)
  /\ UNCHANGED <<file, kept, foreign, failures>>

LeaveTarget(f) == Leave(f) /\ UNCHANGED <<file, job, kept, foreign, failures>>

Applying(f, kinds) ==
  call[f].pc = "holding" /\ job[f].phase = "apply" /\ Change(f).kind \in kinds

NextChange(f) == Doing("apply", job[f].plan, job[f].seen, job[f].at + 1)

Done(f) ==
  /\ Release(f)
  /\ Become(f, IF job[f].at = Len(job[f].plan) THEN Ended ELSE NextChange(f))

Fail(f) == Release(f) /\ Become(f, Ended)

\* Mutant: the write asks only whether the file is still there.
StillThere(f) == file[Change(f).key] # None

\* writeIfUnchanged has read the target again: are these the bytes the update is derived from?
Unchanged(f) == file[Change(f).key] = job[f].seen[job[f].at]

Compare(f) ==
  /\ Applying(f, {"update"})
  /\ Unchanged(f)
  /\ Phase(f, "open")
  /\ UNCHANGED <<lockVars, file, kept, foreign, failures>>

Stale(f) ==
  /\ Applying(f, {"update"})
  /\ ~Unchanged(f)
  /\ Fail(f)
  /\ UNCHANGED <<file, kept, foreign, failures>>

\* Opening for the write empties the file; an add insists on creating it.
Open(f) ==
  /\ \/ call[f].pc = "holding" /\ job[f].phase = "open"
     \/ Applying(f, {"write"})
     \/ Applying(f, {"add"}) /\ file[Change(f).key] = None
  /\ file' = [file EXCEPT ![Change(f).key] = Torn]
  /\ Phase(f, "fill")
  /\ UNCHANGED <<lockVars, kept, foreign, failures>>

Exists(f) ==
  /\ Applying(f, {"add"})
  /\ file[Change(f).key] # None
  /\ Fail(f)
  /\ UNCHANGED <<file, kept, foreign, failures>>

\* The new content: an update puts its mark on what it read, the others start afresh.
Written(f) ==
  Whole({f} \cup IF Change(f).kind = "update" THEN job[f].seen[job[f].at].marks ELSE {})

Fill(f) ==
  /\ call[f].pc = "holding" /\ job[f].phase = "fill"
  /\ LET k == Change(f).key
     IN  /\ file' = [file EXCEPT ![k] = Written(f)]
         /\ kept' = [kept EXCEPT ![k] = {f} \cup IF Change(f).kind = "update" THEN @ ELSE {}]
  /\ Done(f)
  /\ UNCHANGED <<foreign, failures>>

\* The file system refuses to open the file, or to write to the one just emptied.
WriteFails(f) ==
  /\ failures < MaxFailures
  /\ \/ call[f].pc = "holding" /\ job[f].phase \in {"open", "fill"}
     \/ Applying(f, {"add", "write", "delete"})
  /\ kept' = IF job[f].phase = "fill" THEN [kept EXCEPT ![Change(f).key] = {}] ELSE kept
  /\ failures' = failures + 1
  /\ Fail(f)
  /\ UNCHANGED <<file, foreign>>

\* remove is unconditional, and content with a file that is already gone.
Remove(f) ==
  /\ Applying(f, {"delete"})
  /\ file' = [file EXCEPT ![Change(f).key] = None]
  /\ kept' = [kept EXCEPT ![Change(f).key] = {}]
  /\ Done(f)
  /\ UNCHANGED <<foreign, failures>>

-----------------------------------------------------------------------------

\* A process that does not share the locks replaces or deletes the file.
ForeignEdit(k) ==
  /\ foreign < MaxForeign
  /\ file' \in {[file EXCEPT ![k] = c] : c \in {None, Whole({})}}
  /\ kept' = [kept EXCEPT ![k] = {}]
  /\ foreign' = foreign + 1
  /\ UNCHANGED <<lockVars, job, failures>>

Step(f) ==
  \/ Begin(f) \/ Prepare(f) \/ PrepareFails(f)
  \/ LockTarget(f) \/ TakeTarget(f) \/ Interrupt(f) \/ LeaveTarget(f)
  \/ Compare(f) \/ Stale(f) \/ Open(f) \/ Exists(f)
  \/ Fill(f) \/ WriteFails(f) \/ Remove(f)

Next == (\E f \in Fibers : Step(f)) \/ (\E k \in Keys : ForeignEdit(k))

Spec == Init /\ [][Next]_vars

-----------------------------------------------------------------------------
(* A change that was derived from what a file held never wipes out one that    *)
(* another call made to it in the meantime: a whole file contains the change   *)
(* of every call that completed on it since it was last deleted, overwritten   *)
(* as a whole, edited by another process or left torn by a failed write        *)
(* (file-mutation.ts:69, "cooperating mutations do not overwrite changes made  *)
(* from the same stale content").  Reads are not locked, so the comparison and *)
(* the write must exclude every other change to the same target.               *)
NoLostEdit ==
  \A k \in Keys : file[k] # None => (file[k].whole => kept[k] \subseteq file[k].marks)
=============================================================================
