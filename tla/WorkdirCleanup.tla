---------------------------- MODULE WorkdirCleanup ----------------------------
(***************************************************************************)
(* The cleanup of the work directory: WorkdirCleanupManager                *)
(* (server/WorkdirCleanupManager.cpp) with the streams that retain and     *)
(* release the files they read.                                            *)
(*                                                                         *)
(* A round scans the directory and deletes files, oldest first.  It is one *)
(* handler of the actor, so no retain_file or release_file is handled      *)
(* while it runs; but streams and TDLib run meanwhile, so each visit of a  *)
(* file and each deletion is a step.  A path is a model value; a file may  *)
(* come and go under it.                                                   *)
(***************************************************************************)
EXTENDS Naturals, Sequences, FiniteSets

CONSTANTS
  Media,      \* paths of cached media files in the work directory
  Control,    \* paths of the other files in it: the certificates of webhooks, logs
  Database,   \* paths of TDLib's binlog and SQLite files in it
  Outside,    \* paths of files outside it (uploaded from the local disk)
  Streams,    \* the streams
  Size,       \* the size of each file
  Threshold,  \* --workdir-cleanup-threshold
  Target,     \* --workdir-cleanup-target
  Ttl,        \* --workdir-file-ttl: 0 if files do not expire
  Now,        \* the time of the rounds; access times are at most Now
  MaxCalls,   \* bound: a stream with this many calls under way does not change its path
  Faults,     \* subset of {"walk_fails", "undeletable", "disk_full"}
  NoPath, Ended

Workdir == Media \cup Control \cup Database
Files   == Workdir \cup Outside

ASSUME FilesAssumption ==
  /\ Media \cap Control = {} /\ (Media \cup Control) \cap Database = {} /\ Workdir \cap Outside = {}
  /\ Size \in [Files -> Nat]
  /\ IsFiniteSet(Streams)
  /\ NoPath \notin Files /\ Ended \notin Files /\ NoPath # Ended
(* telegram-bot-api.cpp refuses to start otherwise. *)
ASSUME ConfigAssumption ==
  /\ Threshold \in Nat \ {0} /\ Target \in Nat /\ Target < Threshold
  /\ Ttl \in Nat /\ Now \in Nat /\ MaxCalls \in Nat
  /\ Faults \subseteq {"walk_fails", "undeletable", "disk_full"}

VARIABLES
  disk,          \* the paths at which there is a file
  atime,         \* per path: the access time of its file (Now where there is none:
                 \* a file that comes is new)
  local_path,    \* per stream: its local_path_, or Ended
  calls,         \* per stream: retain_file and release_file on their way
  active_files,  \* active_files_: 0 if there is no entry
  round,         \* the local variables of run_workdir_cleanup
  emergency      \* workdir_disk_emergency_

streamVars == <<local_path, calls>>
vars == <<disk, atime, streamVars, active_files, round, emergency>>

(* Every file of the directory but those that is_tdlib_persistent_file    *)
(* knows by the end of their names.                                        *)
is_workdir_cleanup_candidate(f) == f \in Workdir \ Database
Deletable == {f \in Files : is_workdir_cleanup_candidate(f)}

Candidate(f) == [path |-> f, size |-> Size[f], access_time |-> atime[f]]
Candidates   == [path : Deletable, size : Nat, access_time : 0..Now]

-------------------------------------------------------------------------------
(* FileStreamConnection: on_file_ready and on_file_progress with a new     *)
(* path, and tear_down.                                                    *)

Call(op, f) == [op |-> op, path |-> f]

ReleaseOld(s) == IF local_path[s] = NoPath THEN <<>> ELSE <<Call("release", local_path[s])>>

SwitchPath(s, f) ==
  /\ local_path[s] \notin {Ended, f}
  /\ Len(calls[s]) < MaxCalls
  /\ local_path' = [local_path EXCEPT ![s] = f]
  /\ calls' = [calls EXCEPT ![s] = @ \o ReleaseOld(s) \o <<Call("retain", f)>>]
  /\ UNCHANGED <<disk, atime, active_files, round, emergency>>

tear_down(s) ==
  /\ local_path[s] # Ended
  /\ local_path' = [local_path EXCEPT ![s] = Ended]
  /\ calls' = [calls EXCEPT ![s] = @ \o ReleaseOld(s)]
  /\ UNCHANGED <<disk, atime, active_files, round, emergency>>

-------------------------------------------------------------------------------
(* WorkdirCleanupManager: the calls of the streams. *)

TakeCall(s, op) ==
  /\ round.phase = "idle"
  /\ calls[s] # <<>>
  /\ Head(calls[s]).op = op
  /\ calls' = [calls EXCEPT ![s] = Tail(@)]
  /\ UNCHANGED <<disk, atime, local_path, round, emergency>>

retain_file(s) ==
  /\ TakeCall(s, "retain")
  /\ LET f == Head(calls[s]).path
     IN  active_files' = IF is_workdir_cleanup_candidate(f)
                         THEN [active_files EXCEPT ![f] = @ + 1] ELSE active_files

(* The entry of a file goes with its last release; a file without an entry *)
(* was never retained.                                                     *)
EntryErased(n) == 0
CountDown(n) == IF n = 0 THEN 0 ELSE n - 1

release_file(s) ==
  /\ TakeCall(s, "release")
  /\ active_files' = [active_files EXCEPT ![Head(calls[s]).path] = CountDown(@)]

-------------------------------------------------------------------------------
(* run_workdir_cleanup. *)

RetainedTwice(f) == active_files[f] > 1
InUse(f) == active_files[f] > 0

Expired(c) == Ttl > 0 /\ Now - c.access_time >= Ttl

ReduceAlways(r) == r.threshold
MustReduce(r) == r.threshold /\ r.remaining > Target

NoRound == [phase |-> "idle", unseen |-> {}, scanned |-> 0, candidates |-> {},
            threshold |-> FALSE, left |-> {}, remaining |-> 0, deleted |-> {},
            failed |-> FALSE]

(* timeout_expired: a round begins, periodic or not. *)
StartRound ==
  /\ round.phase = "idle"
  /\ round' = [NoRound EXCEPT !.phase = "scan", !.unseen = Workdir]
  /\ UNCHANGED <<disk, atime, streamVars, active_files, emergency>>

(* walk_path meets the paths of the directory in any order; a path whose   *)
(* file is gone by then is not met, or its stat fails.                     *)
Visit(f) ==
  /\ round.phase = "scan" /\ f \in round.unseen
  /\ round' =
       [round EXCEPT
          !.unseen = @ \ {f},
          !.scanned = IF f \in disk /\ is_workdir_cleanup_candidate(f) THEN @ + Size[f] ELSE @,
          !.candidates = IF f \in disk /\ is_workdir_cleanup_candidate(f) /\ ~InUse(f)
                         THEN @ \cup {Candidate(f)} ELSE @]
  /\ UNCHANGED <<disk, atime, streamVars, active_files, emergency>>

(* A walk that fails leaves the files met so far. *)
EndScan ==
  /\ round.phase = "scan"
  /\ round.unseen = {} \/ "walk_fails" \in Faults
  /\ round' = [round EXCEPT !.phase = "delete", !.threshold = round.scanned >= Threshold,
                            !.left = round.candidates, !.remaining = round.scanned]
  /\ UNCHANGED <<disk, atime, streamVars, active_files, emergency>>

(* The candidates are sorted by access time, ties in any order. *)
NextInAnyOrder(c) == c \in round.left
NextInOrder(c) == c \in round.left /\ \A d \in round.left : c.access_time <= d.access_time

Skip(c) ==
  /\ (~MustReduce(round) /\ ~Expired(c)) \/ InUse(c.path)
  /\ round' = [round EXCEPT !.left = @ \ {c}]
  /\ UNCHANGED <<disk, atime>>

(* delete_workdir_file_with_retries: no attempt succeeds if the file is    *)
(* gone, and none may succeed if it is there; a failure ends the round.    *)
Delete(c) ==
  /\ MustReduce(round) \/ Expired(c)
  /\ ~InUse(c.path)
  /\ \/ /\ c.path \in disk
        /\ disk' = disk \ {c.path}
        /\ atime' = [atime EXCEPT ![c.path] = Now]
        /\ round' = [round EXCEPT !.left = @ \ {c}, !.deleted = @ \cup {c},
                                  !.remaining = @ - c.size]
     \/ /\ c.path \notin disk \/ "undeletable" \in Faults
        /\ round' = [round EXCEPT !.failed = TRUE]
        /\ UNCHANGED <<disk, atime>>

NextCandidate(c) ==
  /\ round.phase = "delete" /\ ~round.failed
  /\ NextInOrder(c)
  /\ Skip(c) \/ Delete(c)
  /\ UNCHANGED <<streamVars, active_files, emergency>>

RoundOver == round.phase = "delete" /\ (round.left = {} \/ round.failed)

(* run_cleanup: too little free space is an emergency, which stays. *)
EndRound ==
  /\ RoundOver
  /\ round' = NoRound
  /\ \/ "disk_full" \in Faults /\ emergency' = TRUE
     \/ UNCHANGED emergency
  /\ UNCHANGED <<disk, atime, streamVars, active_files>>

-------------------------------------------------------------------------------
(* TDLib and the Clients: files come (new, or by a rename) and go (renamed *)
(* or deleted).                                                            *)

FileComes(f) ==
  /\ f \in Deletable \ disk
  /\ disk' = disk \cup {f}
  /\ UNCHANGED <<atime, streamVars, active_files, round, emergency>>

FileGoes(f) ==
  /\ f \in Deletable \cap disk
  /\ disk' = disk \ {f}
  /\ atime' = [atime EXCEPT ![f] = Now]
  /\ UNCHANGED <<streamVars, active_files, round, emergency>>

-------------------------------------------------------------------------------
Init ==
  /\ \E d \in SUBSET Deletable : disk = d \cup Database \cup Outside
  /\ atime \in [Files -> 0..Now]
  /\ \A f \in Files \ (Deletable \cap disk) : atime[f] = Now
  /\ local_path = [s \in Streams |-> NoPath]
  /\ calls = [s \in Streams |-> <<>>]
  /\ active_files = [f \in Files |-> 0]
  /\ round = NoRound
  /\ emergency = FALSE

Next ==
  \/ \E s \in Streams : \/ \E f \in Media \cup Outside : SwitchPath(s, f)
                        \/ tear_down(s) \/ retain_file(s) \/ release_file(s)
  \/ StartRound \/ EndScan \/ EndRound
  \/ \E f \in Workdir : Visit(f)
  \/ \E c \in round.left : NextCandidate(c)
  \/ \E f \in Deletable : FileComes(f) \/ FileGoes(f)

Spec == Init /\ [][Next]_vars

-------------------------------------------------------------------------------
(* Properties. *)

(* Every variable has its type; in particular no counter and no            *)
(* difference of sizes goes below 0.                                       *)
TypeOK ==
  /\ disk \subseteq Files
  /\ atime \in [Files -> 0..Now]
  /\ local_path \in [Streams -> Media \cup Outside \cup {NoPath, Ended}]
  /\ calls \in [Streams -> Seq([op : {"retain", "release"}, path : Media \cup Outside])]
  /\ active_files \in [Files -> Nat]
  /\ round.phase \in {"idle", "scan", "delete"}
  /\ round.unseen \subseteq Workdir
  /\ round.scanned \in Nat /\ round.remaining \in Nat
  /\ round.candidates \subseteq Candidates
  /\ round.left \subseteq round.candidates /\ round.deleted \subseteq round.candidates
  /\ round.threshold \in BOOLEAN /\ round.failed \in BOOLEAN
  /\ emergency \in BOOLEAN

Holders(f) == {s \in Streams : local_path[s] = f}
UnderWay(op, f) ==
  {p \in Streams \X (1..(MaxCalls + 2)) :
     p[2] <= Len(calls[p[1]]) /\ calls[p[1]][p[2]] = Call(op, f)}

(* active_files_ counts the streams that hold a file, up to the calls that *)
(* are under way: however often streams change paths and end, no hold is   *)
(* lost or left behind, and files outside the directory are not counted.   *)
HoldsExact ==
  /\ \A f \in Media : active_files[f] + Cardinality(UnderWay("retain", f))
                        = Cardinality(Holders(f)) + Cardinality(UnderWay("release", f))
  /\ \A f \in Files \ Media : active_files[f] = 0

(* The variables have their types and the holds are exact. *)
Consistent == TypeOK /\ HoldsExact

(* A round deletes no file that a stream holds and has told the manager    *)
(* so: files in use are skipped.                                           *)
UsedFilesKept ==
  [][\A c \in round'.deleted \ round.deleted :
       \A s \in Holders(c.path) :
         \E k \in 1..Len(calls[s]) : calls[s][k] = Call("retain", c.path)]_vars

(* A round deletes media cache only, and no live control file.             *)
OnlyMediaDeleted == \A c \in round.deleted : c.path \in Media

(* The files a round deletes are the least recently used ones.             *)
OldestFirst ==
  \A d \in round.deleted, c \in round.candidates \ round.deleted :
    d.access_time <= c.access_time

(* A round that meets no failure deletes what it should: every expired     *)
(* file, and over the threshold as many others as it takes to get down to  *)
(* the target (or all that are not in use), and not one more.              *)
RoundExact ==
  RoundOver /\ ~round.failed =>
    /\ \A c \in round.candidates \ round.deleted :
         ~Expired(c) /\ (round.threshold => round.remaining <= Target)
    /\ \A c \in round.deleted : Expired(c) \/ round.threshold
    /\ \/ round.deleted = {}
       \/ \E c \in round.deleted :
            /\ \A d \in round.deleted : d.access_time <= c.access_time
            /\ Expired(c) \/ round.remaining + c.size > Target
===============================================================================
