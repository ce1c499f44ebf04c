----------------------------- MODULE Checkpoints -----------------------------
(***************************************************************************)
(* The history of consensus checkpoints (src/checkpoints.rs): Helios logs    *)
(* each checkpoint it saves, a tracing layer spawns a task per log line, the  *)
(* task puts the checkpoint in front of a short history and, once the lock    *)
(* is released, writes a copy of the history to a file.  The file is read    *)
(* when the program starts.                                                *)
(*                                                                         *)
(* fs::write truncates the file and then writes it: two steps, between which *)
(* other tasks write too and the program may end.                          *)
(***************************************************************************)
EXTENDS Naturals, Sequences

CONSTANTS
    Hashes,         \* checkpoint hashes
    Torn,           \* contents that do not parse
    Tasks,          \* the tasks that run at the same time
    Capacity        \* how many checkpoints are kept (5)

ASSUME CheckpointsAssumption ==
    /\ Capacity \in Nat \ {0}
    /\ Torn \notin Seq(Hashes)

VARIABLES
    history,        \* CheckpointLayer.history, newest first
    file,           \* what checkpoints.json holds; an empty file counts as no entry
    pc,             \* the pc of each task
    hash,           \* the checkpoint of each task
    snapshot,       \* the copy of the history each task writes
    apart           \* ghost: the last task to push had the file for itself, and did not fail

checkpointVars == <<history, file, pc, hash, snapshot, apart>>
-----------------------------------------------------------------------------
Histories == UNION {[1..n -> Hashes] : n \in 0..Capacity}

CheckpointTypeOK ==
    /\ history \in Histories
    /\ file \in Histories \union {Torn}
    /\ pc \in [Tasks -> {"idle", "spawned", "truncating", "writing"}]
    /\ hash \in [Tasks -> Hashes]
    /\ snapshot \in [Tasks -> Histories]
    /\ apart \in BOOLEAN

CheckpointInit ==
    /\ history = <<>>
    /\ file = <<>>
    /\ pc = [t \in Tasks |-> "idle"]
    /\ hash \in [Tasks -> Hashes]
    /\ snapshot = [t \in Tasks |-> <<>>]
    /\ apart = TRUE
-----------------------------------------------------------------------------
\* on_event: a log line of Helios tells a checkpoint, and a task is spawned for it.
Logged(t, h) ==
    /\ pc[t] = "idle"
    /\ pc' = [pc EXCEPT ![t] = "spawned"]
    /\ hash' = [hash EXCEPT ![t] = h]
    /\ UNCHANGED <<history, file, snapshot, apart>>

\* The newest Capacity entries once h is pushed to the front.
Pushed(h) == SubSeq(<<h>> \o history, 1, IF Len(history) < Capacity THEN Len(history) + 1 ELSE Capacity)

Persisting(t) == pc[t] \in {"truncating", "writing"}
InFront(h) == history # <<>> /\ Head(history) = h

\* Under the write lock: the checkpoint that is in front already is left alone.
Repeats(t) ==
    /\ pc[t] = "spawned"
    /\ InFront(hash[t])
    /\ pc' = [pc EXCEPT ![t] = "idle"]
    /\ UNCHANGED <<history, file, hash, snapshot, apart>>

\* Mutant: every checkpoint is pushed, also the one in front.
PushesAlways(t) ==
    /\ pc[t] = "spawned"
    /\ history' = Pushed(hash[t])
    /\ snapshot' = [snapshot EXCEPT ![t] = history']
    /\ pc' = [pc EXCEPT ![t] = "truncating"]
    /\ apart' = (\A u \in Tasks : ~Persisting(u))
    /\ UNCHANGED <<file, hash>>

\* Mutant: the copy is taken before the checkpoint is pushed.
CopiesFirst(t) ==
    /\ pc[t] = "spawned"
    /\ ~InFront(hash[t])
    /\ history' = Pushed(hash[t])
    /\ snapshot' = [snapshot EXCEPT ![t] = history]
    /\ pc' = [pc EXCEPT ![t] = "truncating"]
    /\ apart' = (\A u \in Tasks : ~Persisting(u))
    /\ UNCHANGED <<file, hash>>

\* Mutant: the copy is taken before the history is cut.
CopiesUncut(t) ==
    /\ pc[t] = "spawned"
    /\ ~InFront(hash[t])
    /\ history' = Pushed(hash[t])
    /\ snapshot' = [snapshot EXCEPT ![t] = <<hash[t]>> \o history]
    /\ pc' = [pc EXCEPT ![t] = "truncating"]
    /\ apart' = (\A u \in Tasks : ~Persisting(u))
    /\ UNCHANGED <<file, hash>>

\* Any other is pushed, the history cut, and copied.
Pushes(t) ==
    /\ pc[t] = "spawned"
    /\ ~InFront(hash[t])
    /\ history' = Pushed(hash[t])
    /\ snapshot' = [snapshot EXCEPT ![t] = history']
    /\ pc' = [pc EXCEPT ![t] = "truncating"]
    /\ apart' = (\A u \in Tasks : ~Persisting(u))
    /\ UNCHANGED <<file, hash>>

\* persist_checkpoints opens the file and truncates it.
Truncates(t) ==
    /\ pc[t] = "truncating"
    /\ file' = <<>>
    /\ pc' = [pc EXCEPT ![t] = "writing"]
    /\ UNCHANGED <<history, hash, snapshot, apart>>

\* What the file holds once s is written from its start: another task's longer copy
\* stays behind as a tail that does not parse.
Overwritten(s) == IF file # Torn /\ Len(file) <= Len(s) THEN s ELSE Torn

\* A file that is torn was written by another task after this one truncated it; how much
\* of it remains depends on that task's copy, so that it may be covered as well.
Writes(t) ==
    /\ pc[t] = "writing"
    /\ file' \in {Overwritten(snapshot[t])} \union (IF file = Torn THEN {snapshot[t]} ELSE {})
    /\ pc' = [pc EXCEPT ![t] = "idle"]
    /\ snapshot' = [snapshot EXCEPT ![t] = <<>>]
    /\ UNCHANGED <<history, hash, apart>>

\* The directory or the file cannot be opened, or the write fails part of the way: the
\* error is logged.
PersistFails(t) ==
    /\ \/ pc[t] = "truncating" /\ UNCHANGED file
       \/ pc[t] = "writing" /\ file' \in {file, Torn}
    /\ pc' = [pc EXCEPT ![t] = "idle"]
    /\ snapshot' = [snapshot EXCEPT ![t] = <<>>]
    /\ apart' = FALSE
    /\ UNCHANGED <<history, hash>>

\* load_checkpoint_history: a file that does not parse gives an empty history.
Loaded == IF file = Torn THEN <<>> ELSE file

\* The program ends, whatever its tasks were doing, and is started again.
ProgramRestarts ==
    /\ history' = Loaded
    /\ pc' = [t \in Tasks |-> "idle"]
    /\ snapshot' = [t \in Tasks |-> <<>>]
    /\ apart' = TRUE
    /\ UNCHANGED <<file, hash>>

CheckpointNext ==
    \/ \E t \in Tasks :
          \/ \E h \in Hashes : Logged(t, h)
          \/ Repeats(t) \/ Pushes(t) \/ Truncates(t) \/ Writes(t) \/ PersistFails(t)
    \/ ProgramRestarts

CheckpointSpec == CheckpointInit /\ [][CheckpointNext]_checkpointVars
-----------------------------------------------------------------------------
(* Properties *)

\* No checkpoint stands beside itself in the history or in the file, whatever the order
\* of the tasks and whichever file a restart reads.
NoEcho(s) == \A i \in 1..(Len(s) - 1) : s[i] # s[i + 1]
NoEchoes == NoEcho(history) /\ (file # Torn => NoEcho(file))

\* Once a task had the file for itself the file is the history, whatever earlier tasks
\* left in it and whichever tasks wait: a restart would lose nothing.
FileKeepsUp ==
    apart /\ (\A t \in Tasks : ~Persisting(t)) => history = Loaded
=============================================================================
