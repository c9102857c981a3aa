--------------------------- MODULE CorrectionQueue ---------------------------
(***************************************************************************)
(* The correction queue of one namespace (correction_queue.py): a file     *)
(* that is loaded, changed and replaced.  Captures of the live hook        *)
(* (hooks/lib/zmem-capture-entry.py) do so under an advisory lock file;    *)
(* the other writers (queue-add, the closeout's clear) take no lock.       *)
(*                                                                         *)
(* An item is abstracted to its dedup key.  The lock's age is abstracted   *)
(* to "older than 30 s"; a waiter's deadline to a nondeterministic choice. *)
(***************************************************************************)
EXTENDS Naturals, Sequences, SequencesExt

CONSTANTS Hooks,     \* capture processes
          Writers,   \* processes that change the queue without the lock
          Keys,
          MaxQueue,  \* MAX_QUEUE_SIZE
          MaxCalls,  \* bound: captures and other writes
          MaxKills,  \* bound: hooks killed
          MaxSlow    \* bound: holders or waiters that take more than 30 s

None == "none"
Procs == Hooks \union Writers

VARIABLES queue,    \* the file: dedup keys, oldest first
          lock,     \* the lock file: exists, and older than 30 s
          holder,   \* who created it, None when that process was killed
          pc, key, loaded,  \* each process: its step, its item, the queue it loaded
          owed,     \* captures answered, and neither dropped at the cap nor cleared
          clobbered,\* a writer without the lock replaced a queue it had not loaded
          calls, kills, slow

vars == <<queue, lock, holder, pc, key, loaded, owed, clobbered, calls, kills, slow>>

Unlocked == [exists |-> FALSE, old |-> FALSE]

Init ==
  /\ queue = <<>> /\ lock = Unlocked /\ holder = None
  /\ pc = [p \in Procs |-> "rest"] /\ key = [p \in Procs |-> None]
  /\ loaded = [p \in Procs |-> <<>>]
  /\ owed = {} /\ clobbered = FALSE /\ calls = 0 /\ kills = 0 /\ slow = 0

Goto(p, s) == pc' = [pc EXCEPT ![p] = s]
End(p)     == /\ Goto(p, "rest") /\ key' = [key EXCEPT ![p] = None]
              /\ loaded' = [loaded EXCEPT ![p] = <<>>]

AddedLate(q, k) == IF Len(q) > MaxQueue THEN Append(Tail(q), k) ELSE Append(q, k)
\* append_queue: over the cap the oldest item is dropped
Added(q, k)   == IF Len(q) = MaxQueue THEN Append(Tail(q), k) ELSE Append(q, k)
Dropped(q)    == IF Len(q) = MaxQueue THEN {Head(q)} ELSE {}

-----------------------------------------------------------------------------
(* A capture.                                                              *)

Capture(p, k) ==
  /\ pc[p] = "rest" /\ calls < MaxCalls /\ calls' = calls + 1
  /\ key' = [key EXCEPT ![p] = k] /\ Goto(p, "lock")
  /\ UNCHANGED <<queue, lock, holder, loaded, owed, clobbered, kills, slow>>

TakeLockHeld(p) ==
  /\ pc[p] = "lock"
  /\ lock' = [exists |-> TRUE, old |-> FALSE] /\ holder' = p /\ Goto(p, "load")
  /\ UNCHANGED <<queue, key, loaded, owed, clobbered, calls, kills, slow>>
TakeLock(p) ==
  /\ pc[p] = "lock" /\ ~lock.exists
  /\ lock' = [exists |-> TRUE, old |-> FALSE] /\ holder' = p /\ Goto(p, "load")
  /\ UNCHANGED <<queue, key, loaded, owed, clobbered, calls, kills, slow>>

\* the lock's age is read, and the file at its path unlinked, in two calls
SeeStale(p) ==
  /\ pc[p] = "lock" /\ lock.exists /\ lock.old /\ Goto(p, "break")
  /\ UNCHANGED <<queue, lock, holder, key, loaded, owed, clobbered, calls, kills, slow>>

BreakLock(p) ==
  /\ pc[p] = "break" /\ lock' = Unlocked /\ holder' = None /\ Goto(p, "lock")
  /\ UNCHANGED <<queue, key, loaded, owed, clobbered, calls, kills, slow>>

\* after 30 s of waiting the capture goes on without the lock
GiveUp(p) ==
  /\ pc[p] = "lock" /\ lock.exists /\ slow < MaxSlow /\ slow' = slow + 1
  /\ Goto(p, "load")
  /\ UNCHANGED <<queue, lock, holder, key, loaded, owed, clobbered, calls, kills>>

Load(p) ==
  /\ pc[p] = "load" /\ loaded' = [loaded EXCEPT ![p] = queue]
  /\ Goto(p, IF Contains(queue, key[p]) THEN "unlock" ELSE "write")
  /\ UNCHANGED <<queue, lock, holder, key, owed, clobbered, calls, kills, slow>>

Write(p) ==
  /\ pc[p] = "write" /\ Goto(p, "unlock")
  /\ queue' = Added(loaded[p], key[p])
  /\ owed' = (owed \union {key[p]}) \ Dropped(loaded[p])
  /\ UNCHANGED <<lock, holder, key, loaded, clobbered, calls, kills, slow>>

\* the finally clause unlinks the lock file, whoever created it
Unlock(p) ==
  /\ pc[p] = "unlock" /\ lock' = Unlocked /\ holder' = None /\ End(p)
  /\ UNCHANGED <<queue, owed, clobbered, calls, kills, slow>>

Kill(p) ==
  /\ p \in Hooks /\ pc[p] # "rest" /\ kills < MaxKills /\ kills' = kills + 1
  /\ End(p) /\ holder' = IF holder = p THEN None ELSE holder
  /\ UNCHANGED <<queue, lock, owed, clobbered, calls, slow>>

\* 30 s pass: over a dead holder's lock always, over a living one's if it is slow
AgeLock ==
  /\ lock.exists /\ ~lock.old /\ lock' = [lock EXCEPT !.old = TRUE]
  /\ IF holder = None THEN UNCHANGED slow ELSE slow < MaxSlow /\ slow' = slow + 1
  /\ UNCHANGED <<queue, holder, pc, key, loaded, owed, clobbered, calls, kills>>

-----------------------------------------------------------------------------
(* The writers without the lock: append_queue and clear_queue.             *)

LoadUnlocked(w, k) ==
  /\ pc[w] = "rest" /\ calls < MaxCalls /\ calls' = calls + 1
  /\ key' = [key EXCEPT ![w] = k] /\ loaded' = [loaded EXCEPT ![w] = queue]
  /\ \E s \in {"add", "clear"} : Goto(w, s)
  /\ UNCHANGED <<queue, lock, holder, owed, clobbered, kills, slow>>

Replace(w, q) ==
  /\ queue' = q /\ clobbered' = (clobbered \/ queue # loaded[w]) /\ End(w)
  /\ UNCHANGED <<lock, holder, calls, kills, slow>>

AddUnlocked(w) ==
  /\ pc[w] = "add" /\ Replace(w, Added(loaded[w], key[w]))
  /\ owed' = owed \ Dropped(loaded[w])

\* q without the item of k: at j, the j-th of the items kept
Without(q, k) ==
  LET kept == {i \in DOMAIN q : q[i] # k} IN
  [j \in 1 .. Cardinality(kept) |->
     q[CHOOSE i \in kept : Cardinality({h \in kept : h <= i}) = j]]

ClearUnlocked(w) ==
  /\ pc[w] = "clear" /\ Replace(w, Without(loaded[w], key[w]))
  /\ owed' = owed \ {key[w]}

-----------------------------------------------------------------------------
HookStep(p)   == TakeLock(p) \/ SeeStale(p) \/ BreakLock(p) \/ GiveUp(p)
                 \/ Load(p) \/ Write(p) \/ Unlock(p)
WriterStep(w) == AddUnlocked(w) \/ ClearUnlocked(w)

Next == \/ AgeLock
        \/ \E p \in Hooks : HookStep(p) \/ Kill(p) \/ \E k \in Keys : Capture(p, k)
        \/ \E w \in Writers : WriterStep(w) \/ \E k \in Keys : LoadUnlocked(w, k)
Spec == Init /\ [][Next]_vars

-----------------------------------------------------------------------------
TypeOK ==
  /\ queue \in BoundedSeq(Keys, MaxQueue) /\ lock \in [exists : BOOLEAN, old : BOOLEAN]
  /\ holder \in Procs \union {None}
  /\ pc \in [Procs -> {"rest", "lock", "break", "load", "write", "unlock", "add", "clear"}]
  /\ key \in [Procs -> Keys \union {None}] /\ loaded \in [Procs -> BoundedSeq(Keys, MaxQueue)]
  /\ owed \in SUBSET Keys /\ clobbered \in BOOLEAN
  /\ calls \in 0 .. MaxCalls /\ kills \in 0 .. MaxKills /\ slow \in 0 .. MaxSlow

Kept == \A k \in owed : Contains(queue, k)

\* As long as no capture is killed or outlasts the 30 s of the lock, and no
\* unlocked writer replaces a newer queue ("Other queue writers ... do NOT take
\* this lock", correction_queue.py, queue_lock), a capture that was written stays
\* until it is cleared or is the oldest of a full queue.
CapturesKept == kills = 0 /\ slow = 0 /\ ~clobbered => Kept

=============================================================================
