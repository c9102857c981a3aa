------------------------------ MODULE FleetFlush -------------------------------
(***************************************************************************)
(* The operation queue of a remote machine, the hub, and the HTTP calls    *)
(* between them: fleet/opqueue.py flush, fleet/transport.py apply_ops,     *)
(* server/mcp_server.py apply_ops.  A call may be lost, refused, killed at *)
(* the hub or answered too late.  The hub may serve a call its broker no   *)
(* longer waits for, and may serve such a call more than once.             *)
(***************************************************************************)
EXTENDS Naturals, FiniteSets, Sequences

CONSTANTS
  Ops, Writers, Brokers, None, Keys, KeyOf, FlushChunk, MaxLines,
  Seeds, Namespaces, Global, Texts, Refused, Splits, Near, Expiries, Cmds,
  Principals, SeedRows, MaxBatch,
  MaxFaults     \* failures of calls and brokers, in all

VARIABLES
  lines, seq, status, torn, tail, lock, pc, cur, nextSeq, seen, rows, chunk,
  receipts, unminted, aged, acked, reaped

VARIABLES
  cmd, principal, db, work, phase, batch, at, canonical, settled, out, told

VARIABLES
  inbox,        \* calls on their way to the hub
  serving,      \* the broker whose call the hub is at (None: nobody waits)
  answer,       \* receipts on their way to a broker
  faults        \* failures so far

Verdicts == {"committed", "duplicate", "rejected", "blocked"}

Queue == INSTANCE OpQueue
Hub == INSTANCE HubApplyOps

ASSUME FleetConstants ==
  /\ Queue!ProcsAssumption /\ Queue!OpsAssumption /\ Queue!KeysAssumption
  /\ Queue!VerdictsAssumption /\ Queue!BoundsAssumption
  /\ Hub!HubConstants

queueVars == <<lines, seq, status, torn, tail, lock, pc, cur, nextSeq, seen,
               rows, chunk, receipts, unminted, aged, acked, reaped>>
hubVars == <<cmd, principal, db, work, phase, batch, at, canonical, settled,
             out, told>>
netVars == <<inbox, serving, answer>>
vars == <<queueVars, hubVars, netVars, faults>>

Init ==
  /\ Queue!Init /\ Hub!Init
  /\ inbox = {} /\ serving = None
  /\ answer = [b \in Brokers |-> None]
  /\ faults = 0

--------------------------------------------------------------------------------

\* The ops of a call, in the order of their lines.
InOrder(ops) ==
  CHOOSE s \in [1..Cardinality(ops) -> ops] :
    \A i, j \in DOMAIN s : i < j => seq[s[i]] < seq[s[j]]

\* The hub call b waits on.
Waiting(b) ==
  (\E c \in inbox : c.from = b) \/ serving = b \/ answer[b] # None

Fault == faults < MaxFaults /\ faults' = faults + 1

\* Nobody waits for b's call any more; the hub does not learn that.
Orphan(b) ==
  /\ inbox' = {[c EXCEPT !.from = IF @ = b THEN None ELSE @] : c \in inbox}
  /\ serving' = IF serving = b THEN None ELSE serving
  /\ answer' = [answer EXCEPT ![b] = None]

Send(b) ==
  /\ Queue!FlushSend(b)
  /\ inbox' = inbox \cup {[from |-> b, ops |-> InOrder(Queue!Chunk(rows[b]))]}
  /\ UNCHANGED <<hubVars, serving, answer, faults>>

\* The call never reaches the hub.
Lose(c) ==
  /\ c \in inbox /\ Fault
  /\ inbox' = inbox \ {c}
  /\ UNCHANGED <<queueVars, hubVars, serving, answer>>

\* The hub answers ok=false without opening a transaction.
Refuse(c) ==
  /\ c \in inbox /\ phase = "idle" /\ ~ Hub!Accepts(c.ops)
  /\ inbox' = inbox \ {c}
  /\ UNCHANGED <<queueVars, hubVars, serving, answer, faults>>

Serve(c) ==
  /\ c \in inbox
  /\ Hub!Begin(c.ops)
  /\ serving' = c.from
  /\ inbox' = inbox \ {c}
  /\ UNCHANGED <<queueVars, answer, faults>>

\* An abandoned call reaches the hub and is sent to it again.
ServeAgain(c) ==
  /\ c \in inbox /\ c.from = None /\ Fault
  /\ Hub!Begin(c.ops)
  /\ serving' = None
  /\ UNCHANGED <<queueVars, inbox, answer>>

Reply ==
  /\ Hub!Reply
  /\ answer' = IF serving = None THEN answer
               ELSE [answer EXCEPT ![serving] =
                      [o \in Ops |-> IF out[o] = "none" THEN "pending" ELSE out[o]]]
  /\ serving' = None
  /\ UNCHANGED <<queueVars, inbox, faults>>

Receive(b) ==
  /\ answer[b] # None
  /\ Queue!FlushAnswer(b, answer[b])
  /\ answer' = [answer EXCEPT ![b] = None]
  /\ UNCHANGED <<hubVars, inbox, serving, faults>>

\* No answer will come, or none came before the deadline.
GiveUp(b) ==
  /\ Queue!FlushBreak(b)
  /\ IF Waiting(b) THEN Fault ELSE UNCHANGED faults
  /\ Orphan(b)
  /\ UNCHANGED hubVars

BrokerDies(b) ==
  /\ Queue!Crash(b) /\ Fault
  /\ Orphan(b)
  /\ UNCHANGED hubVars

\* Killed in the transaction, or after it: the call is not answered.
HubDies ==
  /\ Hub!Abort \/ Hub!LoseReply
  /\ Fault
  /\ serving' = None
  /\ UNCHANGED <<queueVars, inbox, answer>>

HubStep ==
  /\ Hub!ApplyOp \/ Hub!CommitBatch
  /\ UNCHANGED <<queueVars, netVars, faults>>

\* The steps that stay within the queue's machine.
Local ==
  /\ \/ \E w \in Writers : Queue!WriterStep(w) \/ Queue!Crash(w)
     \/ \E b \in Brokers :
          Queue!FlushStart(b) \/ Queue!MarkLock(b) \/ Queue!MarkWrite(b)
     \/ \E o \in Ops : Queue!Age(o)
  /\ UNCHANGED <<hubVars, netVars, faults>>

Next ==
  \/ Local
  \/ \E b \in Brokers : Send(b) \/ Receive(b) \/ GiveUp(b) \/ BrokerDies(b)
  \/ \E c \in inbox : Lose(c) \/ Refuse(c) \/ Serve(c) \/ ServeAgain(c)
  \/ HubStep
  \/ Reply
  \/ HubDies

Spec == Init /\ [][Next]_vars

\* Brokers keep having read moments, each of which flushes; a process that holds
\* the lock goes on; the hub goes on with what it serves.  MaxFaults bounds how
\* often a call or a process fails, so some moment's call is answered in time.
Progress ==
  /\ \A b \in Brokers :
       /\ WF_vars(Queue!FlushStart(b) /\ UNCHANGED <<hubVars, netVars, faults>>)
       /\ WF_vars(Send(b))
       /\ WF_vars(Receive(b))
       /\ WF_vars(GiveUp(b) /\ ~ Waiting(b))
       /\ SF_vars(Queue!MarkLock(b) /\ UNCHANGED <<hubVars, netVars, faults>>)
       /\ WF_vars(Queue!MarkWrite(b) /\ UNCHANGED <<hubVars, netVars, faults>>)
  /\ \A w \in Writers :
       WF_vars(/\ pc[w] # "idle"
               /\ Queue!EnqueueReap(w) \/ Queue!EnqueueRefuse(w)
                  \/ Queue!EnqueueAppend(w) \/ Queue!EnqueueReturn(w)
               /\ UNCHANGED <<hubVars, netVars, faults>>)
  /\ WF_vars(\E c \in inbox : Refuse(c) \/ Serve(c))
  /\ WF_vars(HubStep)
  /\ WF_vars(Reply)

FairSpec == Spec /\ Progress

--------------------------------------------------------------------------------
(* What the queue and the hub promise together.                            *)

Abstract == INSTANCE ExactlyOnce WITH
  accepted <- {o \in Ops : seq[o] > 0},
  queued <- lines,
  applied <- {o \in Ops : db.applied[o] = "committed"},
  verdict <- status

\* Through lost calls, late answers, crashes on both sides and two brokers that
\* flush one queue at once: every op takes effect at most once, and the queue
\* records one verdict for it, a success only if the hub committed it.
ImplementsExactlyOnce == Abstract!Spec

\* A backlog drains: an op that is queued gets its receipt or reaches the age bound.
Open(o) == o \in lines /\ status[o] = "pending"
Drains == \A o \in Ops : Open(o) ~> ~ Open(o)

\* The same of the ops of plain text, when a text with a Unicode line separator is
\* in the queue: "so a large backlog drains instead of wedging".
DrainsPlain == \A o \in Ops : Open(o) /\ cmd[o].text \notin Splits ~> ~ Open(o)

================================================================================
